------------------------------- MODULE Lockout -------------------------------
(***************************************************************************)
(* Lockout of one account after wrong passwords or codes (auth.service.ts: *)
(* login and verifyTotpLogin, which share assertNotLocked,                 *)
(* registerFailedAttempt and resetFailedAttempts): a counter per address   *)
(* in the replay store (replay-store.ts, Redis), and one on the user row.  *)
(*                                                                         *)
(* A request reads the row once and carries the copy from await to await;  *)
(* an action is the code between two of them.  Time only passes: a window  *)
(* of 15 minutes that is open may end.                                     *)
(***************************************************************************)
EXTENDS Naturals, FiniteSets

CONSTANTS
    Request,    \* sign-in requests handled at once
    Ip,         \* addresses they come from
    MaxPerIp,   \* MAX_FAILED_ATTEMPTS_PER_IP
    MaxAccount, \* MAX_FAILED_ATTEMPTS_ACCOUNT
    MaxWrong,   \* bound on wrong passwords tried in all
    MaxCrashes  \* bound on requests that die half-way

ASSUME RequestAssumption == IsFiniteSet(Request)
ASSUME LimitsAssumption ==
    MaxPerIp \in Nat \ {0} /\ MaxAccount \in Nat \ {0} /\ MaxWrong \in Nat /\ MaxCrashes \in Nat

VARIABLES
    attempts, \* failedLoginAttempts
    lock,     \* lockedUntil: null, in the future, or past
    count,    \* login:fail:<user>:<ip>, 0 when the key is absent
    expires,  \* the key has an expiry
    step,     \* where each request stands
    from,     \* its address
    seen,     \* its copy of failedLoginAttempts
    seenLock, \* its copy of lockedUntil is not null
    crashes,  \* requests that died
    wrong,    \* history: wrong passwords tried in all
    guesses   \* history: wrong passwords tried from each address in its window

row == <<attempts, lock>>
store == <<count, expires>>
copy == <<from, seen, seenLock>>
history == <<wrong, guesses>>
lockoutVars == <<row, store, step, copy, crashes, history>>

LockoutTypeOK ==
    /\ attempts \in 0..MaxWrong
    /\ lock \in {"none", "live", "past"}
    /\ count \in [Ip -> 0..MaxWrong]
    /\ expires \in [Ip -> BOOLEAN]
    /\ step \in [Request -> {"idle", "read", "checked", "wrong", "counted",
                             "armed", "right", "cleared"}]
    /\ from \in [Request -> Ip]
    /\ seen \in [Request -> 0..MaxWrong]
    /\ seenLock \in [Request -> BOOLEAN]
    /\ crashes \in 0..MaxCrashes
    /\ wrong \in 0..MaxWrong
    /\ guesses \in [Ip -> 0..MaxWrong]

LockoutInit ==
    /\ attempts = 0
    /\ lock = "none"
    /\ count = [i \in Ip |-> 0]
    /\ expires = [i \in Ip |-> FALSE]
    /\ step = [r \in Request |-> "idle"]
    /\ from \in [Request -> Ip]
    /\ seen = [r \in Request |-> 0]
    /\ seenLock = [r \in Request |-> FALSE]
    /\ crashes = 0
    /\ wrong = 0
    /\ guesses = [i \in Ip |-> 0]

At(r, s) == step[r] = s

\* A request goes on with its copy, or answers and drops it.
MoveTo(r, s) == step' = [step EXCEPT ![r] = s] /\ UNCHANGED copy
Answer(r) ==
    /\ step' = [step EXCEPT ![r] = "idle"]
    /\ seen' = [seen EXCEPT ![r] = 0]
    /\ seenLock' = [seenLock EXCEPT ![r] = FALSE]
    /\ UNCHANGED from

-----------------------------------------------------------------------------
(* login, verifyTotpLogin *)

\* findUnique; a live lock in the copy ends the request.
Read(r) ==
    /\ At(r, "idle")
    /\ lock # "live"
    /\ \E i \in Ip : from' = [from EXCEPT ![r] = i]
    /\ seen' = [seen EXCEPT ![r] = attempts]
    /\ seenLock' = [seenLock EXCEPT ![r] = lock # "none"]
    /\ step' = [step EXCEPT ![r] = "read"]
    /\ UNCHANGED <<row, store, crashes, history>>

\* Mutant: > in place of >=.
CheckAddressLate(r) ==
    /\ At(r, "read")
    /\ IF count[from[r]] > MaxPerIp THEN Answer(r) ELSE MoveTo(r, "checked")
    /\ UNCHANGED <<row, store, crashes, history>>

\* assertNotLocked: the address has failed too often.
CheckAddress(r) ==
    /\ At(r, "read")
    /\ IF count[from[r]] >= MaxPerIp THEN Answer(r) ELSE MoveTo(r, "checked")
    /\ UNCHANGED <<row, store, crashes, history>>

\* argon2.verify or verifyTotpCode says no.
TryWrong(r) ==
    /\ At(r, "checked")
    /\ wrong < MaxWrong
    /\ wrong' = wrong + 1
    /\ guesses' = [guesses EXCEPT ![from[r]] = @ + 1]
    /\ MoveTo(r, "wrong")
    /\ UNCHANGED <<row, store, crashes>>

TryRight(r) ==
    /\ At(r, "checked")
    /\ MoveTo(r, "right")
    /\ UNCHANGED <<row, store, crashes, history>>

-----------------------------------------------------------------------------
(* registerFailedAttempt *)

\* increment: INCR, then EXPIRE, two commands.
Increment(r) ==
    /\ At(r, "wrong")
    /\ count' = [count EXCEPT ![from[r]] = @ + 1]
    /\ MoveTo(r, "counted")
    /\ UNCHANGED <<row, expires, crashes, history>>

\* Mutant: EXPIRE is forgotten.
ForgetExpiry(r) ==
    /\ At(r, "counted")
    /\ MoveTo(r, "armed")
    /\ UNCHANGED <<row, store, crashes, history>>

\* Expiring an absent key does nothing.
Expire(r) ==
    /\ At(r, "counted")
    /\ expires' = [expires EXCEPT ![from[r]] = count[from[r]] > 0]
    /\ MoveTo(r, "armed")
    /\ UNCHANGED <<row, count, crashes, history>>

\* Mutant: the counter of the address decides on the account.
CountOnAccountByAddress(r) ==
    /\ At(r, "armed")
    /\ attempts' = seen[r] + 1
    /\ lock' = IF count[from[r]] >= MaxPerIp THEN "live" ELSE lock
    /\ Answer(r)
    /\ UNCHANGED <<store, crashes, history>>

\* The row is written from the copy, whatever it holds by now.
CountOnAccount(r) ==
    /\ At(r, "armed")
    /\ attempts' = seen[r] + 1
    /\ lock' = IF seen[r] + 1 >= MaxAccount THEN "live" ELSE lock
    /\ Answer(r)
    /\ UNCHANGED <<store, crashes, history>>

-----------------------------------------------------------------------------
(* resetFailedAttempts *)

Clear(r) ==
    /\ At(r, "right")
    /\ count' = [count EXCEPT ![from[r]] = 0]
    /\ expires' = [expires EXCEPT ![from[r]] = FALSE]
    /\ guesses' = [guesses EXCEPT ![from[r]] = 0]
    /\ MoveTo(r, "cleared")
    /\ UNCHANGED <<row, crashes, wrong>>

ResetAccount(r) ==
    /\ At(r, "cleared")
    /\ IF seen[r] > 0 \/ seenLock[r] THEN attempts' = 0 /\ lock' = "none" ELSE UNCHANGED row
    /\ Answer(r)
    /\ UNCHANGED <<store, crashes, history>>

\* resetPassword, with a link sent by e-mail.
ResetPassword ==
    /\ attempts' = 0 /\ lock' = "none"
    /\ UNCHANGED <<store, step, copy, crashes, history>>

-----------------------------------------------------------------------------
(* Time, and the end of the process. *)

WindowEnds(i) ==
    /\ expires[i]
    /\ count' = [count EXCEPT ![i] = 0]
    /\ expires' = [expires EXCEPT ![i] = FALSE]
    /\ guesses' = [guesses EXCEPT ![i] = 0]
    /\ UNCHANGED <<row, step, copy, crashes, wrong>>

LockEnds ==
    /\ lock = "live"
    /\ lock' = "past"
    /\ UNCHANGED <<attempts, store, step, copy, crashes, history>>

Crash(r) ==
    /\ ~At(r, "idle") /\ crashes < MaxCrashes
    /\ crashes' = crashes + 1
    /\ Answer(r)
    /\ UNCHANGED <<row, store, history>>

Counting(r) == Increment(r) \/ Expire(r) \/ CountOnAccount(r)

LockoutNext ==
    \/ \E r \in Request :
         \/ Read(r) \/ CheckAddress(r) \/ TryWrong(r) \/ TryRight(r) \/ Counting(r)
         \/ Clear(r) \/ ResetAccount(r) \/ Crash(r)
    \/ \E i \in Ip : WindowEnds(i)
    \/ LockEnds \/ ResetPassword

\* A request that started to count goes on, and time passes.
LockoutFairness ==
    /\ \A r \in Request : WF_lockoutVars(Counting(r))
    /\ \A i \in Ip : WF_lockoutVars(WindowEnds(i))

LockoutSpec == LockoutInit /\ [][LockoutNext]_lockoutVars /\ LockoutFairness

-----------------------------------------------------------------------------
(* Properties *)

\* However many requests run at once, an address tests no more passwords in one
\* window than the limit and the requests that passed the check together.
GuessesAreBounded ==
    \A i \in Ip : guesses[i] < MaxPerIp + Cardinality(Request) + crashes

\* The account is locked for everyone after that many wrong passwords, never
\* after fewer, whatever order the copies are written back in.
LockTakesManyFailures == lock = "live" => wrong >= MaxAccount

\* An address that is locked out is let in again, unless a request died.
AddressesComeBack ==
    \A i \in Ip : count[i] >= MaxPerIp ~> count[i] < MaxPerIp \/ crashes > 0

=============================================================================
