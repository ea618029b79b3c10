----------------------------- MODULE SecondFactor -----------------------------
(***************************************************************************)
(* The second factor of one account (auth.service.ts: setupTotp,           *)
(* verifyAndEnableTotp, verifyTotpLogin, disableTotp, verifyTotpCode) and  *)
(* the marks that make a code good for one use (replay-store.ts).          *)
(*                                                                         *)
(* Time is counted in steps of 30 s, the life of a code.  A handler reads  *)
(* the row, checks the code against the secret it read, claims the code,   *)
(* and writes to the row, each after an await; passwords and lockout are   *)
(* the subject of Lockout.                                                 *)
(***************************************************************************)
EXTENDS Integers

CONSTANTS
    Request,  \* handlers in progress at once
    Secret,   \* secrets (totp.generateSecret, never drawn twice)
    None,     \* totpSecret null
    Window,   \* TOTP_WINDOW: steps of tolerance on either side
    MaxStall, \* how many steps may pass between the check of a code and its claim
    MaxTime   \* bound on time

ASSUME SecretAssumption == None \notin Secret
ASSUME WindowAssumption == Window \in Nat /\ MaxTime \in Nat
ASSUME StallAssumption == MaxStall \in {0, 1}

VARIABLES
    secret,   \* totpSecret
    enabled,  \* totpEnabled
    marks,    \* totp:used:<user>:<code>: when the key expires, 0 if never set
    now,
    req,      \* what each handler is doing, with what it has read
    drawn,    \* secrets drawn so far
    accepted, \* history: how many times each code was accepted
    proven,   \* history: the secret whose code enabled the second factor
    stale     \* history: a handler wrote to a row that had changed since it read it

row == <<secret, enabled>>
vars == <<row, marks, now, req, drawn, accepted, proven, stale>>

\* What the owner's device shows at each step, for each secret.
Code == Secret \X (0..MaxTime + Window)

NoCode == <<None, 0>>

Handler == [step : {"idle", "read", "checked", "claimed"},
            op : {"setup", "enable", "login", "disable"},
            secret : Secret \cup {None}, enabled : BOOLEAN,
            code : Code \cup {NoCode}, since : 0..MaxTime]

Idle == [step |-> "idle", op |-> "setup", secret |-> None, enabled |-> FALSE,
         code |-> NoCode, since |-> 0]

TypeOK ==
    /\ secret \in Secret \cup {None}
    /\ enabled \in BOOLEAN
    /\ marks \in [Code -> Nat]
    /\ now \in 0..MaxTime
    /\ req \in [Request -> Handler]
    /\ drawn \subseteq Secret
    /\ accepted \in [Code -> Nat]
    /\ proven \in Secret \cup {None}
    /\ stale \in BOOLEAN
    /\ secret \in drawn \cup {None}
    /\ \A r \in Request : req[r].step \in {"checked", "claimed"} => req[r].code \in Code

Init ==
    /\ secret = None /\ enabled = FALSE
    /\ marks = [c \in Code |-> 0]
    /\ now = 0
    /\ req = [r \in Request |-> Idle]
    /\ drawn = {}
    /\ accepted = [c \in Code |-> 0]
    /\ proven = None
    /\ stale = FALSE

At(r, s) == req[r].step = s
Become(r, h) == req' = [req EXCEPT ![r] = h]
Finish(r) == Become(r, Idle)

\* The copy of the row a handler carries is out of date.
Outdated(r) == req[r].secret # secret \/ req[r].enabled # enabled

-----------------------------------------------------------------------------
(* What each handler asks of the row it reads. *)

Begin(r, op) ==
    /\ At(r, "idle")
    /\ Become(r, [Idle EXCEPT !.step = "read", !.op = op,
                              !.secret = secret, !.enabled = enabled])
    /\ UNCHANGED <<row, marks, now, drawn, accepted, proven, stale>>

Setup(r) == ~enabled /\ Begin(r, "setup")
Enable(r) == secret # None /\ Begin(r, "enable")
VerifyLogin(r) == secret # None /\ enabled /\ Begin(r, "login")
Disable(r) == secret # None /\ enabled /\ Begin(r, "disable")

\* A fresh secret takes the place of the one there was.
DrawSecret(r, s) ==
    /\ At(r, "read") /\ req[r].op = "setup"
    /\ s \notin drawn
    /\ drawn' = drawn \cup {s}
    /\ secret' = s
    /\ stale' = (stale \/ Outdated(r))
    /\ Finish(r)
    /\ UNCHANGED <<enabled, marks, now, accepted, proven>>

-----------------------------------------------------------------------------
(* verifyTotpCode *)

\* totp.verify, with the secret the handler read.
Check(r, c) ==
    /\ At(r, "read") /\ req[r].op # "setup"
    /\ c[1] = req[r].secret
    /\ c[2] - Window <= now /\ now <= c[2] + Window
    /\ Become(r, [req[r] EXCEPT !.step = "checked", !.code = c, !.since = now])
    /\ UNCHANGED <<row, marks, now, drawn, accepted, proven, stale>>

\* SET NX EX, with a time to live of ttl steps.
ClaimFor(r, ttl) ==
    /\ At(r, "checked")
    /\ LET c == req[r].code IN
       IF marks[c] > now THEN Finish(r) /\ UNCHANGED <<marks, accepted>>
       ELSE /\ marks' = [marks EXCEPT ![c] = now + ttl]
            /\ accepted' = [accepted EXCEPT ![c] = @ + 1]
            /\ Become(r, [req[r] EXCEPT !.step = "claimed"])
    /\ UNCHANGED <<row, now, drawn, proven, stale>>

\* Mutant: the mark lives as long as the tolerance, not as long as the code.
ClaimBriefly(r) == ClaimFor(r, 2 * Window)

Claim(r) == ClaimFor(r, 2 * Window + 2)

\* A code that is wrong, or out of time.
Reject(r) ==
    /\ At(r, "read") /\ req[r].op # "setup"
    /\ Finish(r)
    /\ UNCHANGED <<row, marks, now, drawn, accepted, proven, stale>>

-----------------------------------------------------------------------------
(* What the handler does with an accepted code. *)

\* Only totpEnabled is written: the secret is whatever the row holds by now.
WriteEnabled(r) ==
    /\ At(r, "claimed") /\ req[r].op = "enable"
    /\ enabled' = TRUE
    /\ proven' = req[r].secret
    /\ stale' = (stale \/ Outdated(r))
    /\ Finish(r)
    /\ UNCHANGED <<secret, marks, now, drawn, accepted>>

WriteDisabled(r) ==
    /\ At(r, "claimed") /\ req[r].op = "disable"
    /\ secret' = None /\ enabled' = FALSE
    /\ stale' = (stale \/ Outdated(r))
    /\ Finish(r)
    /\ UNCHANGED <<marks, now, drawn, accepted, proven>>

SignIn(r) ==
    /\ At(r, "claimed") /\ req[r].op = "login"
    /\ Finish(r)
    /\ UNCHANGED <<row, marks, now, drawn, accepted, proven, stale>>

-----------------------------------------------------------------------------
(* Failures and time. *)

Fail(r) ==
    /\ ~At(r, "idle")
    /\ Finish(r)
    /\ UNCHANGED <<row, marks, now, drawn, accepted, proven, stale>>

\* A code that was checked is claimed within MaxStall steps.
Tick ==
    /\ now < MaxTime
    /\ \A r \in Request : At(r, "checked") => now < req[r].since + MaxStall
    /\ now' = now + 1
    /\ UNCHANGED <<row, marks, req, drawn, accepted, proven, stale>>

Next ==
    \/ \E r \in Request :
         \/ Setup(r) \/ Enable(r) \/ VerifyLogin(r) \/ Disable(r)
         \/ (\E s \in Secret : DrawSecret(r, s))
         \/ (\E c \in Code : Check(r, c))
         \/ Claim(r) \/ Reject(r) \/ WriteEnabled(r) \/ WriteDisabled(r) \/ SignIn(r) \/ Fail(r)
    \/ Tick

Spec == Init /\ [][Next]_vars

-----------------------------------------------------------------------------
(* Properties *)

\* A code that was accepted once, by whichever handler, is not accepted again,
\* even by one that checked it at the last moment: the mark outlives the code.
CodesAreSingleUse == \A c \in Code : accepted[c] <= 1

\* A second factor that is on is the one its owner has shown to have, or some
\* handler has overwritten a row that changed under it.
EnabledSecretWasProven == enabled => (secret # None /\ secret = proven) \/ stale

\* Whatever handlers overlap, the second factor asks its owner for codes he can
\* produce, and takes each of them once.
SecondFactorIsSound == EnabledSecretWasProven /\ CodesAreSingleUse

=============================================================================
