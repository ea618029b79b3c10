------------------------------- MODULE Accounts -------------------------------
(***************************************************************************)
(* Accounts and the links sent by e-mail (auth.service.ts): registration   *)
(* and the choice of a display name, the link that verifies an address,    *)
(* the link that resets a password, and what deleting the account takes    *)
(* with it.                                                                *)
(*                                                                         *)
(* An account is named by its e-mail address; an address is not registered *)
(* again once its account is deleted.  A request is one handler: it reads, *)
(* waits and writes, and an action is the code between two awaits, or one  *)
(* $transaction.  Only the owner of the mailbox knows a link.              *)
(***************************************************************************)
EXTENDS Naturals, FiniteSets

CONSTANTS
    Caller,  \* handlers in progress at once
    Account, \* e-mail addresses
    Link,    \* e-mail tokens (randomBytes(32), never drawn twice)
    Name,    \* display names as they are spelled
    Fold,    \* a name without its case
    Nobody   \* no name, no link, nobody

ASSUME CallerAssumption == IsFiniteSet(Caller) /\ Caller # {}
ASSUME NobodyAssumption == Nobody \notin Name \cup Link \cup Account

VARIABLES
    account,  \* whether the user row exists
    name,     \* displayName
    verified, \* emailVerified is set
    link,     \* the rows of email_tokens
    doing,    \* what each handler is doing, with what it has read
    uses      \* history: how many times each link did what it is for

accountVars == <<account, name, verified, link, doing, uses>>

Type == {"verify", "reset"}

Row == [state : {"none", "live", "used", "expired", "deleted"},
        of : Account \cup {Nobody}, type : Type, mailed : BOOLEAN]

Errand == [step : {"idle", "name", "create", "rename", "invalidate", "link", "open"},
           of : Account \cup {Nobody}, type : Type,
           name : Name \cup {Nobody}, link : Link \cup {Nobody}]

Live(a, t) == {l \in Link : link[l].state = "live" /\ link[l].of = a /\ link[l].type = t}

AccountsTypeOK ==
    /\ account \in [Account -> {"none", "live", "deleted"}]
    /\ name \in [Account -> Name \cup {Nobody}]
    /\ verified \in [Account -> BOOLEAN]
    /\ link \in [Link -> Row]
    /\ doing \in [Caller -> Errand]
    /\ uses \in [Link -> Nat]
    /\ \A l \in Link : link[l].state = "live" => link[l].of \in Account /\ account[link[l].of] = "live"

NoErrand == [step |-> "idle", of |-> Nobody, type |-> "verify", name |-> Nobody, link |-> Nobody]

AccountsInit ==
    /\ account = [a \in Account |-> "none"]
    /\ name = [a \in Account |-> Nobody]
    /\ verified = [a \in Account |-> FALSE]
    /\ link = [l \in Link |-> [state |-> "none", of |-> Nobody, type |-> "verify", mailed |-> FALSE]]
    /\ doing = [r \in Caller |-> NoErrand]
    /\ uses = [l \in Link |-> 0]

OnErrand(r, s) == doing[r].step = s
Turn(r, h) == doing' = [doing EXCEPT ![r] = h]
Goto(r, s) == doing' = [doing EXCEPT ![r].step = s]
Done(r) == Turn(r, NoErrand)

Exists(a) == account[a] = "live"

\* The accounts that carry a name, whatever its case.
Namesakes(n) == {a \in Account : Exists(a) /\ name[a] # Nobody /\ Fold[name[a]] = Fold[n]}

\* The unique index on displayName compares spellings.
Free(a, n) == \A b \in Account \ {a} : Exists(b) => name[b] # n

-----------------------------------------------------------------------------
(* register *)

RegisterFindEmail(r, a, n) ==
    /\ OnErrand(r, "idle") /\ ~Exists(a)
    /\ Turn(r, [NoErrand EXCEPT !.step = "name", !.of = a, !.name = n])
    /\ UNCHANGED <<account, name, verified, link, uses>>

\* Mutant: the look-up compares spellings, as the index does.
RegisterFindNameExactly(r) ==
    /\ OnErrand(r, "name")
    /\ IF Free(doing[r].of, doing[r].name) THEN Goto(r, "create") ELSE Done(r)
    /\ UNCHANGED <<account, name, verified, link, uses>>

RegisterFindName(r) ==
    /\ OnErrand(r, "name")
    /\ IF Namesakes(doing[r].name) = {} THEN Goto(r, "create") ELSE Done(r)
    /\ UNCHANGED <<account, name, verified, link, uses>>

\* The password is hashed, then the row is created, unless an index refuses it.
RegisterCreate(r) ==
    /\ OnErrand(r, "create")
    /\ IF account[doing[r].of] = "none" /\ Free(doing[r].of, doing[r].name)
       THEN /\ account' = [account EXCEPT ![doing[r].of] = "live"]
            /\ name' = [name EXCEPT ![doing[r].of] = doing[r].name]
            /\ Goto(r, "link")
       ELSE Done(r) /\ UNCHANGED <<account, name>>
    /\ UNCHANGED <<verified, link, uses>>

-----------------------------------------------------------------------------
(* updateProfile *)

RenameFindName(r, a, n) ==
    /\ OnErrand(r, "idle") /\ Exists(a)
    /\ Namesakes(n) \subseteq {a}
    /\ Turn(r, [NoErrand EXCEPT !.step = "rename", !.of = a, !.name = n])
    /\ UNCHANGED <<account, name, verified, link, uses>>

Rename(r) ==
    /\ OnErrand(r, "rename")
    /\ IF Exists(doing[r].of) /\ Free(doing[r].of, doing[r].name)
       THEN name' = [name EXCEPT ![doing[r].of] = doing[r].name]
       ELSE UNCHANGED name
    /\ Done(r)
    /\ UNCHANGED <<account, verified, link, uses>>

-----------------------------------------------------------------------------
(* resendVerificationEmail, requestPasswordReset *)

ResendFindUser(r, a) ==
    /\ OnErrand(r, "idle") /\ Exists(a) /\ ~verified[a]
    /\ Turn(r, [NoErrand EXCEPT !.step = "invalidate", !.of = a])
    /\ UNCHANGED <<account, name, verified, link, uses>>

ForgotFindUser(r, a) ==
    /\ OnErrand(r, "idle") /\ Exists(a)
    /\ Turn(r, [NoErrand EXCEPT !.step = "invalidate", !.of = a, !.type = "reset"])
    /\ UNCHANGED <<account, name, verified, link, uses>>

\* updateMany: the links of this kind that could still be used.
Invalidate(r) ==
    /\ OnErrand(r, "invalidate")
    /\ link' = [l \in Link |-> IF l \in Live(doing[r].of, doing[r].type)
                               THEN [link[l] EXCEPT !.state = "used"] ELSE link[l]]
    /\ Goto(r, "link")
    /\ UNCHANGED <<account, name, verified, uses>>

\* emailToken.create, then the message, which may not leave.
CreateLink(r, l) ==
    /\ OnErrand(r, "link") /\ Exists(doing[r].of)
    /\ link[l].state = "none"
    /\ \E sent \in BOOLEAN :
          link' = [link EXCEPT ![l] = [state |-> "live", of |-> doing[r].of,
                                       type |-> doing[r].type, mailed |-> sent]]
    /\ Done(r)
    /\ UNCHANGED <<account, name, verified, uses>>

-----------------------------------------------------------------------------
(* verifyEmail, resetPassword *)

FindLink(r, l) ==
    /\ OnErrand(r, "idle")
    /\ link[l].state = "live" /\ link[l].mailed
    /\ Turn(r, [NoErrand EXCEPT !.step = "open", !.of = link[l].of,
                                !.type = link[l].type, !.link = l])
    /\ UNCHANGED <<account, name, verified, link, uses>>

\* The transaction updates the user and the link by their ids, whatever the
\* link has become since; it fails when a row is gone.
UseLink(r) ==
    /\ OnErrand(r, "open")
    /\ IF link[doing[r].link].state # "deleted" /\ Exists(doing[r].of)
       THEN /\ verified' = [verified EXCEPT ![doing[r].of] = @ \/ doing[r].type = "verify"]
            /\ link' = [link EXCEPT ![doing[r].link].state = "used"]
            /\ uses' = [uses EXCEPT ![doing[r].link] = @ + 1]
       ELSE UNCHANGED <<verified, link, uses>>
    /\ Done(r)
    /\ UNCHANGED <<account, name>>

-----------------------------------------------------------------------------
(* Everything else that happens to an account or a request. *)

Expire(l) ==
    /\ link[l].state = "live"
    /\ link' = [link EXCEPT ![l].state = "expired"]
    /\ UNCHANGED <<account, name, verified, doing, uses>>

\* The row goes, and by cascade the rows that refer to it.
EraseAccount(a) ==
    /\ Exists(a)
    /\ account' = [account EXCEPT ![a] = "deleted"]
    /\ link' = [l \in Link |-> IF link[l].of = a THEN [link[l] EXCEPT !.state = "deleted"]
                               ELSE link[l]]
    /\ UNCHANGED <<name, verified, doing, uses>>

\* A query that fails, or the end of the process.
GiveUpErrand(r) ==
    /\ ~OnErrand(r, "idle")
    /\ Done(r)
    /\ UNCHANGED <<account, name, verified, link, uses>>

ErrandStep(r) ==
    \/ \E a \in Account, n \in Name : (RegisterFindEmail(r, a, n) \/ RenameFindName(r, a, n))
    \/ RegisterFindName(r) \/ RegisterCreate(r) \/ Rename(r)
    \/ \E a \in Account : (ResendFindUser(r, a) \/ ForgotFindUser(r, a))
    \/ Invalidate(r) \/ UseLink(r) \/ GiveUpErrand(r)
    \/ \E l \in Link : (CreateLink(r, l) \/ FindLink(r, l))

AccountsNext ==
    \/ \E r \in Caller : ErrandStep(r)
    \/ \E l \in Link : Expire(l)
    \/ \E a \in Account : EraseAccount(a)

AccountsSpec == AccountsInit /\ [][AccountsNext]_accountVars

-----------------------------------------------------------------------------
(* Properties *)

\* Old links are invalidated in one statement and the new one created in
\* another: requests that overlap leave several links alive, but never more
\* than there can be requests at once.
LinksAreFew ==
    \A a \in Account, t \in Type :
        Cardinality(Live(a, t)) <= Cardinality(Caller)

\* usedAt is checked before the password is hashed and set after: a link may
\* serve several requests, but only those that held it before it was spent.
LinkUsesAreBounded ==
    \A l \in Link : uses[l] <= Cardinality(Caller)

\* What a member is sent by e-mail lets in no more than the requests that overlap.
LinksAreBounded == LinksAreFew /\ LinkUsesAreBounded

\* The index does not know that "Bob" and "bob" are one name, the look-up
\* before it does: accounts share a name only through requests that overlap.
NamesakesAreFew ==
    \A n \in Name : Cardinality(Namesakes(n)) <= Cardinality(Caller)

\* Requests that overlap leave what they should have excluded, no others do.
OnlyOverlapsEscape == LinksAreBounded /\ NamesakesAreFew

=============================================================================
