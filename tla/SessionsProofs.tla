--------------------------- MODULE SessionsProofs ---------------------------
(***************************************************************************)
(* Type correctness of Sessions, and the rotation and revocation           *)
(* guarantees, for every set of accounts, tokens and handlers; and, for    *)
(* any number of tabs and calls of one browser (Browser), that its session *)
(* lasts as long as its member wished, and no longer.                      *)
(***************************************************************************)
EXTENDS Sessions, Browser, TLAPS

\* A handler that has consumed a refresh token and not yet answered.
Rotating(r) == req[r].pc \in {"consumed", "sign"} /\ req[r].parent # NoJti

(* The inductive invariant: what ties the registry, the issued tokens and   *)
(* the handlers in flight together.                                         *)

\* A token identifier names one token, and a key of the registry names one.
JtiNamesOneToken ==
    /\ \A t1, t2 \in issued : t1.jti = t2.jti => t1 = t2
    /\ \A k \in store : \E t \in issued : t.sub = k[1] /\ t.jti = k[2]

\* Sessions are rotated only from tokens that were issued.
ParentsWereIssued ==
    /\ \A t \in issued : t.parent # NoJti => \E p \in issued : p.jti = t.parent
    /\ \A r \in Req : Rotating(r) => \E p \in issued : p.jti = req[r].parent

\* A rotated token has left the registry.
ParentsAreConsumed ==
    /\ \A t \in issued : <<t.sub, t.parent>> \notin store
    /\ \A r \in Req : Rotating(r) => <<req[r].sub, req[r].parent>> \notin store

\* A rotation in flight is the only one out of its token, finished ones included.
OneRotationInFlight ==
    /\ \A r1, r2 \in Req :
        Rotating(r1) /\ Rotating(r2) /\ req[r1].parent = req[r2].parent
            /\ req[r1].sub = req[r2].sub => r1 = r2
    /\ \A r \in Req, t \in issued :
        Rotating(r) => ~(req[r].parent = t.parent /\ req[r].sub = t.sub)

\* Only changePassword signs a version other than the one it checked.
SignedAtCheckedVersion ==
    /\ \A t \in issued : t.via # "change" => t.ver = t.checked
    /\ \A r \in Req :
        req[r].pc \in {"consumed", "sign"} /\ req[r].via # "change"
            => req[r].ver = req[r].checked

\* Nobody holds or is about to hold a version the row has not reached.
VersionsWereReached ==
    /\ \A t \in issued : t.ver <= version[t.sub]
    /\ \A r \in Req : req[r].ver <= version[req[r].sub]

RotationInv ==
    /\ TypeOK
    /\ JtiNamesOneToken
    /\ ParentsWereIssued
    /\ ParentsAreConsumed
    /\ OneRotationInFlight
    /\ RotateOnce

VersionInv == TypeOK /\ SignedAtCheckedVersion /\ VersionsWereReached

\* Every variable keeps its type: in particular tokenVersion stays within its
\* bound and the registry holds nothing but keys <user, jti>.
THEOREM TypeCorrect == Spec => []TypeOK
<1> USE NoJtiAssumption, MaxVersionAssumption
<1>1. Init => TypeOK
  BY DEF Init, TypeOK, IdleHandler, HandlerAt, Handler, Status, Version, Origin
<1>2. TypeOK /\ [Next]_vars => TypeOK'
  <2> SUFFICES ASSUME TypeOK, [Next]_vars PROVE TypeOK'
    OBVIOUS
  <2> USE DEF TypeOK, Become, Idle, At, Row, Version, Origin, Status
  <2>1. ASSUME NEW r \in Req, NEW u \in User, Login(r, u) PROVE TypeOK'
    <3>1. CASE Become(r, HandlerAt("sign", u, version[u], "login", version[u], NoJti))
                 /\ UNCHANGED partial
      <4>1. HandlerAt("sign", u, version[u], "login", version[u], NoJti) \in Handler
        BY DEF HandlerAt, Handler
      <4>2. req' \in [Req -> Handler]
        BY <3>1, <4>1
      <4> QED
        BY <2>1, <3>1, <4>2 DEF Login
    <3>2. CASE /\ partial' = partial \cup {[sub |-> u, ver |-> version[u]]}
               /\ UNCHANGED req
      BY <2>1, <3>2 DEF Login, PartialToken
    <3> QED
      BY <2>1, <3>1, <3>2 DEF Login
  <2>2. ASSUME NEW r \in Req, NEW p \in partial, VerifyTotpLogin(r, p) PROVE TypeOK'
    BY <2>2 DEF VerifyTotpLogin, HandlerAt, Handler, PartialToken
  <2>3. ASSUME NEW r \in Req, GenerateTokens(r) PROVE TypeOK'
    BY <2>3 DEF GenerateTokens, Finish, IdleHandler, HandlerAt, Handler, Token
  <2>4. ASSUME NEW r \in Req, NEW t \in issued, ConsumeRefreshToken(r, t) PROVE TypeOK'
    BY <2>4 DEF ConsumeRefreshToken, HandlerAt, Handler, Token
  <2>5. ASSUME NEW r \in Req, RefreshReadUser(r) PROVE TypeOK'
    <3>1. CASE Goto(r, "sign")
      BY <2>5, <3>1 DEF RefreshReadUser, Goto, Handler
    <3>2. CASE Finish(r)
      BY <2>5, <3>2 DEF RefreshReadUser, Finish, IdleHandler, HandlerAt, Handler
    <3> QED
      BY <2>5, <3>1, <3>2 DEF RefreshReadUser
  <2>6. ASSUME NEW t \in issued, Logout(t) PROVE TypeOK'
    BY <2>6 DEF Logout
  <2>7. ASSUME NEW k \in store, ExpireKey(k) PROVE TypeOK'
    BY <2>7 DEF ExpireKey
  <2>8. ASSUME NEW r \in Req, NEW t \in issued, ChangePasswordStart(r, t) PROVE TypeOK'
    BY <2>8 DEF ChangePasswordStart, HandlerAt, Handler, Token
  <2>9. ASSUME NEW r \in Req, ChangePasswordCommit(r) PROVE TypeOK'
    <3>1. req' \in [Req -> Handler]
      BY <2>9 DEF ChangePasswordCommit, Goto, Handler
    <3>2. version' \in [User -> Version] /\ password' \in [User -> BOOLEAN]
      <4>1. req[r].sub \in User
        BY DEF Handler
      <4>2. password' \in [User -> BOOLEAN]
        BY <2>9, <4>1 DEF ChangePasswordCommit
      <4>3. version' \in [User -> Version]
        BY <2>9, <4>1 DEF ChangePasswordCommit
      <4> QED
        BY <4>2, <4>3
    <3> QED
      BY <2>9, <3>1, <3>2 DEF ChangePasswordCommit
  <2>10. ASSUME NEW r \in Req, IssueSession(r) PROVE TypeOK'
    BY <2>10 DEF IssueSession, HandlerAt, Handler
  <2>11. ASSUME NEW u \in User, ResetPassword(u) PROVE TypeOK'
    BY <2>11 DEF ResetPassword
  <2>12. ASSUME NEW r \in Req, NEW u \in User, BanCheck(r, u) PROVE TypeOK'
    BY <2>12 DEF BanCheck, HandlerAt, Handler
  <2>13. ASSUME NEW r \in Req, BanCommit(r) PROVE TypeOK'
    BY <2>13 DEF BanCommit, Finish, IdleHandler, HandlerAt, Handler
  <2>14. ASSUME NEW r \in Req, NEW u \in User, UnbanCheck(r, u) PROVE TypeOK'
    BY <2>14 DEF UnbanCheck, HandlerAt, Handler
  <2>15. ASSUME NEW r \in Req, UnbanCommit(r) PROVE TypeOK'
    BY <2>15 DEF UnbanCommit, Finish, IdleHandler, HandlerAt, Handler
  <2>16. ASSUME NEW u \in User, DeleteUser(u) PROVE TypeOK'
    BY <2>16 DEF DeleteUser
  <2>17. ASSUME NEW r \in Req, Fail(r) PROVE TypeOK'
    BY <2>17 DEF Fail, Finish, IdleHandler, HandlerAt, Handler
  <2>18. CASE Restart
    BY <2>18 DEF Restart, IdleHandler, HandlerAt, Handler
  <2>19. CASE UNCHANGED vars
    BY <2>19 DEF vars
  <2> QED
    BY <2>1, <2>2, <2>3, <2>4, <2>5, <2>6, <2>7, <2>8, <2>9, <2>10, <2>11, <2>12,
       <2>13, <2>14, <2>15, <2>16, <2>17, <2>18, <2>19 DEF Next, HandlerStep
<1> QED
  BY <1>1, <1>2, PTL DEF Spec

-----------------------------------------------------------------------------
(* Rotation *)

\* A step that issues nothing, adds no key and starts no rotation keeps the
\* rotation invariant: all handlers but two take only such steps.
LEMMA RotationFrame ==
  ASSUME RotationInv, TypeOK',
         UNCHANGED issued,
         store' \subseteq store,
         \A r \in Req : Rotating(r)' => /\ Rotating(r)
                                       /\ req'[r].parent = req[r].parent
                                       /\ req'[r].sub = req[r].sub
  PROVE  RotationInv'
<1>1. JtiNamesOneToken' /\ RotateOnce'
  BY DEF RotationInv, JtiNamesOneToken, RotateOnce
<1>2. ParentsWereIssued'
  BY DEF RotationInv, ParentsWereIssued
<1>3. ParentsAreConsumed'
  BY DEF RotationInv, ParentsAreConsumed
<1>4. OneRotationInFlight'
  BY DEF RotationInv, OneRotationInFlight
<1> QED
  BY <1>1, <1>2, <1>3, <1>4 DEF RotationInv

\* Consuming a key starts a rotation: the key was there, so no other rotation
\* out of that token is in flight or finished.
LEMMA ConsumeKeepsRotationInv ==
  ASSUME RotationInv, TypeOK', NEW r \in Req, NEW t \in issued,
         ConsumeRefreshToken(r, t)
  PROVE  RotationInv'
<1> USE DEF TypeOK, Handler, Token
<1>1. /\ <<t.sub, t.jti>> \in store
      /\ store' = store \ {<<t.sub, t.jti>>}
      /\ issued' = issued
      /\ req'[r].pc = "consumed" /\ req'[r].sub = t.sub /\ req'[r].parent = t.jti
      /\ \A q \in Req \ {r} : req'[q] = req[q]
  BY DEF ConsumeRefreshToken, Become, HandlerAt, RotationInv
<1>2. JtiNamesOneToken' /\ RotateOnce'
  BY <1>1 DEF RotationInv, JtiNamesOneToken, RotateOnce
<1>3. ParentsWereIssued'
  BY <1>1 DEF RotationInv, ParentsWereIssued, Rotating
<1>4. ParentsAreConsumed'
  BY <1>1 DEF RotationInv, ParentsAreConsumed, Rotating
<1>5. OneRotationInFlight'
  BY <1>1, SMTT(60) DEF RotationInv, OneRotationInFlight, ParentsAreConsumed, Rotating
<1> QED
  BY <1>2, <1>3, <1>4, <1>5 DEF RotationInv

\* Answering adds a token whose identifier is new, and ends the rotation it
\* came from.
LEMMA GenerateKeepsRotationInv ==
  ASSUME RotationInv, TypeOK', NEW r \in Req, GenerateTokens(r)
  PROVE  RotationInv'
<1> USE DEF TypeOK, Handler, Token
<1>1. PICK j \in Jti :
        /\ \A t \in issued : t.jti # j
        /\ store' = store \cup {<<req[r].sub, j>>}
        /\ issued' = issued \cup
             {[sub |-> req[r].sub, ver |-> req[r].ver, jti |-> j,
               via |-> req[r].via, checked |-> req[r].checked,
               parent |-> req[r].parent]}
  BY DEF GenerateTokens
<1> DEFINE n == [sub |-> req[r].sub, ver |-> req[r].ver, jti |-> j,
                 via |-> req[r].via, checked |-> req[r].checked,
                 parent |-> req[r].parent]
<1>2. /\ n.sub = req[r].sub /\ n.jti = j /\ n.parent = req[r].parent
      /\ issued' = issued \cup {n}
  BY <1>1
<1> HIDE DEF n
<1>3. /\ req[r].pc = "sign"
      /\ ~Rotating(r)'
      /\ \A q \in Req \ {r} : req'[q] = req[q]
  BY DEF GenerateTokens, At, Finish, Become, IdleHandler, HandlerAt, Rotating,
         RotationInv
<1>4. req[r].parent # NoJti => Rotating(r)
  BY <1>3 DEF Rotating
<1>5. JtiNamesOneToken'
  BY <1>1, <1>2 DEF RotationInv, JtiNamesOneToken
<1>6. ParentsWereIssued'
  BY <1>2, <1>3, <1>4 DEF RotationInv, ParentsWereIssued, Rotating
<1>7. req[r].parent # j
  BY <1>1, <1>4, NoJtiAssumption DEF RotationInv, ParentsWereIssued
<1>8. ParentsAreConsumed'
  <2>1. \A t \in issued : t.parent # j
    BY <1>1, NoJtiAssumption DEF RotationInv, ParentsWereIssued
  <2>2. <<n.sub, n.parent>> \notin store'
    <3>1. <<n.sub, n.parent>> # <<req[r].sub, j>>
      BY <1>2, <1>7
    <3>2. CASE req[r].parent = NoJti
      <4>1. <<n.sub, n.parent>> \notin store
        BY <1>2, <3>2, NoJtiAssumption DEF RotationInv
      <4> QED
        BY <1>1, <3>1, <4>1
    <3>3. CASE req[r].parent # NoJti
      <4>1. <<n.sub, n.parent>> \notin store
        BY <1>2, <1>4, <3>3 DEF RotationInv, ParentsAreConsumed
      <4> QED
        BY <1>1, <3>1, <4>1
    <3> QED
      BY <3>2, <3>3
  <2>3. \A q \in Req : Rotating(q) => req[q].parent # j
    BY <1>1 DEF RotationInv, ParentsWereIssued
  <2> QED
    BY <1>1, <1>2, <1>3, <2>1, <2>2, <2>3
    DEF RotationInv, ParentsAreConsumed, Rotating
<1>9. OneRotationInFlight'
  BY <1>2, <1>3, <1>4, SMTT(60) DEF RotationInv, OneRotationInFlight, Rotating
<1>10. RotateOnce'
  BY <1>2, <1>4 DEF RotationInv, RotateOnce, OneRotationInFlight
<1> QED
  BY <1>5, <1>6, <1>8, <1>9, <1>10 DEF RotationInv

LEMMA RotationStep == RotationInv /\ TypeOK' /\ [Next]_vars => RotationInv'
<1> SUFFICES ASSUME RotationInv, TypeOK', [Next]_vars PROVE RotationInv'
  OBVIOUS
<1> DEFINE Placid == /\ UNCHANGED issued
                     /\ store' \subseteq store
                     /\ \A r \in Req : Rotating(r)' => /\ Rotating(r)
                                                       /\ req'[r].parent = req[r].parent
                                                       /\ req'[r].sub = req[r].sub
<1>0. req \in [Req -> Handler]
  BY DEF RotationInv, TypeOK
<1> USE <1>0 DEF Handler, Become, Goto, Finish, IdleHandler, HandlerAt, At, Idle,
                 Rotating, Row
<1>1. ASSUME NEW r \in Req, NEW u \in User, Login(r, u) PROVE Placid
  BY <1>1 DEF Login
<1>2. ASSUME NEW r \in Req, NEW p \in partial, VerifyTotpLogin(r, p) PROVE Placid
  BY <1>2 DEF VerifyTotpLogin
<1>3. ASSUME NEW r \in Req, RefreshReadUser(r) PROVE Placid
  BY <1>3 DEF RefreshReadUser
<1>4. ASSUME NEW t \in issued, Logout(t) PROVE Placid
  BY <1>4 DEF Logout
<1>5. ASSUME NEW k \in store, ExpireKey(k) PROVE Placid
  BY <1>5 DEF ExpireKey
<1>6. ASSUME NEW r \in Req, NEW t \in issued, ChangePasswordStart(r, t) PROVE Placid
  BY <1>6 DEF ChangePasswordStart
<1>7. ASSUME NEW r \in Req, ChangePasswordCommit(r) PROVE Placid
  BY <1>7 DEF ChangePasswordCommit
<1>8. ASSUME NEW r \in Req, IssueSession(r) PROVE Placid
  BY <1>8 DEF IssueSession
<1>9. ASSUME NEW u \in User, ResetPassword(u) \/ DeleteUser(u) PROVE Placid
  BY <1>9 DEF ResetPassword, DeleteUser
<1>10. ASSUME NEW r \in Req, NEW u \in User, BanCheck(r, u) \/ UnbanCheck(r, u)
       PROVE Placid
  BY <1>10 DEF BanCheck, UnbanCheck
<1>11. ASSUME NEW r \in Req, BanCommit(r) \/ UnbanCommit(r) \/ Fail(r) PROVE Placid
  BY <1>11 DEF BanCommit, UnbanCommit, Fail
<1>12. CASE Restart
  <2>1. Placid
    BY <1>12 DEF Restart
  <2> QED
    BY <2>1, RotationFrame
<1>13. CASE UNCHANGED vars
  <2>1. Placid
    BY <1>13 DEF vars
  <2> QED
    BY <2>1, RotationFrame
<1>14. ASSUME Placid PROVE RotationInv'
  BY <1>14, RotationFrame
<1> HIDE DEF Placid
<1> QED
  BY <1>1, <1>2, <1>3, <1>4, <1>5, <1>6, <1>7, <1>8, <1>9, <1>10, <1>11, <1>12,
     <1>13, <1>14, ConsumeKeepsRotationInv, GenerateKeepsRotationInv
  DEF Next, HandlerStep

\* However refreshes, logouts, expiries, failures and restarts interleave, a
\* refresh token has at most one successor.
THEOREM RotationIsSingleUse == Spec => []RotateOnce
<1>1. Init => RotationInv
  <2> SUFFICES ASSUME Init PROVE RotationInv
    OBVIOUS
  <2>1. TypeOK
    BY MaxVersionAssumption
    DEF Init, TypeOK, IdleHandler, HandlerAt, Handler, Status, Version, Origin
  <2> QED
    BY <2>1
    DEF Init, RotationInv, JtiNamesOneToken, ParentsWereIssued, ParentsAreConsumed,
        OneRotationInFlight, RotateOnce, Rotating, IdleHandler, HandlerAt
<1>2. RotationInv => RotateOnce
  BY DEF RotationInv
<1> QED
  BY <1>1, <1>2, RotationStep, TypeCorrect, PTL DEF Spec

-----------------------------------------------------------------------------
(* Revocation *)

\* The tokenVersion of a row never goes back, and a step that writes a new
\* password or bans moves it forward.
LEMMA VersionMoves ==
  ASSUME TypeOK, [Next]_vars, NEW u \in User
  PROVE  /\ version'[u] >= version[u]
         /\ \/ password'[u] # password[u]
            \/ status[u] # "BANNED" /\ status'[u] = "BANNED"
            => version'[u] > version[u]
<1> DEFINE Moves == /\ version'[u] >= version[u]
                    /\ \/ password'[u] # password[u]
                       \/ status[u] # "BANNED" /\ status'[u] = "BANNED"
                       => version'[u] > version[u]
<1>0. /\ version \in [User -> Version] /\ status \in [User -> Status]
      /\ password \in [User -> BOOLEAN] /\ req \in [Req -> Handler]
  BY DEF TypeOK
<1>1. version \in [User -> Nat] /\ version[u] \in Nat
  BY <1>0, MaxVersionAssumption DEF Version
<1>2. ASSUME UNCHANGED Row PROVE Moves
  BY <1>0, <1>1, <1>2 DEF Row
<1>3. ASSUME NEW v \in User, ResetPassword(v) PROVE Moves
  BY <1>0, <1>1, <1>3 DEF ResetPassword
<1>4. ASSUME NEW v \in User, DeleteUser(v) PROVE Moves
  BY <1>0, <1>1, <1>4 DEF DeleteUser
<1>5. ASSUME NEW r \in Req, ChangePasswordCommit(r) PROVE Moves
  BY <1>0, <1>1, <1>5 DEF ChangePasswordCommit
<1>6. ASSUME NEW r \in Req, BanCommit(r) PROVE Moves
  BY <1>0, <1>1, <1>6 DEF BanCommit
<1>7. ASSUME NEW r \in Req, UnbanCommit(r) PROVE Moves
  BY <1>0, <1>1, <1>7 DEF UnbanCommit
<1> HIDE DEF Moves
<1>8. Next => Moves
  BY <1>2, <1>3, <1>4, <1>5, <1>6, <1>7
  DEF Next, HandlerStep, Login, BanCheck, UnbanCheck, VerifyTotpLogin,
      ConsumeRefreshToken, ChangePasswordStart, GenerateTokens, RefreshReadUser,
      IssueSession, Fail, Logout, ExpireKey, Restart
<1>9. UNCHANGED vars => Moves
  BY <1>2 DEF vars, Row
<1> QED
  BY <1>8, <1>9 DEF Moves

\* A step that issues nothing leaves each handler with a version it held, or
\* with one the row has reached and was checked against.
LEMMA VersionFrame ==
  ASSUME VersionInv, TypeOK', [Next]_vars,
         UNCHANGED issued,
         \A r \in Req :
            /\ req'[r].ver <= version'[req'[r].sub]
            /\ req'[r].pc \in {"consumed", "sign"} /\ req'[r].via # "change"
                  => req'[r].ver = req'[r].checked
  PROVE  VersionInv'
<1>1. /\ version \in [User -> Nat] /\ version' \in [User -> Nat]
      /\ \A t \in issued : t.sub \in User /\ t.ver \in Nat
  BY MaxVersionAssumption DEF VersionInv, TypeOK, Version, Token
<1>2. TypeOK
  BY DEF VersionInv
<1>3. \A t \in issued : version'[t.sub] >= version[t.sub]
  BY <1>1, <1>2, VersionMoves
<1>4. VersionsWereReached'
  BY <1>1, <1>3 DEF VersionInv, VersionsWereReached
<1> QED
  BY <1>4 DEF VersionInv, SignedAtCheckedVersion

LEMMA VersionStep == VersionInv /\ TypeOK' /\ [Next]_vars => VersionInv'
<1> SUFFICES ASSUME VersionInv, TypeOK', [Next]_vars PROVE VersionInv'
  OBVIOUS
<1> DEFINE Sound(r) ==
      /\ req'[r].ver <= version'[req'[r].sub]
      /\ req'[r].pc \in {"consumed", "sign"} /\ req'[r].via # "change"
            => req'[r].ver = req'[r].checked
<1>0. /\ req \in [Req -> Handler] /\ TypeOK
      /\ version \in [User -> Nat] /\ version' \in [User -> Nat]
      /\ \A r \in Req : req[r].sub \in User /\ req[r].ver \in Nat
      /\ \A t \in issued : t.sub \in User /\ t.ver \in Nat /\ t.ver <= version[t.sub]
      /\ \A r \in Req : req[r].ver <= version[req[r].sub]
      /\ \A r \in Req : req[r].pc \in {"consumed", "sign"} /\ req[r].via # "change"
            => req[r].ver = req[r].checked
  BY MaxVersionAssumption
  DEF VersionInv, TypeOK, Version, Token, Handler, VersionsWereReached,
      SignedAtCheckedVersion
<1>1. \A u \in User : version'[u] >= version[u]
  BY <1>0, VersionMoves
<1>2. ASSUME NEW r \in Req, req'[r] = req[r] PROVE Sound(r)
  BY <1>0, <1>1, <1>2
<1>3. ASSUME NEW r \in Req, NEW v \in User, req'[r] = IdleHandler(v) PROVE Sound(r)
  BY <1>0, <1>3 DEF IdleHandler, HandlerAt
<1> USE <1>0 DEF Become, Goto, Finish, IdleHandler, HandlerAt, At, Idle, Row, Handler
<1>4. ASSUME NEW r \in Req, NEW u \in User, Login(r, u) PROVE \A q \in Req : Sound(q)
  BY <1>1, <1>2, <1>4 DEF Login
<1>5. ASSUME NEW r \in Req, NEW p \in partial, VerifyTotpLogin(r, p)
      PROVE \A q \in Req : Sound(q)
  <2>1. p.sub \in User
    BY DEF TypeOK, PartialToken
  <2> QED
    BY <1>1, <1>2, <1>5, <2>1 DEF VerifyTotpLogin
<1>6. ASSUME NEW r \in Req, NEW t \in issued, ConsumeRefreshToken(r, t)
      PROVE \A q \in Req : Sound(q)
  BY <1>1, <1>2, <1>6 DEF ConsumeRefreshToken
<1>7. ASSUME NEW r \in Req, RefreshReadUser(r) PROVE \A q \in Req : Sound(q)
  BY <1>1, <1>2, <1>7 DEF RefreshReadUser
<1>8. ASSUME NEW t \in issued, Logout(t) PROVE \A q \in Req : Sound(q)
  BY <1>1, <1>8 DEF Logout
<1>9. ASSUME NEW r \in Req, NEW t \in issued, ChangePasswordStart(r, t)
      PROVE \A q \in Req : Sound(q)
  BY <1>1, <1>2, <1>9 DEF ChangePasswordStart
<1>10. ASSUME NEW r \in Req, ChangePasswordCommit(r) PROVE \A q \in Req : Sound(q)
  BY <1>1, <1>2, <1>10 DEF ChangePasswordCommit
<1>11. ASSUME NEW r \in Req, IssueSession(r) PROVE \A q \in Req : Sound(q)
  BY <1>1, <1>2, <1>11 DEF IssueSession
<1>12. ASSUME NEW r \in Req, NEW u \in User, BanCheck(r, u) \/ UnbanCheck(r, u)
       PROVE \A q \in Req : Sound(q)
  BY <1>1, <1>2, <1>12 DEF BanCheck, UnbanCheck
<1>13. ASSUME NEW r \in Req, BanCommit(r) \/ UnbanCommit(r) \/ Fail(r)
       PROVE \A q \in Req : Sound(q)
  BY <1>1, <1>2, <1>3, <1>13 DEF BanCommit, UnbanCommit, Fail
<1>14. CASE Restart
  BY <1>3, <1>14, VersionFrame DEF Restart
<1>15. ASSUME UNCHANGED req PROVE \A q \in Req : Sound(q)
  BY <1>2, <1>15
<1>16. ASSUME NEW r \in Req, GenerateTokens(r) PROVE VersionInv'
  <2>1. PICK j \in Jti :
          issued' = issued \cup
             {[sub |-> req[r].sub, ver |-> req[r].ver, jti |-> j,
               via |-> req[r].via, checked |-> req[r].checked,
               parent |-> req[r].parent]}
    BY <1>16 DEF GenerateTokens
  <2>2. req[r].pc = "sign" /\ version' = version
    BY <1>16 DEF GenerateTokens
  <2>3. \A q \in Req : Sound(q)
    BY <1>1, <1>2, <1>3, <1>16 DEF GenerateTokens
  <2>4. SignedAtCheckedVersion'
    BY <2>1, <2>2, <2>3 DEF VersionInv, SignedAtCheckedVersion
  <2>5. VersionsWereReached'
    BY <2>1, <2>2, <2>3 DEF VersionInv, VersionsWereReached
  <2> QED
    BY <2>4, <2>5 DEF VersionInv
<1> HIDE DEF Sound
<1>17. ASSUME \A q \in Req : Sound(q), UNCHANGED issued PROVE VersionInv'
  BY <1>17, VersionFrame DEF Sound
<1>18. ASSUME NEW r \in Req, HandlerStep(r), ~GenerateTokens(r)
       PROVE (\A q \in Req : Sound(q)) /\ UNCHANGED issued
  <2>1. UNCHANGED issued
    BY <1>18 DEF HandlerStep, Login, BanCheck, UnbanCheck, VerifyTotpLogin,
         ConsumeRefreshToken, ChangePasswordStart, RefreshReadUser, ChangePasswordCommit,
         IssueSession, BanCommit, UnbanCommit, Fail
  <2>2. \A q \in Req : Sound(q)
    BY <1>4, <1>5, <1>6, <1>7, <1>9, <1>10, <1>11, <1>12, <1>13, <1>18 DEF HandlerStep
  <2> QED
    BY <2>1, <2>2
<1>19. CASE \E r \in Req : HandlerStep(r)
  BY <1>16, <1>17, <1>18, <1>19
<1>20. CASE \E t \in issued : Logout(t)
  <2>1. UNCHANGED issued
    BY <1>20 DEF Logout
  <2> QED
    BY <1>8, <1>17, <1>20, <2>1
<1>21. CASE Restart
  <2>1. UNCHANGED issued
    BY <1>21 DEF Restart
  <2> QED
    BY <1>14, <1>17, <1>21, <2>1
<1>22. CASE (\E k \in store : ExpireKey(k)) \/ (\E u \in User : ResetPassword(u) \/ DeleteUser(u))
            \/ UNCHANGED vars
  <2>1. UNCHANGED <<issued, req>>
    BY <1>22 DEF ExpireKey, ResetPassword, DeleteUser, vars
  <2> QED
    BY <1>15, <1>17, <2>1
<1>23. \/ \E r \in Req : HandlerStep(r)
       \/ \E t \in issued : Logout(t)
       \/ \E k \in store : ExpireKey(k)
       \/ \E u \in User : (ResetPassword(u) \/ DeleteUser(u))
       \/ Restart
       \/ UNCHANGED vars
  BY DEF Next
<1> QED
  BY <1>19, <1>20, <1>21, <1>22, <1>23

LEMMA VersionInvariant == Spec => []VersionInv
<1>1. Init => VersionInv
  BY MaxVersionAssumption
  DEF Init, VersionInv, TypeOK, SignedAtCheckedVersion, VersionsWereReached,
      IdleHandler, HandlerAt, Handler, Status, Version, Origin
<1> QED
  BY <1>1, VersionStep, TypeCorrect, PTL DEF Spec

\* A login or a rotation overtaken by a password change, a reset or a ban hands
\* out a session that is dead on arrival.
THEOREM StaleSessionsAreDead == Spec => []StaleAuthorityIsDead
<1>1. VersionInv => StaleAuthorityIsDead
  BY DEF VersionInv, SignedAtCheckedVersion, StaleAuthorityIsDead, Honoured
<1> QED
  BY <1>1, VersionInvariant, PTL

\* A new password or a ban kills every session issued before it, and nothing
\* brings one back.
THEOREM RevocationIsForGood == Spec => SessionsDieForGood
<1>1. VersionInv /\ TypeOK' /\ [Next]_vars =>
        [\A t \in issued :
          \/ t.ver # version[t.sub]
          \/ password'[t.sub] # password[t.sub]
          \/ status[t.sub] # "BANNED" /\ status'[t.sub] = "BANNED"
          => t.ver # version'[t.sub]]_vars
  <2> SUFFICES ASSUME VersionInv, TypeOK', [Next]_vars, NEW t \in issued,
                      \/ t.ver # version[t.sub]
                      \/ password'[t.sub] # password[t.sub]
                      \/ status[t.sub] # "BANNED" /\ status'[t.sub] = "BANNED"
               PROVE  t.ver # version'[t.sub]
    OBVIOUS
  <2>1. /\ t.sub \in User /\ t.ver \in Nat /\ TypeOK
        /\ version[t.sub] \in Nat /\ version'[t.sub] \in Nat
        /\ t.ver <= version[t.sub]
    BY MaxVersionAssumption DEF VersionInv, VersionsWereReached, TypeOK, Version, Token
  <2> QED
    BY <2>1, VersionMoves
<1> QED
  BY <1>1, VersionInvariant, TypeCorrect, PTL DEF Spec, SessionsDieForGood

-----------------------------------------------------------------------------
(* The browser *)

\* The answer to a call sets the cookies of a session.
Brings(c, p) == call[c].step = "answered" /\ call[c].sets /\ call[c].cookies.pair = p

\* Every pair that anyone holds was issued.
DrawnInv ==
    /\ \A p \in {jar.pair} \cup {call[c].cookies.pair : c \in Call} : p = Nil \/ Drawn(p)
    /\ \A p \in keys \cup fresh \cup void : Drawn(p)
    /\ \A p \in Pair : Drawn(p) => Root(p) \in Pair /\ Drawn(Root(p))

\* What an answer may be.
AnswersInv ==
    \A c \in Call :
        /\ call[c].op = "login" => call[c].user # Nil
        /\ call[c].sets => call[c].step = "answered"
        /\ call[c].step = "answered" /\ call[c].op \in {"refresh", "login", "change"} =>
              call[c].sets = call[c].ok /\ (call[c].ok => call[c].cookies.pair # Nil)
        /\ call[c].step = "answered" /\ call[c].op = "logout" =>
              call[c].sets /\ call[c].cookies.pair = Nil
        /\ call[c].op \in {"profile", "delete"} => ~call[c].sets

\* Wherever a session is, its cookies are kept as its member wished.
WishInv ==
    /\ KeptAsWished
    /\ \A c \in Call : LET k == call[c].cookies IN k.pair # Nil => k.kept = wish[Root(k.pair)]

\* What an answer brings, nobody has had.
NewsInv ==
    \A c \in Call, p \in Pair : Brings(c, p) =>
        jar.pair # p /\ \A d \in Call \ {c} : call[d].cookies.pair # p

\* A session has one refresh token.
OneKeyInv == \A p, q \in keys : Root(p) = Root(q) => p = q

\* Unless there was a mishap, an answer brings a refresh token that is good, and the
\* one of the session in the jar is in the jar or in an answer.
AliveInv ==
    mishap \/ /\ \A c \in Call, p \in Pair : Brings(c, p) => p \in keys \ void
              /\ \A p \in keys : jar.pair # Nil /\ Root(p) = Root(jar.pair) =>
                    p = jar.pair \/ \E c \in Call : Brings(c, p)

BrowserInv == /\ BrowserTypeOK /\ DrawnInv /\ AnswersInv /\ WishInv /\ NewsInv
              /\ OneKeyInv /\ AliveInv /\ SessionSurvivesTheTabs

Served(c, ok) == [call[c] EXCEPT !.step = "answered", !.ok = ok]
ServedWith(c, k) == [call[c] EXCEPT !.step = "answered", !.ok = TRUE, !.sets = TRUE, !.cookies = k]
Seen(c, ok, u) == [call[c] EXCEPT !.step = "answered", !.ok = ok, !.user = u]
Entered(t, k, u, keep) == [Sent(t, "login", TRUE, k) EXCEPT !.user = u, !.keep = keep]

LEMMA CookiesTyped == NoCookies \in Cookies /\ NoCookies.pair = Nil
  BY DEF NoCookies, Cookies

LEMMA AskedTyped ==
    /\ Quiet \in Exchange /\ Quiet.step = "idle" /\ ~Quiet.sets /\ Quiet.cookies = NoCookies
    /\ Quiet.op = "profile"
    /\ \A t \in Tab \cup {Nil}, op \in Op, retry \in BOOLEAN, k \in Cookies :
          LET q == Sent(t, op, retry, k) IN
          q \in Exchange /\ q.step = "sent" /\ ~q.sets /\ q.cookies = k /\ q.op = op
    /\ \A t \in Tab \cup {Nil}, k \in Cookies, u \in Member, keep \in BOOLEAN :
          LET q == Entered(t, k, u, keep) IN
          /\ q \in Exchange /\ q.step = "sent" /\ ~q.sets /\ q.cookies = k
          /\ q.op = "login" /\ q.user = u
<1> USE CookiesTyped DEF Op
<1>1. Quiet \in Exchange /\ Quiet.step = "idle" /\ ~Quiet.sets /\ Quiet.cookies = NoCookies
      /\ Quiet.op = "profile"
  BY DEF Quiet, Exchange
<1>2. ASSUME NEW t \in Tab \cup {Nil}, NEW op \in Op, NEW retry \in BOOLEAN, NEW k \in Cookies
      PROVE  LET q == Sent(t, op, retry, k) IN
             q \in Exchange /\ q.step = "sent" /\ ~q.sets /\ q.cookies = k /\ q.op = op
  BY <1>1 DEF Sent, Exchange
<1>3. ASSUME NEW t \in Tab \cup {Nil}, NEW k \in Cookies, NEW u \in Member, NEW keep \in BOOLEAN
      PROVE  LET q == Entered(t, k, u, keep) IN
             /\ q \in Exchange /\ q.step = "sent" /\ ~q.sets /\ q.cookies = k
             /\ q.op = "login" /\ q.user = u
  <2> DEFINE s == Sent(t, "login", TRUE, k)
  <2>1. s \in Exchange /\ s.step = "sent" /\ ~s.sets /\ s.cookies = k /\ s.op = "login"
    BY <1>1 DEF Sent, Exchange
  <2>2. Entered(t, k, u, keep) = [s EXCEPT !.user = u, !.keep = keep]
    BY DEF Entered
  <2> HIDE DEF s
  <2> QED
    BY <2>1, <2>2 DEF Exchange
<1> QED
  BY <1>1, <1>2, <1>3

LEMMA AnswersTyped ==
    ASSUME BrowserTypeOK, NEW c \in Call
    PROVE  /\ call[c] \in Exchange
           /\ \A ok \in BOOLEAN :
                 LET q == Served(c, ok) IN
                 /\ q \in Exchange /\ q.step = "answered" /\ q.ok = ok /\ q.sets = call[c].sets
                 /\ q.op = call[c].op /\ q.cookies = call[c].cookies /\ q.user = call[c].user
           /\ \A ok \in BOOLEAN, u \in Member \cup {Nil} :
                 LET q == Seen(c, ok, u) IN
                 /\ q \in Exchange /\ q.step = "answered" /\ q.ok = ok /\ q.sets = call[c].sets
                 /\ q.op = call[c].op /\ q.cookies = call[c].cookies
           /\ \A k \in Cookies :
                 LET q == ServedWith(c, k) IN
                 /\ q \in Exchange /\ q.step = "answered" /\ q.ok /\ q.sets
                 /\ q.op = call[c].op /\ q.cookies = k /\ q.user = call[c].user
<1>1. call[c] \in Exchange
  BY DEF BrowserTypeOK
<1>2. ASSUME NEW ok \in BOOLEAN
      PROVE  LET q == Served(c, ok) IN
                 /\ q \in Exchange /\ q.step = "answered" /\ q.ok = ok /\ q.sets = call[c].sets
                 /\ q.op = call[c].op /\ q.cookies = call[c].cookies /\ q.user = call[c].user
  BY <1>1 DEF Served, Exchange
<1>3. ASSUME NEW ok \in BOOLEAN, NEW u \in Member \cup {Nil}
      PROVE      LET q == Seen(c, ok, u) IN
                 /\ q \in Exchange /\ q.step = "answered" /\ q.ok = ok /\ q.sets = call[c].sets
                 /\ q.op = call[c].op /\ q.cookies = call[c].cookies
  BY <1>1 DEF Seen, Exchange
<1>4. ASSUME NEW k \in Cookies
      PROVE      LET q == ServedWith(c, k) IN
                 /\ q \in Exchange /\ q.step = "answered" /\ q.ok /\ q.sets
                 /\ q.op = call[c].op /\ q.cookies = k /\ q.user = call[c].user
  BY <1>1 DEF ServedWith, Exchange
<1> QED
  BY <1>1, <1>2, <1>3, <1>4

\* The steps, by what they do to the jar and to the sessions.

Becomes(c, q) == /\ q \in Exchange /\ call' = [call EXCEPT ![c] = q]
                 /\ q.op = "login" => q.user # Nil

\* Nothing is brought, and no good token is lost.
Quietly(c) ==
    /\ \E q : /\ Becomes(c, q) /\ ~q.sets /\ ~call[c].sets
              /\ q.cookies \in {jar, call[c].cookies, NoCookies}
              /\ q.step = "answered" => /\ q.op # "logout"
                                        /\ q.op \in {"refresh", "login", "change"} => ~q.ok
    /\ keys' \subseteq keys /\ keys \ keys' \subseteq void
    /\ fresh' \subseteq fresh
    /\ void' \subseteq {p \in Pair : Drawn(p)}
    /\ void' = void \/ mishap'
    /\ mishap => mishap'
    /\ UNCHANGED <<jar, minted, wish, over>>

\* A pair is issued, for a session that goes on or begins.
Issues(c, p, u, root, k) ==
    /\ ~Drawn(p) /\ u # Nil
    /\ minted' = [minted EXCEPT ![p] = [user |-> u, root |-> root]]
    /\ ~call[c].sets
    /\ \E q : /\ Becomes(c, q) /\ q.sets /\ q.ok /\ q.step = "answered"
              /\ q.op \in {"refresh", "login", "change"}
              /\ q.cookies = [pair |-> p, kept |-> k]
    /\ fresh' = fresh \cup {p}
    /\ UNCHANGED <<jar, over>>

Rotates(c, p, u) ==
    LET old == call[c].cookies IN
    /\ Issues(c, p, u, Root(old.pair), old.kept)
    /\ old.pair \in keys \ void
    /\ keys' = (keys \ {old.pair}) \cup {p}
    /\ UNCHANGED <<void, wish, mishap>>

Begins(c, p, u, k) ==
    /\ Issues(c, p, u, p, k)
    /\ keys' = keys \cup {p}
    /\ wish' = [wish EXCEPT ![p] = k]
    /\ void' \subseteq {x \in Pair : Drawn(x)}
    /\ \/ UNCHANGED <<void, mishap>>
       \/ mishap' = (mishap \/ Incoming # {})

\* An answer brings a session, or the end of it.
Lands(c) ==
    /\ Brings(c, call[c].cookies.pair)
    /\ jar' = call[c].cookies
    /\ over' = (jar'.pair = Nil)
    /\ \E q : Becomes(c, q) /\ ~q.sets /\ q.cookies \in {jar', NoCookies} /\ q.step # "answered"
    /\ UNCHANGED <<Server, mishap>>

LogsOut(c) ==
    /\ AtServer(c, "logout") /\ ~call[c].sets
    /\ \E q : /\ Becomes(c, q) /\ q.sets /\ q.step = "answered" /\ q.op = "logout"
              /\ q.cookies.pair = Nil
    /\ keys' = keys \ {call[c].cookies.pair}
    /\ UNCHANGED <<jar, fresh, void, minted, wish, over, mishap>>

Ends ==
    /\ mishap'
    /\ \/ jar' \in {jar, NoCookies}
       \/ \E c \in Call : jar' = call[c].cookies /\ call'[c] = Quiet
    /\ \A c \in Call : call'[c] \in {call[c], Quiet}
    /\ call' \in [Call -> Exchange]
    /\ void' \subseteq {p \in Pair : Drawn(p)}
    /\ UNCHANGED <<keys, fresh, minted, wish>>

Closes ==
    /\ \A c \in Call : call[c].step = "idle"
    /\ call' = [c \in Call |-> Quiet]
    /\ (jar' = jar /\ over' = over) \/ (jar' = NoCookies /\ over')
    /\ UNCHANGED <<Server, mishap>>

Moves ==
    \/ \E c \in Call : Quietly(c) \/ Lands(c) \/ LogsOut(c)
    \/ \E c \in Call, p \in Pair, u \in Member : Rotates(c, p, u) \/ \E k \in BOOLEAN : Begins(c, p, u, k)
    \/ Ends \/ Closes
    \/ fresh' \subseteq fresh /\ UNCHANGED <<jar, call, keys, void, minted, wish, over, mishap>>

LEMMA Sendings ==
    ASSUME BrowserInv, NEW c \in Call, NEW t \in Tab,
           \/ FetchProfile(c, t) \/ SignOut(c, t) \/ ChangePassword(c, t) \/ DeleteAccount(c, t)
           \/ \E u \in Member, keep \in BOOLEAN : SignIn(c, t, u, keep)
    PROVE  Quietly(c)
<1>1. jar \in Cookies /\ t \in Tab \cup {Nil} /\ void \subseteq {p \in Pair : Drawn(p)}
  BY DEF BrowserInv, BrowserTypeOK, DrawnInv
<1>2. /\ call[c].step = "idle" /\ UNCHANGED <<jar, Server, over, mishap>>
      /\ \E q : /\ q \in Exchange /\ call' = [call EXCEPT ![c] = q]
                /\ q.step = "sent" /\ ~q.sets /\ q.cookies = jar
                /\ q.op = "login" => q.user \in Member
  <2>1. ASSUME NEW op \in Op \ {"login"}, NEW retry \in BOOLEAN, Send(c, Sent(t, op, retry, jar))
        PROVE  /\ call[c].step = "idle" /\ UNCHANGED <<jar, Server, over, mishap>>
               /\ \E q : /\ q \in Exchange /\ call' = [call EXCEPT ![c] = q]
                         /\ q.step = "sent" /\ ~q.sets /\ q.cookies = jar
                         /\ q.op = "login" => q.user \in Member
    <3> DEFINE q == Sent(t, op, retry, jar)
    <3>1. Send(c, q)
      BY <2>1
    <3>2. q \in Exchange /\ q.step = "sent" /\ ~q.sets /\ q.cookies = jar /\ q.op # "login"
      BY <1>1, AskedTyped
    <3> HIDE DEF q
    <3> QED
      BY <3>1, <3>2 DEF Send, Proceed
  <2>2. \/ \E op \in Op \ {"login"}, retry \in BOOLEAN : Send(c, Sent(t, op, retry, jar))
        \/ \E u \in Member, keep \in BOOLEAN : SignIn(c, t, u, keep)
    BY DEF FetchProfile, SignOut, ChangePassword, DeleteAccount, Op
  <2>5. ASSUME NEW u \in Member, NEW keep \in BOOLEAN, SignIn(c, t, u, keep)
        PROVE  /\ call[c].step = "idle" /\ UNCHANGED <<jar, Server, over, mishap>>
               /\ \E q : /\ q \in Exchange /\ call' = [call EXCEPT ![c] = q]
                         /\ q.step = "sent" /\ ~q.sets /\ q.cookies = jar
                         /\ q.op = "login" => q.user \in Member
    <3> DEFINE q == Entered(t, jar, u, keep)
    <3>1. Send(c, q)
      BY <2>5 DEF SignIn, Entered
    <3>2. q \in Exchange /\ q.step = "sent" /\ ~q.sets /\ q.cookies = jar /\ q.user = u
      BY <1>1, AskedTyped
    <3> HIDE DEF q
    <3> QED
      BY <3>1, <3>2 DEF Send, Proceed
  <2> QED
    BY <2>1, <2>2, <2>5
<1>3. ~call[c].sets
  BY <1>2 DEF BrowserInv, AnswersInv
<1> QED
  BY <1>1, <1>2, <1>3, NilAssumption DEF Quietly, Becomes, Server

LEMMA Servings ==
    ASSUME BrowserInv, NEW c \in Call, Serve(c)
    PROVE  Moves
<1>1. /\ call[c] \in Exchange /\ call[c].cookies \in Cookies /\ keys \subseteq Pair
      /\ void \subseteq {p \in Pair : Drawn(p)} /\ fresh \subseteq Pair
      /\ Nil \notin Pair /\ minted \in [Pair -> Issue]
      /\ call[c].op = "login" => call[c].user # Nil
  BY NilAssumption DEF BrowserInv, BrowserTypeOK, DrawnInv, AnswersInv, Exchange
<1>2. call[c].step = "sent" /\ ~call[c].sets
  BY DEF BrowserInv, AnswersInv, Serve, ServeProfile, ServeRefresh, ServeLogin, ServeLogout,
     ServeChange, ServeDelete, AtServer
<1>3. CASE ServeProfile(c)
  <2> DEFINE ok == Valid(call[c].cookies.pair)
             u == IF ok THEN minted[call[c].cookies.pair].user ELSE Nil
             q == Seen(c, ok, u)
  <2>1. ok \in BOOLEAN
    BY DEF Valid
  <2>2. u \in Member \cup {Nil}
    BY <1>1 DEF Valid, Issue
  <2>3. call' = [call EXCEPT ![c] = q] /\ call[c].op = "profile" /\ UNCHANGED <<jar, Server, over, mishap>>
    BY <1>3 DEF ServeProfile, Proceed, Seen, AtServer
  <2> HIDE DEF ok, u
  <2>4. q \in Exchange /\ ~q.sets /\ q.cookies = call[c].cookies /\ q.op = "profile"
    BY <1>2, <2>1, <2>2, <2>3, AnswersTyped DEF BrowserInv
  <2> HIDE DEF q
  <2>5. Quietly(c)
    BY <1>1, <1>2, <2>3, <2>4 DEF Quietly, Becomes, Server
  <2> QED
    BY <2>5 DEF Moves
<1>4. ASSUME NEW ok \in BOOLEAN, Answer(c, ok)
      PROVE  \E q : /\ Becomes(c, q) /\ ~q.sets /\ ~call[c].sets
                    /\ q.cookies = call[c].cookies /\ q.step = "answered" /\ q.op = call[c].op
                    /\ q.ok = ok
  <2> DEFINE q == Served(c, ok)
  <2>1. call' = [call EXCEPT ![c] = q]
    BY <1>4 DEF Answer, Proceed, Served
  <2>2. /\ q \in Exchange /\ q.step = "answered" /\ q.ok = ok /\ q.sets = call[c].sets
        /\ q.op = call[c].op /\ q.cookies = call[c].cookies /\ q.user = call[c].user
    BY AnswersTyped DEF BrowserInv
  <2> HIDE DEF q
  <2> QED
    BY <1>1, <1>2, <2>1, <2>2 DEF Becomes
<1>5. ASSUME NEW p \in Pair \cup {Nil}, NEW k \in BOOLEAN, AnswerWith(c, p, k)
      PROVE  \E q : /\ Becomes(c, q) /\ q.sets /\ q.ok /\ q.step = "answered" /\ q.op = call[c].op
                    /\ q.cookies = [pair |-> p, kept |-> k]
  <2> DEFINE cookies == [pair |-> p, kept |-> k]
  <2>1. cookies \in Cookies
    BY DEF Cookies
  <2>2. call' = [call EXCEPT ![c] = ServedWith(c, cookies)]
    BY <1>5 DEF AnswerWith, Proceed, ServedWith
  <2> HIDE DEF cookies
  <2>3. Becomes(c, ServedWith(c, cookies))
    BY <1>1, <2>1, <2>2, AnswersTyped DEF Becomes, BrowserInv
  <2>4. \E q : /\ Becomes(c, q) /\ q.sets /\ q.ok /\ q.step = "answered" /\ q.op = call[c].op
               /\ q.cookies = cookies
    BY <2>1, <2>3, AnswersTyped DEF BrowserInv
  <2> QED
    BY <2>4 DEF cookies
<1>6. CASE ServeRefresh(c)
  <2> DEFINE old == call[c].cookies.pair
  <2>1. call[c].op = "refresh" /\ UNCHANGED <<jar, void, wish, over, mishap>>
    BY <1>6 DEF ServeRefresh, AtServer
  <2>2. ASSUME old \in keys \ void, NEW p \in Pair, Register(p, minted[old].user, Root(old)),
               keys' = (keys \ {old}) \cup {p}, AnswerWith(c, p, call[c].cookies.kept)
        PROVE  Moves
    <3>1. minted[old].user \in Member /\ minted[old].user # Nil
      BY <1>1, <2>2 DEF BrowserInv, DrawnInv, Drawn, Issue
    <3>2. call[c].cookies.kept \in BOOLEAN
      BY <1>1 DEF Cookies
    <3>3. Issues(c, p, minted[old].user, Root(old), call[c].cookies.kept)
      BY <1>2, <1>5, <2>1, <2>2, <3>1, <3>2 DEF Issues, Register
    <3>4. Rotates(c, p, minted[old].user)
      BY <2>1, <2>2, <3>3 DEF Rotates
    <3> QED
      BY <3>1, <3>4 DEF Moves
  <2>3. ASSUME old \notin keys \ void, keys' = keys \ {old}, Answer(c, FALSE), UNCHANGED <<minted, fresh>>
        PROVE  Moves
    <3>1. Quietly(c)
      BY <1>1, <1>4, <2>1, <2>3 DEF Quietly
    <3> QED
      BY <3>1 DEF Moves
  <2> QED
    BY <1>6, <2>2, <2>3 DEF ServeRefresh
<1>7. CASE ServeLogin(c)
  <2>1. call[c].op = "login" /\ UNCHANGED <<jar, void, over, mishap>>
    BY <1>7 DEF ServeLogin, AtServer
  <2>2. ASSUME NEW p \in Pair, Register(p, call[c].user, p), keys' = keys \cup {p},
               wish' = [wish EXCEPT ![p] = call[c].keep], AnswerWith(c, p, call[c].keep)
        PROVE  Moves
    <3>1. call[c].user \in Member /\ call[c].user # Nil /\ call[c].keep \in BOOLEAN
      BY <1>1, <2>1 DEF Exchange
    <3>2. Issues(c, p, call[c].user, p, call[c].keep)
      BY <1>2, <1>5, <2>1, <2>2, <3>1 DEF Issues, Register
    <3>3. Begins(c, p, call[c].user, call[c].keep)
      BY <1>1, <2>1, <2>2, <3>2 DEF Begins
    <3> QED
      BY <3>1, <3>3 DEF Moves
  <2>3. CASE Answer(c, FALSE) /\ UNCHANGED <<keys, fresh, minted, wish>>
    <3>1. Quietly(c)
      BY <1>1, <1>4, <2>1, <2>3 DEF Quietly
    <3> QED
      BY <3>1 DEF Moves
  <2> QED
    BY <1>7, <2>2, <2>3 DEF ServeLogin
<1>8. CASE ServeLogout(c)
  <2>1. AnswerWith(c, Nil, FALSE) /\ call[c].op = "logout"
    BY <1>8 DEF ServeLogout, AtServer
  <2>2. PICK q : /\ Becomes(c, q) /\ q.sets /\ q.step = "answered" /\ q.op = "logout"
                 /\ q.cookies.pair = Nil
    <3>1. PICK q : /\ Becomes(c, q) /\ q.sets /\ q.step = "answered" /\ q.op = "logout"
                   /\ q.cookies = [pair |-> Nil, kept |-> FALSE]
      BY <1>5, <2>1
    <3>2. q.cookies.pair = Nil
      BY <3>1
    <3> QED
      BY <3>1, <3>2
  <2>3. LogsOut(c)
    BY <1>2, <1>8, <2>2 DEF LogsOut, ServeLogout
  <2> QED
    BY <2>3 DEF Moves
<1>9. CASE ServeChange(c)
  <2> DEFINE old == call[c].cookies.pair
  <2>1. call[c].op = "change" /\ UNCHANGED <<jar, over>>
    BY <1>9 DEF ServeChange, AtServer
  <2>2. ASSUME Valid(old), void' = {p \in Pair : p \in void \/ minted[p].user = minted[old].user},
               NEW p \in Pair, Register(p, minted[old].user, p), keys' = keys \cup {p},
               wish' = [wish EXCEPT ![p] = wish[Root(old)]], AnswerWith(c, p, call[c].cookies.kept),
               mishap' = (mishap \/ Incoming # {})
        PROVE  Moves
    <3>1. minted[old].user \in Member /\ minted[old].user # Nil
      BY <1>1, <2>2 DEF BrowserInv, DrawnInv, Drawn, Issue, Valid
    <3>2. call[c].cookies.kept \in BOOLEAN
      BY <1>1 DEF Cookies
    <3>3. old # Nil
      BY <1>1, <2>2 DEF Valid
    <3>4. call[c].cookies.kept = wish[Root(old)]
      BY <3>3 DEF BrowserInv, WishInv
    <3>5. void' \subseteq {x \in Pair : Drawn(x)}
      BY <1>1, <2>2, <3>1 DEF Drawn
    <3>6. Issues(c, p, minted[old].user, p, call[c].cookies.kept)
      BY <1>2, <1>5, <2>1, <2>2, <3>1, <3>2 DEF Issues, Register
    <3>7. Begins(c, p, minted[old].user, call[c].cookies.kept)
      BY <2>1, <2>2, <3>4, <3>5, <3>6 DEF Begins
    <3> QED
      BY <3>1, <3>2, <3>7 DEF Moves
  <2>3. CASE Answer(c, FALSE) /\ UNCHANGED <<keys, fresh, void, minted, wish, mishap>>
    <3>1. Quietly(c)
      BY <1>1, <1>4, <2>1, <2>3 DEF Quietly
    <3> QED
      BY <3>1 DEF Moves
  <2> QED
    BY <1>9, <2>2, <2>3 DEF ServeChange
<1>10. CASE ServeDelete(c)
  <2> DEFINE old == call[c].cookies.pair
  <2>1. call[c].op = "delete" /\ UNCHANGED <<jar, keys, fresh, minted, wish, over>>
    BY <1>10 DEF ServeDelete, AtServer
  <2>2. CASE /\ Valid(old) /\ Answer(c, TRUE) /\ mishap' = TRUE
             /\ void' = {p \in Pair : p \in void \/ minted[p].user = minted[old].user}
    <3>1. minted[old].user # Nil
      BY <1>1, <2>2 DEF BrowserInv, DrawnInv, Drawn, Valid
    <3>2. void' \subseteq {x \in Pair : Drawn(x)}
      BY <1>1, <2>2, <3>1 DEF Drawn
    <3>3. Quietly(c)
      BY <1>1, <1>4, <2>1, <2>2, <3>2 DEF Quietly
    <3> QED
      BY <3>3 DEF Moves
  <2>3. CASE Answer(c, FALSE) /\ UNCHANGED <<void, mishap>>
    <3>1. Quietly(c)
      BY <1>1, <1>4, <2>1, <2>3 DEF Quietly
    <3> QED
      BY <3>1 DEF Moves
  <2> QED
    BY <1>10, <2>2, <2>3 DEF ServeDelete
<1> QED
  BY <1>3, <1>6, <1>7, <1>8, <1>9, <1>10 DEF Serve

LEMMA Arrivals ==
    ASSUME BrowserInv, NEW c \in Call, Arrive(c)
    PROVE  Moves
<1>1. /\ call[c] \in Exchange /\ call[c].cookies \in Cookies /\ jar \in Cookies
      /\ call[c].tab \in Tab \cup {Nil} /\ over \in BOOLEAN
      /\ void \subseteq {p \in Pair : Drawn(p)}
  BY DEF BrowserInv, BrowserTypeOK, DrawnInv, Exchange
<1>2. call[c].step = "answered"
  BY DEF Arrive, ProfileArrives, RefreshArrives, LoginArrives, LogoutArrives, ChangeArrives,
     DeleteArrives, Arrived
<1>3. /\ call[c].op \in {"refresh", "login", "change"} =>
            call[c].sets = call[c].ok /\ (call[c].ok => call[c].cookies.pair # Nil)
      /\ call[c].op = "logout" => call[c].sets /\ call[c].cookies.pair = Nil
      /\ call[c].op \in {"profile", "delete"} => ~call[c].sets
  BY <1>2 DEF BrowserInv, AnswersInv
<1>4. /\ Conclude(c) => Becomes(c, Quiet)
      /\ ~Quiet.sets /\ Quiet.cookies = NoCookies /\ Quiet.step = "idle"
  BY AskedTyped DEF Conclude, Proceed, Becomes
<1>5. ASSUME NEW op \in Op \ {"login"}, NEW retry \in BOOLEAN, NEW k \in Cookies,
             Proceed(c, Sent(call[c].tab, op, retry, k))
      PROVE  \E q : Becomes(c, q) /\ ~q.sets /\ q.cookies = k /\ q.step = "sent"
  <2> DEFINE q == Sent(call[c].tab, op, retry, k)
  <2>1. q \in Exchange /\ q.step = "sent" /\ ~q.sets /\ q.cookies = k /\ q.op # "login"
    BY <1>1, AskedTyped
  <2>2. call' = [call EXCEPT ![c] = q]
    BY <1>5 DEF Proceed
  <2> HIDE DEF q
  <2> QED
    BY <2>1, <2>2 DEF Becomes
<1>6. ASSUME NEW k \in Cookies,
             \/ \E op \in Op \ {"login"}, retry \in BOOLEAN : Proceed(c, Sent(call[c].tab, op, retry, k))
             \/ Conclude(c)
      PROVE  \E q : Becomes(c, q) /\ ~q.sets /\ q.cookies \in {k, NoCookies} /\ q.step # "answered"
  BY <1>4, <1>5, <1>6
<1>7. CASE ~call[c].sets
  <2>1. UNCHANGED <<jar, Server, over, mishap>>
    BY <1>1, <1>3, <1>7 DEF Arrive, ProfileArrives, RefreshArrives, LoginArrives, LogoutArrives,
       ChangeArrives, DeleteArrives, Arrived, JarAfter
  <2>2. \/ \E op \in Op \ {"login"}, retry \in BOOLEAN : Proceed(c, Sent(call[c].tab, op, retry, jar))
        \/ Conclude(c)
    BY <1>3, <1>7 DEF Arrive, ProfileArrives, RefreshArrives, LoginArrives, LogoutArrives,
       ChangeArrives, DeleteArrives, Arrived, Op
  <2>3. Quietly(c)
    BY <1>1, <1>6, <1>7, <2>1, <2>2 DEF Quietly, Server
  <2> QED
    BY <2>3 DEF Moves
<1>8. CASE call[c].sets
  <2>1. call[c].op \in {"refresh", "login", "logout", "change"}
    BY <1>3, <1>8 DEF Arrive, ProfileArrives, DeleteArrives, RefreshArrives, LoginArrives,
       LogoutArrives, ChangeArrives, Arrived
  <2>2. jar' = call[c].cookies /\ UNCHANGED <<Server, mishap>>
    BY <1>8, <2>1 DEF Arrive, ProfileArrives, RefreshArrives, LoginArrives, LogoutArrives,
       ChangeArrives, DeleteArrives, Arrived, JarAfter
  <2>3. over' = (jar'.pair = Nil)
    BY <1>1, <1>3, <1>8, <2>1, <2>2 DEF Arrive, ProfileArrives, RefreshArrives, LoginArrives,
       LogoutArrives, ChangeArrives, DeleteArrives, Arrived
  <2>4. \/ \E op \in Op \ {"login"}, retry \in BOOLEAN :
              Proceed(c, Sent(call[c].tab, op, retry, call[c].cookies))
        \/ Conclude(c)
    BY <2>1, <2>2 DEF Arrive, ProfileArrives, RefreshArrives, LoginArrives, LogoutArrives,
       ChangeArrives, DeleteArrives, Arrived, Op
  <2>5. Lands(c)
    BY <1>1, <1>2, <1>6, <1>8, <2>2, <2>3, <2>4 DEF Lands, Brings
  <2> QED
    BY <2>5 DEF Moves
<1> QED
  BY <1>7, <1>8

LEMMA StepsMove ==
    ASSUME BrowserInv, BrowserNext
    PROVE  Moves
<1>0. /\ NoCookies \in Cookies /\ Quiet \in Exchange /\ call \in [Call -> Exchange]
      /\ void \subseteq {p \in Pair : Drawn(p)} /\ Nil \notin Member /\ mishap \in BOOLEAN
      /\ over \in BOOLEAN
  BY CookiesTyped, AskedTyped, NilAssumption DEF BrowserInv, BrowserTypeOK, DrawnInv
<1>1. ASSUME NEW c \in Call, NEW t \in Tab,
             \/ FetchProfile(c, t) \/ SignOut(c, t) \/ ChangePassword(c, t) \/ DeleteAccount(c, t)
             \/ \E u \in Member, keep \in BOOLEAN : SignIn(c, t, u, keep)
      PROVE  Moves
  <2>1. Quietly(c)
    BY <1>1, Sendings
  <2> QED
    BY <2>1 DEF Moves
<1>2. ASSUME NEW c \in Call, Serve(c) \/ Arrive(c) PROVE Moves
  BY <1>2, Servings, Arrivals
<1>3. ASSUME NEW c \in Call, Lose(c) PROVE Moves
  <2>1. /\ call' = [call EXCEPT ![c] = Quiet] /\ mishap' /\ UNCHANGED Server
        /\ jar' \in {jar, call[c].cookies}
    BY <1>3 DEF Lose, Conclude, Proceed, JarAfter
  <2>2. Ends
    BY <1>0, <2>1 DEF Ends, Server
  <2> QED
    BY <2>2 DEF Moves
<1>4. ASSUME NEW p \in Pair, AccessExpires(p) PROVE Moves
  BY <1>4 DEF AccessExpires, Moves
<1>5. ASSUME NEW u \in Member, Revoke(u) PROVE Moves
  <2>1. Ends
    BY <1>0, <1>5 DEF Ends, Revoke, Drawn
  <2> QED
    BY <2>1 DEF Moves
<1>6. CASE Reopen
  <2>0. (jar' = jar /\ over' = over) \/ (jar' = NoCookies /\ over')
    <3>0. jar.kept \in BOOLEAN
      BY DEF BrowserInv, BrowserTypeOK, Cookies
    <3>1. jar' = (IF jar.kept THEN jar ELSE NoCookies) /\ over' = (over \/ ~jar.kept)
      BY <1>6 DEF Reopen
    <3>2. CASE jar.kept
      <4>1. over' = (over \/ FALSE)
        BY <3>1, <3>2, Zenon
      <4>2. over' = over
        BY <1>0, <4>1, Zenon
      <4>3. jar' = jar
        BY <3>1, <3>2
      <4> QED
        BY <4>2, <4>3
    <3>3. CASE ~jar.kept
      BY <3>0, <3>1, <3>3
    <3> QED
      BY <3>0, <3>2, <3>3
  <2>1. /\ call' = [c \in Call |-> Quiet] /\ UNCHANGED Server
        /\ (jar' = jar /\ over' = over) \/ (jar' = NoCookies /\ over')
        /\ mishap' = (mishap \/ \E c \in Call : call[c].step # "idle")
    BY <1>6, <2>0 DEF Reopen
  <2>2. CASE \A c \in Call : call[c].step = "idle"
    <3>1. Closes
      BY <1>0, <2>1, <2>2 DEF Closes
    <3> QED
      BY <3>1 DEF Moves
  <2>3. CASE \E c \in Call : call[c].step # "idle"
    <3>1. Ends
      BY <1>0, <2>1, <2>3 DEF Ends, Server
    <3> QED
      BY <3>1 DEF Moves
  <2> QED
    BY <2>2, <2>3
<1> QED
  BY <1>1, <1>2, <1>3, <1>4, <1>5, <1>6 DEF BrowserNext

\* What a tab shows, and the history.
LEMMA ShownTyped ==
    ASSUME BrowserTypeOK, BrowserNext
    PROVE  shown' \in [Tab -> Member \cup {Nil}] /\ over' \in BOOLEAN /\ mishap' \in BOOLEAN
<1>0. /\ shown \in [Tab -> Member \cup {Nil}] /\ over \in BOOLEAN /\ mishap \in BOOLEAN
      /\ \A c \in Call : call[c].user \in Member \cup {Nil} /\ call[c].ok \in BOOLEAN
  BY DEF BrowserTypeOK, Exchange
<1>1. ASSUME NEW c \in Call, NEW t \in Tab,
             \/ FetchProfile(c, t) \/ SignOut(c, t) \/ ChangePassword(c, t) \/ DeleteAccount(c, t)
             \/ \E u \in Member, keep \in BOOLEAN : SignIn(c, t, u, keep)
      PROVE  UNCHANGED <<shown, over, mishap>>
  BY <1>1 DEF FetchProfile, SignOut, ChangePassword, DeleteAccount, SignIn, Send
<1>2. ASSUME NEW c \in Call, Serve(c)
      PROVE  UNCHANGED <<shown, over>> /\ mishap' \in BOOLEAN
  BY <1>0, <1>2 DEF Serve, ServeProfile, ServeRefresh, ServeLogin, ServeLogout, ServeChange, ServeDelete
<1>3. ASSUME NEW c \in Call, Arrive(c)
      PROVE  /\ shown' \in [Tab -> Member \cup {Nil}] /\ over' \in BOOLEAN /\ UNCHANGED mishap
  BY <1>0, <1>3 DEF Arrive, ProfileArrives, RefreshArrives, LoginArrives, LogoutArrives, ChangeArrives,
     DeleteArrives, Show
<1>4. ASSUME NEW c \in Call, Lose(c)
      PROVE  /\ shown' \in [Tab -> Member \cup {Nil}] /\ UNCHANGED over /\ mishap' \in BOOLEAN
  BY <1>0, <1>4 DEF Lose, Show
<1>5. ASSUME NEW p \in Pair, AccessExpires(p) PROVE UNCHANGED <<shown, over, mishap>>
  BY <1>5 DEF AccessExpires
<1>6. ASSUME NEW u \in Member, Revoke(u) PROVE UNCHANGED <<shown, over>> /\ mishap' \in BOOLEAN
  BY <1>6 DEF Revoke
<1>7. CASE Reopen
  BY <1>0, <1>7 DEF Reopen
<1> QED
  BY <1>0, <1>1, <1>2, <1>3, <1>4, <1>5, <1>6, <1>7 DEF BrowserNext

LEMMA BrowserTypesKept ==
    ASSUME BrowserInv, BrowserNext
    PROVE  BrowserTypeOK'
<1>0. /\ jar \in Cookies /\ call \in [Call -> Exchange] /\ NoCookies \in Cookies /\ Quiet \in Exchange
      /\ keys \subseteq Pair /\ fresh \subseteq Pair /\ void \subseteq Pair
      /\ minted \in [Pair -> Issue] /\ wish \in [Pair -> BOOLEAN]
      /\ \A c \in Call : call[c].cookies \in Cookies
  BY CookiesTyped, AskedTyped DEF BrowserInv, BrowserTypeOK, Exchange
<1>1. shown' \in [Tab -> Member \cup {Nil}] /\ over' \in BOOLEAN /\ mishap' \in BOOLEAN
  BY ShownTyped DEF BrowserInv
<1>2. Moves
  BY StepsMove
<1>3. ASSUME NEW c \in Call, NEW q, Becomes(c, q) PROVE call' \in [Call -> Exchange]
  BY <1>0, <1>3 DEF Becomes
<1> DEFINE Rest == /\ jar' \in Cookies /\ call' \in [Call -> Exchange]
                   /\ keys' \subseteq Pair /\ fresh' \subseteq Pair /\ void' \subseteq Pair
                   /\ minted' \in [Pair -> Issue] /\ wish' \in [Pair -> BOOLEAN]
<1>4. ASSUME NEW c \in Call, Quietly(c) PROVE Rest
  BY <1>0, <1>3, <1>4 DEF Quietly
<1>5. ASSUME NEW c \in Call, Lands(c) \/ LogsOut(c) PROVE Rest
  BY <1>0, <1>3, <1>5 DEF Lands, LogsOut, Server
<1>6. ASSUME NEW c \in Call, NEW p \in Pair, NEW u \in Member, NEW root \in Pair, NEW k,
             Issues(c, p, u, root, k)
      PROVE  /\ jar' \in Cookies /\ call' \in [Call -> Exchange]
             /\ fresh' \subseteq Pair /\ minted' \in [Pair -> Issue]
  <2>1. [user |-> u, root |-> root] \in Issue
    BY DEF Issue
  <2> QED
    BY <1>0, <1>3, <1>6, <2>1 DEF Issues
<1>7. ASSUME NEW c \in Call, NEW p \in Pair, NEW u \in Member, Rotates(c, p, u) PROVE Rest
  <2>1. Root(call[c].cookies.pair) \in Pair
    BY <1>0, <1>7 DEF Rotates, BrowserInv, DrawnInv
  <2>2. keys' \subseteq Pair /\ UNCHANGED <<void, wish>>
    BY <1>0, <1>7 DEF Rotates
  <2>3. Issues(c, p, u, Root(call[c].cookies.pair), call[c].cookies.kept)
    BY <1>7 DEF Rotates
  <2> QED
    BY <1>0, <1>6, <2>1, <2>2, <2>3
<1>8. ASSUME NEW c \in Call, NEW p \in Pair, NEW u \in Member, NEW k \in BOOLEAN, Begins(c, p, u, k)
      PROVE  Rest
  <2>1. keys' \subseteq Pair /\ void' \subseteq Pair /\ wish' \in [Pair -> BOOLEAN]
    BY <1>0, <1>8 DEF Begins
  <2>2. Issues(c, p, u, p, k)
    BY <1>8 DEF Begins
  <2> QED
    BY <1>6, <2>1, <2>2
<1>9. ASSUME Ends PROVE Rest
  BY <1>0, <1>9 DEF Ends
<1>10. ASSUME Closes PROVE Rest
  BY <1>0, <1>10 DEF Closes, Server
<1>11. ASSUME fresh' \subseteq fresh,
              UNCHANGED <<jar, call, keys, void, minted, wish, over, mishap>>
       PROVE  Rest
  BY <1>0, <1>11
<1>12. Rest
  <2> HIDE DEF Rest
  <2> QED
    BY <1>2, <1>4, <1>5, <1>7, <1>8, <1>9, <1>10, <1>11 DEF Moves
<1> QED
  BY <1>1, <1>12 DEF BrowserTypeOK

\* What each move does to what is held.
LEMMA IssuesAreNew ==
    ASSUME BrowserInv, NEW c \in Call, NEW p \in Pair, NEW u \in Member, NEW root, NEW k,
           Issues(c, p, u, root, k)
    PROVE  /\ p # Nil /\ jar.pair # p /\ p \notin keys /\ p \notin void
           /\ \A d \in Call : call[d].cookies.pair # p
           /\ \A x \in Pair : Drawn(x) => x # p /\ Root(x) # p
           /\ Drawn(p)' /\ Root(p)' = root
           /\ \A x \in Pair \ {p} : (Drawn(x)' <=> Drawn(x)) /\ Root(x)' = Root(x)
           /\ call'[c].cookies.pair = p /\ call'[c].cookies.kept = k
           /\ call'[c].sets /\ call'[c].ok /\ call'[c].step = "answered"
           /\ call'[c].op \in {"refresh", "login", "change"}
           /\ call'[c].op = "login" => call'[c].user # Nil
           /\ \A d \in Call \ {c} : call'[d] = call[d]
           /\ ~call[c].sets
<1>0. /\ ~Drawn(p) /\ p # Nil /\ call \in [Call -> Exchange] /\ minted \in [Pair -> Issue]
      /\ minted' = [minted EXCEPT ![p] = [user |-> u, root |-> root]] /\ u # Nil /\ ~call[c].sets
  BY NilAssumption DEF Issues, BrowserInv, BrowserTypeOK
<1>1. /\ jar.pair # p /\ p \notin keys /\ p \notin void
      /\ \A d \in Call : call[d].cookies.pair # p
      /\ \A x \in Pair : Drawn(x) => x # p /\ Root(x) # p
  BY <1>0 DEF BrowserInv, DrawnInv
<1>2. /\ Drawn(p)' /\ Root(p)' = root
      /\ \A x \in Pair \ {p} : (Drawn(x)' <=> Drawn(x)) /\ Root(x)' = Root(x)
  BY <1>0 DEF Drawn, Root
<1>3. PICK q : /\ Becomes(c, q) /\ q.sets /\ q.ok /\ q.step = "answered"
               /\ q.op \in {"refresh", "login", "change"}
               /\ q.cookies = [pair |-> p, kept |-> k]
  BY DEF Issues
<1>4. q.cookies.pair = p /\ q.cookies.kept = k
  BY <1>3
<1>5. call'[c] = q /\ \A d \in Call \ {c} : call'[d] = call[d]
  BY <1>0, <1>3 DEF Becomes
<1> QED
  BY <1>0, <1>1, <1>2, <1>3, <1>4, <1>5 DEF Becomes

LEMMA DrawnKept ==
    ASSUME BrowserInv, BrowserNext
    PROVE  DrawnInv'
<1> USE DEF DrawnInv
<1>0. /\ DrawnInv /\ call \in [Call -> Exchange] /\ minted \in [Pair -> Issue]
      /\ NoCookies.pair = Nil /\ Quiet.cookies = NoCookies
  BY CookiesTyped, AskedTyped DEF BrowserInv, BrowserTypeOK
<1>1. ASSUME UNCHANGED minted,
             \A p \in {jar'.pair} \cup {call'[c].cookies.pair : c \in Call} :
                p \in {Nil, jar.pair} \cup {call[c].cookies.pair : c \in Call},
             keys' \subseteq keys, fresh' \subseteq fresh, \A p \in void' : Drawn(p)
      PROVE  DrawnInv'
  BY <1>0, <1>1 DEF Drawn, Root
<1>2. ASSUME NEW c \in Call, Quietly(c) PROVE DrawnInv'
  BY <1>0, <1>1, <1>2 DEF Quietly, Becomes
<1>3. ASSUME NEW c \in Call, Lands(c) PROVE DrawnInv'
  BY <1>0, <1>1, <1>3 DEF Lands, Becomes, Server
<1>4. ASSUME NEW c \in Call, LogsOut(c) PROVE DrawnInv'
  BY <1>0, <1>1, <1>4 DEF LogsOut, Becomes
<1>5. ASSUME NEW c \in Call, NEW p \in Pair, NEW u \in Member, NEW root \in Pair, NEW k,
             Issues(c, p, u, root, k), root = p \/ Drawn(root), keys' \subseteq keys \cup {p},
             \A x \in void' : Drawn(x) /\ x \in Pair
      PROVE  DrawnInv'
  <2>1. /\ \A x \in Pair : Drawn(x) => Drawn(x)' /\ Root(x)' = Root(x)
        /\ Drawn(p)' /\ Root(p)' = root /\ Drawn(root)'
    BY <1>5, IssuesAreNew
  <2>2. /\ fresh' = fresh \cup {p} /\ jar' = jar
        /\ \A d \in Call : call'[d].cookies.pair = p \/ call'[d].cookies.pair = call[d].cookies.pair
    <3>1. fresh' = fresh \cup {p} /\ jar' = jar
      BY <1>5 DEF Issues
    <3>2. call'[c].cookies.pair = p /\ \A d \in Call \ {c} : call'[d] = call[d]
      BY <1>5, IssuesAreNew
    <3> QED
      BY <3>1, <3>2
  <2>3. /\ keys \cup fresh \cup void \subseteq Pair
        /\ \A x \in {jar.pair} \cup {call[d].cookies.pair : d \in Call} : x \in Pair \cup {Nil}
    BY DEF BrowserInv, BrowserTypeOK, Cookies, Exchange
  <2>4. \A x \in {jar'.pair} \cup {call'[d].cookies.pair : d \in Call} : x = Nil \/ Drawn(x)'
    BY <1>0, <2>1, <2>2, <2>3
  <2>5. \A x \in keys' \cup fresh' \cup void' : Drawn(x)'
    BY <1>0, <1>5, <2>1, <2>2, <2>3
  <2>6. \A x \in Pair : Drawn(x)' => Root(x)' \in Pair /\ Drawn(Root(x))'
    <3>1. ASSUME NEW x \in Pair, Drawn(x)' PROVE Root(x)' \in Pair /\ Drawn(Root(x))'
      <4>1. CASE x = p
        BY <2>1, <4>1 DEF Drawn
      <4>2. CASE x # p
        <5>1. PICK y \in Pair : Root(x)' = y /\ Drawn(y)
          BY <1>0, <1>5, <3>1, <4>2, IssuesAreNew
        <5>2. Drawn(y)'
          BY <2>1, <5>1
        <5> QED
          BY <5>1, <5>2 DEF Drawn
      <4> QED
        BY <4>1, <4>2
    <3> QED
      BY <3>1
  <2> QED
    BY <2>4, <2>5, <2>6
<1>6. ASSUME NEW c \in Call, NEW p \in Pair, NEW u \in Member, Rotates(c, p, u) PROVE DrawnInv'
  <2>1. /\ Issues(c, p, u, Root(call[c].cookies.pair), call[c].cookies.kept)
        /\ Root(call[c].cookies.pair) \in Pair /\ Drawn(Root(call[c].cookies.pair))
        /\ keys' \subseteq keys \cup {p} /\ void' = void /\ void \subseteq Pair
    BY <1>0, <1>6 DEF Rotates, BrowserInv, BrowserTypeOK
  <2> QED
    BY <1>0, <1>5, <2>1
<1>7. ASSUME NEW c \in Call, NEW p \in Pair, NEW u \in Member, NEW k \in BOOLEAN, Begins(c, p, u, k)
      PROVE  DrawnInv'
  BY <1>0, <1>5, <1>7 DEF Begins
<1>8. CASE Ends
  <2>1. \A c \in Call : call'[c].cookies.pair \in {Nil, call[c].cookies.pair}
    BY <1>0, <1>8 DEF Ends
  <2>2. jar'.pair \in {Nil, jar.pair} \cup {call[c].cookies.pair : c \in Call}
    BY <1>0, <1>8 DEF Ends
  <2> QED
    BY <1>1, <1>8, <2>1, <2>2 DEF Ends
<1>9. CASE Closes
  BY <1>0, <1>1, <1>9 DEF Closes, Server
<1>10. CASE fresh' \subseteq fresh /\ UNCHANGED <<jar, call, keys, void, minted, wish, over, mishap>>
  BY <1>0, <1>1, <1>10
<1> QED
  BY StepsMove, <1>2, <1>3, <1>4, <1>6, <1>7, <1>8, <1>9, <1>10 DEF Moves

LEMMA AnswersKept ==
    ASSUME BrowserInv, BrowserNext
    PROVE  AnswersInv'
<1> USE DEF AnswersInv
<1>0. /\ AnswersInv /\ call \in [Call -> Exchange] /\ Nil \notin Pair
      /\ ~Quiet.sets /\ Quiet.step = "idle" /\ Quiet.op = "profile"
  BY AskedTyped, NilAssumption DEF BrowserInv, BrowserTypeOK
<1>1. ASSUME NEW c \in Call, NEW q, Becomes(c, q), ~q.sets,
             q.step = "answered" => /\ q.op # "logout"
                                    /\ q.op \in {"refresh", "login", "change"} => ~q.ok
      PROVE  AnswersInv'
  <2>1. q.ok \in BOOLEAN /\ q.sets \in BOOLEAN
    BY <1>1 DEF Becomes, Exchange
  <2>2. call'[c] = q /\ \A d \in Call \ {c} : call'[d] = call[d]
    BY <1>0, <1>1 DEF Becomes
  <2> QED
    BY <1>0, <1>1, <2>1, <2>2 DEF Becomes
<1>2. ASSUME NEW c \in Call, Quietly(c) PROVE AnswersInv'
  BY <1>1, <1>2 DEF Quietly
<1>3. ASSUME NEW c \in Call, Lands(c) PROVE AnswersInv'
  BY <1>1, <1>3 DEF Lands
<1>4. ASSUME NEW c \in Call, LogsOut(c) PROVE AnswersInv'
  <2>1. PICK q : /\ Becomes(c, q) /\ q.sets /\ q.step = "answered" /\ q.op = "logout"
                 /\ q.cookies.pair = Nil
    BY <1>4 DEF LogsOut
  <2>2. call'[c] = q /\ \A d \in Call \ {c} : call'[d] = call[d]
    BY <1>0, <2>1 DEF Becomes
  <2> QED
    BY <1>0, <2>1, <2>2
<1>5. ASSUME NEW c \in Call, NEW p \in Pair, NEW u \in Member, NEW root, NEW k,
             Issues(c, p, u, root, k)
      PROVE  AnswersInv'
  <2>1. /\ call'[c].cookies.pair = p /\ call'[c].sets /\ call'[c].ok /\ call'[c].step = "answered"
        /\ call'[c].op \in {"refresh", "login", "change"}
        /\ call'[c].op = "login" => call'[c].user # Nil
        /\ \A d \in Call \ {c} : call'[d] = call[d]
    BY <1>5, IssuesAreNew
  <2>2. call'[c].sets \in BOOLEAN /\ call'[c].ok \in BOOLEAN
    BY BrowserTypesKept DEF BrowserTypeOK, Exchange
  <2> QED
    BY <1>0, <2>1, <2>2
<1>6. ASSUME NEW c \in Call, NEW p \in Pair, NEW u \in Member,
             Rotates(c, p, u) \/ \E k \in BOOLEAN : Begins(c, p, u, k)
      PROVE  AnswersInv'
  BY <1>5, <1>6 DEF Rotates, Begins
<1>7. CASE Ends
  BY <1>0, <1>7 DEF Ends
<1>8. CASE Closes
  BY <1>0, <1>8 DEF Closes
<1>9. CASE UNCHANGED call
  BY <1>0, <1>9
<1> QED
  BY StepsMove, <1>2, <1>3, <1>4, <1>6, <1>7, <1>8, <1>9 DEF Moves

LEMMA WishKept ==
    ASSUME BrowserInv, BrowserNext
    PROVE  WishInv'
<1> USE DEF WishInv, KeptAsWished
<1>0. /\ WishInv /\ call \in [Call -> Exchange] /\ wish \in [Pair -> BOOLEAN]
      /\ NoCookies.pair = Nil /\ Quiet.cookies = NoCookies
      /\ \A c \in Call : call[c].cookies.pair \in Pair \cup {Nil}
      /\ jar.pair \in Pair \cup {Nil}
  BY CookiesTyped, AskedTyped DEF BrowserInv, BrowserTypeOK, Exchange, Cookies
<1>1. ASSUME UNCHANGED <<minted, wish>>,
             jar' \in {NoCookies, jar} \cup {call[c].cookies : c \in Call},
             \A c \in Call : call'[c].cookies \in {NoCookies, jar'} \cup {call[d].cookies : d \in Call}
      PROVE  WishInv'
  <2>1. jar'.pair # Nil => jar'.kept = wish[Root(jar'.pair)]
    BY <1>0, <1>1
  <2>2. \A c \in Call : call'[c].cookies.pair # Nil =>
           call'[c].cookies.kept = wish[Root(call'[c].cookies.pair)]
    BY <1>0, <1>1, <2>1
  <2> QED
    BY <1>1, <2>1, <2>2 DEF Root
<1>2. ASSUME NEW c \in Call, Quietly(c) PROVE WishInv'
  BY <1>0, <1>1, <1>2 DEF Quietly, Becomes
<1>3. ASSUME NEW c \in Call, Lands(c) PROVE WishInv'
  BY <1>0, <1>1, <1>3 DEF Lands, Becomes, Server
<1>4. ASSUME NEW c \in Call, LogsOut(c) PROVE WishInv'
  <2>1. PICK q : Becomes(c, q) /\ q.cookies.pair = Nil
    BY <1>4 DEF LogsOut
  <2>2. call'[c].cookies.pair = Nil /\ \A d \in Call \ {c} : call'[d] = call[d]
    BY <1>0, <2>1 DEF Becomes
  <2> QED
    BY <1>0, <1>4, <2>2 DEF LogsOut, Root
<1>5. ASSUME NEW c \in Call, NEW p \in Pair, NEW u \in Member, NEW root \in Pair, NEW k,
             Issues(c, p, u, root, k), wish'[root] = k,
             \A x \in Pair \ {p} : wish'[x] = wish[x]
      PROVE  WishInv'
  <2>1. /\ \A x \in Pair : Drawn(x) => x # p /\ Root(x) # p /\ Root(x)' = Root(x)
        /\ Root(p)' = root /\ call'[c].cookies.pair = p /\ call'[c].cookies.kept = k
        /\ \A d \in Call \ {c} : call'[d] = call[d]
    BY <1>5, IssuesAreNew
  <2>2. \A x \in Pair : Drawn(x) => wish'[Root(x)'] = wish[Root(x)]
    BY <1>5, <2>1 DEF BrowserInv, DrawnInv
  <2>3. jar' = jar /\ (jar.pair # Nil => Drawn(jar.pair))
        /\ \A d \in Call : call[d].cookies.pair # Nil => Drawn(call[d].cookies.pair)
    BY <1>5 DEF Issues, BrowserInv, DrawnInv
  <2> QED
    BY <1>0, <1>5, <2>1, <2>2, <2>3
<1>6. ASSUME NEW c \in Call, NEW p \in Pair, NEW u \in Member, Rotates(c, p, u) PROVE WishInv'
  <2>1. /\ Issues(c, p, u, Root(call[c].cookies.pair), call[c].cookies.kept)
        /\ Root(call[c].cookies.pair) \in Pair /\ wish' = wish
        /\ call[c].cookies.pair # Nil
    BY <1>0, <1>6, NilAssumption DEF Rotates, BrowserInv, DrawnInv, BrowserTypeOK
  <2> QED
    BY <1>0, <1>5, <2>1
<1>7. ASSUME NEW c \in Call, NEW p \in Pair, NEW u \in Member, NEW k \in BOOLEAN, Begins(c, p, u, k)
      PROVE  WishInv'
  BY <1>0, <1>5, <1>7 DEF Begins
<1>8. CASE Ends
  BY <1>0, <1>1, <1>8 DEF Ends
<1>9. CASE Closes
  BY <1>0, <1>1, <1>9 DEF Closes, Server
<1>10. CASE UNCHANGED <<jar, call, minted, wish>>
  BY <1>0, <1>1, <1>10
<1> QED
  BY StepsMove, <1>2, <1>3, <1>4, <1>6, <1>7, <1>8, <1>9, <1>10 DEF Moves

LEMMA NewsKept ==
    ASSUME BrowserInv, BrowserNext
    PROVE  NewsInv'
<1> USE DEF NewsInv, Brings
<1>0. /\ NewsInv /\ call \in [Call -> Exchange] /\ Nil \notin Pair
      /\ NoCookies.pair = Nil /\ Quiet.cookies = NoCookies /\ ~Quiet.sets
  BY CookiesTyped, AskedTyped, NilAssumption DEF BrowserInv, BrowserTypeOK
<1>1. ASSUME NEW c \in Call, Quietly(c) PROVE NewsInv'
  BY <1>0, <1>1 DEF Quietly, Becomes
<1>2. ASSUME NEW c \in Call, Lands(c) PROVE NewsInv'
  <2>1. PICK q : Becomes(c, q) /\ ~q.sets /\ q.cookies \in {jar', NoCookies}
    BY <1>2 DEF Lands
  <2>2. call'[c] = q /\ \A d \in Call \ {c} : call'[d] = call[d]
    BY <1>0, <2>1 DEF Becomes
  <2>3. jar' = call[c].cookies
    BY <1>2 DEF Lands
  <2> QED
    BY <1>0, <2>1, <2>2, <2>3
<1>3. ASSUME NEW c \in Call, LogsOut(c) PROVE NewsInv'
  <2>1. PICK q : Becomes(c, q) /\ q.cookies.pair = Nil
    BY <1>3 DEF LogsOut
  <2>2. call'[c].cookies.pair = Nil /\ \A d \in Call \ {c} : call'[d] = call[d]
    BY <1>0, <2>1 DEF Becomes
  <2> QED
    BY <1>0, <1>3, <2>2 DEF LogsOut
<1>4. ASSUME NEW c \in Call, NEW p \in Pair, NEW u \in Member, NEW root, NEW k,
             Issues(c, p, u, root, k)
      PROVE  NewsInv'
  <2>1. /\ jar.pair # p /\ \A d \in Call : call[d].cookies.pair # p
        /\ call'[c].cookies.pair = p
        /\ \A d \in Call \ {c} : call'[d] = call[d]
    BY <1>4, IssuesAreNew
  <2>2. jar' = jar
    BY <1>4 DEF Issues
  <2> QED
    BY <1>0, <2>1, <2>2
<1>5. ASSUME NEW c \in Call, NEW p \in Pair, NEW u \in Member,
             Rotates(c, p, u) \/ \E k \in BOOLEAN : Begins(c, p, u, k)
      PROVE  NewsInv'
  BY <1>4, <1>5 DEF Rotates, Begins
<1>6. CASE Closes
  BY <1>0, <1>6 DEF Closes
<1>7. CASE UNCHANGED <<jar, call>>
  BY <1>0, <1>7
<1>8. CASE Ends
  <2>1. ASSUME NEW c \in Call, NEW p \in Pair, Brings(c, p)'
        PROVE  jar'.pair # p /\ \A d \in Call \ {c} : call'[d].cookies.pair # p
    <3>1. call'[c] = call[c] /\ call'[c] # Quiet /\ Brings(c, p)
      BY <1>0, <1>8, <2>1 DEF Ends
    <3>2. jar.pair # p /\ \A d \in Call \ {c} : call[d].cookies.pair # p
      BY <1>0, <3>1
    <3>3. \A d \in Call \ {c} : call'[d].cookies.pair # p
      BY <1>0, <1>8, <3>2 DEF Ends
    <3>4. jar'.pair # p
      BY <1>0, <1>8, <3>1, <3>2 DEF Ends
    <3> QED
      BY <3>3, <3>4
  <2> QED
    BY <2>1
<1> QED
  BY StepsMove, <1>1, <1>2, <1>3, <1>5, <1>6, <1>7, <1>8 DEF Moves

LEMMA OneKeyKept ==
    ASSUME BrowserInv, BrowserNext
    PROVE  OneKeyInv'
<1> USE DEF OneKeyInv
<1>0. OneKeyInv /\ \A p \in keys : Drawn(p) /\ p \in Pair
  BY DEF BrowserInv, BrowserTypeOK, DrawnInv
<1>1. ASSUME keys' \subseteq keys, UNCHANGED minted PROVE OneKeyInv'
  BY <1>0, <1>1 DEF Root
<1>2. ASSUME NEW c \in Call, NEW p \in Pair, NEW u \in Member, Rotates(c, p, u) PROVE OneKeyInv'
  <2> DEFINE old == call[c].cookies.pair
  <2>1. /\ Issues(c, p, u, Root(old), call[c].cookies.kept)
        /\ old \in keys /\ keys' = (keys \ {old}) \cup {p}
    BY <1>2 DEF Rotates
  <2>2. /\ \A x \in Pair : Drawn(x) => x # p /\ Root(x) # p /\ Root(x)' = Root(x)
        /\ Root(p)' = Root(old)
    BY <2>1, IssuesAreNew
  <2>3. \A x \in keys \ {old} : Root(x)' # Root(p)'
    BY <1>0, <2>1, <2>2
  <2> HIDE DEF old
  <2> QED
    BY <1>0, <2>1, <2>2, <2>3
<1>3. ASSUME NEW c \in Call, NEW p \in Pair, NEW u \in Member, NEW k \in BOOLEAN, Begins(c, p, u, k)
      PROVE  OneKeyInv'
  <2>1. Issues(c, p, u, p, k) /\ keys' = keys \cup {p}
    BY <1>3 DEF Begins
  <2>2. /\ \A x \in Pair : Drawn(x) => x # p /\ Root(x) # p /\ Root(x)' = Root(x)
        /\ Root(p)' = p
    BY <2>1, IssuesAreNew
  <2> QED
    BY <1>0, <2>1, <2>2
<1>4. CASE \E c \in Call : Quietly(c) \/ Lands(c) \/ LogsOut(c)
  BY <1>1, <1>4 DEF Quietly, Lands, LogsOut, Server
<1>5. CASE Ends \/ Closes
  BY <1>1, <1>5 DEF Ends, Closes, Server
<1>6. CASE UNCHANGED <<keys, minted>>
  BY <1>1, <1>6
<1> QED
  BY StepsMove, <1>2, <1>3, <1>4, <1>5, <1>6 DEF Moves

\* What a step leaves of the answers on their way.
LEMMA AliveKept ==
    ASSUME BrowserInv, BrowserNext
    PROVE  AliveInv' /\ SessionSurvivesTheTabs'
<1> USE DEF AliveInv, SessionSurvivesTheTabs, Brings
<1>0. /\ AliveInv /\ NewsInv /\ DrawnInv /\ AnswersInv /\ SessionSurvivesTheTabs /\ OneKeyInv
      /\ call \in [Call -> Exchange] /\ Nil \notin Pair /\ keys \subseteq Pair /\ void \subseteq Pair
      /\ ~Quiet.sets /\ \A p \in keys \cup void : Drawn(p)
      /\ jar.pair \in Pair \cup {Nil}
      /\ jar.pair # Nil => Drawn(jar.pair)
  BY AskedTyped, NilAssumption DEF BrowserInv, BrowserTypeOK, DrawnInv, Cookies
<1>a. /\ \A p : p \in Incoming <=> \E c \in Call : Brings(c, p)
      /\ \A p : p \in Incoming' <=> \E c \in Call : Brings(c, p)'
  BY DEF Incoming
<1>1. CASE mishap'
  BY <1>1
<1>2. ASSUME NEW c \in Call, Quietly(c), ~mishap' PROVE AliveInv' /\ SessionSurvivesTheTabs'
  <2>1. /\ ~mishap /\ jar' = jar /\ minted' = minted /\ over' = over /\ void' = void
        /\ keys' \subseteq keys /\ keys \ void = keys' \ void
    BY <1>2 DEF Quietly
  <2>2. \A d \in Call : \A p : Brings(d, p)' <=> Brings(d, p)
    <3>1. PICK q : Becomes(c, q) /\ ~q.sets /\ ~call[c].sets
      BY <1>2 DEF Quietly
    <3>2. call'[c] = q /\ \A d \in Call \ {c} : call'[d] = call[d]
      BY <1>0, <3>1 DEF Becomes
    <3> QED
      BY <3>1, <3>2
  <2>3. \A p : p \in Incoming' <=> p \in Incoming
    <3> HIDE DEF Brings
    <3> QED
      BY <1>a, <2>2
  <2>4. SessionSurvivesTheTabs'
    BY <1>0, <2>1, <2>3
  <2>5. AliveInv'
    <3> HIDE DEF Brings
    <3>1. \A d \in Call, p \in Pair : Brings(d, p)' => p \in keys' \ void'
      BY <1>0, <2>1, <2>2
    <3>2. \A p \in keys' : jar'.pair # Nil /\ Root(p)' = Root(jar.pair)' =>
              p = jar'.pair \/ \E d \in Call : Brings(d, p)'
      BY <1>0, <2>1, <2>2 DEF Root
    <3> QED
      BY <3>1, <3>2
  <2> QED
    BY <2>4, <2>5
<1>3. ASSUME NEW c \in Call, Lands(c), ~mishap' PROVE AliveInv' /\ SessionSurvivesTheTabs'
  <2> DEFINE got == call[c].cookies.pair
  <2>1. /\ ~mishap /\ UNCHANGED <<keys, void, minted>> /\ Brings(c, got) /\ jar'.pair = got
        /\ over' = (got = Nil)
    BY <1>3 DEF Lands, Server
  <2>2. \A d \in Call : \A p : Brings(d, p)' => Brings(d, p)
    <3>1. PICK q : Becomes(c, q) /\ ~q.sets
      BY <1>3 DEF Lands
    <3>2. call'[c] = q /\ \A d \in Call \ {c} : call'[d] = call[d]
      BY <1>0, <3>1 DEF Becomes
    <3> QED
      BY <3>1, <3>2
  <2>3. got \in Pair \cup {Nil}
    BY DEF BrowserInv, BrowserTypeOK, Exchange, Cookies
  <2>4. got # Nil => got \in keys \ void
    BY <1>0, <2>1, <2>3
  <2> HIDE DEF got
  <2>5. SessionSurvivesTheTabs'
    BY <1>0, <2>1, <2>3, <2>4
  <2>6. \A p \in keys' : got # Nil /\ Root(p) = Root(got) => p = got
    BY <1>0, <2>1, <2>4 DEF OneKeyInv
  <2> QED
    BY <1>0, <2>1, <2>2, <2>5, <2>6 DEF Root
<1>4. ASSUME NEW c \in Call, LogsOut(c), ~mishap' PROVE AliveInv' /\ SessionSurvivesTheTabs'
  <2>1. /\ ~mishap /\ UNCHANGED <<jar, void, minted>> /\ keys' = keys \ {call[c].cookies.pair}
        /\ ~call[c].sets
    BY <1>4 DEF LogsOut
  <2>2. /\ call'[c].step = "answered" /\ call'[c].sets /\ call'[c].cookies.pair = Nil
        /\ \A d \in Call \ {c} : call'[d] = call[d]
    <3>1. PICK q : Becomes(c, q) /\ q.sets /\ q.step = "answered" /\ q.cookies.pair = Nil
      BY <1>4 DEF LogsOut
    <3> QED
      BY <1>0, <3>1 DEF Becomes
  <2>3. \A d \in Call, p \in Pair : Brings(d, p)' <=> Brings(d, p)
    BY <1>0, <2>1, <2>2
  <2>4. Nil \in Incoming'
    BY <1>a, <2>2
  <2>5. \A d \in Call, p \in Pair : Brings(d, p) => p # call[c].cookies.pair
    BY <1>0, <2>1 DEF NewsInv
  <2> QED
    BY <1>0, <2>1, <2>3, <2>4, <2>5 DEF Root
<1>5. ASSUME NEW c \in Call, NEW p \in Pair, NEW u \in Member, Rotates(c, p, u), ~mishap'
      PROVE  AliveInv' /\ SessionSurvivesTheTabs'
  <2> DEFINE old == call[c].cookies.pair
  <2>1. /\ Issues(c, p, u, Root(old), call[c].cookies.kept) /\ old \in keys \ void
        /\ keys' = (keys \ {old}) \cup {p} /\ ~mishap /\ UNCHANGED void
    BY <1>5 DEF Rotates
  <2>2. /\ p \notin keys /\ p \notin void /\ ~call[c].sets
        /\ \A x \in Pair : Drawn(x) => x # p /\ Root(x) # p /\ Root(x)' = Root(x)
        /\ Root(p)' = Root(old)
        /\ call'[c].cookies.pair = p /\ call'[c].sets /\ call'[c].step = "answered"
        /\ \A d \in Call \ {c} : call'[d] = call[d]
    BY <2>1, IssuesAreNew
  <2>3. jar' = jar
    BY <2>1 DEF Issues
  <2>4. p \in Incoming' /\ p \in keys' \ void'
    BY <1>a, <2>1, <2>2
  <2>5. \A d \in Call, x \in Pair : Brings(d, x)' <=> Brings(d, x) \/ (d = c /\ x = p)
    BY <1>0, <2>2
  <2>6. \A d \in Call, x \in Pair : Brings(d, x) => x \in keys \ void /\ x # old
    BY <1>0, <2>1, <2>2 DEF NewsInv
  <2> HIDE DEF old
  <2>7. \A d \in Call, x \in Pair : Brings(d, x)' => x \in keys' \ void'
    BY <2>1, <2>4, <2>5, <2>6
  <2>8. ASSUME NEW x \in keys', jar'.pair # Nil, Root(x)' = Root(jar.pair)'
        PROVE  x = jar'.pair \/ \E d \in Call : Brings(d, x)'
    <3>1. Root(jar.pair)' = Root(jar.pair)
      BY <1>0, <2>2, <2>3, <2>8 DEF Root
    <3>2. CASE x = p
      BY <2>5, <3>2
    <3>3. CASE x # p
      <4>1. x \in keys /\ Root(x) = Root(jar.pair)
        BY <1>0, <2>1, <2>2, <2>8, <3>1, <3>3
      <4> QED
        BY <1>0, <2>1, <2>3, <2>5, <2>8, <4>1
    <3> QED
      BY <3>2, <3>3
  <2> QED
    BY <2>4, <2>7, <2>8
<1>6. ASSUME NEW c \in Call, NEW p \in Pair, NEW u \in Member, NEW k \in BOOLEAN, Begins(c, p, u, k),
             ~mishap'
      PROVE  AliveInv' /\ SessionSurvivesTheTabs'
  <2>1. /\ Issues(c, p, u, p, k) /\ keys' = keys \cup {p} /\ ~mishap
        /\ void' = void \/ Incoming = {}
        /\ \A x \in void' : Drawn(x) /\ x \in Pair
    <3>1. Issues(c, p, u, p, k) /\ keys' = keys \cup {p}
      BY <1>6 DEF Begins
    <3>2. \A x \in void' : Drawn(x) /\ x \in Pair
      BY <1>6 DEF Begins
    <3>3. CASE UNCHANGED <<void, mishap>>
      BY <1>6, <3>1, <3>2, <3>3
    <3>4. CASE mishap' = (mishap \/ Incoming # {})
      BY <1>6, <3>1, <3>2, <3>4
    <3> QED
      BY <1>6, <3>3, <3>4 DEF Begins
  <2>2. /\ p \notin keys /\ ~call[c].sets
        /\ \A x \in Pair : Drawn(x) => x # p /\ Root(x) # p /\ Root(x)' = Root(x)
        /\ Root(p)' = p
        /\ call'[c].cookies.pair = p /\ call'[c].sets /\ call'[c].step = "answered"
        /\ \A d \in Call \ {c} : call'[d] = call[d]
    BY <2>1, IssuesAreNew
  <2>3. jar' = jar
    BY <2>1 DEF Issues
  <2>4. p \in Incoming' /\ p \in keys' \ void'
    BY <1>a, <2>1, <2>2
  <2>5. \A d \in Call, x \in Pair : Brings(d, x)' <=> Brings(d, x) \/ (d = c /\ x = p)
    BY <1>0, <2>2
  <2>6. \A d \in Call, x \in Pair : Brings(d, x) => x \in keys \ void /\ void' = void
    BY <1>0, <1>a, <2>1
  <2>7. \A d \in Call, x \in Pair : Brings(d, x)' => x \in keys' \ void'
    <3> HIDE DEF Brings
    <3> QED
      BY <2>1, <2>4, <2>5, <2>6
  <2>8. ASSUME NEW x \in keys', jar'.pair # Nil, Root(x)' = Root(jar.pair)'
        PROVE  x = jar'.pair \/ \E d \in Call : Brings(d, x)'
    <3>1. Root(jar.pair)' = Root(jar.pair)
      BY <1>0, <2>2, <2>3, <2>8 DEF Root
    <3>2. CASE x = p
      BY <2>5, <3>2
    <3>3. CASE x # p
      <4>1. x \in keys /\ Root(x) = Root(jar.pair)
        BY <1>0, <2>1, <2>2, <2>8, <3>1, <3>3
      <4> QED
        BY <1>0, <2>1, <2>3, <2>5, <2>8, <4>1
    <3> QED
      BY <3>2, <3>3
  <2> QED
    BY <2>4, <2>7, <2>8
<1>7. CASE Ends
  BY <1>1, <1>7 DEF Ends
<1>8. CASE Closes /\ ~mishap'
  <2>1. /\ ~mishap /\ UNCHANGED <<keys, void, minted>> /\ \A c \in Call : call[c].step = "idle"
        /\ \A c \in Call : ~call'[c].sets
        /\ (jar' = jar /\ over' = over) \/ (jar' = NoCookies /\ over')
    BY <1>0, <1>8 DEF Closes, Server
  <2>2. \A c \in Call : \A p : ~Brings(c, p) /\ ~Brings(c, p)'
    BY <2>1
  <2>3. CASE jar' = jar /\ over' = over
    <3>1. \A p : p \notin Incoming /\ p \notin Incoming'
      BY <1>a, <2>2
    <3> QED
      BY <1>0, <2>1, <2>2, <2>3, <3>1 DEF Root
  <2>4. CASE jar' = NoCookies /\ over'
    BY <2>1, <2>2, <2>4, CookiesTyped
  <2> QED
    BY <2>1, <2>3, <2>4
<1>9. CASE UNCHANGED <<jar, call, keys, void, minted, wish, over, mishap>>
  <2>1. Incoming' = Incoming
    BY <1>9 DEF Incoming
  <2>2. SessionSurvivesTheTabs'
    BY <1>0, <1>9, <2>1
  <2>3. AliveInv'
    BY <1>0, <1>9 DEF Root
  <2> QED
    BY <2>2, <2>3
<1> QED
  BY StepsMove, <1>1, <1>2, <1>3, <1>4, <1>5, <1>6, <1>7, <1>8, <1>9 DEF Moves

LEMMA BrowserKept == BrowserInv /\ [BrowserNext]_browserVars => BrowserInv'
<1>1. ASSUME BrowserInv, BrowserNext PROVE BrowserInv'
  BY <1>1, BrowserTypesKept, DrawnKept, AnswersKept, WishKept, NewsKept, OneKeyKept, AliveKept
     DEF BrowserInv
<1>2. ASSUME BrowserInv, UNCHANGED browserVars PROVE BrowserInv'
  BY <1>2 DEF browserVars, BrowserInv, BrowserTypeOK, DrawnInv, AnswersInv, WishInv, KeptAsWished, NewsInv,
     OneKeyInv, AliveInv, SessionSurvivesTheTabs, Incoming, Brings, Drawn, Root
<1> QED
  BY <1>1, <1>2

LEMMA BrowserBegins == BrowserInit => BrowserInv
<1> SUFFICES ASSUME BrowserInit PROVE BrowserInv
  OBVIOUS
<1>0. /\ jar = NoCookies /\ \A c \in Call : call[c] = Quiet
      /\ keys = {} /\ fresh = {} /\ void = {} /\ over = TRUE /\ mishap = FALSE
      /\ \A p \in Pair : ~Drawn(p)
      /\ ~Quiet.sets /\ Quiet.step = "idle" /\ Quiet.op = "profile" /\ Quiet.cookies = NoCookies
      /\ NoCookies.pair = Nil
  BY AskedTyped, CookiesTyped DEF BrowserInit, Drawn
<1>1. BrowserTypeOK
  <2>1. minted \in [Pair -> Issue]
    BY DEF BrowserInit, Issue
  <2> QED
    BY <2>1, AskedTyped, CookiesTyped DEF BrowserInit, BrowserTypeOK
<1>2. DrawnInv /\ AnswersInv
  BY <1>0 DEF DrawnInv, AnswersInv
<1>3. WishInv /\ NewsInv
  BY <1>0 DEF WishInv, KeptAsWished, NewsInv, Brings
<1>4. OneKeyInv /\ AliveInv /\ SessionSurvivesTheTabs
  BY <1>0 DEF OneKeyInv, AliveInv, SessionSurvivesTheTabs, Brings
<1> QED
  BY <1>1, <1>2, <1>3, <1>4 DEF BrowserInv

\* Of the tabs that refresh at once all but one are refused, and a refusal clears no
\* cookie (auth.controller.ts, auth-context.tsx): for any number of tabs, calls and
\* sign-ins, the browser keeps a session that can be refreshed until it is signed out,
\* unless an answer was lost or the account had its sessions ended.  And its cookies are
\* kept beyond the browser as its member answered at sign-in, through every rotation and
\* change of password (setTokenCookies of auth.controller.ts).
THEOREM TabsKeepTheSession == BrowserSpec => []SessionIsKept
<1>1. BrowserInv => SessionIsKept
  BY DEF BrowserInv, WishInv, SessionIsKept
<1> QED
  BY <1>1, BrowserBegins, BrowserKept, PTL DEF BrowserSpec

\* A logout with the cookies of the jar takes the one refresh token of its session, whatever
\* the access token is worth, unless an answer brings another (AuthController.logout).
THEOREM LogoutIsTheEnd == BrowserSpec => LogoutEndsTheSession
<1>1. ASSUME BrowserInv, BrowserNext, NEW c \in Call,
             AtServer(c, "logout"), call'[c].step = "answered", call[c].cookies = jar,
             jar.pair # Nil, ~mishap
      PROVE  \A p \in keys' : Root(p) = Root(jar.pair) => p \in Incoming'
  <2>0. /\ call \in [Call -> Exchange] /\ Quiet.step = "idle"
        /\ call[c].step = "sent" /\ call[c].op = "logout"
    BY <1>1, AskedTyped DEF BrowserInv, BrowserTypeOK, AtServer
  <2>1. ASSUME NEW d \in Call, d # c, \E q : call' = [call EXCEPT ![d] = q] PROVE FALSE
    BY <1>1, <2>0, <2>1
  <2>2. ASSUME NEW d \in Call, NEW t \in Tab,
               \/ FetchProfile(d, t) \/ SignOut(d, t) \/ ChangePassword(d, t) \/ DeleteAccount(d, t)
               \/ \E u \in Member, keep \in BOOLEAN : SignIn(d, t, u, keep)
        PROVE  FALSE
    <3>1. PICK q : Send(d, q)
      BY <2>2 DEF FetchProfile, SignOut, ChangePassword, DeleteAccount, SignIn
    <3>2. call[d].step = "idle" /\ call' = [call EXCEPT ![d] = q]
      BY <3>1 DEF Send, Proceed
    <3> QED
      BY <2>0, <2>1, <3>2
  <2>3. ASSUME NEW d \in Call, Serve(d) PROVE d = c /\ ServeLogout(c)
    <3>1. \E q : call' = [call EXCEPT ![d] = q]
      BY <2>3 DEF Serve, ServeProfile, ServeRefresh, ServeLogin, ServeLogout, ServeChange, ServeDelete,
         Proceed, Answer, AnswerWith
    <3>2. d = c
      BY <2>1, <3>1
    <3> QED
      BY <2>0, <2>3, <3>2 DEF Serve, ServeProfile, ServeRefresh, ServeLogin, ServeChange, ServeDelete,
         AtServer
  <2>4. ASSUME NEW d \in Call, Arrive(d) \/ Lose(d) PROVE FALSE
    <3>1. \E q : call' = [call EXCEPT ![d] = q]
      BY <2>4 DEF Arrive, ProfileArrives, RefreshArrives, LoginArrives, LogoutArrives, ChangeArrives,
         DeleteArrives, Lose, Proceed, Conclude
    <3>2. d = c
      BY <2>1, <3>1
    <3>3. CASE Arrive(c)
      BY <2>0, <3>3 DEF Arrive, ProfileArrives, RefreshArrives, LoginArrives, LogoutArrives,
         ChangeArrives, DeleteArrives, Arrived
    <3>4. CASE Lose(c)
      <4>1. call'[c] = Quiet
        BY <2>0, <3>4 DEF Lose, Conclude, Proceed
      <4> QED
        BY <1>1, <2>0, <4>1
    <3> QED
      BY <2>4, <3>2, <3>3, <3>4
  <2>5. ~(UNCHANGED call) /\ ~Reopen
    BY <1>1, <2>0 DEF Reopen
  <2>6. ServeLogout(c)
    BY <1>1, <2>2, <2>3, <2>4, <2>5 DEF BrowserNext, AccessExpires, Revoke
  <2>7. /\ keys' = keys \ {jar.pair} /\ ~call[c].sets
        /\ call' = [call EXCEPT ![c] = ServedWith(c, [pair |-> Nil, kept |-> FALSE])]
    BY <1>1, <2>0, <2>6 DEF ServeLogout, AnswerWith, Proceed, ServedWith, BrowserInv, AnswersInv
  <2>8. ASSUME NEW p \in keys', Root(p) = Root(jar.pair) PROVE p \in Incoming'
    <3>1. p \in keys /\ p # jar.pair
      BY <2>7
    <3>2. PICK d \in Call : Brings(d, p)
      BY <1>1, <2>8, <3>1 DEF BrowserInv, AliveInv
    <3>3. d # c /\ call'[d] = call[d]
      BY <2>0, <2>7, <3>2 DEF Brings
    <3> QED
      BY <3>2, <3>3 DEF Brings, Incoming
  <2> QED
    BY <2>8
<1>2. BrowserInv /\ [BrowserNext]_browserVars =>
         [\A c \in Call :
            AtServer(c, "logout") /\ call'[c].step = "answered" /\ call[c].cookies = jar
            /\ jar.pair # Nil /\ ~mishap
            => \A p \in keys' : Root(p) = Root(jar.pair) => p \in Incoming']_browserVars
  BY <1>1
<1> QED
  BY <1>2, BrowserBegins, BrowserKept, PTL DEF BrowserSpec, LogoutEndsTheSession

=============================================================================
