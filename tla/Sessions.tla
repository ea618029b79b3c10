------------------------------ MODULE Sessions ------------------------------
(***************************************************************************)
(* Sessions of the Navventura API: the account row (status, tokenVersion), *)
(* the registry of refresh tokens (RefreshTokenStore, Redis or process     *)
(* memory) and the handlers of auth.service.ts and admin.service.ts that   *)
(* issue, rotate and revoke sessions.                                      *)
(*                                                                         *)
(* A handler is asynchronous: it can be overtaken by any other one at each *)
(* await.  It is modelled by a record req[r] that holds what the handler   *)
(* read so far, and by one action per await whose order matters.           *)
(***************************************************************************)
EXTENDS Naturals

CONSTANTS
    User,        \* accounts
    Jti,         \* refresh token identifiers (randomUUID, never drawn twice)
    NoJti,       \* "this session was not born from a rotation"
    Req,         \* handlers that can be in flight at once
    MaxVersion,  \* bound on tokenVersion
    SharedStore  \* TRUE: the registry is in Redis; FALSE: in process memory

ASSUME NoJtiAssumption == NoJti \notin Jti
ASSUME MaxVersionAssumption == MaxVersion \in Nat
ASSUME SharedStoreAssumption == SharedStore \in BOOLEAN

VARIABLES
    status,     \* User.status, or "GONE" once the row is deleted
    version,    \* User.tokenVersion
    password,   \* User.passwordHash: flips each time a new hash is written
    store,      \* keys session:refresh:<user>:<jti> of the registry
    issued,     \* token pairs ever handed to a client
    partial,    \* partial tokens (typ "totp") ever handed to a client
    req         \* handlers in flight

vars == <<status, version, password, store, issued, partial, req>>

-----------------------------------------------------------------------------
(* Types *)

Status == {"ACTIVE", "BANNED", "GONE"}
Version == 0..MaxVersion
Origin == {"login", "totp", "refresh", "change"}

\* A pair (access token, refresh token): both carry sub and ver.  The fields
\* via, checked and parent are not in the code's payload, they remember which
\* handler issued the pair, the tokenVersion the row had when the holder's
\* credentials were checked, and the refresh token it was rotated from.
Token == [sub: User, ver: Version, jti: Jti,
          via: Origin, checked: Version, parent: Jti \cup {NoJti}]

PartialToken == [sub: User, ver: Version]

Handler == [pc: {"idle", "consumed", "sign", "changing", "changed",
                 "banning", "unbanning"},
            sub: User, ver: Version, via: Origin, checked: Version,
            parent: Jti \cup {NoJti}]

TypeOK ==
    /\ status \in [User -> Status]
    /\ version \in [User -> Version]
    /\ password \in [User -> BOOLEAN]
    /\ store \subseteq User \X Jti
    /\ issued \subseteq Token
    /\ partial \subseteq PartialToken
    /\ req \in [Req -> Handler]

-----------------------------------------------------------------------------
(* Helpers *)

Exists(u) == status[u] # "GONE"

\* What JwtAuthGuard asks of an access token and refreshTokens of a refresh
\* token, once the signature is verified.
Honoured(t) == status[t.sub] = "ACTIVE" /\ t.ver = version[t.sub]

Idle(r) == req[r].pc = "idle"
At(r, pc) == req[r].pc = pc
Become(r, h) == req' = [req EXCEPT ![r] = h]
Goto(r, pc) == req' = [req EXCEPT ![r].pc = pc]

\* A handler at pc for account u.
HandlerAt(pc, u, v, via, checked, parent) ==
    [pc |-> pc, sub |-> u, ver |-> v, via |-> via, checked |-> checked,
     parent |-> parent]

IdleHandler(u) == HandlerAt("idle", u, 0, "login", 0, NoJti)
Finish(r) == Become(r, IdleHandler(req[r].sub))

Row == <<status, version, password>>

-----------------------------------------------------------------------------
(* Login *)

\* login(): the row is read once, and every later check (password, lock-out,
\* BANNED, e-mail verified) and the signature use that copy.  Whether the row
\* has two-factor authentication on is decided elsewhere: without it the
\* handler goes on to sign, with it the client gets a partial token.
Login(r, u) ==
    /\ Idle(r)
    /\ status[u] = "ACTIVE"
    /\ \/ /\ Become(r, HandlerAt("sign", u, version[u], "login", version[u], NoJti))
          /\ UNCHANGED partial
       \/ /\ partial' = partial \cup {[sub |-> u, ver |-> version[u]]}
          /\ UNCHANGED req
    /\ UNCHANGED <<Row, store, issued>>

\* verifyTotpLogin(): the partial token stands for the password only while the
\* row still has the version it was issued at.
VerifyTotpLogin(r, p) ==
    /\ Idle(r)
    /\ status[p.sub] = "ACTIVE"
    /\ version[p.sub] = p.ver
    /\ Become(r, HandlerAt("sign", p.sub, version[p.sub], "totp", p.ver, NoJti))
    /\ UNCHANGED <<Row, store, issued, partial>>

\* Mutant: the version is read again when the tokens are signed.
GenerateTokensFresh(r) ==
    /\ At(r, "sign")
    /\ \E j \in Jti :
        /\ \A t \in issued : t.jti # j
        /\ store' = store \cup {<<req[r].sub, j>>}
        /\ issued' = issued \cup
             {[sub |-> req[r].sub, ver |-> version[req[r].sub], jti |-> j,
               via |-> req[r].via, checked |-> req[r].checked,
               parent |-> req[r].parent]}
    /\ Finish(r)
    /\ UNCHANGED <<Row, partial>>

\* generateTokens(): sign the pair with the version the handler read, register
\* the new jti, answer.
GenerateTokens(r) ==
    /\ At(r, "sign")
    /\ \E j \in Jti :
        /\ \A t \in issued : t.jti # j
        /\ store' = store \cup {<<req[r].sub, j>>}
        /\ issued' = issued \cup
             {[sub |-> req[r].sub, ver |-> req[r].ver, jti |-> j,
               via |-> req[r].via, checked |-> req[r].checked,
               parent |-> req[r].parent]}
    /\ Finish(r)
    /\ UNCHANGED <<Row, partial>>

-----------------------------------------------------------------------------
(* Rotation and logout *)

\* Mutant: GET instead of GETDEL, the key is left in the registry.
ConsumeKeepingKey(r, t) ==
    /\ Idle(r)
    /\ <<t.sub, t.jti>> \in store
    /\ Become(r, HandlerAt("consumed", t.sub, t.ver, "refresh", t.ver, t.jti))
    /\ UNCHANGED <<Row, store, issued, partial>>

\* refreshTokens(), first await: check and remove the key in one command.
\* A token whose key is absent is refused and nothing changes.
ConsumeRefreshToken(r, t) ==
    /\ Idle(r)
    /\ <<t.sub, t.jti>> \in store
    /\ store' = store \ {<<t.sub, t.jti>>}
    /\ Become(r, HandlerAt("consumed", t.sub, t.ver, "refresh", t.ver, t.jti))
    /\ UNCHANGED <<Row, issued, partial>>

\* refreshTokens(), second await: the row is read and must be active, at the
\* version of the token.  Otherwise 401, and the consumed key stays consumed.
RefreshReadUser(r) ==
    /\ At(r, "consumed")
    /\ LET u == req[r].sub IN
       IF status[u] = "ACTIVE" /\ version[u] = req[r].ver
       THEN Goto(r, "sign")
       ELSE Finish(r)
    /\ UNCHANGED <<Row, store, issued, partial>>

\* logout(): a public route, removes the key of the presented token.
Logout(t) ==
    /\ store' = store \ {<<t.sub, t.jti>>}
    /\ UNCHANGED <<Row, issued, partial, req>>

\* The TTL of a key of the registry.
ExpireKey(k) ==
    /\ store' = store \ {k}
    /\ UNCHANGED <<Row, issued, partial, req>>

-----------------------------------------------------------------------------
(* Password change and reset *)

\* POST change-password: the guard lets the request in, then changePassword()
\* reads the row and verifies the current password against that copy.
ChangePasswordStart(r, t) ==
    /\ Idle(r)
    /\ Honoured(t)
    /\ Become(r, HandlerAt("changing", t.sub, t.ver, "change", version[t.sub], NoJti))
    /\ UNCHANGED <<Row, store, issued, partial>>

\* changePassword(): after the new hash is computed, the row is updated by id,
\* whatever it has become in between.
ChangePasswordCommit(r) ==
    /\ At(r, "changing")
    /\ LET u == req[r].sub IN
       /\ Exists(u)
       /\ version[u] < MaxVersion
       /\ version' = [version EXCEPT ![u] = @ + 1]
       /\ password' = [password EXCEPT ![u] = ~@]
    /\ Goto(r, "changed")
    /\ UNCHANGED <<status, store, issued, partial>>

\* issueSession(): the controller reads the row again, status not included.
IssueSession(r) ==
    /\ At(r, "changed")
    /\ LET u == req[r].sub IN
       /\ Exists(u)
       /\ Become(r, HandlerAt("sign", u, version[u], "change", req[r].checked, NoJti))
    /\ UNCHANGED <<Row, store, issued, partial>>

\* Mutant: the reset writes the new hash and forgets the version.
ResetWithoutBump(u) ==
    /\ Exists(u)
    /\ version[u] < MaxVersion
    /\ password' = [password EXCEPT ![u] = ~@]
    /\ UNCHANGED <<status, version, store, issued, partial, req>>

\* resetPassword(): the transaction that writes the new hash.  The e-mail
\* token that opens it belongs to another component.
ResetPassword(u) ==
    /\ Exists(u)
    /\ version[u] < MaxVersion
    /\ version' = [version EXCEPT ![u] = @ + 1]
    /\ password' = [password EXCEPT ![u] = ~@]
    /\ UNCHANGED <<status, store, issued, partial, req>>

-----------------------------------------------------------------------------
(* Administration *)

\* banUser() and unbanUser(): the row is read and checked, then updated by id.
BanCheck(r, u) ==
    /\ Idle(r)
    /\ status[u] = "ACTIVE"
    /\ Become(r, HandlerAt("banning", u, 0, "login", 0, NoJti))
    /\ UNCHANGED <<Row, store, issued, partial>>

BanCommit(r) ==
    /\ At(r, "banning")
    /\ LET u == req[r].sub IN
       /\ Exists(u)
       /\ version[u] < MaxVersion
       /\ status' = [status EXCEPT ![u] = "BANNED"]
       /\ version' = [version EXCEPT ![u] = @ + 1]
    /\ Finish(r)
    /\ UNCHANGED <<password, store, issued, partial>>

UnbanCheck(r, u) ==
    /\ Idle(r)
    /\ status[u] = "BANNED"
    /\ Become(r, HandlerAt("unbanning", u, 0, "login", 0, NoJti))
    /\ UNCHANGED <<Row, store, issued, partial>>

UnbanCommit(r) ==
    /\ At(r, "unbanning")
    /\ Exists(req[r].sub)
    /\ status' = [status EXCEPT ![req[r].sub] = "ACTIVE"]
    /\ Finish(r)
    /\ UNCHANGED <<version, password, store, issued, partial>>

\* The last step of AccountDeletionService.purge(): the row goes, the keys of
\* the registry stay until they expire.
DeleteUser(u) ==
    /\ Exists(u)
    /\ status' = [status EXCEPT ![u] = "GONE"]
    /\ UNCHANGED <<version, password, store, issued, partial, req>>

-----------------------------------------------------------------------------
(* Failures *)

\* A handler throws at any await: refused by a check, row gone, database or
\* Redis unreachable.  What it already did stays done.
Fail(r) ==
    /\ ~Idle(r)
    /\ Finish(r)
    /\ UNCHANGED <<Row, store, issued, partial>>

\* The API process restarts.  Handlers in flight are lost; so is the registry
\* when it lives in process memory.
Restart ==
    /\ req' = [r \in Req |-> IdleHandler(req[r].sub)]
    /\ store' = IF SharedStore THEN store ELSE {}
    /\ UNCHANGED <<Row, issued, partial>>

-----------------------------------------------------------------------------
Init ==
    /\ status = [u \in User |-> "ACTIVE"]
    /\ version = [u \in User |-> 0]
    /\ password = [u \in User |-> FALSE]
    /\ store = {}
    /\ issued = {}
    /\ partial = {}
    /\ \E u \in User : req = [r \in Req |-> IdleHandler(u)]

HandlerStep(r) ==
    \/ \E u \in User : (Login(r, u) \/ BanCheck(r, u) \/ UnbanCheck(r, u))
    \/ \E p \in partial : VerifyTotpLogin(r, p)
    \/ \E t \in issued : (ConsumeRefreshToken(r, t) \/ ChangePasswordStart(r, t))
    \/ GenerateTokens(r)
    \/ RefreshReadUser(r)
    \/ ChangePasswordCommit(r)
    \/ IssueSession(r)
    \/ BanCommit(r)
    \/ UnbanCommit(r)
    \/ Fail(r)

Next ==
    \/ \E r \in Req : HandlerStep(r)
    \/ \E t \in issued : Logout(t)
    \/ \E k \in store : ExpireKey(k)
    \/ \E u \in User : (ResetPassword(u) \/ DeleteUser(u))
    \/ Restart

Spec == Init /\ [][Next]_vars

-----------------------------------------------------------------------------
(* Properties *)

\* RefreshTokenStore: "each refresh token can be used exactly once
\* (rotation)".  However refreshes, logouts, expiries and restarts interleave,
\* no refresh token has two successors.
RotateOnce ==
    \A t1, t2 \in issued :
        t1.parent = t2.parent /\ t1.sub = t2.sub /\ t1.parent # NoJti => t1 = t2

\* A login, a two-factor login or a rotation that was overtaken by a password
\* change, a reset or a ban hands out a session that is dead on arrival: one
\* that is honoured was authenticated at the row's present version.
StaleAuthorityIsDead ==
    \A t \in issued :
        t.via # "change" /\ Honoured(t) => t.checked = version[t.sub]

\* resetPassword: "nothing issued before survives"; changePassword: "every
\* other session dies with the old password"; banUser: "invalidate every
\* access and refresh token the user still holds".  A step that changes the
\* password or bans kills all sessions issued so far, and no later step
\* (unban included) brings one back.
SessionsDieForGood ==
    [][\A t \in issued :
        \/ t.ver # version[t.sub]
        \/ password'[t.sub] # password[t.sub]
        \/ status[t.sub] # "BANNED" /\ status'[t.sub] = "BANNED"
        => t.ver # version'[t.sub]]_vars

=============================================================================
