------------------------------- MODULE Browser -------------------------------
(***************************************************************************)
(* One browser and its session: the cookies that all its tabs share, the   *)
(* calls of auth-context.tsx that are under way, and what the handlers of  *)
(* auth.controller.ts do to the registry of refresh tokens and send back   *)
(* as cookies.                                                             *)
(*                                                                         *)
(* A call takes the cookies of the jar when it leaves; the server answers  *)
(* it in one step (Sessions has the steps of a handler); the cookies of    *)
(* the answer enter the jar when it arrives.  Calls of all the tabs        *)
(* overlap, and any of them may be lost on the way out or on the way back. *)
(***************************************************************************)
EXTENDS Naturals, FiniteSets

CONSTANTS
    Tab, Call, Member,
    Pair,  \* access and refresh token, issued together
    Nil

ASSUME NilAssumption == Nil \notin Pair \cup Member

VARIABLES
    jar,      \* cookies: the pair, and whether they outlive the browser (remember_session)
    shown,    \* user, in each tab
    call,     \* the requests under way
    keys,     \* registry: refresh tokens that may still be used
    fresh,    \* access tokens that have not expired
    void,     \* pairs of an earlier tokenVersion, or of a deleted account
    minted,   \* what each pair was issued for
    wish,     \* history: "keep me signed in", as the member answered for each sign-in
    over,     \* history: the jar was emptied by a logout, or by closing the browser
    mishap    \* history: an answer was lost, or the account had its sessions ended

browserVars == <<jar, shown, call, keys, fresh, void, minted, wish, over, mishap>>

Op == {"profile", "refresh", "login", "logout", "change", "delete"}

Cookies == [pair : Pair \cup {Nil}, kept : BOOLEAN]
NoCookies == [pair |-> Nil, kept |-> FALSE]

\* cookies: those sent, then those of the answer, which sets them, or not.
Exchange == [step : {"idle", "sent", "answered"}, op : Op, tab : Tab \cup {Nil},
             retry : BOOLEAN,   \* allowRefresh
             user : Member \cup {Nil}, keep : BOOLEAN, \* who signs in, or is found to be signed in
             cookies : Cookies, ok : BOOLEAN, sets : BOOLEAN]

Issue == [user : Member \cup {Nil}, root : Pair \cup {Nil}]

BrowserTypeOK ==
    /\ jar \in Cookies
    /\ shown \in [Tab -> Member \cup {Nil}]
    /\ call \in [Call -> Exchange]
    /\ keys \subseteq Pair /\ fresh \subseteq Pair /\ void \subseteq Pair
    /\ minted \in [Pair -> Issue]
    /\ wish \in [Pair -> BOOLEAN]
    /\ over \in BOOLEAN /\ mishap \in BOOLEAN

Quiet == [step |-> "idle", op |-> "profile", tab |-> Nil, retry |-> FALSE, user |-> Nil,
          keep |-> FALSE, cookies |-> NoCookies, ok |-> FALSE, sets |-> FALSE]

\* Every tab starts by asking who is signed in.
BrowserInit ==
    /\ jar = NoCookies
    /\ shown = [t \in Tab |-> Nil]
    /\ call = [c \in Call |-> Quiet]
    /\ keys = {} /\ fresh = {} /\ void = {}
    /\ minted = [p \in Pair |-> [user |-> Nil, root |-> Nil]]
    /\ wish = [p \in Pair |-> FALSE]
    /\ over = TRUE /\ mishap = FALSE

Drawn(p) == minted[p].user # Nil
Root(p) == minted[p].root
Server == <<keys, fresh, void, minted, wish>>

\* The sessions that answers on their way bring.
Incoming == {call[c].cookies.pair : c \in {d \in Call : call[d].step = "answered" /\ call[d].sets}}

Proceed(c, q) == call' = [call EXCEPT ![c] = q]
Conclude(c) == Proceed(c, Quiet)
Show(c, u) == shown' = [shown EXCEPT ![call[c].tab] = u]

\* fetch, with credentials.
Sent(t, op, retry, cookies) ==
    [Quiet EXCEPT !.step = "sent", !.tab = t, !.op = op, !.retry = retry, !.cookies = cookies]

Send(c, q) ==
    /\ call[c].step = "idle"
    /\ Proceed(c, q)
    /\ UNCHANGED <<jar, shown, Server, over, mishap>>

-----------------------------------------------------------------------------
(* What the member does in a tab. *)

\* A page load, or refreshProfile().
FetchProfile(c, t) == Send(c, Sent(t, "profile", TRUE, jar))

SignIn(c, t, u, keep) ==
    Send(c, [Sent(t, "login", TRUE, jar) EXCEPT !.user = u, !.keep = keep])

SignOut(c, t) ==
    /\ shown[t] # Nil
    /\ Send(c, Sent(t, "logout", FALSE, jar))

ChangePassword(c, t) ==
    /\ shown[t] # Nil
    /\ Send(c, Sent(t, "change", FALSE, jar))

DeleteAccount(c, t) ==
    /\ shown[t] # Nil
    /\ Send(c, Sent(t, "delete", FALSE, jar))

-----------------------------------------------------------------------------
(* What the server does. *)

\* JwtAuthGuard
Valid(p) == p \in fresh \ void

Answer(c, ok) == Proceed(c, [call[c] EXCEPT !.step = "answered", !.ok = ok])

AnswerWith(c, p, kept) ==
    Proceed(c, [call[c] EXCEPT !.step = "answered", !.ok = TRUE, !.sets = TRUE,
                               !.cookies = [pair |-> p, kept |-> kept]])

\* generateTokens, for a session that began with root.
Register(p, u, root) ==
    /\ ~Drawn(p)
    /\ minted' = [minted EXCEPT ![p] = [user |-> u, root |-> root]]
    /\ fresh' = fresh \cup {p}

AtServer(c, op) == call[c].step = "sent" /\ call[c].op = op

ServeProfile(c) ==
    /\ AtServer(c, "profile")
    /\ LET p == call[c].cookies.pair IN
       Proceed(c, [call[c] EXCEPT !.step = "answered", !.ok = Valid(p),
                                  !.user = IF Valid(p) THEN minted[p].user ELSE Nil])
    /\ UNCHANGED <<jar, shown, Server, over, mishap>>

\* Mutant: a refused refresh clears the cookies, as a logout does.
ServeRefreshClearing(c) ==
    /\ AtServer(c, "refresh")
    /\ LET old == call[c].cookies.pair IN
       \/ /\ old \in keys \ void
          /\ \E p \in Pair :
                /\ Register(p, minted[old].user, Root(old))
                /\ keys' = (keys \ {old}) \cup {p}
                /\ AnswerWith(c, p, call[c].cookies.kept)
       \/ /\ old \notin keys \ void
          /\ keys' = keys \ {old}
          /\ Proceed(c, [call[c] EXCEPT !.step = "answered", !.sets = TRUE, !.cookies = NoCookies])
          /\ UNCHANGED <<minted, fresh>>
    /\ UNCHANGED <<jar, shown, void, wish, over, mishap>>

\* Mutant: the new cookies are persistent whatever remember_session says.
ServeRefreshKeeping(c) ==
    /\ AtServer(c, "refresh")
    /\ LET old == call[c].cookies.pair IN
       \/ /\ old \in keys \ void
          /\ \E p \in Pair :
                /\ Register(p, minted[old].user, Root(old))
                /\ keys' = (keys \ {old}) \cup {p}
                /\ AnswerWith(c, p, TRUE)
       \/ /\ old \notin keys \ void
          /\ keys' = keys \ {old}
          /\ Answer(c, FALSE)
          /\ UNCHANGED <<minted, fresh>>
    /\ UNCHANGED <<jar, shown, void, wish, over, mishap>>

\* The token is consumed even when its account has moved on; a refusal sets no
\* cookie.
ServeRefresh(c) ==
    /\ AtServer(c, "refresh")
    /\ LET old == call[c].cookies.pair IN
       \/ /\ old \in keys \ void
          /\ \E p \in Pair :
                /\ Register(p, minted[old].user, Root(old))
                /\ keys' = (keys \ {old}) \cup {p}
                /\ AnswerWith(c, p, call[c].cookies.kept)
       \/ /\ old \notin keys \ void
          /\ keys' = keys \ {old}
          /\ Answer(c, FALSE)
          /\ UNCHANGED <<minted, fresh>>
    /\ UNCHANGED <<jar, shown, void, wish, over, mishap>>

\* Right or wrong credentials.
ServeLogin(c) ==
    /\ AtServer(c, "login")
    /\ \/ \E p \in Pair :
            /\ Register(p, call[c].user, p)
            /\ keys' = keys \cup {p}
            /\ wish' = [wish EXCEPT ![p] = call[c].keep]
            /\ AnswerWith(c, p, call[c].keep)
       \/ Answer(c, FALSE) /\ UNCHANGED <<keys, fresh, minted, wish>>
    /\ UNCHANGED <<jar, shown, void, over, mishap>>

\* Mutant: the route asks for a valid access token.
ServeLogoutGuarded(c) ==
    /\ AtServer(c, "logout")
    /\ keys' = IF Valid(call[c].cookies.pair) THEN keys \ {call[c].cookies.pair} ELSE keys
    /\ AnswerWith(c, Nil, FALSE)
    /\ UNCHANGED <<jar, shown, fresh, void, minted, wish, over, mishap>>

\* Public: whatever the access token is worth, the refresh token goes.
ServeLogout(c) ==
    /\ AtServer(c, "logout")
    /\ keys' = keys \ {call[c].cookies.pair}
    /\ AnswerWith(c, Nil, FALSE)
    /\ UNCHANGED <<jar, shown, fresh, void, minted, wish, over, mishap>>

\* Every session of the account ends, those on their way to the jar included;
\* this browser gets another one.
ServeChange(c) ==
    /\ AtServer(c, "change")
    /\ LET old == call[c].cookies.pair IN
       \/ /\ Valid(old)
          /\ void' = {p \in Pair : p \in void \/ minted[p].user = minted[old].user}
          /\ \E p \in Pair :
                /\ Register(p, minted[old].user, p)
                /\ keys' = keys \cup {p}
                /\ wish' = [wish EXCEPT ![p] = wish[Root(old)]]
                /\ AnswerWith(c, p, call[c].cookies.kept)
          /\ mishap' = (mishap \/ Incoming # {})
       \/ Answer(c, FALSE) /\ UNCHANGED <<keys, fresh, void, minted, wish, mishap>>
    /\ UNCHANGED <<jar, shown, over>>

ServeDelete(c) ==
    /\ AtServer(c, "delete")
    /\ LET old == call[c].cookies.pair IN
       \/ /\ Valid(old)
          /\ void' = {p \in Pair : p \in void \/ minted[p].user = minted[old].user}
          /\ Answer(c, TRUE)
          /\ mishap' = TRUE
       \/ Answer(c, FALSE) /\ UNCHANGED <<void, mishap>>
    /\ UNCHANGED <<jar, shown, keys, fresh, minted, wish, over>>

Serve(c) ==
    \/ ServeProfile(c) \/ ServeRefresh(c) \/ ServeLogin(c)
    \/ ServeLogout(c) \/ ServeChange(c) \/ ServeDelete(c)

-----------------------------------------------------------------------------
(* What the tab does with the answer. *)

Arrived(c, op) == call[c].step = "answered" /\ call[c].op = op

JarAfter(c) == IF call[c].sets THEN call[c].cookies ELSE jar

\* fetchProfile: 401 is worth one refresh, and one more look.
ProfileArrives(c) ==
    /\ Arrived(c, "profile")
    /\ IF ~call[c].ok /\ call[c].retry
       THEN Proceed(c, Sent(call[c].tab, "refresh", FALSE, jar)) /\ UNCHANGED shown
       ELSE Show(c, call[c].user) /\ Conclude(c)
    /\ UNCHANGED <<jar, Server, over, mishap>>

RefreshArrives(c) ==
    /\ Arrived(c, "refresh")
    /\ jar' = JarAfter(c)
    /\ over' = (over /\ ~call[c].ok)
    /\ IF call[c].ok
       THEN Proceed(c, Sent(call[c].tab, "profile", FALSE, jar')) /\ UNCHANGED shown
       ELSE Show(c, Nil) /\ Conclude(c)
    /\ UNCHANGED <<Server, mishap>>

LoginArrives(c) ==
    /\ Arrived(c, "login")
    /\ jar' = JarAfter(c)
    /\ over' = (over /\ ~call[c].ok)
    /\ IF call[c].ok THEN Proceed(c, Sent(call[c].tab, "profile", TRUE, jar')) ELSE Conclude(c)
    /\ UNCHANGED <<shown, Server, mishap>>

LogoutArrives(c) ==
    /\ Arrived(c, "logout")
    /\ jar' = JarAfter(c)
    /\ over' = TRUE
    /\ Show(c, Nil) /\ Conclude(c)
    /\ UNCHANGED <<Server, mishap>>

ChangeArrives(c) ==
    /\ Arrived(c, "change")
    /\ jar' = JarAfter(c)
    /\ over' = (over /\ ~call[c].ok)
    /\ Conclude(c)
    /\ UNCHANGED <<shown, Server, mishap>>

\* handleDeleteAccount goes on to logout().
DeleteArrives(c) ==
    /\ Arrived(c, "delete")
    /\ IF call[c].ok THEN Proceed(c, Sent(call[c].tab, "logout", FALSE, jar)) ELSE Conclude(c)
    /\ UNCHANGED <<jar, shown, Server, over, mishap>>

Arrive(c) ==
    \/ ProfileArrives(c) \/ RefreshArrives(c) \/ LoginArrives(c)
    \/ LogoutArrives(c) \/ ChangeArrives(c) \/ DeleteArrives(c)

-----------------------------------------------------------------------------
(* The network, time and the browser itself. *)

\* The request or its answer is lost, or the answer breaks off after its
\* headers: fetch throws, and only a sign-in or a change leaves user alone.
Lose(c) ==
    /\ call[c].step # "idle"
    /\ jar' \in {jar, IF call[c].step = "answered" THEN JarAfter(c) ELSE jar}
    /\ IF call[c].op \in {"profile", "refresh", "logout"} THEN Show(c, Nil) ELSE UNCHANGED shown
    /\ Conclude(c)
    /\ mishap' = TRUE
    /\ UNCHANGED <<Server, over>>

AccessExpires(p) ==
    /\ p \in fresh
    /\ fresh' = fresh \ {p}
    /\ UNCHANGED <<jar, shown, call, keys, void, minted, wish, over, mishap>>

\* A ban, or a password reset by mail.
Revoke(u) ==
    /\ \E p \in Pair \ void : minted[p].user = u
    /\ void' = {p \in Pair : p \in void \/ minted[p].user = u}
    /\ mishap' = TRUE
    /\ UNCHANGED <<jar, shown, call, keys, fresh, minted, wish, over>>

\* The browser is closed and opened again: session cookies are gone.
Reopen ==
    /\ jar' = IF jar.kept THEN jar ELSE NoCookies
    /\ over' = (over \/ ~jar.kept)
    /\ shown' = [t \in Tab |-> Nil]
    /\ call' = [c \in Call |-> Quiet]
    /\ mishap' = (mishap \/ \E c \in Call : call[c].step # "idle")
    /\ UNCHANGED Server

BrowserNext ==
    \/ \E c \in Call, t \in Tab :
         \/ FetchProfile(c, t) \/ SignOut(c, t) \/ ChangePassword(c, t) \/ DeleteAccount(c, t)
         \/ (\E u \in Member, keep \in BOOLEAN : SignIn(c, t, u, keep))
    \/ \E c \in Call : (Serve(c) \/ Arrive(c) \/ Lose(c))
    \/ \E p \in Pair : AccessExpires(p)
    \/ \E u \in Member : Revoke(u)
    \/ Reopen

BrowserSpec == BrowserInit /\ [][BrowserNext]_browserVars

-----------------------------------------------------------------------------
(* Properties *)

\* Tabs that refresh at once compete for one refresh token and all but one are
\* refused: that must not cost the browser its session.  From a sign-in to the
\* next logout, unless a mishap explains it, the cookies of the jar can be
\* refreshed, or an answer that brings such cookies is on its way.
SessionSurvivesTheTabs ==
    \/ over \/ mishap
    \/ \E p \in {jar.pair} \cup Incoming : p \in keys \ void
    \/ Nil \in Incoming

\* "Keep me signed in" is asked at sign-in only, and follows the session through
\* every rotation and change of password, whatever the tabs do meanwhile: a
\* browser that is closed forgets the sessions it was not asked to keep.
KeptAsWished == jar.pair # Nil => jar.kept = wish[Root(jar.pair)]

\* The browser keeps the session, and keeps it as long as was wished.
SessionIsKept == SessionSurvivesTheTabs /\ KeptAsWished

\* A logout that carries the cookies of the jar leaves no refresh token of its
\* session in the registry, even when the access token has expired, except one
\* that an answer on its way still brings.
LogoutEndsTheSession ==
    [][\A c \in Call :
          AtServer(c, "logout") /\ call'[c].step = "answered" /\ call[c].cookies = jar
          /\ jar.pair # Nil /\ ~mishap
          => \A p \in keys' : Root(p) = Root(jar.pair) => p \in Incoming']_browserVars

=============================================================================
