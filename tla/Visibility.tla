------------------------------ MODULE Visibility ------------------------------
(***************************************************************************)
(* What the public is shown of the members: the four switches of a profile *)
(* (updateProfile), and every route that answers with a name or with what  *)
(* members contributed (auth.service.ts, comment.service.ts,               *)
(* photo.service.ts, aerodrome.service.ts, search.service.ts,              *)
(* community-info.service.ts).                                             *)
(*                                                                         *)
(* A route is one query, or several with an await between them; the        *)
(* switches are turned and accounts deleted meanwhile.  What is shown is a *)
(* set of facts <<what, whose>>; moderation, which the routes ask about as *)
(* well, is the subject of Moderation: all contributions are approved.     *)
(***************************************************************************)
EXTENDS Naturals

CONSTANTS Author, Reading, MaxTurns

VARIABLES
    wish,    \* the switches of each member, and whether a name was chosen
    there,   \* accounts that exist
    follows, \* who follows whom
    visit,   \* what each public request is doing, with what it has read
    answer,  \* the route asked last, and the facts of its answer
    allowed, \* history: the facts that each request could have found allowed
    turns    \* bound on what members change

visibilityVars == <<wish, there, follows, visit, answer, allowed, turns>>

Switch == {"name", "profile", "contributions", "photos", "searches"}
What == {"name", "comment", "correction", "photo", "search", "visits"}
Fact == What \X Author

Route == {"comments", "sheet", "corrections", "photos", "file", "infos",
          "profile", "searches", "similar", "followers", "following"}
Nowhere == [route |-> "none", whose |-> {}, named |-> {}, searched |-> {}]

NoAnswer == [route |-> "none", facts |-> {}]

VisibilityTypeOK ==
    /\ wish \in [Author -> SUBSET Switch]
    /\ there \subseteq Author
    /\ follows \subseteq Author \X Author
    /\ visit \in [Reading -> [route : Route \cup {"none"}, whose : SUBSET Author,
                              named : SUBSET Author, searched : SUBSET Author]]
    /\ answer \in [Reading -> [route : Route \cup {"none"}, facts : SUBSET Fact]]
    /\ allowed \in [Reading -> SUBSET Fact]

\* The defaults of the User model, and a name for everyone.
VisibilityInit ==
    /\ wish = [m \in Author |-> {"name", "contributions", "photos"}]
    /\ there = Author
    /\ follows = {}
    /\ visit = [r \in Reading |-> Nowhere]
    /\ answer = [r \in Reading |-> NoAnswer]
    /\ allowed = [r \in Reading |-> {}]
    /\ turns = 0

Who(switches) == {m \in there : switches \subseteq wish[m]}

\* ensureCommunityProfileVisible
Visible == Who({"profile", "name"})

\* What the members allow: names by their profile, the rest by its switch.
Allowed ==
    ({"name"} \X Who({"profile"})) \cup ({"comment", "correction"} \X Who({"contributions"}))
    \cup ({"photo"} \X Who({"photos"})) \cup ({"search"} \X Who({"profile", "searches"}))
    \cup ({"visits"} \X Visible)

Step(r, v) == visit' = [visit EXCEPT ![r] = v]

\* The facts of an answer, and the end of the request.
Give(r, facts) ==
    /\ answer' = [answer EXCEPT ![r] = [route |-> visit[r].route, facts |-> facts]]
    /\ Step(r, Nowhere)
    /\ UNCHANGED <<wish, there, follows, allowed, turns>>

-----------------------------------------------------------------------------
(* Requests.  The routes of one query read and answer at once. *)

Ask(r, route, m) ==
    /\ visit[r].route = "none"
    /\ Step(r, [Nowhere EXCEPT !.route = route, !.whose = {m}])
    /\ allowed' = [allowed EXCEPT ![r] = Allowed]
    /\ answer' = [answer EXCEPT ![r] = NoAnswer]
    /\ UNCHANGED <<wish, there, follows, turns>>

On(r, route) == visit[r].route = route

\* toPublicAuthor, and the same expression in the other services.
Signed(authors) == {"name"} \X (authors \cap Who({"profile"}))

GetComments(r) ==
    /\ On(r, "comments")
    /\ LET authors == Who({"contributions"}) IN
       Give(r, ({"comment"} \X authors) \cup Signed(authors))

\* findById: corrections on the sheet of an aerodrome.
FindById(r) ==
    /\ On(r, "sheet")
    /\ LET authors == Who({"contributions"}) IN
       Give(r, ({"correction"} \X authors) \cup Signed(authors))

\* The route of the corrections alone asks for no switch.
GetApprovedCorrections(r) ==
    /\ On(r, "corrections")
    /\ Give(r, {"correction", "name"} \X there)

ListForAerodrome(r) ==
    /\ On(r, "photos")
    /\ LET authors == Who({"photos"}) IN
       Give(r, ({"photo"} \X authors) \cup Signed(authors))

\* The file is streamed after the row was read.
Serve(r) ==
    /\ On(r, "file")
    /\ Give(r, {"photo"} \X (visit[r].whose \cap Who({"photos"})))

\* getForAerodrome: the information is shown whatever its author's switches, for
\* it is about the aerodrome; only the name is his.
GetForAerodrome(r) ==
    /\ On(r, "infos")
    /\ Give(r, Signed(there))

\* getCommunityProfile: the row, then the visits, then the searches; the number of
\* comments is given without a look at the switch.
ReadProfile(r) ==
    /\ On(r, "profile") /\ visit[r].named = {}
    /\ IF visit[r].whose \subseteq Visible
       THEN /\ Step(r, [visit[r] EXCEPT !.named = visit[r].whose,
                                        !.searched = visit[r].whose \cap Who({"searches"})])
            /\ UNCHANGED <<wish, there, follows, answer, allowed, turns>>
       ELSE Give(r, {})

ReadVisitsAndSearches(r) ==
    /\ On(r, "profile") /\ visit[r].named # {}
    /\ Give(r, ({"name"} \X visit[r].named) \cup ({"visits"} \X (visit[r].named \cap there))
               \cup ({"search"} \X (visit[r].searched \cap there)))

\* listPublicSavedSearches: the row, then the searches.
ReadSearcher(r) ==
    /\ On(r, "searches") /\ visit[r].named = {}
    /\ IF visit[r].whose \subseteq Who({"profile", "name", "searches"})
       THEN /\ Step(r, [visit[r] EXCEPT !.named = visit[r].whose])
            /\ UNCHANGED <<wish, there, follows, answer, allowed, turns>>
       ELSE Give(r, {})

ReadSearches(r) ==
    /\ On(r, "searches") /\ visit[r].named # {}
    /\ Give(r, {"name", "search"} \X (visit[r].named \cap there))

\* listSimilarPublicSearches
ListSimilar(r) ==
    /\ On(r, "similar")
    /\ Give(r, {"name", "search"} \X (Who({"profile", "name", "searches"}) \ visit[r].whose))

\* listFollowers, listFollowing: first the member must be visible, then those who
\* are not are left out of the list.
EnsureVisible(r) ==
    /\ visit[r].route \in {"followers", "following"} /\ visit[r].named = {}
    /\ IF visit[r].whose \subseteq Visible
       THEN /\ Step(r, [visit[r] EXCEPT !.named = visit[r].whose])
            /\ UNCHANGED <<wish, there, follows, answer, allowed, turns>>
       ELSE Give(r, {})

Followers(m) == {f \in there : <<f, m>> \in follows}
Followed(m) == {f \in there : <<m, f>> \in follows}

\* Mutant: the list holds whoever follows.
ListEveryFollow(r) ==
    /\ visit[r].named # {}
    /\ \E m \in visit[r].named :
          \/ On(r, "followers") /\ Give(r, {"name"} \X Followers(m))
          \/ On(r, "following") /\ Give(r, {"name"} \X Followed(m))

ListFollows(r) ==
    /\ visit[r].named # {}
    /\ \E m \in visit[r].named :
          \/ On(r, "followers") /\ Give(r, {"name"} \X (Followers(m) \cap Visible))
          \/ On(r, "following") /\ Give(r, {"name"} \X (Followed(m) \cap Visible))

-----------------------------------------------------------------------------
(* What members do. *)

\* The requests under way may find it either way.
Change(wishes, members) ==
    /\ turns < MaxTurns
    /\ turns' = turns + 1
    /\ wish' = wishes /\ there' = members
    /\ allowed' = [r \in Reading |-> IF On(r, "none") THEN allowed[r] ELSE allowed[r] \cup Allowed']

\* updateProfile: a switch is written as it was asked for.
UpdateProfile(m, s) ==
    /\ m \in there /\ s # "name"
    /\ Change([wish EXCEPT ![m] = IF s \in @ THEN @ \ {s} ELSE @ \cup {s}], there)
    /\ UNCHANGED <<follows, visit, answer>>

\* The row goes, and by cascade what refers to it.
Leave(m) ==
    /\ m \in there
    /\ Change(wish, there \ {m})
    /\ follows' = {f \in follows : m \notin {f[1], f[2]}}
    /\ UNCHANGED <<visit, answer>>

\* followUser asks that the member be visible, then writes: by then he need not be
\* any more.
FollowUser(m, n) ==
    /\ m \in there /\ n \in there /\ m # n
    /\ follows' = follows \cup {<<m, n>>}
    /\ UNCHANGED <<wish, there, visit, answer, allowed, turns>>

UnfollowUser(m, n) ==
    /\ <<m, n>> \in follows
    /\ follows' = follows \ {<<m, n>>}
    /\ UNCHANGED <<wish, there, visit, answer, allowed, turns>>

VisibilityNext ==
    \/ \E r \in Reading :
         \/ (\E route \in Route, m \in there : Ask(r, route, m))
         \/ GetComments(r) \/ FindById(r) \/ GetApprovedCorrections(r) \/ ListForAerodrome(r)
         \/ Serve(r) \/ GetForAerodrome(r) \/ ReadProfile(r) \/ ReadVisitsAndSearches(r)
         \/ ReadSearcher(r) \/ ReadSearches(r) \/ ListSimilar(r) \/ EnsureVisible(r) \/ ListFollows(r)
    \/ \E m \in Author :
         \/ Leave(m)
         \/ (\E s \in Switch : UpdateProfile(m, s))
         \/ (\E n \in Author : FollowUser(m, n) \/ UnfollowUser(m, n))

VisibilitySpec == VisibilityInit /\ [][VisibilityNext]_visibilityVars

-----------------------------------------------------------------------------
(* Properties *)

\* Whatever is shown of a member, his name, contributions, photos, searches or
\* visits, he allowed at some moment of the request that shows it: a switch that
\* is turned off, or an account that goes, counts from the next request on.
PublicSeesWhatMembersAllow ==
    \A r \in Reading : answer[r].route # "corrections" => answer[r].facts \subseteq allowed[r]

\* "Si cette option est désactivée, vos contenus publics restent visibles mais
\* signés comme Membre": no route gives the name of a member whose profile is off.
HiddenMembersAreUnnamed ==
    \A r \in Reading, m \in Author : <<"name", m>> \in answer[r].facts => <<"name", m>> \in allowed[r]

=============================================================================
