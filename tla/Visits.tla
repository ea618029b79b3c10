-------------------------------- MODULE Visits --------------------------------
(***************************************************************************)
(* What a member did at one aerodrome: the row that visit.service.ts keeps *)
(* and the tabs that show it and change it, the sheet of the aerodrome     *)
(* (page.tsx) and its cached copy of the visits (TanStack Query, as the    *)
(* page uses it).                                                          *)
(*                                                                         *)
(* The page shows the status that a click asks for before the server has   *)
(* taken it, asks for the visits again afterwards, and marks the aerodrome *)
(* SEEN by itself when it opens.  A write and an answer travel, overlap    *)
(* with those of the other tabs, and may be lost.                          *)
(***************************************************************************)
EXTENDS Naturals

CONSTANTS Page, NoStatus

VARIABLES
    stored,     \* Visit.status, or NoStatus without a row
    pages,      \* what each tab holds
    opening,    \* the write that marks the aerodrome SEEN
    click,      \* the write of a click
    fetch,      \* GET /visits
    behind      \* history: a tab knows of no answer that counts every write but its own

visitVars == <<stored, pages, opening, click, fetch, behind>>

VisitStatus == {"SEEN", "VISITED", "FAVORITE"}
Kept == {"VISITED", "FAVORITE"}

ASSUME NoStatusAssumption == NoStatus \notin VisitStatus

\* loaded, cached: the query, and its data; asked: optimisticVisitStatus; before:
\* what was cached at the click; started: visitActionStarted; updating: isVisitUpdating.
PageState == [open : BOOLEAN, loaded : BOOLEAN, cached : Kept \cup {NoStatus},
              asked : VisitStatus \cup {NoStatus}, before : Kept \cup {NoStatus},
              started : BOOLEAN, updating : BOOLEAN]
VisitCall == [step : {"idle", "sent", "answered"}, status : VisitStatus \cup {NoStatus}, ok : BOOLEAN]

VisitsTypeOK ==
    /\ stored \in VisitStatus \cup {NoStatus}
    /\ pages \in [Page -> PageState]
    /\ opening \in [Page -> VisitCall] /\ click \in [Page -> VisitCall] /\ fetch \in [Page -> VisitCall]
    /\ \A t \in Page : fetch[t].status \in Kept \cup {NoStatus}
    /\ behind \in [Page -> BOOLEAN]

NoCall == [step |-> "idle", status |-> NoStatus, ok |-> FALSE]
Calling(status) == [step |-> "sent", status |-> status, ok |-> FALSE]
Closed == [open |-> FALSE, loaded |-> FALSE, cached |-> NoStatus, asked |-> NoStatus,
           before |-> NoStatus, started |-> FALSE, updating |-> FALSE]

VisitsInit ==
    /\ stored \in VisitStatus \cup {NoStatus}
    /\ pages = [t \in Page |-> Closed]
    /\ opening = [t \in Page |-> NoCall] /\ click = [t \in Page |-> NoCall] /\ fetch = [t \in Page |-> NoCall]
    /\ behind = [t \in Page |-> FALSE]

\* getUserVisits leaves the aerodromes that were only seen out.
Listed(status) == IF status \in Kept THEN status ELSE NoStatus

\* currentVisitStatus
Shown(t) == IF pages[t].asked # NoStatus THEN pages[t].asked ELSE pages[t].cached

\* The effect that marks the aerodrome SEEN, in a tab that has become s.
MarkSeen(t, s) ==
    opening' = IF ~s.started /\ s.cached = NoStatus THEN [opening EXCEPT ![t] = Calling("SEEN")] ELSE opening

\* A tab, and every query with it, starts afresh, or comes back within the minute
\* for which the visits need no new request.
OpenSheet(t) ==
    /\ ~pages[t].open
    /\ opening[t].step = "idle"
    /\ LET s == [pages[t] EXCEPT !.open = TRUE, !.asked = NoStatus, !.started = FALSE, !.updating = FALSE] IN
       /\ pages' = [pages EXCEPT ![t] = s]
       /\ MarkSeen(t, s)
       /\ fetch' = IF s.loaded THEN fetch ELSE [fetch EXCEPT ![t] = Calling(NoStatus)]
    /\ UNCHANGED <<stored, click, behind>>

\* To another page of the site: the queries stay, the page's own state goes.
LeaveSheet(t) ==
    /\ pages[t].open /\ click[t].step = "idle" /\ fetch[t].step = "idle"
    /\ pages' = [pages EXCEPT ![t].open = FALSE]
    /\ UNCHANGED <<stored, opening, click, fetch, behind>>

\* A click on the status that is set takes it back by one.
AskedFor(t, status) ==
    IF Shown(t) # status THEN status
    ELSE IF status = "FAVORITE" THEN "VISITED" ELSE "SEEN"

HandleVisit(t, status) ==
    /\ pages[t].open /\ ~pages[t].updating
    /\ LET next == AskedFor(t, status) IN
       /\ pages' = [pages EXCEPT ![t].started = TRUE, ![t].updating = TRUE,
                                ![t].asked = next, ![t].before = pages[t].cached]
       /\ click' = [click EXCEPT ![t] = Calling(next)]
    /\ UNCHANGED <<stored, opening, fetch, behind>>

\* upsert: whatever the row says.
Upsert(status) == stored' = status

\* The first answer of a tab may have left before the click.
BehindAfterClick(t) == behind' = [o \in Page |-> o # t \/ behind[o] \/ ~pages[o].loaded]

ServeOpening(t) ==
    /\ opening[t].step = "sent"
    /\ \/ /\ Upsert("SEEN")
          /\ behind' = [o \in Page |-> TRUE]
          /\ opening' = [opening EXCEPT ![t].step = "answered", ![t].ok = TRUE]
       \/ /\ opening' = [opening EXCEPT ![t].step = "answered"]
          /\ UNCHANGED <<stored, behind>>
    /\ UNCHANGED <<pages, click, fetch>>

ServeClick(t) ==
    /\ click[t].step = "sent"
    /\ \/ /\ Upsert(click[t].status)
          /\ BehindAfterClick(t)
          /\ click' = [click EXCEPT ![t].step = "answered", ![t].ok = TRUE]
       \/ /\ click' = [click EXCEPT ![t].step = "answered"]
          /\ UNCHANGED <<stored, behind>>
    /\ UNCHANGED <<pages, opening, fetch>>

ServeFetch(t) ==
    /\ fetch[t].step = "sent"
    /\ fetch' = [fetch EXCEPT ![t] = [step |-> "answered", status |-> Listed(stored), ok |-> TRUE]]
    /\ behind' = [behind EXCEPT ![t] = @ /\ pages[t].asked # NoStatus]
    /\ UNCHANGED <<stored, pages, opening, click>>

\* refetchVisit and invalidateQueries: what is under way is given up for a new
\* request, unless the tab has no answer yet, which it then waits for.
Refetch(t) ==
    fetch' = IF fetch[t].step # "idle" /\ ~pages[t].loaded THEN fetch
             ELSE [fetch EXCEPT ![t] = Calling(NoStatus)]

OpeningArrives(t) ==
    /\ opening[t].step = "answered"
    /\ opening' = [opening EXCEPT ![t] = NoCall]
    /\ IF opening[t].ok THEN Refetch(t) ELSE UNCHANGED fetch
    /\ UNCHANGED <<stored, pages, click, behind>>

\* Mutant: the page does not ask again after a click that the server refused, or
\* after one that it took.
ClickArrivesForgetting(t) ==
    /\ click[t].step = "answered"
    /\ click' = [click EXCEPT ![t] = NoCall]
    /\ pages' = [pages EXCEPT ![t].updating = FALSE, ![t].asked = NoStatus]
    /\ UNCHANGED <<stored, opening, fetch, behind>>

\* Taken: the page stays busy until the visits are there again.  Refused: back to
\* what the page held at the click.
ClickArrives(t) ==
    /\ click[t].step = "answered"
    /\ click' = [click EXCEPT ![t] = NoCall]
    /\ IF click[t].ok
       THEN Refetch(t) /\ UNCHANGED <<pages, behind>>
       ELSE /\ pages' = [pages EXCEPT ![t].asked = pages[t].before, ![t].updating = FALSE]
            /\ behind' = [behind EXCEPT ![t] = @ \/ pages[t].before # pages[t].cached]
            /\ UNCHANGED fetch
    /\ UNCHANGED <<stored, opening>>

\* A status that changed takes the place of the one that a click asked for.
FetchArrives(t) ==
    /\ fetch[t].step = "answered"
    /\ LET changed == fetch[t].status # pages[t].cached
           s == [pages[t] EXCEPT !.loaded = TRUE, !.cached = fetch[t].status,
                                !.asked = IF changed THEN NoStatus ELSE @,
                                !.updating = @ /\ click[t].step # "idle"] IN
       /\ pages' = [pages EXCEPT ![t] = s]
       /\ IF changed /\ opening[t].step = "idle" THEN MarkSeen(t, s) ELSE UNCHANGED opening
    /\ fetch' = [fetch EXCEPT ![t] = NoCall]
    /\ UNCHANGED <<stored, click, behind>>

\* The request never arrives, or the answer is lost; a fetch that fails leaves
\* what the tab held.
LoseCall(t) ==
    /\ \/ /\ opening[t].step # "idle"
          /\ opening' = [opening EXCEPT ![t] = NoCall]
          /\ UNCHANGED <<pages, click, fetch, behind>>
       \/ /\ click[t].step # "idle"
          /\ click' = [click EXCEPT ![t] = NoCall]
          /\ pages' = [pages EXCEPT ![t].asked = pages[t].before, ![t].updating = FALSE]
          /\ behind' = [behind EXCEPT ![t] = @ \/ click[t].ok \/ pages[t].before # pages[t].cached]
          /\ UNCHANGED <<opening, fetch>>
       \/ /\ fetch[t].step # "idle"
          /\ fetch' = [fetch EXCEPT ![t] = NoCall]
          /\ pages' = [pages EXCEPT ![t].updating = @ /\ click[t].step # "idle"]
          /\ behind' = [behind EXCEPT ![t] = TRUE]
          /\ UNCHANGED <<opening, click>>
    /\ UNCHANGED stored

\* The minute is over, or the tab comes back to the front.
Refresh(t) ==
    /\ pages[t].open /\ pages[t].loaded /\ fetch[t].step = "idle"
    /\ Refetch(t)
    /\ UNCHANGED <<stored, pages, opening, click, behind>>

\* The other devices of the member; remove is a route that no page calls.
WriteElsewhere(status) ==
    /\ Upsert(status)
    /\ behind' = [t \in Page |-> TRUE]
    /\ UNCHANGED <<pages, opening, click, fetch>>

VisitsNext ==
    \/ \E status \in VisitStatus \cup {NoStatus} : WriteElsewhere(status)
    \/ \E t \in Page :
        \/ OpenSheet(t) \/ LeaveSheet(t) \/ Refresh(t)
        \/ \E status \in Kept : HandleVisit(t, status)
        \/ ServeOpening(t) \/ ServeClick(t) \/ ServeFetch(t)
        \/ OpeningArrives(t) \/ ClickArrives(t) \/ FetchArrives(t) \/ LoseCall(t)

VisitsSpec == VisitsInit /\ [][VisitsNext]_visitVars

-----------------------------------------------------------------------------
(* Properties *)

Settled(t) == opening[t].step = "idle" /\ click[t].step = "idle" /\ fetch[t].step = "idle"

\* The page shows a click before the server knows of it, and corrects itself by an
\* answer that may be older than the click: once nothing is under way and nobody
\* else wrote, what a loaded tab shows is what is stored, refused clicks included.
WhatIsShownIsStored ==
    \A t \in Page : pages[t].open /\ pages[t].loaded /\ Settled(t) /\ ~behind[t]
        => Listed(Shown(t)) = Listed(stored)

\* "Auto-mark as SEEN on page open (don't downgrade VISITED/FAVORITE)": opening a
\* sheet takes nothing from the member's log.
OpeningNeverDowngrades ==
    [][\A t \in Page : opening[t].step = "sent" /\ opening'[t].step = "answered"
          => (stored \in Kept => stored' = stored)]_visitVars

=============================================================================
