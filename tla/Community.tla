----------------------------- MODULE Community -----------------------------
(* What members report about one aerodrome (community-info.service.ts):
   fuel prices and fees, one entry per kind and key, proposed by members,
   decided by moderators, and confirmed by copying the newest entry with the
   date of the day.  An entry is a row of community_infos, numbered in the
   order of creation; its content is that of the entry it goes back to.  A
   call waits between its statements. *)
EXTENDS Naturals, Sequences, FiniteSets

CONSTANTS Reported,   \* kinds and keys: a fuel, a category of aircraft
          Pilot,      \* who proposes
          Ask,        \* calls under way at once
          MaxEntries, \* bound: rows
          MaxDay      \* bound: days

ASSUME CommunityAssumption == IsFiniteSet(Ask) /\ MaxEntries \in Nat /\ MaxDay \in Nat

VARIABLES info,    \* the rows: content, key, member, day observed, status, whether reviewed
          ask,     \* what each call is doing, with what it has read
          day,
          vetted   \* history: contents a moderator has approved

communityVars == <<info, ask, day, vetted>>

Waiting == [pc |-> "idle", entry |-> 0, key |-> CHOOSE k \in Reported : TRUE,
            member |-> CHOOSE m \in Pilot : TRUE, on |-> 0, verdict |-> "PENDING"]

CommunityInit ==
  /\ info = <<>>
  /\ ask = [c \in Ask |-> Waiting]
  /\ day = 0
  /\ vetted = {}

Turn(c, call) == ask' = [ask EXCEPT ![c] = call]
Answer(c) == Turn(c, Waiting)

Approved(k) == {n \in DOMAIN info : info[n].key = k /\ info[n].status = "APPROVED"}

(* Order of the sheet: by day observed, then by creation. *)
Newer(n, p) == info[n].on > info[p].on \/ (info[n].on = info[p].on /\ n > p)
Newest(k) == {n \in Approved(k) : \A p \in Approved(k) \ {n} : Newer(n, p)}

-----------------------------------------------------------------------------
(* propose *)

ProposeCheck(c, m, k, d) ==
  /\ ask[c].pc = "idle" /\ d <= day
  /\ ~ \E n \in DOMAIN info : info[n].key = k /\ info[n].member = m /\ info[n].status = "PENDING"
  /\ Turn(c, [Waiting EXCEPT !.pc = "propose", !.key = k, !.member = m, !.on = d])
  /\ UNCHANGED <<info, day, vetted>>

ProposeCreate(c) ==
  /\ ask[c].pc = "propose" /\ Len(info) < MaxEntries
  /\ info' = Append(info, [of |-> Len(info) + 1, key |-> ask[c].key, member |-> ask[c].member,
                           on |-> ask[c].on, status |-> "PENDING", reviewed |-> FALSE])
  /\ Answer(c)
  /\ UNCHANGED <<day, vetted>>

-----------------------------------------------------------------------------
(* confirm *)

ConfirmFind(c, m, n) ==
  /\ ask[c].pc = "idle" /\ info[n].status = "APPROVED"
  /\ Turn(c, [Waiting EXCEPT !.pc = "newest", !.entry = n, !.key = info[n].key, !.member = m])
  /\ UNCHANGED <<info, day, vetted>>

\* Mutant: whether the entry is the newest is checked, its date is not.
ConfirmCheckNoDate(c) ==
  /\ ask[c].pc = "newest"
  /\ IF ask[c].entry \in Newest(ask[c].key)
     THEN Turn(c, [ask[c] EXCEPT !.pc = "copy", !.on = day])
     ELSE Answer(c)
  /\ UNCHANGED <<info, day, vetted>>

ConfirmCheck(c) ==
  /\ ask[c].pc = "newest"
  /\ IF ask[c].entry \in Newest(ask[c].key) /\ info[ask[c].entry].on < day
     THEN Turn(c, [ask[c] EXCEPT !.pc = "copy", !.on = day])
     ELSE Answer(c)
  /\ UNCHANGED <<info, day, vetted>>

(* The copy is published at once, whatever the entry has become. *)
ConfirmCreate(c) ==
  /\ ask[c].pc = "copy" /\ Len(info) < MaxEntries
  /\ info' = Append(info, [info[ask[c].entry] EXCEPT !.member = ask[c].member, !.on = ask[c].on,
                                                      !.status = "APPROVED", !.reviewed = FALSE])
  /\ Answer(c)
  /\ UNCHANGED <<day, vetted>>

-----------------------------------------------------------------------------
(* review *)

ReviewRead(c, n, verdict) ==
  /\ ask[c].pc = "idle" /\ info[n].status # verdict
  /\ Turn(c, [Waiting EXCEPT !.pc = "review", !.entry = n, !.verdict = verdict])
  /\ UNCHANGED <<info, day, vetted>>

ReviewWrite(c) ==
  /\ ask[c].pc = "review"
  /\ info' = [info EXCEPT ![ask[c].entry].status = ask[c].verdict, ![ask[c].entry].reviewed = TRUE]
  /\ vetted' = IF ask[c].verdict = "APPROVED" THEN vetted \cup {info[ask[c].entry].of} ELSE vetted
  /\ Answer(c)
  /\ UNCHANGED <<day>>

Midnight ==
  /\ day < MaxDay
  /\ day' = day + 1
  /\ UNCHANGED <<info, ask, vetted>>

(* A query that fails, or the end of the process. *)
GiveUp(c) ==
  /\ ask[c].pc # "idle"
  /\ Answer(c)
  /\ UNCHANGED <<info, day, vetted>>

Propose(c) ==
  \/ \E m \in Pilot, k \in Reported, d \in 0 .. MaxDay : ProposeCheck(c, m, k, d)
  \/ ProposeCreate(c)

Confirm(c) ==
  \/ \E m \in Pilot, n \in DOMAIN info : ConfirmFind(c, m, n)
  \/ ConfirmCheck(c) \/ ConfirmCreate(c)

Moderate(c) ==
  \/ \E n \in DOMAIN info, verdict \in {"APPROVED", "REJECTED"} : ReviewRead(c, n, verdict)
  \/ ReviewWrite(c)

CommunityNext ==
  \/ \E c \in Ask : (Propose(c) \/ Confirm(c) \/ Moderate(c) \/ GiveUp(c))
  \/ Midnight

CommunitySpec == CommunityInit /\ [][CommunityNext]_communityVars

-----------------------------------------------------------------------------
(* Properties *)

Published == {n \in DOMAIN info : info[n].status = "APPROVED"}

\* Nothing is public that no moderator has ever approved, however often it was copied.
PublishedWasVetted == \A n \in Published : info[n].of \in vetted

\* Copies of one entry on one day, that no moderator has touched: they come
\* from calls that overlapped.
CopiesAreFew ==
  \A k \in Reported, d \in 0 .. MaxDay :
    Cardinality({n \in Published : info[n].key = k /\ info[n].on = d /\ ~info[n].reviewed})
      <= Cardinality(Ask)

\* A member's proposals of one key that wait for a moderator, likewise.
ProposalsAreFew ==
  \A k \in Reported, m \in Pilot :
    Cardinality({n \in DOMAIN info : info[n].key = k /\ info[n].member = m /\ info[n].status = "PENDING"})
      <= Cardinality(Ask)

\* Members publish without a moderator, but only what one has approved, and the
\* checks they pass before they write let through no more than overlapping calls.
MembersOnlyConfirm == PublishedWasVetted /\ CopiesAreFew /\ ProposalsAreFew

=============================================================================
