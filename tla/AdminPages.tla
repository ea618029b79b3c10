-------------------------------- MODULE AdminPages --------------------------
(***************************************************************************)
(* The desk of the administrators: the queues of what members submit       *)
(* (listComments, listCorrections, ... of admin.service.ts and             *)
(* community-info.service.ts), the pages that show them and their buttons  *)
(* (app/admin), the decision behind a button, and what the author is told. *)
(*                                                                         *)
(* A page shows the newest rows of one state, as they were when it fetched *)
(* them; it fetches again after a decision, and not after a refusal.  The  *)
(* handler reads the row, checks it, writes it by id, then notifies.  What *)
(* reports do to a decision is in Moderation, the captcha and the account  *)
(* of who submits are elsewhere.                                           *)
(***************************************************************************)
EXTENDS Integers, FiniteSets, Sequences

CONSTANTS
    Item,       \* rows
    Clerk,      \* administrators, each on one page
    Screen,     \* rows a page asks for
    MaxStrokes, \* bound on decisions
    Blank       \* no row, no decision

VARIABLES
    pile,     \* what the rows are
    staff,    \* of users: the accounts of administrators, one's own among them
    status,   \* the status of each row; "none" before, "gone" after
    filed,    \* the rows in the order of createdAt
    screen,   \* per administrator: the rows on his page, as they were
    stroke,   \* per administrator: the decision under way
    strokes,  \* decisions so far
    decided,  \* history: the last decision on each row that its author is to hear of
    heard,    \* history: the last decision its author was told
    crossed,  \* history: rows two administrators decided at once, or one died over
    snubbed   \* history: rows on which a button was refused though they had not changed

adminVars == <<pile, staff, status, filed, screen, stroke, strokes, decided, heard, crossed,
               snubbed>>

Pile == {"comment", "correction", "event", "info", "photo", "report", "user"}
Decision == {"APPROVED", "REJECTED"}

-----------------------------------------------------------------------------
(* What the pages ask for and show *)

\* The states a page offers, and the statuses each stands for.
Alike == [pending |-> {"PENDING"}, approved |-> {"APPROVED"}, rejected |-> {"REJECTED"},
          all |-> {"PENDING", "APPROVED", "FLAGGED", "REJECTED"}]

CommentStates == [pending |-> {"PENDING"}, active |-> {"APPROVED"}, reported |-> {"FLAGGED"},
                  rejected |-> {"REJECTED"},
                  all |-> {"PENDING", "APPROVED", "FLAGGED", "REJECTED"}]
CorrectionStates == Alike
EventStates == Alike
InfoStates == Alike
PhotoStates == Alike
ReportStates == Alike
UserStates == [all |-> {"APPROVED", "REJECTED"}, ACTIVE |-> {"APPROVED"}, BANNED |-> {"REJECTED"}]

States == CASE pile = "comment" -> CommentStates
            [] pile = "correction" -> CorrectionStates
            [] pile = "event" -> EventStates
            [] pile = "info" -> InfoStates
            [] pile = "photo" -> PhotoStates
            [] pile = "report" -> ReportStates
            [] pile = "user" -> UserStates

\* The newest rows of a state, as a function from rows to statuses.
Listed(s) ==
    LET asked == {n \in DOMAIN filed : status[filed[n]] \in States[s]}
        newest == {n \in asked : Cardinality({m \in asked : m > n}) < Screen}
    IN [i \in {filed[n] : n \in newest} |-> status[i]]

\* The buttons of a row; of users, whatever the role, and one's own account too.
CommentButtons == [PENDING |-> Decision, FLAGGED |-> Decision, APPROVED |-> {}, REJECTED |-> {}]
PendingButtons == [PENDING |-> Decision, FLAGGED |-> {}, APPROVED |-> {}, REJECTED |-> {}]
EventButtons == [PENDING |-> Decision, FLAGGED |-> Decision,
                 APPROVED |-> {"REJECTED"}, REJECTED |-> {"APPROVED"}]
UserButtons == [APPROVED |-> {"REJECTED"}, REJECTED |-> {"APPROVED"}]

Buttons(s) == CASE pile = "comment" -> CommentButtons[s]
                [] pile \in {"correction", "info", "photo", "report"} -> PendingButtons[s]
                [] pile = "event" -> EventButtons[s]
                [] pile = "user" -> UserButtons[s]

-----------------------------------------------------------------------------
(* What the handlers accept, write and tell *)

\* Mutant: a comment is approved like the rest.
CommentPendingOnly(d, s) == s = "PENDING"

CommentAccepts(d, s) == IF d = "APPROVED" THEN s \in {"FLAGGED", "PENDING"} ELSE s # "REJECTED"
CorrectionAccepts(d, s) == s # d
EventAccepts(d, s) == s # d
InfoAccepts(d, s) == s # d
PhotoAccepts(s) == s = "PENDING"
ReportAccepts(s) == s = "PENDING"

\* Mutant: an administrator is banned like anybody.
BansAnybody(i, d, s) == s # d

\* banUser and unbanUser: nobody bans himself, nor another administrator.
UserAccepts(i, d, s) == s # d /\ (d = "REJECTED" => i \notin staff)

Accepts(i, d, s) == CASE pile = "comment" -> CommentAccepts(d, s)
                      [] pile = "correction" -> CorrectionAccepts(d, s)
                      [] pile = "event" -> EventAccepts(d, s)
                      [] pile = "info" -> InfoAccepts(d, s)
                      [] pile = "photo" -> PhotoAccepts(s)
                      [] pile = "report" -> ReportAccepts(s)
                      [] pile = "user" -> UserAccepts(i, d, s)

\* Photos and members are decided in silence, and so is a comment that is shown again.
Tells(d, s) == /\ pile \notin {"photo", "user"}
               /\ ~(pile = "comment" /\ d = "APPROVED" /\ s = "FLAGGED")

AtDesk == [step |-> "idle", on |-> Blank, decision |-> Blank, was |-> Blank]

AdminInit ==
    /\ pile \in Pile
    /\ staff \in IF pile = "user" THEN SUBSET Item ELSE {{}}
    /\ status = [i \in Item |-> "none"]
    /\ filed = <<>>
    /\ screen = [c \in Clerk |-> [i \in {} |-> Blank]]
    /\ stroke = [c \in Clerk |-> AtDesk]
    /\ strokes = 0
    /\ decided = [i \in Item |-> Blank] /\ heard = [i \in Item |-> Blank]
    /\ crossed = {} /\ snubbed = {}

adminHistory == <<strokes, decided, heard, crossed, snubbed>>

Filed(i) == status[i] \notin {"none", "gone"}
AtWorkOn(i) == {c \in Clerk : stroke[c].on = i /\ stroke[c].step \in {"write", "tell"}}

-----------------------------------------------------------------------------
(* Members *)

\* A comment or an event of an account that is not new is public at once, and a
\* member is active.
Submit(i) ==
    /\ status[i] = "none"
    /\ \E s \in {"PENDING", "APPROVED"} :
          /\ s = "APPROVED" => pile \in {"comment", "event", "user"}
          /\ s = "PENDING" => pile # "user"
          /\ status' = [status EXCEPT ![i] = s]
    /\ filed' = Append(filed, i)
    /\ UNCHANGED <<pile, staff, screen, stroke>> /\ UNCHANGED adminHistory

\* Enough members report a comment, or a report is upheld; a report is dismissed.
Flag(i) ==
    /\ pile \in {"comment", "correction"} /\ Filed(i)
    /\ status' = [status EXCEPT ![i] = IF @ # "FLAGGED" THEN "FLAGGED"
                                       ELSE IF pile = "comment" THEN "APPROVED" ELSE "PENDING"]
    /\ UNCHANGED <<pile, staff, filed, screen, stroke>> /\ UNCHANGED adminHistory

\* The author, or his account, is gone.
Withdraw(i) ==
    /\ Filed(i)
    /\ status' = [status EXCEPT ![i] = "gone"]
    /\ UNCHANGED <<pile, staff, filed, screen, stroke>> /\ UNCHANGED adminHistory

-----------------------------------------------------------------------------
(* A page *)

\* The page opens, another state is chosen, the window comes back.
FetchRows(c, s) ==
    /\ screen' = [screen EXCEPT ![c] = Listed(s)]
    /\ UNCHANGED <<pile, staff, status, filed, stroke>> /\ UNCHANGED adminHistory

Press(c, i, d) ==
    /\ stroke[c].step = "idle" /\ strokes < MaxStrokes
    /\ i \in DOMAIN screen[c] /\ d \in Buttons(screen[c][i])
    /\ stroke' = [stroke EXCEPT ![c] = [step |-> "read", on |-> i, decision |-> d,
                                        was |-> screen[c][i]]]
    /\ strokes' = strokes + 1
    /\ UNCHANGED <<pile, staff, status, filed, screen, decided, heard, crossed, snubbed>>

\* The handler finds the row and checks it; when it refuses, the page says so.
ReadRow(c) ==
    /\ stroke[c].step = "read"
    /\ LET i == stroke[c].on
       IN IF Filed(i) /\ Accepts(i, stroke[c].decision, status[i])
          THEN /\ stroke' = [stroke EXCEPT ![c].step = "write", ![c].was = status[i]]
               /\ crossed' = IF AtWorkOn(i) = {} THEN crossed ELSE crossed \cup {i}
               /\ UNCHANGED snubbed
          ELSE /\ stroke' = [stroke EXCEPT ![c] = AtDesk]
               /\ snubbed' = IF status[i] = stroke[c].was THEN snubbed \cup {i} ELSE snubbed
               /\ UNCHANGED crossed
    /\ UNCHANGED <<pile, staff, status, filed, screen, strokes, decided, heard>>

\* update by id, whatever the row has become; it fails when the row is gone.
WriteRow(c) ==
    /\ stroke[c].step = "write"
    /\ LET i == stroke[c].on
           d == stroke[c].decision
           telling == Tells(d, stroke[c].was)
       IN IF Filed(i)
          THEN /\ status' = [status EXCEPT ![i] = d]
               /\ decided' = [decided EXCEPT ![i] = IF telling THEN d ELSE @]
               /\ stroke' = [stroke EXCEPT ![c].step = IF telling THEN "tell" ELSE "refetch",
                                      ![c].was = Blank]
          ELSE /\ stroke' = [stroke EXCEPT ![c] = AtDesk]
               /\ UNCHANGED <<status, decided>>
    /\ UNCHANGED <<pile, staff, filed, screen, strokes, heard, crossed, snubbed>>

\* Mutant: the notification says what the row is by now.
TellWhatIs(c) ==
    /\ stroke[c].step = "tell"
    /\ heard' = [heard EXCEPT ![stroke[c].on] = status[stroke[c].on]]
    /\ stroke' = [stroke EXCEPT ![c].step = "refetch"]
    /\ UNCHANGED <<pile, staff, status, filed, screen, strokes, decided, crossed, snubbed>>

\* notifyUser, with the decision that was taken.
Tell(c) ==
    /\ stroke[c].step = "tell"
    /\ heard' = [heard EXCEPT ![stroke[c].on] = stroke[c].decision]
    /\ stroke' = [stroke EXCEPT ![c].step = "refetch"]
    /\ UNCHANGED <<pile, staff, status, filed, screen, strokes, decided, crossed, snubbed>>

\* refetch() after a success; another state may be chosen as well.
Refetched(c, s) ==
    /\ stroke[c].step = "refetch"
    /\ stroke' = [stroke EXCEPT ![c] = AtDesk]
    /\ screen' = [screen EXCEPT ![c] = Listed(s)]
    /\ UNCHANGED <<pile, staff, status, filed>> /\ UNCHANGED adminHistory

\* The process dies between the decision and the notification: the page shows an
\* error, and the decision cannot be repeated.
DieBeforeTelling(c) ==
    /\ stroke[c].step = "tell"
    /\ crossed' = crossed \cup {stroke[c].on}
    /\ stroke' = [stroke EXCEPT ![c] = AtDesk]
    /\ UNCHANGED <<pile, staff, status, filed, screen, strokes, decided, heard, snubbed>>

AdminNext ==
    \/ \E i \in Item : Submit(i) \/ Flag(i) \/ Withdraw(i)
    \/ \E c \in Clerk :
          \/ ReadRow(c) \/ WriteRow(c) \/ Tell(c) \/ DieBeforeTelling(c)
          \/ \E s \in DOMAIN States : FetchRows(c, s) \/ Refetched(c, s)
          \/ \E i \in Item, d \in Decision : Press(c, i, d)

AdminSpec == AdminInit /\ [][AdminNext]_adminVars

-----------------------------------------------------------------------------
(* Properties *)

\* The conditions of the buttons are written in the pages, those of the decisions in
\* the handlers: a button on a row that is still as shown is refused on the account of
\* an administrator only, where the page offers a ban that the handler never makes.
ButtonsWork ==
    /\ snubbed \subseteq staff
    /\ \A i \in staff : status[i] # "REJECTED"

\* Once nobody is at work on it, the author of a row has last been told of the last
\* decision he was to hear of, but for two that were taken at once and a process that
\* died.
AuthorsAreTold ==
    \A i \in Item : AtWorkOn(i) = {} /\ i \notin crossed => heard[i] = decided[i]

\* What the pages offer, the handlers do, but for bans of administrators; and what they
\* did, the author hears.
DeskIsHonest == ButtonsWork /\ AuthorsAreTold

=============================================================================
