----------------------------- MODULE Moderation -----------------------------
(***************************************************************************)
(* Moderation of one piece of community content, a comment, a correction   *)
(* or a photo: members report it (comment.service.ts), moderators decide   *)
(* on the content or on a report (admin.service.ts).                       *)
(*                                                                         *)
(* An action is one statement; one that had to wait for a lock sees the    *)
(* rows created while it waited.  Transactions run in PostgreSQL's READ    *)
(* COMMITTED isolation: a statement sees what others committed before it,  *)
(* rows it updates stay locked until the commit, and of two transactions   *)
(* that wait for each other one is aborted.                                *)
(***************************************************************************)
EXTENDS Naturals, FiniteSets

CONSTANTS
    Member,     \* members other than the author
    Call,       \* calls of createReport; each creates at most one report
    Desk,       \* requests of moderators under way, or of the deleting author
    Threshold   \* REPORT_AUTO_FLAG_THRESHOLD

ASSUME ThresholdAssumption == Threshold \in Nat \ {0}
ASSUME MemberAssumption == IsFiniteSet(Member) /\ Member # {}

VARIABLES
    kind,     \* targetType
    content,  \* contentStatus of the content, or that its row is gone
    reports,  \* the reports on it, by the call that created them
    pc,       \* where each createReport stands
    op        \* what each moderator's request is doing

moderationVars == <<kind, content, reports, pc, op>>

Kind == {"comment", "correction", "photo"}

\* For a photo, APPROVED is the status READY.
ContentStatus == {"PENDING", "APPROVED", "FLAGGED", "REJECTED"}

ReportStatus == {"none", "PENDING", "APPROVED", "REJECTED", "deleted"}

\* A request decides on the content, or on a report and with it on the content,
\* or deletes the comment.  rows are the reports its transaction has locked.
Idle == [on |-> "nothing", decision |-> "approve", step |-> "read", rows |-> {}]

Op == [on : {"nothing", "content", "report", "comment"},
       decision : {"approve", "reject", "delete"},
       step : {"read", "locked"},
       rows : SUBSET Call]

ModerationTypeOK ==
    /\ kind \in Kind
    /\ content \in ContentStatus \cup {"deleted"}
    /\ kind = "photo" => content # "FLAGGED"
    /\ kind # "comment" => content # "deleted"
    /\ reports \in [Call -> [by : Member, status : ReportStatus]]
    /\ pc \in [Call -> {"new", "found", "checked", "created", "flagging", "done"}]
    /\ op \in [Desk -> Op]

\* The content has just been created; a comment of an account older than a
\* week is published at once.
ModerationInit ==
    /\ kind \in Kind
    /\ content \in IF kind = "comment" THEN {"PENDING", "APPROVED"} ELSE {"PENDING"}
    /\ reports \in [Call -> [by : Member, status : {"none"}]]
    /\ pc = [k \in Call |-> "new"]
    /\ op = [a \in Desk |-> Idle]

Pending == {k \in Call : reports[k].status = "PENDING"}
Reporters(S) == {reports[k].by : k \in S}

\* The rows other transactions hold.
ContentLocked == \E a \in Desk : op[a].on = "content" /\ op[a].step = "locked"
LockedReports == UNION {op[a].rows : a \in Desk}

-----------------------------------------------------------------------------
(* createReport *)

MoveCall(k, l) == pc' = [pc EXCEPT ![k] = l]

\* A comment may be reported whatever its status, the others when public.
FindTarget(k) ==
    /\ pc[k] = "new"
    /\ \/ kind = "comment" /\ content # "deleted"
       \/ kind # "comment" /\ content = "APPROVED"
    /\ MoveCall(k, "found")
    /\ UNCHANGED <<kind, content, reports, op>>

CheckPending(k) ==
    /\ pc[k] = "found"
    /\ MoveCall(k, IF reports[k].by \in Reporters(Pending) THEN "done" ELSE "checked")
    /\ UNCHANGED <<kind, content, reports, op>>

CreateReport(k) ==
    /\ pc[k] = "checked"
    /\ reports' = [reports EXCEPT ![k].status = "PENDING"]
    /\ MoveCall(k, IF kind = "comment" THEN "created" ELSE "done")
    /\ UNCHANGED <<kind, content, op>>

\* Mutant: the reports are counted, not their authors.
CountReports(k) ==
    /\ pc[k] = "created"
    /\ MoveCall(k, IF Cardinality(Pending) >= Threshold THEN "flagging" ELSE "done")
    /\ UNCHANGED <<kind, content, reports, op>>

CountReporters(k) ==
    /\ pc[k] = "created"
    /\ MoveCall(k, IF Cardinality(Reporters(Pending)) >= Threshold THEN "flagging"
                                                               ELSE "done")
    /\ UNCHANGED <<kind, content, reports, op>>

\* updateMany ... where contentStatus = APPROVED; waits for a locked row.
AutoFlag(k) ==
    /\ pc[k] = "flagging"
    /\ ~ContentLocked
    /\ content' = IF content = "APPROVED" THEN "FLAGGED" ELSE content
    /\ MoveCall(k, "done")
    /\ UNCHANGED <<kind, reports, op>>

-----------------------------------------------------------------------------
(* The moderators' decisions *)

Begin(a, on, decision) ==
    /\ op[a].on = "nothing"
    /\ op' = [op EXCEPT ![a] = [Idle EXCEPT !.on = on, !.decision = decision]]
    /\ UNCHANGED <<kind, content, reports, pc>>

\* The checks of approveComment, approveCorrection and approvePhoto.
ReadToApprove(a) ==
    /\ \/ kind = "comment" /\ content \in {"PENDING", "FLAGGED"}
       \/ kind = "correction" /\ content # "APPROVED"
       \/ kind = "photo" /\ content = "PENDING"
    /\ Begin(a, "content", "approve")

\* The checks of rejectComment, rejectCorrection and rejectPhoto.
ReadToReject(a) ==
    /\ content # "deleted"
    /\ \/ kind # "photo" /\ content # "REJECTED"
       \/ kind = "photo" /\ content = "PENDING"
    /\ Begin(a, "content", "reject")

\* approveReport and rejectReport find a pending report.
ReadReport(a) ==
    /\ Pending # {}
    /\ \E decision \in {"approve", "reject"} : Begin(a, "report", decision)

ReadToDeleteContent(a) ==
    /\ kind = "comment"
    /\ content # "deleted"
    /\ Begin(a, "comment", "delete")

Close(S, status) ==
    reports' = [k \in Call |-> IF k \in S THEN [reports[k] EXCEPT !.status = status]
                                          ELSE reports[k]]

Done(a) == op' = [op EXCEPT ![a] = Idle]

\* A correction or a photo: one update, by id, whatever its status is now.
DecideContent(a) ==
    /\ op[a].on = "content"
    /\ kind # "comment"
    /\ content' = IF op[a].decision = "approve" THEN "APPROVED" ELSE "REJECTED"
    /\ Done(a)
    /\ UNCHANGED <<kind, reports, pc>>

\* A comment: the transaction updates the comment first; if it is gone,
\* the update throws.
LockComment(a) ==
    /\ op[a].on = "content"
    /\ op[a].step = "read"
    /\ kind = "comment"
    /\ ~ContentLocked
    /\ op' = IF content = "deleted" THEN [op EXCEPT ![a] = Idle]
                                    ELSE [op EXCEPT ![a].step = "locked"]
    /\ UNCHANGED <<kind, content, reports, pc>>

\* Then it closes the pending reports, and commits.
DecideComment(a) ==
    /\ op[a].on = "content"
    /\ op[a].step = "locked"
    /\ Pending \cap LockedReports = {}
    /\ content' = IF op[a].decision = "approve" THEN "APPROVED" ELSE "REJECTED"
    /\ Close(Pending, IF op[a].decision = "approve" THEN "REJECTED" ELSE "APPROVED")
    /\ Done(a)
    /\ UNCHANGED <<kind, pc>>

\* Mutant: every report on the content, decided or not.
LockAllReports(a) ==
    /\ op[a].on \in {"report", "comment"}
    /\ op[a].step = "read"
    /\ LET S == {k \in Call : reports[k].status \notin {"none", "deleted"}}
       IN /\ S \cap LockedReports = {}
          /\ op' = [op EXCEPT ![a].step = "locked", ![a].rows = S]
    /\ UNCHANGED <<kind, content, reports, pc>>

\* A decision on a report, or a deletion, takes the reports first: those still
\* pending, or all of them.
LockReports(a) ==
    /\ op[a].on \in {"report", "comment"}
    /\ op[a].step = "read"
    /\ LET S == IF op[a].on = "report"
                  THEN Pending
                  ELSE {k \in Call : reports[k].status \notin {"none", "deleted"}}
       IN /\ S \cap LockedReports = {}
          /\ op' = [op EXCEPT ![a].step = "locked", ![a].rows = S]
    /\ UNCHANGED <<kind, content, reports, pc>>

\* What a decision on a report makes of the content.
Reviewed(decision) ==
    IF decision = "approve"
      THEN CASE kind = "photo" /\ content = "APPROVED" -> "REJECTED"
             [] kind # "photo" /\ content # "deleted" -> "FLAGGED"
             [] OTHER -> content
      ELSE CASE kind = "comment" /\ content = "FLAGGED" -> "APPROVED"
             [] kind = "correction" /\ content = "FLAGGED" -> "PENDING"
             [] OTHER -> content

\* The content follows in the same transaction, which commits.
DecideReport(a) ==
    /\ op[a].on = "report"
    /\ op[a].step = "locked"
    /\ ~ContentLocked
    /\ content' = Reviewed(op[a].decision)
    /\ Close(op[a].rows, IF op[a].decision = "approve" THEN "APPROVED" ELSE "REJECTED")
    /\ Done(a)
    /\ UNCHANGED <<kind, pc>>

\* comment.delete throws when the row is gone: nothing is committed.
DeleteComment(a) ==
    /\ op[a].on = "comment"
    /\ op[a].step = "locked"
    /\ ~ContentLocked
    /\ \/ /\ content # "deleted"
          /\ content' = "deleted"
          /\ Close(op[a].rows, "deleted")
       \/ /\ content = "deleted"
          /\ UNCHANGED <<content, reports>>
    /\ Done(a)
    /\ UNCHANGED <<kind, pc>>

\* approveComment holds the comment and waits for reports, approveReport holds
\* reports and waits for the comment.
Deadlock(a, b) ==
    /\ op[a].on = "content" /\ op[a].step = "locked"
    /\ op[b].on # "content" /\ op[b].step = "locked"
    /\ op[b].rows \cap Pending # {}

\* PostgreSQL aborts either.
AbortVictim(a) ==
    /\ \E b \in Desk : Deadlock(a, b) \/ Deadlock(b, a)
    /\ Done(a)
    /\ UNCHANGED <<kind, content, reports, pc>>

-----------------------------------------------------------------------------

ReportStep(k) ==
    CheckPending(k) \/ CreateReport(k) \/ CountReporters(k) \/ AutoFlag(k)

DecisionStep(a) ==
    \/ DecideContent(a) \/ LockComment(a) \/ DecideComment(a) \/ LockReports(a)
    \/ DecideReport(a) \/ DeleteComment(a) \/ AbortVictim(a)

ModerationNext ==
    \/ \E k \in Call : (FindTarget(k) \/ ReportStep(k))
    \/ \E a \in Desk :
          \/ ReadToApprove(a) \/ ReadToReject(a) \/ ReadReport(a) \/ ReadToDeleteContent(a)
          \/ DecisionStep(a)

ModerationSpec == ModerationInit /\ [][ModerationNext]_moderationVars

-----------------------------------------------------------------------------
(* Properties *)

\* A report is decided once: moderators who review at the same time, or who
\* decide on the content meanwhile, never change its outcome.
DecidedOnce(k) ==
    reports[k].status \in {"APPROVED", "REJECTED"} => reports'[k].status \in {reports[k].status, "deleted"}

\* In the step that upholds a report its target is not public, and in the step
\* that dismisses one it is not left flagged: the two tables agree at every
\* commit, whatever was decided since the request read its row.
OutcomeMatches(k) ==
    reports[k].status = "PENDING" =>
        /\ reports'[k].status = "APPROVED" => content' # "APPROVED"
        /\ reports'[k].status = "REJECTED" => content' # "FLAGGED"

\* A decision on a report is taken once, and agrees with what becomes of the content.
DecisionsHold == [][\A k \in Call : DecidedOnce(k) /\ OutcomeMatches(k)]_moderationVars

\* Without a moderator, reports can only hide a comment that is public, and
\* only if as many different members as the threshold says reported it.
MembersHideOnlyTogether ==
    [][content' # content /\ op' = op
          => /\ content = "APPROVED"
             /\ content' = "FLAGGED"
             /\ Cardinality(Reporters({k \in Call : reports[k].status # "none"}))
                  >= Threshold]_moderationVars

\* "Number of distinct members who must report a comment before it is hidden
\* pending admin review": once a comment has reports of so many members and nobody is at work on it,
\* it is hidden.
CrowdIsHeard ==
    /\ kind = "comment"
    /\ \A k \in Call : pc[k] \in {"new", "done"}
    /\ \A a \in Desk : op[a].on = "nothing"
    /\ Cardinality(Reporters(Pending)) >= Threshold
    => content # "APPROVED"

=============================================================================
