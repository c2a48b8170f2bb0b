--------------------------- MODULE ReportWorkflow ---------------------------
(***************************************************************************)
(* The life of one report in the workbench: drafts, submission, dissent,   *)
(* approval (plain or signed) and rejection (curunir_workbench/reports.py, *)
(* authority.py, annotations.py, signed_ops.py).                           *)
(*                                                                         *)
(* A command decides and then appends one to three events (CommandLog):    *)
(* what it decided may be out of date when they arrive, and the process    *)
(* may die between them.                                                   *)
(***************************************************************************)
EXTENDS CommandLog

CONSTANTS
  Humans, Services,  \* principals, by actor_kind
  Cleared,           \* the principals who may view restricted records
  Nonces,            \* of signed requests
  Notes,             \* ids of DISSENT annotations
  Citations,         \* may a text rest on the retractable claim, or not, or both?
  MaxVersion,        \* bound on the versions of the report
  MaxNoteVersion     \* bound on the versions of one annotation

Actors == Humans \cup Services

ASSUME ReportConstants ==
  /\ Humans \cap Services = {} /\ Cleared \subseteq Actors /\ Citations \subseteq BOOLEAN
  /\ MaxVersion \in Nat /\ MaxNoteVersion \in Nat

VARIABLE requests  \* approvals that a key holder has signed, deliverable at any time

vars == <<log, todo, requests>>

Approvals  == {"APPROVED", "APPROVED_WITH_DISSENT"}
Rejections == {"REJECTED", "RETURNED_FOR_REVISION"}
Statuses   == {"DRAFT", "IN_REVIEW"} \cup Approvals \cup Rejections

(* content is the version whose edit wrote the text; cites says that the   *)
(* text rests on the one claim the semantic plane may retract.             *)
Versions ==
  [type : {"report"}, version : Nat, status : Statuses, author : Actors, actor : Actors,
   content : Nat, cites : BOOLEAN]
Dispositions ==
  [type : {"disposition"}, version : Nat, disposition : Approvals \cup Rejections \cup {"SUBMITTED", "SUPERSEDED"},
   actor : Actors, dissent : SUBSET Notes]
Annotations ==
  [type : {"annotation"}, id : Notes, version : Nat, author : Actors, status : {"OPEN", "CLOSED"},
   restricted : BOOLEAN]
SignedActions == [type : {"signed"}, nonce : Nonces, actor : Actors, version : Nat]
Retractions   == [type : {"retraction"}]
Events == Versions \cup Dispositions \cup Annotations \cup SignedActions \cup Retractions

Requests == [nonce : Nonces, actor : Actors, version : Nat, acknowledged : SUBSET Notes]

Init == CommandInit /\ requests = {}

-----------------------------------------------------------------------------
(* What the log says now.                                                  *)

Report    == {log[i] : i \in Newest(Of("report"))}
NotesOf(n) == {i \in Of("annotation") : log[i].id = n}
Note(n)   == {log[i] : i \in Newest(NotesOf(n))}

OpenDissent   == {n \in Notes : \E d \in Note(n) : d.status = "OPEN"}
CanView(a, n) == \A d \in Note(n) : d.restricted => a \in Cleared

ContentAuthors == {log[i].author : i \in Of("report")}

DispositionActors(kind) ==
  {log[i].actor : i \in {j \in Of("disposition") : log[j].disposition = kind}}

(* Fault: only the SUBMITTED disposition names a submitter. *)
SubmittersByDisposition == DispositionActors("SUBMITTED")

(* The event of the IN_REVIEW version names the submitter as well, in case *)
(* the disposition after it was lost.                                      *)
Submitters ==
  DispositionActors("SUBMITTED")
    \cup {log[i].actor : i \in {j \in Of("report") : log[j].status = "IN_REVIEW"}}

StaleBasis(r) == r.cites /\ Of("retraction") # {}

(* Fault: dissent the approver cannot see does not block. *)
MayApproveUnseen(a, r, acknowledged) ==
  /\ a \in Humans /\ r.status = "IN_REVIEW"
  /\ a \notin ContentAuthors \cup Submitters
  /\ ~StaleBasis(r)
  /\ {n \in OpenDissent : CanView(a, n)} \subseteq acknowledged

(* authoritative_approval_state, and what approve_report makes of it. *)
MayApprove(a, r, acknowledged) ==
  /\ a \in Humans /\ r.status = "IN_REVIEW"
  /\ a \notin ContentAuthors \cup Submitters
  /\ ~StaleBasis(r)
  /\ \A n \in OpenDissent : CanView(a, n) /\ n \in acknowledged

-----------------------------------------------------------------------------
(* The events a command appends, in order.                                 *)

Version(v, status, author, actor, content, cites) ==
  [type |-> "report", version |-> v, status |-> status, author |-> author, actor |-> actor,
   content |-> content, cites |-> cites]

Disposition(v, kind, actor, dissent) ==
  [type |-> "disposition", version |-> v, disposition |-> kind, actor |-> actor, dissent |-> dissent]

(* Fault: every version change makes its actor the author of a new text. *)
RestatedAnew(r, status, actor) == Version(r.version + 1, status, actor, actor, r.version + 1, r.cites)

(* _next_version without new content: author and text are kept. *)
Restated(r, status, actor) == Version(r.version + 1, status, r.author, actor, r.content, r.cites)

(* A status change and the disposition that records it. *)
Disposed(r, status, actor, dissent) ==
  <<Restated(r, status, actor),
    Disposition(r.version + 1, IF status = "IN_REVIEW" THEN "SUBMITTED" ELSE status, actor, dissent)>>

Approval(r, actor) ==
  Disposed(r, IF OpenDissent = {} THEN "APPROVED" ELSE "APPROVED_WITH_DISSENT", actor, OpenDissent)

SignedAction(q) ==
  [type |-> "signed", nonce |-> q.nonce, actor |-> q.actor, version |-> q.version]

-----------------------------------------------------------------------------
(* Commands.  expected_version is the version of the report the caller     *)
(* read, and every command refuses unless it is the current one: r.        *)

(* The report's id is a digest of title and time: only creations of the    *)
(* same instant meet, and the store lets one of them through.              *)
Create(c, a, cites) ==
  /\ Report = {}
  /\ Decide(c, <<Version(1, "DRAFT", a, a, 1, cites)>>)

Edit(c, a, cites) ==
  \E r \in Report :
    /\ a \in Humans /\ r.version < MaxVersion
    /\ Decide(c, <<Version(r.version + 1, "DRAFT", a, a, r.version + 1, cites)>>
                   \o IF r.status \in Approvals
                      THEN <<Disposition(r.version, "SUPERSEDED", a, {})>> ELSE <<>>)

Submit(c, a) ==
  \E r \in Report :
    /\ r.status \in {"DRAFT", "RETURNED_FOR_REVISION"} /\ r.version < MaxVersion
    /\ Decide(c, Disposed(r, "IN_REVIEW", a, {}))

Approve(c, a, acknowledged) ==
  \E r \in Report :
    /\ MayApprove(a, r, acknowledged) /\ r.version < MaxVersion
    /\ Decide(c, Approval(r, a))

Reject(c, a, status) ==
  \E r \in Report :
    /\ a \in Humans /\ r.status = "IN_REVIEW" /\ r.version < MaxVersion
    /\ Decide(c, Disposed(r, status, a, {}))

(* A client signs an approval of the version it sees, under a new nonce. *)
Sign(a, nonce, acknowledged) ==
  \E r \in Report :
    /\ \A q \in requests : q.nonce # nonce
    /\ requests' = requests \cup
         {[nonce |-> nonce, actor |-> a, version |-> r.version, acknowledged |-> acknowledged]}
    /\ UNCHANGED <<log, todo>>

NonceSeen(nonce) == \E i \in Of("signed") : log[i].nonce = nonce

(* Fault: the audit record is committed before the effect. *)
ApproveSignedAuditFirst(c, q) ==
  \E r \in Report :
    /\ ~NonceSeen(q.nonce) /\ q.version = r.version
    /\ MayApprove(q.actor, r, q.acknowledged) /\ r.version < MaxVersion
    /\ Decide(c, <<SignedAction(q)>> \o Approval(r, q.actor))

(* A delivery of a signed request, which may be a retry: verify_action,    *)
(* the approval, then commit_action.                                       *)
ApproveSigned(c, q) ==
  \E r \in Report :
    /\ ~NonceSeen(q.nonce) /\ q.version = r.version
    /\ MayApprove(q.actor, r, q.acknowledged) /\ r.version < MaxVersion
    /\ Decide(c, Approval(r, q.actor) \o <<SignedAction(q)>>)

NoteVersion(n, v, author, status, restricted) ==
  [type |-> "annotation", id |-> n, version |-> v, author |-> author, status |-> status,
   restricted |-> restricted]

Dissent(c, a, n, restricted) ==
  /\ Report # {} /\ Note(n) = {}
  /\ restricted => a \in Cleared
  /\ Decide(c, <<NoteVersion(n, 1, a, "OPEN", restricted)>>)

(* resolve_annotation: only the dissenter, to any status. *)
Resolve(c, a, n, status) ==
  \E d \in Note(n) :
    /\ CanView(a, n) /\ a = d.author /\ d.version < MaxNoteVersion
    /\ Decide(c, <<NoteVersion(n, d.version + 1, a, status, d.restricted)>>)

-----------------------------------------------------------------------------
(* What happens to a decided command.                                      *)

(* Fault: the store does not compare a version with the latest. *)
FitsAnyVersion(e) == e.type = "signed" => ~NonceSeen(e.nonce)

(* MissionStore!Admissible: the version check, or the commit's condition. *)
Fits(e) ==
  /\ e.type = "report" => NextAfter(Report, e.version)
  /\ e.type = "annotation" => NextAfter(Note(e.id), e.version)
  /\ e.type = "signed" => ~NonceSeen(e.nonce)

Write(c)    == Ready(c) /\ Fits(Head(todo[c])) /\ WriteNext(c)

(* ReportConflict, AnnotationConflict, REPLAYED_NONCE. *)
Conflict(c) == Ready(c) /\ ~Fits(Head(todo[c])) /\ GiveUp(c)

(* The semantic plane records that the claim is retracted. *)
Retract ==
  /\ TRUE \in Citations /\ Of("retraction") = {}
  /\ Elsewhere([type |-> "retraction"])

Command(c) ==
  /\ ~Ready(c)
  /\ \/ \E a \in Actors, cites \in Citations : Create(c, a, cites)
     \/ \E a \in Humans, cites \in Citations : Edit(c, a, cites)
     \/ \E a \in Actors : Submit(c, a)
     \/ \E a \in Humans, acknowledged \in SUBSET Notes : Approve(c, a, acknowledged)
     \/ \E a \in Humans, status \in Rejections : Reject(c, a, status)
     \/ \E q \in requests : ApproveSigned(c, q)
     \/ \E a \in Humans, n \in Notes, restricted \in BOOLEAN : Dissent(c, a, n, restricted)
     \/ \E a \in Humans, n \in Notes, status \in {"OPEN", "CLOSED"} : Resolve(c, a, n, status)

Next ==
  \/ \E c \in Calls : (Command(c) \/ Write(c) \/ Conflict(c) \/ GiveUp(c)) /\ UNCHANGED requests
  \/ \E a \in Humans, nonce \in Nonces, acknowledged \in SUBSET Notes : Sign(a, nonce, acknowledged)
  \/ Retract /\ UNCHANGED requests

Spec == Init /\ [][Next]_vars

-----------------------------------------------------------------------------
(* Properties.                                                             *)

TypeOK ==
  /\ log \in Seq(Events)
  /\ todo \in [Calls -> Seq(Events)]
  /\ requests \subseteq Requests

ApprovedAt(i) == i \in Of("report") /\ log[i].status \in Approvals

(* Position j holds the IN_REVIEW version that the approval at i answers. *)
Reviewed(j, i) ==
  /\ j \in Of("report") /\ j < i
  /\ log[j].status = "IN_REVIEW" /\ log[j].version + 1 = log[i].version

(* Four eyes: nobody approves a report of which they wrote any version, or *)
(* which they ever put up for review, even if the process died before the  *)
(* SUBMITTED disposition was recorded, on the plain and the signed path.   *)
SeparationOfDuties ==
  \A i \in 1 .. Len(log) : ApprovedAt(i) =>
    \A j \in Of("report") : j <= i =>
      log[i].actor # log[j].author /\ (log[j].status = "IN_REVIEW" => log[i].actor # log[j].actor)

(* What is approved is what was put up for review, to the letter and by    *)
(* the same author: no edit slips in between review and approval.          *)
ApprovedAsReviewed ==
  \A i \in 1 .. Len(log) : ApprovedAt(i) =>
    \E j \in 1 .. i - 1 :
      /\ Reviewed(j, i)
      /\ log[j].content = log[i].content /\ log[j].author = log[i].author
      /\ \A k \in Of("report") : ~(j < k /\ k < i)

(* Dissent and retractions on record when the report went to review count  *)
(* in its approval: a plain approval has none, and an approval with        *)
(* dissent names each one, by an approver who could read it.               *)
StandingObjectionsCount ==
  \A i \in 1 .. Len(log) : ApprovedAt(i) => \A j \in 1 .. Len(log) : Reviewed(j, i) =>
    /\ log[i].cites => \A k \in Of("retraction") : j < k
    /\ \A k \in Of("annotation") :
         k < j /\ log[k].status = "OPEN" /\ (\A m \in NotesOf(log[k].id) : m <= k \/ i < m)
           => /\ log[i].status = "APPROVED_WITH_DISSENT"
              /\ log[k].restricted => log[i].actor \in Cleared
              /\ \A m \in Of("disposition") :
                   log[m].version = log[i].version /\ log[m].disposition \in Approvals
                     => log[k].id \in log[m].dissent

(* A committed record never speaks of a version that is not in the log: a  *)
(* disposition follows its version and agrees with it, and the audit of a  *)
(* signed approval follows the approval and its disposition, whatever      *)
(* crashes in between (V67-ORDER-001).                                     *)
ReferentsFirst ==
  /\ \A i \in Of("disposition") : \E j \in Of("report") :
       /\ j < i
       /\ log[j].version = log[i].version
       /\ CASE log[i].disposition = "SUBMITTED"  -> log[j].status = "IN_REVIEW" /\ log[j].actor = log[i].actor
            [] log[i].disposition = "SUPERSEDED" -> log[j].status \in Approvals
            [] OTHER -> log[j].status = log[i].disposition /\ log[j].actor = log[i].actor
  /\ \A i \in Of("signed") : \E j \in Of("disposition") :
       /\ j < i
       /\ log[j].version = log[i].version + 1
       /\ log[j].disposition \in Approvals /\ log[j].actor = log[i].actor

(* No effect happens twice, however often a request is delivered and       *)
(* however many commands race: a version gets one disposition of a kind, a *)
(* nonce and a signed version one audit record.                            *)
EffectsAreSingle ==
  /\ \A i, j \in Of("disposition") :
       log[i].version = log[j].version /\ log[i].disposition = log[j].disposition => i = j
  /\ \A i, j \in Of("signed") :
       log[i].nonce = log[j].nonce \/ log[i].version = log[j].version => i = j

(* The order of statuses, across stale commands: only a draft or a         *)
(* returned report goes to review, and only review ends in a decision.     *)
LifecycleHolds ==
  \A i, j \in Of("report") : log[j].version = log[i].version + 1 =>
    /\ i < j
    /\ log[j].status = "IN_REVIEW" => log[i].status \in {"DRAFT", "RETURNED_FOR_REVISION"}
    /\ log[j].status \in Approvals \cup Rejections => log[i].status = "IN_REVIEW"

(* curunir_workbench/README.md:110-113 says that dissent blocks plain      *)
(* approval until it is resolved or carried visibly: no plain approval is  *)
(* recorded while dissent on the report is open.                           *)
OpenDissentBlocksPlainApproval ==
  \A i \in 1 .. Len(log) : ApprovedAt(i) /\ log[i].status = "APPROVED" =>
    \A k \in Of("annotation") :
      k < i /\ log[k].status = "OPEN" => \E m \in NotesOf(log[k].id) : k < m /\ m < i
-----------------------------------------------------------------------------
(* What one version may become in the next, whoever acts. *)
Succeeds(r, e) ==
  /\ e.version = r.version + 1
  /\ e.status = "IN_REVIEW" => r.status \in {"DRAFT", "RETURNED_FOR_REVISION"}
  /\ e.status \in Approvals \cup Rejections =>
       r.status = "IN_REVIEW" /\ e.author = r.author /\ e.content = r.content

(* An approver is nobody who wrote or submitted a version up to position i. *)
Independent(e, i) ==
  e.status \in Approvals =>
    \A j \in Of("report") : j <= i =>
      e.actor # log[j].author /\ (log[j].status = "IN_REVIEW" => e.actor # log[j].actor)

DecidedOn(e, i) == i \in Of("report") /\ Succeeds(log[i], e) /\ Independent(e, i)

FirstVersion(e) == e.version = 1 /\ e.status = "DRAFT"

VersionsRise == \A i, j \in Of("report") : i < j => log[i].version < log[j].version

HasNewest == Of("report") # {} => Newest(Of("report")) # {}

LogDecided ==
  \A i \in Of("report") :
    \/ FirstVersion(log[i])
    \/ \E j \in Of("report") : j < i /\ DecidedOn(log[i], j) /\ \A k \in Of("report") : ~(j < k /\ k < i)

TodoDecided ==
  \A c \in Calls : \A k \in 1 .. Len(todo[c]) :
    todo[c][k].type = "report" =>
      k = 1 /\ (FirstVersion(todo[c][k]) \/ \E i \in Of("report") : DecidedOn(todo[c][k], i))

(* Why the above holds: the inductive invariant of ReportWorkflowProofs.   *)
(* Versions rise along the log, and every version event, recorded or still *)
(* to come, was decided on the version before it.                          *)
IInv == TypeOK /\ VersionsRise /\ HasNewest /\ LogDecided /\ TodoDecided
=============================================================================
