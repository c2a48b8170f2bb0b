------------------------ MODULE ReportWorkflowProofs ------------------------
(***************************************************************************)
(* What holds of reports for any number of people, commands, requests and  *)
(* dissents.                                                               *)
(*                                                                         *)
(* The argument: versions rise by one along the log, so a version event    *)
(* decided against the version at position i can only be written while i   *)
(* is still the newest; what its command checked about the versions up to  *)
(* i is therefore what the whole log says when the event arrives.  Effects *)
(* are counted by the version whose command appends them: only one command *)
(* gets to write that version, and it plans one effect of a kind.          *)
(***************************************************************************)
EXTENDS ReportWorkflow, TLAPS

-----------------------------------------------------------------------------
(***************************************************************************)
(* The events a command may append.                                        *)
(***************************************************************************)
(* A version event is typed by the fields of its kind. *)
LEMMA ReportFields ==
  ASSUME NEW e \in Events, e.type = "report"
  PROVE  e \in Versions
BY DEF Events, Versions, Dispositions, Annotations, SignedActions, Retractions

LEMMA ReportPositions ==
  ASSUME log \in Seq(Events), NEW i \in Of("report")
  PROVE  i \in 1 .. Len(log) /\ log[i] \in Versions
<1>1. i \in 1 .. Len(log) /\ log[i] \in Events /\ log[i].type = "report"
  BY DEF Of
<1> QED  BY <1>1, ReportFields

LEMMA ReportRecord ==
  ASSUME log \in Seq(Events), NEW r \in Report
  PROVE  r \in Versions /\ \E i \in Of("report") : r = log[i]
BY ReportPositions DEF Report, Newest

(* What every appended record of this module looks like. *)
LEMMA BuiltEvents ==
  ASSUME NEW v \in Nat, NEW a \in Actors, NEW b \in Actors, NEW n \in Nat, NEW cites \in BOOLEAN,
         NEW status \in Statuses,
         NEW kind \in Approvals \cup Rejections \cup {"SUBMITTED", "SUPERSEDED"},
         NEW dissent \in SUBSET Notes
  PROVE  /\ Version(v, status, b, a, n, cites) \in Events
         /\ Version(v, status, b, a, n, cites).type = "report"
         /\ Disposition(v, kind, a, dissent) \in Events
         /\ Disposition(v, kind, a, dissent).type # "report"
BY DEF Version, Disposition, Events, Versions, Dispositions

(* Commands append one version at most, and first. *)
LeadsWithVersion(events) ==
  /\ events \in Seq(Events)
  /\ \A k \in 1 .. Len(events) : events[k].type = "report" =>
       k = 1 /\ (FirstVersion(events[k]) \/ \E i \in Of("report") : DecidedOn(events[k], i))

LEMMA OneEvent ==
  ASSUME NEW e \in Events,
         e.type = "report" => FirstVersion(e) \/ \E i \in Of("report") : DecidedOn(e, i)
  PROVE  LeadsWithVersion(<<e>>)
<1>1. <<e>> \in Seq(Events) /\ Len(<<e>>) = 1 /\ <<e>>[1] = e
  OBVIOUS
<1> QED  BY <1>1 DEF LeadsWithVersion

LEMMA Followed ==
  ASSUME NEW events \in Seq(Events), LeadsWithVersion(events), NEW d \in Events, d.type # "report"
  PROVE  LeadsWithVersion(events \o <<d>>)
<1> DEFINE n == Len(events)
           all == events \o <<d>>
<1>1. n \in Nat /\ all \in Seq(Events) /\ Len(all) = n + 1
  OBVIOUS
<1>2. \A k \in 1 .. n : all[k] = events[k]
  OBVIOUS
<1>3. all[n + 1] = d
  OBVIOUS
<1>4. SUFFICES ASSUME NEW k \in 1 .. n + 1, all[k].type = "report"
               PROVE  k = 1 /\ (FirstVersion(all[k]) \/ \E i \in Of("report") : DecidedOn(all[k], i))
  BY <1>1 DEF LeadsWithVersion
<1>5. k \in 1 .. n
  BY <1>1, <1>3, <1>4
<1> QED  BY <1>2, <1>4, <1>5 DEF LeadsWithVersion

LEMMA TwoEvents ==
  ASSUME NEW e \in Events, NEW d \in Events, d.type # "report",
         FirstVersion(e) \/ \E i \in Of("report") : DecidedOn(e, i)
  PROVE  LeadsWithVersion(<<e, d>>)
<1>1. <<e, d>> \in Seq(Events) /\ Len(<<e, d>>) = 2 /\ <<e, d>>[1] = e /\ <<e, d>>[2] = d
  OBVIOUS
<1> QED  BY <1>1 DEF LeadsWithVersion

-----------------------------------------------------------------------------
(***************************************************************************)
(* What each command decides.                                              *)
(***************************************************************************)
(* A change of status answers the version it was decided on. *)
LEMMA DisposedLeads ==
  ASSUME log \in Seq(Events), NEW i \in Of("report"), NEW a \in Actors,
         NEW status \in {"IN_REVIEW"} \cup Approvals \cup Rejections, NEW dissent \in SUBSET Notes,
         status = "IN_REVIEW" => log[i].status \in {"DRAFT", "RETURNED_FOR_REVISION"},
         status \in Approvals \cup Rejections => log[i].status = "IN_REVIEW",
         status \in Approvals => a \notin ContentAuthors \cup Submitters
  PROVE  LeadsWithVersion(Disposed(log[i], status, a, dissent)) /\ Disposed(log[i], status, a, dissent) \in Seq(Events)
<1> DEFINE r == log[i]
           e == Version(r.version + 1, status, r.author, a, r.content, r.cites)
           d == Disposition(r.version + 1, IF status = "IN_REVIEW" THEN "SUBMITTED" ELSE status, a, dissent)
<1>1. r \in Versions
  BY ReportPositions
<1>2. /\ r.version \in Nat /\ r.version + 1 \in Nat /\ r.author \in Actors /\ r.content \in Nat
      /\ r.cites \in BOOLEAN /\ status \in Statuses
  BY <1>1 DEF Versions, Statuses
<1>3. (IF status = "IN_REVIEW" THEN "SUBMITTED" ELSE status)
        \in Approvals \cup Rejections \cup {"SUBMITTED", "SUPERSEDED"}
  OBVIOUS
<1>4. e \in Events /\ e.type = "report" /\ d \in Events /\ d.type # "report"
  <2> HIDE DEF r
  <2> QED  BY <1>2, <1>3, BuiltEvents DEF Version, Disposition
<1>5. DecidedOn(e, i)
  <2>1. Succeeds(r, e)
    BY <1>2 DEF Succeeds, Version, Approvals, Rejections
  <2>2. Independent(e, i)
    BY DEF Independent, ContentAuthors, Submitters, Version
  <2> QED  BY <2>1, <2>2 DEF DecidedOn
<1>6. Disposed(log[i], status, a, dissent) = <<e, d>>
  BY DEF Disposed, Restated
<1>7. LeadsWithVersion(<<e, d>>) /\ <<e, d>> \in Seq(Events)
  <2> HIDE DEF e, d
  <2> QED  BY <1>4, <1>5, TwoEvents
<1> QED  BY <1>6, <1>7
LEMMA CommandLeads ==
  ASSUME log \in Seq(Events), requests \subseteq Requests, NEW c \in Calls, Command(c)
  PROVE  \E events \in Seq(Events) : LeadsWithVersion(events) /\ Decide(c, events)
<1>0. Humans \subseteq Actors /\ BOOLEAN = {TRUE, FALSE} /\ Citations \subseteq BOOLEAN
  BY ReportConstants DEF Actors
<1>1. ASSUME NEW a \in Actors, NEW cites \in Citations, Create(c, a, cites)
      PROVE  \E events \in Seq(Events) : LeadsWithVersion(events) /\ Decide(c, events)
  <2> DEFINE e == Version(1, "DRAFT", a, a, 1, cites)
  <2>1. e \in Events /\ FirstVersion(e)
    BY <1>0 DEF Version, Events, Versions, FirstVersion, Statuses
  <2>2. LeadsWithVersion(<<e>>) /\ <<e>> \in Seq(Events)
    <3> HIDE DEF e
    <3> QED  BY <2>1, OneEvent
  <2> QED  BY <1>1, <2>2 DEF Create
<1>2. ASSUME NEW a \in Humans, NEW cites \in Citations, Edit(c, a, cites)
      PROVE  \E events \in Seq(Events) : LeadsWithVersion(events) /\ Decide(c, events)
  <2>1. PICK r \in Report :
          Decide(c, <<Version(r.version + 1, "DRAFT", a, a, r.version + 1, cites)>>
                      \o IF r.status \in Approvals
                         THEN <<Disposition(r.version, "SUPERSEDED", a, {})>> ELSE <<>>)
    BY <1>2 DEF Edit
  <2>2. PICK i \in Of("report") : r = log[i]
    BY ReportRecord
  <2> DEFINE e == Version(r.version + 1, "DRAFT", a, a, r.version + 1, cites)
             d == Disposition(r.version, "SUPERSEDED", a, {})
  <2>3. r.version \in Nat /\ r.version + 1 \in Nat
    BY ReportRecord DEF Versions
  <2>4. e \in Events /\ d \in Events /\ d.type # "report"
    BY <1>0, <2>3 DEF Version, Disposition, Events, Versions, Dispositions, Statuses
  <2>5. DecidedOn(e, i)
    BY <2>2 DEF DecidedOn, Succeeds, Independent, Version, Approvals, Rejections
  <2>6. LeadsWithVersion(<<e>>) /\ LeadsWithVersion(<<e>> \o <<d>>) /\ <<e>> \o <<>> = <<e>>
        /\ <<e>> \in Seq(Events) /\ <<e>> \o <<d>> \in Seq(Events)
    <3> HIDE DEF e, d
    <3>1. LeadsWithVersion(<<e>>) /\ <<e>> \in Seq(Events)
      BY <2>4, <2>5, OneEvent
    <3>2. LeadsWithVersion(<<e>> \o <<d>>)
      BY <2>4, <3>1, Followed
    <3> QED  BY <2>4, <3>1, <3>2
  <2>7. CASE r.status \in Approvals
    BY <2>1, <2>6, <2>7
  <2>8. CASE r.status \notin Approvals
    BY <2>1, <2>6, <2>8
  <2> QED  BY <2>7, <2>8
<1>3. ASSUME NEW a \in Actors, Submit(c, a)
      PROVE  \E events \in Seq(Events) : LeadsWithVersion(events) /\ Decide(c, events)
  <2>1. PICK r \in Report : /\ r.status \in {"DRAFT", "RETURNED_FOR_REVISION"}
                            /\ Decide(c, Disposed(r, "IN_REVIEW", a, {}))
    BY <1>3 DEF Submit
  <2>2. PICK i \in Of("report") : r = log[i]
    BY ReportRecord
  <2>3. LeadsWithVersion(Disposed(log[i], "IN_REVIEW", a, {})) /\ Disposed(log[i], "IN_REVIEW", a, {}) \in Seq(Events)
    BY <2>1, <2>2, DisposedLeads DEF Approvals, Rejections
  <2> QED  BY <2>1, <2>2, <2>3
<1>4. ASSUME NEW r \in Report, NEW a, NEW acknowledged, MayApprove(a, r, acknowledged)
      PROVE  Approval(r, a) \in Seq(Events) /\ LeadsWithVersion(Approval(r, a))
  <2>1. PICK i \in Of("report") : r = log[i]
    BY ReportRecord
  <2>2. a \in Actors /\ a \notin ContentAuthors \cup Submitters /\ r.status = "IN_REVIEW"
    BY <1>0, <1>4 DEF MayApprove
  <2>3. OpenDissent \in SUBSET Notes
    BY DEF OpenDissent
  <2> DEFINE status == IF OpenDissent = {} THEN "APPROVED" ELSE "APPROVED_WITH_DISSENT"
  <2>4. status \in Approvals /\ status # "IN_REVIEW"
    BY DEF Approvals
  <2>5. LeadsWithVersion(Disposed(log[i], status, a, OpenDissent)) /\ Disposed(log[i], status, a, OpenDissent) \in Seq(Events)
    <3> HIDE DEF status
    <3> QED  BY <2>1, <2>2, <2>3, <2>4, DisposedLeads
  <2> QED  BY <2>1, <2>5 DEF Approval
<1>5. ASSUME NEW a \in Humans, NEW acknowledged \in SUBSET Notes, Approve(c, a, acknowledged)
      PROVE  \E events \in Seq(Events) : LeadsWithVersion(events) /\ Decide(c, events)
  BY <1>4, <1>5 DEF Approve
<1>6. ASSUME NEW a \in Humans, NEW status \in Rejections, Reject(c, a, status)
      PROVE  \E events \in Seq(Events) : LeadsWithVersion(events) /\ Decide(c, events)
  <2>1. PICK r \in Report : r.status = "IN_REVIEW" /\ Decide(c, Disposed(r, status, a, {}))
    BY <1>6 DEF Reject
  <2>2. PICK i \in Of("report") : r = log[i]
    BY ReportRecord
  <2>3. status # "IN_REVIEW" /\ status \notin Approvals
    BY DEF Rejections, Approvals
  <2>4. LeadsWithVersion(Disposed(log[i], status, a, {})) /\ Disposed(log[i], status, a, {}) \in Seq(Events)
    BY <1>0, <2>1, <2>2, <2>3, DisposedLeads
  <2> QED  BY <2>1, <2>2, <2>4
<1>7. ASSUME NEW q \in requests, ApproveSigned(c, q)
      PROVE  \E events \in Seq(Events) : LeadsWithVersion(events) /\ Decide(c, events)
  <2>1. PICK r \in Report : /\ MayApprove(q.actor, r, q.acknowledged)
                            /\ Decide(c, Approval(r, q.actor) \o <<SignedAction(q)>>)
    BY <1>7 DEF ApproveSigned
  <2>2. Approval(r, q.actor) \in Seq(Events) /\ LeadsWithVersion(Approval(r, q.actor))
    BY <1>4, <2>1
  <2>3. SignedAction(q) \in Events /\ SignedAction(q).type # "report"
    BY DEF SignedAction, Events, SignedActions, Requests
  <2> DEFINE approval == Approval(r, q.actor)
             audit == SignedAction(q)
  <2>4. LeadsWithVersion(approval \o <<audit>>) /\ approval \o <<audit>> \in Seq(Events)
    <3> HIDE DEF approval, audit
    <3>1. approval \in Seq(Events) /\ LeadsWithVersion(approval) /\ audit \in Events /\ audit.type # "report"
      BY <2>2, <2>3 DEF approval, audit
    <3> QED  BY <3>1, Followed
  <2> QED  BY <2>1, <2>4
<1>8. ASSUME NEW a \in Humans, NEW n \in Notes, NEW v \in Nat, NEW status \in {"OPEN", "CLOSED"},
             NEW restricted \in BOOLEAN
      PROVE  LeadsWithVersion(<<NoteVersion(n, v, a, status, restricted)>>)
             /\ <<NoteVersion(n, v, a, status, restricted)>> \in Seq(Events)
  <2> DEFINE e == NoteVersion(n, v, a, status, restricted)
  <2>1. e \in Events /\ e.type # "report"
    BY <1>0 DEF NoteVersion, Events, Annotations
  <2>2. LeadsWithVersion(<<e>>) /\ <<e>> \in Seq(Events)
    <3> HIDE DEF e
    <3> QED  BY <2>1, OneEvent
  <2> QED  BY <2>2
<1>9. ASSUME NEW a \in Humans, NEW n \in Notes, NEW restricted \in BOOLEAN, Dissent(c, a, n, restricted)
      PROVE  \E events \in Seq(Events) : LeadsWithVersion(events) /\ Decide(c, events)
  BY <1>8, <1>9 DEF Dissent
<1>10. ASSUME NEW a \in Humans, NEW n \in Notes, NEW status \in {"OPEN", "CLOSED"}, Resolve(c, a, n, status)
       PROVE  \E events \in Seq(Events) : LeadsWithVersion(events) /\ Decide(c, events)
  <2>1. PICK d \in Note(n) : Decide(c, <<NoteVersion(n, d.version + 1, a, status, d.restricted)>>)
    BY <1>10 DEF Resolve
  <2>2. d \in Events /\ d.type = "annotation"
    BY DEF Note, Newest, NotesOf, Of
  <2>3. d \in Annotations
    BY <2>2 DEF Events, Versions, Dispositions, Annotations, SignedActions, Retractions
  <2>4. d.version + 1 \in Nat /\ d.restricted \in BOOLEAN
    BY <2>3 DEF Annotations
  <2> QED  BY <1>8, <2>1, <2>4
<1> QED  BY <1>1, <1>2, <1>3, <1>5, <1>6, <1>7, <1>9, <1>10 DEF Command
-----------------------------------------------------------------------------
(***************************************************************************)
(* The inductive invariant is kept.                                        *)
(***************************************************************************)
LEMMA InitKeeps == Init => IInv
<1> SUFFICES ASSUME Init PROVE IInv
  OBVIOUS
<1>1. log = <<>> /\ Len(log) = 0 /\ log \in Seq(Events)
  BY DEF Init, CommandInit
<1>2. Of("report") = {}
  BY <1>1 DEF Of
<1>3. todo \in [Calls -> Seq(Events)] /\ \A c \in Calls : Len(todo[c]) = 0
  BY DEF Init, CommandInit
<1>4. TypeOK
  BY <1>1, <1>3 DEF Init, CommandInit, TypeOK
<1>5. VersionsRise /\ HasNewest /\ LogDecided
  BY <1>2 DEF VersionsRise, HasNewest, LogDecided
<1>6. TodoDecided
  BY <1>3 DEF TodoDecided
<1> QED  BY <1>4, <1>5, <1>6 DEF IInv

(* A decision, or the end of a command, leaves the log as it is. *)
LEMMA TodoKeeps ==
  ASSUME IInv, NEW c \in Calls, NEW events \in Seq(Events), LeadsWithVersion(events),
         todo' = [todo EXCEPT ![c] = events], log' = log, requests' \subseteq Requests
  PROVE  IInv'
<1>1. TypeOK'
  BY DEF IInv, TypeOK
<1>2. Of("report")' = Of("report")
  BY DEF Of
<1>3. VersionsRise' /\ HasNewest'
  BY <1>2 DEF IInv, VersionsRise, HasNewest, Newest
<1>4. \A e, i : DecidedOn(e, i)' <=> DecidedOn(e, i)
  BY <1>2 DEF DecidedOn, Succeeds, Independent
<1>5. LogDecided'
  BY <1>2 DEF IInv, LogDecided, DecidedOn, Succeeds, Independent
<1>6. TodoDecided'
  <2>1. SUFFICES ASSUME NEW x \in Calls, NEW k \in 1 .. Len(todo'[x]), todo'[x][k].type = "report"
                 PROVE  k = 1 /\ (FirstVersion(todo'[x][k]) \/ \E i \in Of("report") : DecidedOn(todo'[x][k], i))
    BY <1>2 DEF TodoDecided, DecidedOn, Succeeds, Independent, FirstVersion
  <2>2. CASE x = c
    <3>1. todo'[x] = events
      BY <2>2 DEF IInv, TypeOK
    <3> QED  BY <2>1, <3>1 DEF LeadsWithVersion
  <2>3. CASE x # c
    <3>1. todo'[x] = todo[x]
      BY <2>3 DEF IInv, TypeOK
    <3> QED  BY <2>1, <3>1 DEF IInv, TodoDecided
  <2> QED  BY <2>2, <2>3
<1> QED  BY <1>1, <1>3, <1>5, <1>6 DEF IInv

LEMMA NothingLeads == <<>> \in Seq(Events) /\ LeadsWithVersion(<<>>)
<1>1. <<>> \in Seq(Events) /\ Len(<<>>) = 0
  OBVIOUS
<1> QED  BY <1>1 DEF LeadsWithVersion

(* Appending an event leaves every position it found. *)
LEMMA AppendFacts ==
  ASSUME log \in Seq(Events), NEW e \in Events, log' = Append(log, e)
  PROVE  /\ Len(log) \in Nat /\ Len(log') = Len(log) + 1 /\ log' \in Seq(Events)
         /\ \A i \in 1 .. Len(log) : log'[i] = log[i]
         /\ log'[Len(log) + 1] = e
OBVIOUS

LEMMA ReportsAfter ==
  ASSUME log \in Seq(Events), NEW e \in Events, log' = Append(log, e)
  PROVE  /\ \A i \in Of("report") : i \in Of("report")' /\ i <= Len(log) /\ i \in Nat /\ log'[i] = log[i]
         /\ \A i \in Of("report")' : i \in Of("report") \/ (i = Len(log) + 1 /\ e.type = "report")
         /\ e.type = "report" => Len(log) + 1 \in Of("report")'
<1>1. Of("report") = {i \in 1 .. Len(log) : log[i].type = "report"}
      /\ Of("report")' = {i \in 1 .. Len(log') : log'[i].type = "report"}
  BY DEF Of
<1> QED  BY <1>1, AppendFacts

LEMMA DecidedStays ==
  ASSUME log \in Seq(Events), NEW x \in Events, log' = Append(log, x), NEW e, NEW i, DecidedOn(e, i)
  PROVE  DecidedOn(e, i)'
<1>1. i \in Of("report") /\ i \in Of("report")' /\ i \in Nat /\ i <= Len(log) /\ log'[i] = log[i]
  BY ReportsAfter DEF DecidedOn
<1>2. Succeeds(log'[i], e)
  BY <1>1 DEF DecidedOn
<1>3. Independent(e, i)'
  <2>1. ASSUME NEW j \in Of("report")', j <= i
        PROVE  j \in Of("report") /\ log'[j] = log[j]
    <3>1. Len(log) \in Nat
      BY AppendFacts
    <3>2. j \in Of("report") \/ j = Len(log) + 1
      BY ReportsAfter
    <3>3. j \in Of("report")
      BY <1>1, <2>1, <3>1, <3>2
    <3> QED  BY <3>3, ReportsAfter
  <2> QED  BY <2>1 DEF DecidedOn, Independent
<1> QED  BY <1>1, <1>2, <1>3 DEF DecidedOn

(* An event that fits was decided on the version that is still the newest. *)
LEMMA FitsNewest ==
  ASSUME IInv, NEW e \in Events, e.type = "report", Fits(e),
         FirstVersion(e) \/ \E i \in Of("report") : DecidedOn(e, i)
  PROVE  /\ \A i \in Of("report") : log[i].version < e.version
         /\ FirstVersion(e) \/ \E i \in Newest(Of("report")) : DecidedOn(e, i)
<1>0. log \in Seq(Events)
  BY DEF IInv, TypeOK
<1>1. CASE Of("report") = {}
  BY <1>1 DEF DecidedOn
<1>2. CASE Of("report") # {}
  <2>1. PICK m \in Newest(Of("report")) : TRUE
    BY <1>2 DEF IInv, HasNewest
  <2>2. m \in Of("report") /\ m \in Nat /\ \A j \in Of("report") : j <= m /\ j \in Nat /\ log[j].version \in Nat
    BY <1>0, <2>1, ReportPositions DEF Newest, Versions
  <2>3. log[m] \in Report
    BY <2>1 DEF Report
  <2>4. e.version = log[m].version + 1
    BY <2>3 DEF Fits, NextAfter
  <2>5. \A i \in Of("report") : i # m => log[i].version < log[m].version
    BY <2>2 DEF IInv, VersionsRise
  <2>6. \A i \in Of("report") : log[i].version < e.version
    BY <2>2, <2>4, <2>5
  <2>7. ASSUME NEW i \in Of("report"), DecidedOn(e, i)
        PROVE  i = m
    <3>1. e.version = log[i].version + 1
      BY <2>7 DEF DecidedOn, Succeeds
    <3> QED  BY <2>2, <2>4, <2>5, <3>1
  <2> QED  BY <2>1, <2>6, <2>7
<1> QED  BY <1>1, <1>2
(* A version event arrives while what its command found still stands. *)
LEMMA WriteReportKeeps ==
  ASSUME IInv, NEW e \in Events, e.type = "report", Fits(e), log' = Append(log, e),
         FirstVersion(e) \/ \E i \in Of("report") : DecidedOn(e, i)
  PROVE  VersionsRise' /\ HasNewest' /\ LogDecided'
<1> DEFINE n == Len(log) + 1
<1>0. log \in Seq(Events) /\ Len(log) \in Nat /\ log'[n] = e
  BY AppendFacts DEF IInv, TypeOK
<1>1. ASSUME NEW i \in Of("report")'
      PROVE  (i \in Of("report") /\ i < n /\ i \in Nat /\ log'[i] = log[i]) \/ i = n
  <2>1. i \in Of("report") \/ i = n
    BY <1>0, ReportsAfter
  <2>2. CASE i \in Of("report")
    <3>1. i <= Len(log) /\ i \in Nat /\ log'[i] = log[i]
      BY <1>0, <2>2, ReportsAfter
    <3> QED  BY <1>0, <2>2, <3>1
  <2> QED  BY <2>1, <2>2
<1>2. n \in Of("report")' /\ \A i \in Of("report") : i \in Of("report")' /\ i < n
  BY <1>0, ReportsAfter
<1>3. VersionsRise'
  <2>1. SUFFICES ASSUME NEW i \in Of("report")', NEW j \in Of("report")', i < j
                 PROVE  log'[i].version < log'[j].version
    BY DEF VersionsRise
  <2>2. i \in Of("report") /\ log'[i] = log[i]
    <3>1. i \in Nat /\ j \in Nat /\ j <= n /\ n \in Nat
      BY <1>0, <1>1
    <3>2. i # n
      BY <2>1, <3>1
    <3> QED  BY <1>1, <3>2
  <2>3. CASE j = n
    BY <1>0, <2>2, <2>3, FitsNewest
  <2>4. CASE j # n
    BY <1>1, <2>1, <2>2, <2>4 DEF IInv, VersionsRise
  <2> QED  BY <2>3, <2>4
<1>4. HasNewest'
  <2>1. \A j \in Of("report")' : j <= n
    BY <1>0, <1>1
  <2> QED  BY <1>2, <2>1 DEF HasNewest, Newest
<1>5. LogDecided'
  <2>1. SUFFICES ASSUME NEW i \in Of("report")'
                 PROVE  \/ FirstVersion(log'[i])
                        \/ \E j \in Of("report")' : /\ j < i
                                                     /\ DecidedOn(log[i], j)'
                                                     /\ \A k \in Of("report")' : ~(j < k /\ k < i)
    BY DEF LogDecided, FirstVersion
  <2>2. CASE i = n
    <3>1. CASE FirstVersion(e)
      BY <1>0, <2>2, <3>1
    <3>2. CASE ~FirstVersion(e)
      <4>1. PICK j \in Newest(Of("report")) : DecidedOn(e, j)
        BY <3>2, FitsNewest
      <4>2. j \in Of("report") /\ j \in Of("report")' /\ j < n /\ \A k \in Of("report") : k <= j
        BY <1>2, <4>1 DEF Newest
      <4>3. DecidedOn(e, j)'
        BY <1>0, <4>1, DecidedStays
      <4>4. DecidedOn(log[i], j)'
        BY <1>0, <2>2, <4>3 DEF DecidedOn
      <4>5. \A k \in Of("report")' : ~(j < k /\ k < i)
        <5>1. SUFFICES ASSUME NEW k \in Of("report")', j < k, k < i PROVE FALSE
          OBVIOUS
        <5>2. k \in Of("report") /\ k \in Nat /\ k <= j
          BY <1>0, <1>1, <2>2, <4>2, <5>1
        <5>3. j \in Nat
          BY <1>0, <4>2, ReportsAfter
        <5> QED  BY <5>1, <5>2, <5>3
      <4> QED  BY <2>2, <4>2, <4>4, <4>5
    <3> QED  BY <3>1, <3>2
  <2>3. CASE i # n
    <3>1. i \in Of("report") /\ i < n /\ i \in Nat /\ log'[i] = log[i]
      BY <1>1, <2>3
    <3>2. CASE FirstVersion(log[i])
      BY <3>1, <3>2
    <3>3. CASE ~FirstVersion(log[i])
      <4>1. PICK j \in Of("report") : j < i /\ DecidedOn(log[i], j) /\ \A k \in Of("report") : ~(j < k /\ k < i)
        BY <3>1, <3>3 DEF IInv, LogDecided
      <4>2. DecidedOn(log[i], j)'
        <5> DEFINE r == log[i]
        <5>1. DecidedOn(r, j)
          BY <4>1
        <5>2. j \in Of("report") /\ j \in Of("report")' /\ j \in Nat /\ j <= Len(log) /\ log'[j] = log[j]
          BY <1>0, ReportsAfter
        <5>3. Succeeds(log'[j], log'[i])
          BY <3>1, <5>1, <5>2 DEF DecidedOn
        <5>4. ASSUME NEW k \in Of("report")', k <= j
                  PROVE  k \in Of("report") /\ log'[k] = log[k]
          <6>1. k # n
            BY <1>0, <5>2, <5>4
          <6> QED  BY <1>1, <6>1
        <5> QED  BY <3>1, <5>1, <5>2, <5>3, <5>4 DEF DecidedOn, Independent
      <4>3. \A k \in Of("report")' : ~(j < k /\ k < i)
        BY <1>0, <1>1, <3>1, <4>1
      <4> QED  BY <1>2, <4>1, <4>2, <4>3
    <3> QED  BY <3>2, <3>3
  <2> QED  BY <2>2, <2>3
<1> QED  BY <1>3, <1>4, <1>5

(* Any other event changes nothing about the report's versions. *)
LEMMA WriteOtherKeeps ==
  ASSUME IInv, NEW e \in Events, e.type # "report", log' = Append(log, e)
  PROVE  VersionsRise' /\ HasNewest' /\ LogDecided'
<1>0. log \in Seq(Events) /\ Len(log) \in Nat
  BY AppendFacts DEF IInv, TypeOK
<1>1. Of("report")' = Of("report") /\ \A i \in Of("report") : log'[i] = log[i]
  BY <1>0, ReportsAfter
<1>2. VersionsRise' /\ HasNewest'
  BY <1>1 DEF IInv, VersionsRise, HasNewest, Newest
<1>3. ASSUME NEW i \in Of("report"), NEW j \in Of("report"), DecidedOn(log[i], j)
      PROVE  DecidedOn(log[i], j)'
  <2>1. log'[i] = log[i] /\ log'[j] = log[j]
    BY <1>1
  <2>2. Independent(log[i], j)'
    BY <1>1, <1>3, <2>1 DEF DecidedOn, Independent
  <2> QED  BY <1>1, <1>3, <2>1, <2>2 DEF DecidedOn
<1>4. LogDecided'
  <2>1. SUFFICES ASSUME NEW i \in Of("report")
                 PROVE  \/ FirstVersion(log'[i])
                        \/ \E j \in Of("report") : /\ j < i
                                                    /\ DecidedOn(log[i], j)'
                                                    /\ \A k \in Of("report") : ~(j < k /\ k < i)
    BY <1>1 DEF LogDecided, FirstVersion
  <2> QED  BY <1>1, <1>3 DEF IInv, LogDecided
<1> QED  BY <1>2, <1>4

LEMMA WriteKeeps ==
  ASSUME IInv, NEW c \in Calls, Write(c), requests' = requests
  PROVE  IInv'
<1> DEFINE e == Head(todo[c])
<1>1. /\ todo[c] \in Seq(Events) /\ todo[c] # <<>> /\ e \in Events /\ e = todo[c][1]
      /\ Tail(todo[c]) \in Seq(Events) /\ Len(todo[c]) \in Nat /\ Len(todo[c]) >= 1
      /\ Len(Tail(todo[c])) = Len(todo[c]) - 1
      /\ \A k \in 1 .. Len(todo[c]) - 1 : Tail(todo[c])[k] = todo[c][k + 1]
  BY DEF IInv, TypeOK, Write, WriteNext, Ready
<1>2. log \in Seq(Events) /\ log' = Append(log, e) /\ Fits(e)
  BY DEF IInv, TypeOK, Write, WriteNext, Ready
<1>3. TypeOK'
  BY <1>1, <1>2, AppendFacts DEF IInv, TypeOK, Write, WriteNext, Ready
<1>4. VersionsRise' /\ HasNewest' /\ LogDecided'
  <2>1. CASE e.type = "report"
    <3>1. FirstVersion(e) \/ \E i \in Of("report") : DecidedOn(e, i)
      BY <1>1, <2>1 DEF IInv, TodoDecided
    <3> QED  BY <1>1, <1>2, <2>1, <3>1, WriteReportKeeps
  <2>2. CASE e.type # "report"
    BY <1>1, <1>2, <2>2, WriteOtherKeeps
  <2> QED  BY <2>1, <2>2
<1>5. TodoDecided'
  <2>1. SUFFICES ASSUME NEW x \in Calls, NEW k \in 1 .. Len(todo'[x]), todo'[x][k].type = "report"
                 PROVE  k = 1 /\ (FirstVersion(todo'[x][k]) \/ \E i \in Of("report")' : DecidedOn(todo[x][k], i)')
    BY DEF TodoDecided, FirstVersion
  <2>2. x # c
    <3>1. SUFFICES ASSUME x = c PROVE FALSE
      OBVIOUS
    <3>2. todo'[x] = Tail(todo[c])
      BY <3>1 DEF Write, WriteNext, IInv, TypeOK
    <3>3. k \in 1 .. Len(todo[c]) - 1 /\ k + 1 \in 1 .. Len(todo[c]) /\ todo[c][k + 1].type = "report" /\ k + 1 # 1
      BY <1>1, <2>1, <3>2
    <3> QED  BY <3>3 DEF IInv, TodoDecided
  <2>3. todo'[x] = todo[x]
    BY <2>2 DEF Write, WriteNext, IInv, TypeOK
  <2> DEFINE d == todo[x][k]
  <2>4. k = 1 /\ (FirstVersion(d) \/ \E i \in Of("report") : DecidedOn(d, i))
    BY <2>1, <2>3 DEF IInv, TodoDecided
  <2>5. ASSUME NEW i \in Of("report"), DecidedOn(d, i)
        PROVE  i \in Of("report")' /\ DecidedOn(todo[x][k], i)'
    <3>1. i \in Of("report")' /\ i \in Nat /\ i <= Len(log) /\ log'[i] = log[i] /\ Len(log) \in Nat
      BY <1>1, <1>2, ReportsAfter, AppendFacts
    <3>2. ASSUME NEW j \in Of("report")', j <= i
          PROVE  j \in Of("report") /\ log'[j] = log[j]
      <4>1. j \in Of("report") \/ j = Len(log) + 1
        BY <1>1, <1>2, ReportsAfter
      <4>2. j \in Of("report")
        BY <3>1, <3>2, <4>1
      <4> QED  BY <1>1, <1>2, <4>2, ReportsAfter
    <3> QED  BY <2>3, <2>5, <3>1, <3>2 DEF DecidedOn, Succeeds, Independent
  <2> QED  BY <2>3, <2>4, <2>5
<1> QED  BY <1>3, <1>4, <1>5 DEF IInv
LEMMA StepKeeps == IInv /\ [Next]_vars => IInv'
<1> SUFFICES ASSUME IInv, [Next]_vars PROVE IInv'
  OBVIOUS
<1>0. log \in Seq(Events) /\ requests \subseteq Requests /\ todo \in [Calls -> Seq(Events)]
  BY DEF IInv, TypeOK
<1>1. ASSUME NEW c \in Calls, Command(c), requests' = requests
      PROVE  IInv'
  <2>1. PICK events \in Seq(Events) : LeadsWithVersion(events) /\ Decide(c, events)
    BY <1>0, <1>1, CommandLeads
  <2> QED  BY <1>0, <1>1, <2>1, TodoKeeps DEF Decide
<1>2. ASSUME NEW c \in Calls, Write(c), requests' = requests
      PROVE  IInv'
  BY <1>2, WriteKeeps
<1>3. ASSUME NEW c \in Calls, Conflict(c) \/ GiveUp(c), requests' = requests
      PROVE  IInv'
  BY <1>0, <1>3, NothingLeads, TodoKeeps DEF Conflict, GiveUp
<1>4. ASSUME log' = log, todo' = todo, requests' \subseteq Requests
      PROVE  IInv'
  <2>1. TypeOK' /\ Of("report")' = Of("report")
    BY <1>4 DEF IInv, TypeOK, Of
  <2>2. VersionsRise' /\ HasNewest' /\ LogDecided' /\ TodoDecided'
    BY <1>4, <2>1 DEF IInv, VersionsRise, HasNewest, Newest, LogDecided, TodoDecided, DecidedOn,
                      Succeeds, Independent, FirstVersion
  <2> QED  BY <2>1, <2>2 DEF IInv
<1>5. ASSUME NEW a \in Humans, NEW nonce \in Nonces, NEW acknowledged \in SUBSET Notes,
             Sign(a, nonce, acknowledged)
      PROVE  IInv'
  <2>1. PICK r \in Report :
          requests' = requests \cup
            {[nonce |-> nonce, actor |-> a, version |-> r.version, acknowledged |-> acknowledged]}
    BY <1>5 DEF Sign
  <2>2. r.version \in Nat
    BY <1>0, ReportRecord DEF Versions
  <2>3. requests' \subseteq Requests
    BY <1>0, <2>1, <2>2 DEF Requests, Actors
  <2> QED  BY <1>4, <1>5, <2>3 DEF Sign
<1>6. CASE Retract /\ requests' = requests
  <2> DEFINE e == [type |-> "retraction"]
  <2>1. e \in Events /\ e.type # "report"
    BY DEF Events, Retractions
  <2>2. log' = Append(log, e) /\ todo' = todo /\ requests' = requests
    BY <1>6 DEF Retract, Elsewhere
  <2> HIDE DEF e
  <2>3. VersionsRise' /\ HasNewest' /\ LogDecided'
    BY <2>1, <2>2, WriteOtherKeeps
  <2>4. TypeOK'
    BY <1>0, <2>1, <2>2, AppendFacts DEF TypeOK
  <2>5. TodoDecided'
    <3>1. SUFFICES ASSUME NEW x \in Calls, NEW k \in 1 .. Len(todo[x]), todo[x][k].type = "report"
                   PROVE  k = 1 /\ (FirstVersion(todo[x][k]) \/ \E i \in Of("report")' : DecidedOn(todo[x][k], i)')
      BY <2>2 DEF TodoDecided, FirstVersion
    <3>2. k = 1 /\ (FirstVersion(todo[x][k]) \/ \E i \in Of("report") : DecidedOn(todo[x][k], i))
      BY <3>1 DEF IInv, TodoDecided
    <3>3. Of("report")' = Of("report") /\ \A i \in Of("report") : log'[i] = log[i]
      BY <1>0, <2>1, <2>2, ReportsAfter
    <3>4. ASSUME NEW i \in Of("report"), DecidedOn(todo[x][k], i)
          PROVE  DecidedOn(todo[x][k], i)'
      <4>1. Independent(todo[x][k], i)'
        BY <2>2, <3>3, <3>4 DEF DecidedOn, Independent
      <4> QED  BY <2>2, <3>3, <3>4, <4>1 DEF DecidedOn
    <3> QED  BY <3>2, <3>3, <3>4
  <2> QED  BY <2>3, <2>4, <2>5 DEF IInv
<1>7. CASE UNCHANGED vars
  BY <1>0, <1>4, <1>7 DEF vars
<1> QED  BY <1>1, <1>2, <1>3, <1>5, <1>6, <1>7 DEF Next

(* The inductive invariant holds in every reachable state: versions rise   *)
(* along the log and every version event was decided on its predecessor.   *)
THEOREM ReportInvariant == Spec => []IInv
<1> QED  BY InitKeeps, StepKeeps, PTL DEF Spec

(* Every event, decided or recorded, is one the workbench can produce. *)
THEOREM TypeCorrect == Spec => []TypeOK
<1>1. IInv => TypeOK
  BY DEF IInv
<1> QED  BY <1>1, ReportInvariant, PTL

(* Every approval in the log answers the version just before it. *)
LEMMA ApprovalAnswers ==
  ASSUME IInv, NEW i, ApprovedAt(i)
  PROVE  \E j \in Of("report") :
           j < i /\ DecidedOn(log[i], j) /\ \A k \in Of("report") : ~(j < k /\ k < i)
BY DEF IInv, LogDecided, ApprovedAt, FirstVersion, Approvals

(* Four eyes (authoritative_approval_state, _submission_actors): nobody    *)
(* approves a report of which they wrote or submitted any version, for any *)
(* number of people, commands, crashes and signed requests.                *)
THEOREM FourEyes == Spec => []SeparationOfDuties
<1>1. ASSUME IInv
      PROVE  SeparationOfDuties
  <2>1. SUFFICES ASSUME NEW i \in 1 .. Len(log), ApprovedAt(i), NEW m \in Of("report"), m <= i
                 PROVE  log[i].actor # log[m].author /\ (log[m].status = "IN_REVIEW" => log[i].actor # log[m].actor)
    BY DEF SeparationOfDuties
  <2>2. PICK j \in Of("report") : j < i /\ DecidedOn(log[i], j) /\ \A k \in Of("report") : ~(j < k /\ k < i)
    BY <1>1, <2>1, ApprovalAnswers
  <2>3. m \in Nat /\ j \in Nat /\ i \in Nat
    BY <1>1, ReportPositions DEF IInv, TypeOK
  <2>4. CASE m <= j
    BY <2>1, <2>2, <2>4 DEF DecidedOn, Independent, ApprovedAt
  <2>5. CASE ~(m <= j)
    <3>1. m = i
      BY <2>1, <2>2, <2>3, <2>5
    <3>2. log[i].author = log[j].author /\ log[i].status \in Approvals
      BY <2>1, <2>2 DEF DecidedOn, Succeeds, ApprovedAt
    <3>3. log[i].actor # log[j].author
      BY <2>2, <2>3, <3>2 DEF DecidedOn, Independent
    <3> QED  BY <3>1, <3>2, <3>3 DEF Approvals
  <2> QED  BY <2>4, <2>5
<1> QED  BY <1>1, ReportInvariant, PTL

(* What is approved is what was put up for review (_next_version and the   *)
(* store's version check): same text, same author, nothing in between.     *)
THEOREM ReviewedIsApproved == Spec => []ApprovedAsReviewed
<1>1. ASSUME IInv
      PROVE  ApprovedAsReviewed
  <2>1. SUFFICES ASSUME NEW i \in 1 .. Len(log), ApprovedAt(i)
                 PROVE  \E j \in 1 .. i - 1 :
                          /\ Reviewed(j, i)
                          /\ log[j].content = log[i].content /\ log[j].author = log[i].author
                          /\ \A k \in Of("report") : ~(j < k /\ k < i)
    BY DEF ApprovedAsReviewed
  <2>2. PICK j \in Of("report") : j < i /\ DecidedOn(log[i], j) /\ \A k \in Of("report") : ~(j < k /\ k < i)
    BY <1>1, <2>1, ApprovalAnswers
  <2>3. j \in 1 .. Len(log) /\ j \in 1 .. i - 1
    BY <1>1, <2>2, ReportPositions DEF IInv, TypeOK
  <2> QED  BY <2>1, <2>2, <2>3 DEF DecidedOn, Succeeds, ApprovedAt, Reviewed
<1> QED  BY <1>1, ReportInvariant, PTL

(* Statuses follow one another as the workflow allows, across commands     *)
(* that decided on stale copies.                                           *)
THEOREM Lifecycle == Spec => []LifecycleHolds
<1>1. ASSUME IInv
      PROVE  LifecycleHolds
  <2>1. SUFFICES ASSUME NEW i \in Of("report"), NEW j \in Of("report"), log[j].version = log[i].version + 1
                 PROVE  /\ i < j
                        /\ log[j].status = "IN_REVIEW" => log[i].status \in {"DRAFT", "RETURNED_FOR_REVISION"}
                        /\ log[j].status \in Approvals \cup Rejections => log[i].status = "IN_REVIEW"
    BY DEF LifecycleHolds
  <2>2. \A k \in Of("report") : k \in Nat /\ log[k].version \in Nat
    BY <1>1, ReportPositions DEF IInv, TypeOK, Versions
  <2>3. \A k, m \in Of("report") : log[k].version < log[m].version => k < m
    BY <1>1, <2>2 DEF IInv, VersionsRise
  <2>4. i < j
    BY <2>1, <2>2, <2>3
  <2>5. CASE FirstVersion(log[j])
    BY <2>4, <2>5 DEF FirstVersion, Approvals, Rejections
  <2>6. CASE ~FirstVersion(log[j])
    <3>1. PICK p \in Of("report") : DecidedOn(log[j], p)
      BY <1>1, <2>6 DEF IInv, LogDecided
    <3>2. log[p].version = log[i].version
      BY <2>1, <2>2, <3>1 DEF DecidedOn, Succeeds
    <3>3. p = i
      <4>1. ~(p < i) /\ ~(i < p)
        BY <1>1, <2>2, <3>2 DEF IInv, VersionsRise
      <4> QED  BY <2>2, <4>1
    <3> QED  BY <2>4, <3>1, <3>3 DEF DecidedOn, Succeeds
  <2> QED  BY <2>5, <2>6
<1> QED  BY <1>1, ReportInvariant, PTL
-----------------------------------------------------------------------------
(***************************************************************************)
(* Effects.  A command that changes the report's version may append one    *)
(* disposition and one audit record after it.  They belong to that         *)
(* version, which the store lets only one command write.                   *)
(***************************************************************************)
IsEffect(e) == e.type \in {"disposition", "signed"}

(* The version whose command appends the effect. *)
Owner(e) ==
  IF e.type = "signed" \/ (e.type = "disposition" /\ e.disposition = "SUPERSEDED")
  THEN e.version + 1 ELSE e.version

SameEffect(x, y) == x.type = y.type /\ Owner(x) = Owner(y)

(* What a disposition, or an audit record, speaks of. *)
Concerns(e, r) ==
  \/ /\ e.type = "disposition" /\ r.type = "report" /\ r.version = e.version
     /\ CASE e.disposition = "SUBMITTED"  -> r.status = "IN_REVIEW" /\ r.actor = e.actor
          [] e.disposition = "SUPERSEDED" -> r.status \in Approvals
          [] OTHER -> r.status = e.disposition /\ r.actor = e.actor
  \/ /\ e.type = "signed" /\ r.type = "disposition" /\ r.version = e.version + 1
     /\ r.disposition \in Approvals /\ r.actor = e.actor

Recorded(v) == \E i \in Of("report") : log[i].version = v
Effects(s)  == {k \in 1 .. Len(s) : IsEffect(s[k])}
Underway(s) == s # <<>> /\ s[1].type # "report"

(* What position k of a plan speaks of is in the log, or comes before it.  *)
Grounded(s, k) ==
  \/ \E j \in 1 .. Len(log) : Concerns(s[k], log[j])
  \/ \E m \in 1 .. Len(s) : m < k /\ Concerns(s[k], s[m])

LogGrounded == \A i \in Effects(log) : \E j \in 1 .. Len(log) : j < i /\ Concerns(log[i], log[j])
LogOnce     == \A i, j \in Effects(log) : SameEffect(log[i], log[j]) => i = j
LogOwned    == \A i \in Effects(log) : Recorded(Owner(log[i]))
NoncesOnce  == \A i, j \in Of("signed") : log[i].nonce = log[j].nonce => i = j

TodoOnce     == \A c \in Calls : \A k, m \in Effects(todo[c]) : todo[c][k].type = todo[c][m].type => k = m
TodoGrounded == \A c \in Calls : \A k \in Effects(todo[c]) : Grounded(todo[c], k)
TodoOwned    ==
  \A c \in Calls : \A k \in Effects(todo[c]) : todo[c][1].type = "report" => Owner(todo[c][k]) = todo[c][1].version
TodoNew      ==
  \A c \in Calls : Underway(todo[c]) => \A k \in Effects(todo[c]) :
    Recorded(Owner(todo[c][k])) /\ \A i \in Effects(log) : ~SameEffect(log[i], todo[c][k])
TodoApart    ==
  \A c, d \in Calls : c # d /\ Underway(todo[c]) /\ Underway(todo[d]) =>
    \A k \in Effects(todo[c]), m \in Effects(todo[d]) : Owner(todo[c][k]) # Owner(todo[d][m])

LogSound  == LogGrounded /\ LogOnce /\ LogOwned /\ NoncesOnce
TodoSound == TodoOnce /\ TodoGrounded /\ TodoOwned /\ TodoNew /\ TodoApart

(* What a command may decide on: its version, and then its effects.        *)
Planned(s) ==
  /\ \A k \in Effects(s) : s[1].type = "report" /\ Owner(s[k]) = s[1].version /\ Grounded(s, k)
  /\ \A k, m \in Effects(s) : s[k].type = s[m].type => k = m

LEMMA PlanOfOne ==
  ASSUME NEW e, ~IsEffect(e)
  PROVE  Planned(<<e>>)
<1>1. Len(<<e>>) = 1 /\ <<e>>[1] = e
  OBVIOUS
<1>2. Effects(<<e>>) = {}
  BY <1>1 DEF Effects
<1> QED  BY <1>2 DEF Planned

LEMMA PlanOfNone == Planned(<<>>)
<1>1. Effects(<<>>) = {}
  BY DEF Effects
<1> QED  BY <1>1 DEF Planned

LEMMA PlanOfTwo ==
  ASSUME NEW s, Len(s) = 2, s[1].type = "report", s[2].type = "disposition", Owner(s[2]) = s[1].version,
         Concerns(s[2], s[1]) \/ \E j \in 1 .. Len(log) : Concerns(s[2], log[j])
  PROVE  Planned(s)
<1>1. Effects(s) = {2}
  BY DEF Effects, IsEffect
<1>2. Grounded(s, 2)
  BY DEF Grounded
<1> QED  BY <1>1, <1>2 DEF Planned

LEMMA PlanOfThree ==
  ASSUME NEW s, Len(s) = 3, s[1].type = "report", s[2].type = "disposition", s[3].type = "signed",
         Owner(s[2]) = s[1].version, Owner(s[3]) = s[1].version, Concerns(s[2], s[1]), Concerns(s[3], s[2])
  PROVE  Planned(s)
<1>1. Effects(s) = {2, 3}
  BY DEF Effects, IsEffect
<1>2. Grounded(s, 2) /\ Grounded(s, 3)
  BY DEF Grounded
<1> QED  BY <1>1, <1>2 DEF Planned

LEMMA JoinTwo ==
  ASSUME NEW e, NEW d
  PROVE  LET s == <<e>> \o <<d>> IN Len(s) = 2 /\ s[1] = e /\ s[2] = d
<1>1. <<e>> \in Seq({e, d}) /\ <<d>> \in Seq({e, d}) /\ Len(<<e>>) = 1 /\ Len(<<d>>) = 1
      /\ <<e>>[1] = e /\ <<d>>[1] = d
  OBVIOUS
<1> QED  BY <1>1

LEMMA JoinThree ==
  ASSUME NEW e, NEW d, NEW f
  PROVE  LET s == <<e, d>> \o <<f>> IN Len(s) = 3 /\ s[1] = e /\ s[2] = d /\ s[3] = f
<1>1. <<e, d>> \in Seq({e, d, f}) /\ <<f>> \in Seq({e, d, f}) /\ Len(<<e, d>>) = 2 /\ Len(<<f>>) = 1
      /\ <<e, d>>[1] = e /\ <<e, d>>[2] = d /\ <<f>>[1] = f
  OBVIOUS
<1> QED  BY <1>1

(* A change of status and its disposition. *)
LEMMA DisposedIsPlanned ==
  ASSUME log \in Seq(Events), NEW r \in Report, NEW a,
         NEW status \in {"IN_REVIEW"} \cup Approvals \cup Rejections, NEW dissent
  PROVE  \E e, d : /\ Disposed(r, status, a, dissent) = <<e, d>>
                   /\ e.type = "report" /\ d.type = "disposition" /\ e.version = r.version + 1
                   /\ d.version = r.version + 1 /\ d.actor = a
                   /\ Owner(d) = e.version /\ Concerns(d, e)
                   /\ status \in Approvals => d.disposition \in Approvals
<1> DEFINE kind == IF status = "IN_REVIEW" THEN "SUBMITTED" ELSE status
           e == Version(r.version + 1, status, r.author, a, r.content, r.cites)
           d == Disposition(r.version + 1, kind, a, dissent)
<1>1. Disposed(r, status, a, dissent) = <<e, d>>
  BY DEF Disposed, Restated
<1>2. /\ e.type = "report" /\ e.version = r.version + 1 /\ e.status = status /\ e.actor = a
      /\ d.type = "disposition" /\ d.version = r.version + 1 /\ d.disposition = kind /\ d.actor = a
  BY DEF Version, Disposition
<1>3. kind # "SUPERSEDED" /\ (kind = "SUBMITTED" => status = "IN_REVIEW")
      /\ (kind # "SUBMITTED" => kind = status) /\ (status \in Approvals => kind \in Approvals)
  BY DEF Approvals, Rejections
<1> HIDE DEF kind, e, d
<1>4. Owner(d) = e.version
  BY <1>2, <1>3 DEF Owner
<1>5. Concerns(d, e)
  BY <1>2, <1>3 DEF Concerns
<1> QED  BY <1>1, <1>2, <1>3, <1>4, <1>5

LEMMA CommandPlans ==
  ASSUME log \in Seq(Events), requests \subseteq Requests, NEW c \in Calls, Command(c)
  PROVE  \E s : Planned(s) /\ Decide(c, s)
<1>1. ASSUME NEW a, NEW cites, Create(c, a, cites)
      PROVE  \E s : Planned(s) /\ Decide(c, s)
  <2>1. ~IsEffect(Version(1, "DRAFT", a, a, 1, cites))
    BY DEF IsEffect, Version
  <2> QED  BY <1>1, <2>1, PlanOfOne DEF Create
<1>2. ASSUME NEW a, NEW cites, Edit(c, a, cites)
      PROVE  \E s : Planned(s) /\ Decide(c, s)
  <2>1. PICK r \in Report :
          Decide(c, <<Version(r.version + 1, "DRAFT", a, a, r.version + 1, cites)>>
                      \o IF r.status \in Approvals
                         THEN <<Disposition(r.version, "SUPERSEDED", a, {})>> ELSE <<>>)
    BY <1>2 DEF Edit
  <2> DEFINE e == Version(r.version + 1, "DRAFT", a, a, r.version + 1, cites)
             d == Disposition(r.version, "SUPERSEDED", a, {})
  <2>2. /\ e.type = "report" /\ e.version = r.version + 1
        /\ d.type = "disposition" /\ d.version = r.version /\ d.disposition = "SUPERSEDED"
    BY DEF Version, Disposition
  <2>3. PICK j \in Of("report") : r = log[j]
    BY ReportRecord
  <2>4. j \in 1 .. Len(log) /\ log[j].type = "report"
    BY DEF Of
  <2>5. Decide(c, <<e>> \o IF r.status \in Approvals THEN <<d>> ELSE <<>>)
    BY <2>1
  <2> HIDE DEF e, d
  <2>6. CASE r.status \in Approvals
    <3>1. Owner(d) = e.version /\ Concerns(d, log[j])
      BY <2>2, <2>3, <2>4, <2>6 DEF Owner, Concerns
    <3> DEFINE s == <<e>> \o <<d>>
    <3>2. Len(s) = 2 /\ s[1] = e /\ s[2] = d
      BY JoinTwo
    <3> HIDE DEF s
    <3>3. Planned(s)
      BY <2>2, <2>4, <3>1, <3>2, PlanOfTwo
    <3> QED  BY <2>5, <2>6, <3>3 DEF s
  <2>7. CASE r.status \notin Approvals
    <3>1. Planned(<<e>>) /\ <<e>> \o <<>> = <<e>>
      BY <2>2, PlanOfOne DEF IsEffect
    <3> QED  BY <2>5, <2>7, <3>1
  <2> QED  BY <2>6, <2>7
<1>3. ASSUME NEW r \in Report, NEW a, NEW status \in {"IN_REVIEW"} \cup Approvals \cup Rejections, NEW dissent
      PROVE  Planned(Disposed(r, status, a, dissent))
  <2>1. PICK e, d : /\ Disposed(r, status, a, dissent) = <<e, d>>
                    /\ e.type = "report" /\ d.type = "disposition" /\ Owner(d) = e.version /\ Concerns(d, e)
    BY DisposedIsPlanned
  <2>2. Len(<<e, d>>) = 2 /\ <<e, d>>[1] = e /\ <<e, d>>[2] = d
    OBVIOUS
  <2> QED  BY <2>1, <2>2, PlanOfTwo
<1>4. (IF OpenDissent = {} THEN "APPROVED" ELSE "APPROVED_WITH_DISSENT") \in Approvals
  BY DEF Approvals
<1>5. ASSUME NEW a, Submit(c, a)
      PROVE  \E s : Planned(s) /\ Decide(c, s)
  BY <1>3, <1>5 DEF Submit
<1>6. ASSUME NEW a, NEW acknowledged, Approve(c, a, acknowledged)
      PROVE  \E s : Planned(s) /\ Decide(c, s)
  BY <1>3, <1>4, <1>6 DEF Approve, Approval
<1>7. ASSUME NEW a, NEW status \in Rejections, Reject(c, a, status)
      PROVE  \E s : Planned(s) /\ Decide(c, s)
  BY <1>3, <1>7 DEF Reject
<1>8. ASSUME NEW q \in requests, ApproveSigned(c, q)
      PROVE  \E s : Planned(s) /\ Decide(c, s)
  <2>1. PICK r \in Report : q.version = r.version /\ Decide(c, Approval(r, q.actor) \o <<SignedAction(q)>>)
    BY <1>8 DEF ApproveSigned
  <2>2. PICK e, d : /\ Approval(r, q.actor) = <<e, d>>
                    /\ e.type = "report" /\ d.type = "disposition" /\ e.version = r.version + 1
                    /\ d.version = r.version + 1 /\ d.actor = q.actor
                    /\ Owner(d) = e.version /\ Concerns(d, e) /\ d.disposition \in Approvals
    BY <1>4, DisposedIsPlanned DEF Approval
  <2> DEFINE f == SignedAction(q)
  <2>3. f.type = "signed" /\ f.version = q.version /\ f.actor = q.actor
    BY DEF SignedAction
  <2>4. Decide(c, <<e, d>> \o <<f>>)
    BY <2>1, <2>2
  <2> HIDE DEF f
  <2>5. Owner(f) = e.version /\ Concerns(f, d)
    BY <2>1, <2>2, <2>3 DEF Owner, Concerns
  <2> DEFINE s == <<e, d>> \o <<f>>
  <2>6. Len(s) = 3 /\ s[1] = e /\ s[2] = d /\ s[3] = f
    BY JoinThree
  <2> HIDE DEF s
  <2>7. Planned(s)
    BY <2>2, <2>3, <2>5, <2>6, PlanOfThree
  <2> QED  BY <2>4, <2>7 DEF s
<1>9. \A n, v, a, status, restricted : Planned(<<NoteVersion(n, v, a, status, restricted)>>)
  <2>1. \A n, v, a, status, restricted : ~IsEffect(NoteVersion(n, v, a, status, restricted))
    BY DEF IsEffect, NoteVersion
  <2> QED  BY <2>1, PlanOfOne
<1>10. ASSUME NEW a, NEW n, NEW restricted, Dissent(c, a, n, restricted)
       PROVE  \E s : Planned(s) /\ Decide(c, s)
  BY <1>9, <1>10 DEF Dissent
<1>11. ASSUME NEW a, NEW n, NEW status, Resolve(c, a, n, status)
       PROVE  \E s : Planned(s) /\ Decide(c, s)
  BY <1>9, <1>11 DEF Resolve
<1> QED  BY <1>1, <1>2, <1>5, <1>6, <1>7, <1>8, <1>10, <1>11 DEF Command

-----------------------------------------------------------------------------
Sound == IInv /\ LogSound /\ TodoSound

(* A decision, or the end of a command. *)
LEMMA PlanKeeps ==
  ASSUME Sound, NEW c \in Calls, NEW s, Planned(s), todo' = [todo EXCEPT ![c] = s], log' = log
  PROVE  LogSound' /\ TodoSound'
<1>0. todo \in [Calls -> Seq(Events)]
  BY DEF Sound, IInv, TypeOK
<1>1. todo'[c] = s /\ \A x \in Calls : x # c => todo'[x] = todo[x]
  BY <1>0
<1>2. Of("report")' = Of("report") /\ Of("signed")' = Of("signed") /\ Effects(log)' = Effects(log)
  BY DEF Of, Effects
<1>3. \A v : Recorded(v)' <=> Recorded(v)
  BY <1>2 DEF Recorded
<1>4. LogSound'
  BY <1>2, <1>3 DEF Sound, LogSound, LogGrounded, LogOnce, LogOwned, NoncesOnce
<1>5. \A x \in Calls : x # c => Effects(todo'[x]) = Effects(todo[x])
  BY <1>1
<1>6. \A k \in Effects(s) : ~Underway(s)
  BY DEF Planned, Underway
<1>7. TodoOnce'
  <2>1. SUFFICES ASSUME NEW x \in Calls PROVE \A k, m \in Effects(todo'[x]) : todo'[x][k].type = todo'[x][m].type => k = m
    BY DEF TodoOnce, Effects
  <2>2. CASE x = c
    BY <1>1, <2>2 DEF Planned
  <2>3. CASE x # c
    BY <1>1, <2>3 DEF Sound, TodoSound, TodoOnce
  <2> QED  BY <2>2, <2>3
<1>8. TodoGrounded'
  <2>1. SUFFICES ASSUME NEW x \in Calls PROVE \A k \in Effects(todo'[x]) : Grounded(todo'[x], k)
    BY DEF TodoGrounded, Effects, Grounded
  <2>2. CASE x = c
    BY <1>1, <2>2 DEF Planned
  <2>3. CASE x # c
    BY <1>1, <2>3 DEF Sound, TodoSound, TodoGrounded
  <2> QED  BY <2>2, <2>3
<1>9. TodoOwned'
  <2>1. SUFFICES ASSUME NEW x \in Calls
                 PROVE  \A k \in Effects(todo'[x]) : todo'[x][1].type = "report" => Owner(todo'[x][k]) = todo'[x][1].version
    BY DEF TodoOwned, Effects
  <2>2. CASE x = c
    BY <1>1, <2>2 DEF Planned
  <2>3. CASE x # c
    BY <1>1, <2>3 DEF Sound, TodoSound, TodoOwned
  <2> QED  BY <2>2, <2>3
<1>10. TodoNew'
  <2>1. SUFFICES ASSUME NEW x \in Calls, Underway(todo'[x]), NEW k \in Effects(todo'[x])
                 PROVE  Recorded(Owner(todo'[x][k])) /\ \A i \in Effects(log) : ~SameEffect(log[i], todo'[x][k])
    BY <1>2, <1>3 DEF TodoNew, Effects, Underway
  <2>2. x # c
    BY <1>1, <1>6, <2>1
  <2> QED  BY <1>1, <2>1, <2>2 DEF Sound, TodoSound, TodoNew
<1>11. TodoApart'
  <2>1. SUFFICES ASSUME NEW x \in Calls, NEW y \in Calls, x # y, Underway(todo'[x]), Underway(todo'[y]),
                        NEW k \in Effects(todo'[x]), NEW m \in Effects(todo'[y])
                 PROVE  Owner(todo'[x][k]) # Owner(todo'[y][m])
    BY DEF TodoApart, Effects, Underway
  <2>2. x # c /\ y # c
    BY <1>1, <1>6, <2>1
  <2> QED  BY <1>1, <2>1, <2>2 DEF Sound, TodoSound, TodoApart
<1> QED  BY <1>4, <1>7, <1>8, <1>9, <1>10, <1>11 DEF TodoSound

(* What an append adds to what the log says. *)
LEMMA EffectsAfter ==
  ASSUME log \in Seq(Events), NEW e \in Events, log' = Append(log, e), NEW n, n = Len(log) + 1
  PROVE  /\ n \in Nat /\ log'[n] = e /\ Len(log') = n
         /\ \A i \in 1 .. Len(log) : i \in 1 .. Len(log') /\ i \in Nat /\ i < n /\ log'[i] = log[i]
         /\ \A i \in Effects(log) : i \in 1 .. Len(log)
         /\ \A i \in Effects(log') : i \in Effects(log) \/ (i = n /\ IsEffect(e))
         /\ \A i \in Of("signed")' : (i \in Of("signed") /\ i \in 1 .. Len(log)) \/ (i = n /\ e.type = "signed")
<1>1. /\ Of("signed") = {i \in 1 .. Len(log) : log[i].type = "signed"}
      /\ Of("signed")' = {i \in 1 .. Len(log') : log'[i].type = "signed"}
  BY DEF Of
<1>2. /\ Len(log) \in Nat /\ n \in Nat /\ log'[n] = e /\ Len(log') = n
      /\ \A i \in 1 .. Len(log) : log'[i] = log[i]
  BY AppendFacts
<1>3. \A i \in 1 .. Len(log') : i \in 1 .. Len(log) \/ i = n
  BY <1>2
<1>4. \A i \in 1 .. Len(log) : i \in 1 .. Len(log') /\ i \in Nat /\ i < n
  BY <1>2
<1> QED  BY <1>1, <1>2, <1>3, <1>4 DEF Effects

LEMMA StaysRecorded ==
  ASSUME log \in Seq(Events), NEW e \in Events, log' = Append(log, e)
  PROVE  /\ \A v : Recorded(v) => \E i \in Of("report")' : log'[i].version = v
         /\ e.type = "report" => \E i \in Of("report")' : log'[i].version = e.version
<1>1. ASSUME NEW i \in Of("report")
      PROVE  i \in Of("report")' /\ log'[i] = log[i]
  BY ReportsAfter
<1>2. e.type = "report" => Len(log) + 1 \in Of("report")' /\ log'[Len(log) + 1] = e
  BY ReportsAfter, AppendFacts
<1> QED  BY <1>1, <1>2 DEF Recorded

LEMMA LogKeeps ==
  ASSUME Sound, NEW e \in Events, log' = Append(log, e),
         IsEffect(e) => /\ \E j \in 1 .. Len(log) : Concerns(e, log[j])
                        /\ Recorded(Owner(e))
                        /\ \A i \in Effects(log) : ~SameEffect(log[i], e),
         e.type = "signed" => ~NonceSeen(e.nonce)
  PROVE  LogSound'
<1>0. log \in Seq(Events)
  BY DEF Sound, IInv, TypeOK
<1>1. PICK n : n = Len(log) + 1
  OBVIOUS
<1>2. /\ n \in Nat /\ log'[n] = e /\ Len(log') = n
      /\ \A i \in 1 .. Len(log) : i \in 1 .. Len(log') /\ i \in Nat /\ i < n /\ log'[i] = log[i]
      /\ \A i \in Effects(log) : i \in 1 .. Len(log)
      /\ \A i \in Effects(log') : i \in Effects(log) \/ (i = n /\ IsEffect(e))
      /\ \A i \in Of("signed")' : (i \in Of("signed") /\ i \in 1 .. Len(log)) \/ (i = n /\ e.type = "signed")
  BY <1>0, <1>1, EffectsAfter
<1>3. LogGrounded'
  <2>1. SUFFICES ASSUME NEW i \in Effects(log')
                 PROVE  \E j \in 1 .. Len(log') : j < i /\ Concerns(log'[i], log'[j])
    BY DEF LogGrounded, Effects
  <2>2. CASE i = n /\ IsEffect(e)
    BY <1>2, <2>2
  <2>3. CASE i \in Effects(log)
    <3>1. PICK j \in 1 .. Len(log) : j < i /\ Concerns(log[i], log[j])
      BY <2>3 DEF Sound, LogSound, LogGrounded
    <3> QED  BY <1>2, <2>3, <3>1
  <2> QED  BY <1>2, <2>1, <2>2, <2>3
<1>4. LogOnce'
  <2>1. SUFFICES ASSUME NEW i \in Effects(log'), NEW j \in Effects(log'), SameEffect(log'[i], log'[j])
                 PROVE  i = j
    BY DEF LogOnce, Effects
  <2>2. \A x, y : SameEffect(x, y) => SameEffect(y, x)
    BY DEF SameEffect
  <2>3. CASE i \in Effects(log) /\ j \in Effects(log)
    BY <1>2, <2>1, <2>3 DEF Sound, LogSound, LogOnce
  <2>4. CASE IsEffect(e) /\ (i = n \/ j = n)
    BY <1>2, <2>1, <2>2, <2>4
  <2> QED  BY <1>2, <2>3, <2>4
<1>5. LogOwned'
  <2>1. SUFFICES ASSUME NEW i \in Effects(log')
                 PROVE  \E j \in Of("report")' : log'[j].version = Owner(log'[i])
    BY DEF LogOwned, Effects, Recorded, Owner
  <2>2. Recorded(Owner(log'[i]))
    BY <1>2 DEF Sound, LogSound, LogOwned
  <2> QED  BY <1>0, <2>2, StaysRecorded
<1>6. NoncesOnce'
  <2>1. SUFFICES ASSUME NEW i \in Of("signed")', NEW j \in Of("signed")', log'[i].nonce = log'[j].nonce
                 PROVE  i = j
    BY DEF NoncesOnce
  <2>2. CASE i \in Of("signed") /\ i \in 1 .. Len(log) /\ j \in Of("signed") /\ j \in 1 .. Len(log)
    BY <1>2, <2>1, <2>2 DEF Sound, LogSound, NoncesOnce
  <2>3. CASE e.type = "signed" /\ (i = n \/ j = n)
    BY <1>2, <2>1, <2>3 DEF NonceSeen
  <2> QED  BY <1>2, <2>2, <2>3
<1> QED  BY <1>3, <1>4, <1>5, <1>6 DEF LogSound

(* What a call has under way stands when another event is appended. *)
LEMMA WriteSoundly ==
  ASSUME Sound, NEW c \in Calls, Write(c)
  PROVE  LogSound' /\ TodoSound'
<1> DEFINE e == Head(todo[c])
           rest == Tail(todo[c])
<1>1. /\ todo[c] \in Seq(Events) /\ todo[c] # <<>> /\ e \in Events /\ e = todo[c][1]
      /\ Len(todo[c]) \in Nat /\ Len(todo[c]) >= 1 /\ Len(rest) = Len(todo[c]) - 1
      /\ \A k \in 1 .. Len(rest) : rest[k] = todo[c][k + 1] /\ k + 1 \in 1 .. Len(todo[c]) /\ k \in Nat /\ k # 0
  BY DEF Sound, IInv, TypeOK, Write, WriteNext, Ready
<1>2. log \in Seq(Events) /\ log' = Append(log, e) /\ Fits(e) /\ todo'[c] = rest
      /\ \A x \in Calls : x # c => todo'[x] = todo[x]
  BY DEF Sound, IInv, TypeOK, Write, WriteNext, Ready
<1> HIDE DEF e, rest
<1>3. \A k \in Effects(rest) : k + 1 \in Effects(todo[c]) /\ k \in Nat /\ k # 0 /\ rest[k] = todo[c][k + 1]
  BY <1>1 DEF Effects
<1>4. IsEffect(e) => 1 \in Effects(todo[c]) /\ Underway(todo[c])
  BY <1>1 DEF Effects, Underway, IsEffect
<1>5. PICK n : n = Len(log) + 1
  OBVIOUS
<1>6. /\ n \in Nat /\ log'[n] = e /\ Len(log') = n
      /\ \A i \in 1 .. Len(log) : i \in 1 .. Len(log') /\ i \in Nat /\ i < n /\ log'[i] = log[i]
      /\ \A i \in Effects(log) : i \in 1 .. Len(log)
      /\ \A i \in Effects(log') : i \in Effects(log) \/ (i = n /\ IsEffect(e))
  BY <1>1, <1>2, <1>5, EffectsAfter
<1>7. /\ \A v : Recorded(v) => \E i \in Of("report")' : log'[i].version = v
      /\ e.type = "report" => \E i \in Of("report")' : log'[i].version = e.version
  BY <1>1, <1>2, StaysRecorded
<1>8. (* A version that is being written is new. *)
      e.type = "report" => ~Recorded(e.version)
  <2>1. SUFFICES ASSUME e.type = "report", NEW i \in Of("report"), log[i].version = e.version PROVE FALSE
    BY DEF Recorded
  <2>2. FirstVersion(e) \/ \E j \in Of("report") : DecidedOn(e, j)
    BY <1>1, <2>1 DEF Sound, IInv, TodoDecided
  <2>3. log[i].version < e.version /\ log[i].version \in Nat
    BY <1>1, <1>2, <2>1, <2>2, FitsNewest, ReportPositions DEF Sound, Versions
  <2> QED  BY <2>1, <2>3
<1>9. LogSound'
  <2>1. IsEffect(e) => \E j \in 1 .. Len(log) : Concerns(e, log[j])
    <3>1. IsEffect(e) => Grounded(todo[c], 1)
      BY <1>4 DEF Sound, TodoSound, TodoGrounded
    <3>2. \A m \in 1 .. Len(todo[c]) : ~(m < 1)
      BY <1>1
    <3> QED  BY <1>1, <3>1, <3>2 DEF Grounded
  <2>2. IsEffect(e) => Recorded(Owner(e)) /\ \A i \in Effects(log) : ~SameEffect(log[i], e)
    BY <1>1, <1>4 DEF Sound, TodoSound, TodoNew
  <2>3. e.type = "signed" => ~NonceSeen(e.nonce)
    BY <1>2 DEF Fits
  <2> QED  BY <1>1, <1>2, <2>1, <2>2, <2>3, LogKeeps
<1>10. TodoOnce'
  <2>1. SUFFICES ASSUME NEW x \in Calls, NEW k \in Effects(todo'[x]), NEW m \in Effects(todo'[x]),
                        todo'[x][k].type = todo'[x][m].type
                 PROVE  k = m
    BY DEF TodoOnce, Effects
  <2>2. CASE x = c
    <3>1. k + 1 = m + 1
      BY <1>2, <1>3, <2>1, <2>2 DEF Sound, TodoSound, TodoOnce
    <3> QED  BY <1>2, <1>3, <2>2, <3>1
  <2>3. CASE x # c
    BY <1>2, <2>1, <2>3 DEF Sound, TodoSound, TodoOnce
  <2> QED  BY <2>2, <2>3
<1>11. TodoGrounded'
  <2>1. SUFFICES ASSUME NEW x \in Calls, NEW k \in Effects(todo'[x])
                 PROVE  \/ \E j \in 1 .. Len(log') : Concerns(todo'[x][k], log'[j])
                        \/ \E m \in 1 .. Len(todo'[x]) : m < k /\ Concerns(todo'[x][k], todo'[x][m])
    BY DEF TodoGrounded, Effects, Grounded
  <2>2. \A d : (\E j \in 1 .. Len(log) : Concerns(d, log[j])) => \E j \in 1 .. Len(log') : Concerns(d, log'[j])
    BY <1>6
  <2>3. CASE x = c
    <3>1. Grounded(todo[c], k + 1) /\ k \in Nat /\ k # 0 /\ todo'[x][k] = todo[c][k + 1]
      BY <1>2, <1>3, <2>3 DEF Sound, TodoSound, TodoGrounded
    <3>2. CASE \E j \in 1 .. Len(log) : Concerns(todo[c][k + 1], log[j])
      BY <2>2, <3>1, <3>2
    <3>3. CASE \E m \in 1 .. Len(todo[c]) : m < k + 1 /\ Concerns(todo[c][k + 1], todo[c][m])
      <4>1. PICK m \in 1 .. Len(todo[c]) : m < k + 1 /\ Concerns(todo[c][k + 1], todo[c][m])
        BY <3>3
      <4>2. CASE m = 1
        <5>1. n \in 1 .. Len(log') /\ log'[n] = todo[c][m]
          BY <1>1, <1>2, <1>5, <1>6, <4>2
        <5> QED  BY <3>1, <4>1, <5>1
      <4>3. CASE m # 1
        <5>1. m - 1 \in 1 .. Len(rest) /\ m - 1 < k /\ (m - 1) + 1 = m
          BY <1>1, <3>1, <4>1, <4>3
        <5>2. rest[m - 1] = todo[c][m]
          BY <1>1, <5>1
        <5> QED  BY <1>2, <2>3, <3>1, <4>1, <5>1, <5>2
      <4> QED  BY <4>2, <4>3
    <3> QED  BY <3>1, <3>2, <3>3 DEF Grounded
  <2>4. CASE x # c
    <3>1. Grounded(todo[x], k) /\ todo'[x] = todo[x]
      BY <1>2, <2>4 DEF Sound, TodoSound, TodoGrounded
    <3> QED  BY <2>2, <3>1 DEF Grounded
  <2> QED  BY <2>3, <2>4
<1>12. (* After its version, what a command does is under way. *)
       rest # <<>> => rest[1].type # "report"
  <2>1. SUFFICES ASSUME rest # <<>>, rest[1].type = "report" PROVE FALSE
    OBVIOUS
  <2>2. 1 \in 1 .. Len(rest)
    <3>1. rest \in Seq(Events)
      BY <1>1 DEF rest
    <3> QED  BY <2>1, <3>1
  <2>3. todo[c][2].type = "report" /\ 2 \in 1 .. Len(todo[c])
    BY <1>1, <2>1, <2>2
  <2> QED  BY <2>3 DEF Sound, IInv, TodoDecided
<1>13. TodoOwned'
  <2>1. SUFFICES ASSUME NEW x \in Calls, NEW k \in Effects(todo'[x]), todo'[x][1].type = "report"
                 PROVE  Owner(todo'[x][k]) = todo'[x][1].version
    BY DEF TodoOwned, Effects
  <2>2. CASE x = c
    <3>1. Len(rest) \in Nat /\ k \in 1 .. Len(rest)
      BY <1>1, <1>2, <2>2 DEF Effects
    <3>2. rest # <<>>
      BY <3>1
    <3> QED  BY <1>2, <1>12, <2>1, <2>2, <3>2
  <2>3. CASE x # c
    BY <1>2, <2>1, <2>3 DEF Sound, TodoSound, TodoOwned
  <2> QED  BY <2>2, <2>3
<1>14. (* What was under way, or has just begun, is owned by a version that is there now. *)
       ASSUME NEW k \in Effects(rest)
       PROVE  /\ e.type = "report" => Owner(rest[k]) = e.version
              /\ e.type # "report" => Underway(todo[c])
  BY <1>1, <1>3 DEF Sound, TodoSound, TodoOwned, Underway
<1>15. TodoNew'
  <2>1. SUFFICES ASSUME NEW x \in Calls, Underway(todo'[x]), NEW k \in Effects(todo'[x])
                 PROVE  /\ \E i \in Of("report")' : log'[i].version = Owner(todo'[x][k])
                        /\ \A i \in Effects(log') : ~SameEffect(log'[i], todo'[x][k])
    BY DEF TodoNew, Effects, Underway, Recorded, Owner, SameEffect
  <2> DEFINE f == todo'[x][k]
  <2>2. IsEffect(f)
    BY DEF Effects
  <2>3. CASE x = c /\ e.type = "report"
    <3>1. Owner(f) = e.version
      BY <1>2, <1>14, <2>3
    <3>2. \E i \in Of("report")' : log'[i].version = Owner(f)
      BY <1>7, <2>3, <3>1
    <3>3. ASSUME NEW i \in Effects(log) PROVE ~SameEffect(log[i], f)
      BY <1>8, <2>3, <3>1 DEF SameEffect, Sound, LogSound, LogOwned
    <3>4. ~IsEffect(e)
      BY <2>3 DEF IsEffect
    <3> QED  BY <1>6, <3>2, <3>3, <3>4
  <2>4. CASE x = c /\ e.type # "report"
    <3>1. Underway(todo[c]) /\ k + 1 \in Effects(todo[c]) /\ f = todo[c][k + 1] /\ k \in Nat /\ k # 0
      BY <1>2, <1>3, <1>14, <2>4
    <3>2. Recorded(Owner(f)) /\ \A i \in Effects(log) : ~SameEffect(log[i], f)
      BY <3>1 DEF Sound, TodoSound, TodoNew
    <3>3. IsEffect(e) => e.type # f.type
      <4>1. 1 # k + 1
        BY <3>1
      <4> QED  BY <1>1, <1>4, <3>1, <4>1 DEF Sound, TodoSound, TodoOnce
    <3>4. \E i \in Of("report")' : log'[i].version = Owner(f)
      BY <1>7, <3>2
    <3> QED  BY <1>6, <3>2, <3>3, <3>4 DEF SameEffect
  <2>5. CASE x # c
    <3>1. Underway(todo[x]) /\ k \in Effects(todo[x]) /\ f = todo[x][k]
      BY <1>2, <2>1, <2>5
    <3>2. Recorded(Owner(f)) /\ \A i \in Effects(log) : ~SameEffect(log[i], f)
      BY <3>1 DEF Sound, TodoSound, TodoNew
    <3>3. IsEffect(e) => Owner(e) # Owner(f)
      BY <1>1, <1>4, <2>5, <3>1 DEF Sound, TodoSound, TodoApart
    <3>4. \E i \in Of("report")' : log'[i].version = Owner(f)
      BY <1>7, <3>2
    <3> QED  BY <1>6, <3>2, <3>3, <3>4 DEF SameEffect
  <2> QED  BY <2>3, <2>4, <2>5
<1>16. (* No other command that is under way has what is left of this one. *)
       ASSUME NEW y \in Calls, y # c, Underway(todo[y]), NEW k \in Effects(rest), NEW m \in Effects(todo[y])
       PROVE  Owner(rest[k]) # Owner(todo[y][m])
  <2>1. CASE e.type = "report"
    <3>1. Recorded(Owner(todo[y][m]))
      BY <1>16 DEF Sound, TodoSound, TodoNew
    <3> QED  BY <1>8, <1>14, <2>1, <3>1
  <2>2. CASE e.type # "report"
    <3>1. Underway(todo[c]) /\ k + 1 \in Effects(todo[c]) /\ rest[k] = todo[c][k + 1]
      BY <1>3, <1>14, <2>2
    <3> QED  BY <1>16, <3>1 DEF Sound, TodoSound, TodoApart
  <2> QED  BY <2>1, <2>2
<1>17. TodoApart'
  <2>1. SUFFICES ASSUME NEW x \in Calls, NEW y \in Calls, x # y, Underway(todo'[x]), Underway(todo'[y]),
                        NEW k \in Effects(todo'[x]), NEW m \in Effects(todo'[y])
                 PROVE  Owner(todo'[x][k]) # Owner(todo'[y][m])
    BY DEF TodoApart, Effects, Underway
  <2>2. CASE x = c
    BY <1>2, <1>16, <2>1, <2>2
  <2>3. CASE y = c
    BY <1>2, <1>16, <2>1, <2>3
  <2>4. CASE x # c /\ y # c
    BY <1>2, <2>1, <2>4 DEF Sound, TodoSound, TodoApart
  <2> QED  BY <2>2, <2>3, <2>4
<1> QED  BY <1>9, <1>10, <1>11, <1>13, <1>15, <1>17 DEF TodoSound

(* An event of another component is no effect of a command here. *)
LEMMA ElsewhereSoundly ==
  ASSUME Sound, NEW e \in Events, log' = Append(log, e), todo' = todo, ~IsEffect(e)
  PROVE  LogSound' /\ TodoSound'
<1>1. log \in Seq(Events)
  BY DEF Sound, IInv, TypeOK
<1>2. LogSound'
  BY LogKeeps DEF IsEffect
<1>3. PICK n : n = Len(log) + 1
  OBVIOUS
<1>4. /\ \A i \in 1 .. Len(log) : i \in 1 .. Len(log') /\ log'[i] = log[i]
      /\ \A i \in Effects(log') : i \in Effects(log) /\ i \in 1 .. Len(log)
  BY <1>1, <1>3, EffectsAfter
<1>5. \A v : Recorded(v) => \E i \in Of("report")' : log'[i].version = v
  BY <1>1, StaysRecorded
<1>6. TodoOnce' /\ TodoOwned' /\ TodoApart'
  BY DEF Sound, TodoSound, TodoOnce, TodoOwned, TodoApart, Effects, Underway, Owner
<1>7. TodoGrounded'
  <2>1. SUFFICES ASSUME NEW c \in Calls, NEW k \in Effects(todo[c])
                 PROVE  \/ \E j \in 1 .. Len(log') : Concerns(todo[c][k], log'[j])
                        \/ \E m \in 1 .. Len(todo[c]) : m < k /\ Concerns(todo[c][k], todo[c][m])
    BY DEF TodoGrounded, Effects, Grounded
  <2>2. Grounded(todo[c], k)
    BY DEF Sound, TodoSound, TodoGrounded
  <2> QED  BY <1>4, <2>2 DEF Grounded
<1>8. TodoNew'
  <2>1. SUFFICES ASSUME NEW c \in Calls, Underway(todo'[c]), NEW k \in Effects(todo'[c])
                 PROVE  /\ \E i \in Of("report")' : log'[i].version = Owner(todo'[c][k])
                        /\ \A i \in Effects(log') : ~SameEffect(log'[i], todo'[c][k])
    BY DEF TodoNew, Effects, Underway, Recorded, Owner, SameEffect
  <2>2. Recorded(Owner(todo[c][k])) /\ \A i \in Effects(log) : ~SameEffect(log[i], todo[c][k])
    BY <2>1 DEF Sound, TodoSound, TodoNew
  <2>3. todo'[c] = todo[c]
    OBVIOUS
  <2> QED  BY <1>4, <1>5, <2>2, <2>3
<1> QED  BY <1>2, <1>6, <1>7, <1>8 DEF TodoSound

LEMMA SoundKeeps == Sound /\ [Next]_vars => Sound'
<1> SUFFICES ASSUME Sound, [Next]_vars PROVE Sound'
  OBVIOUS
<1>1. IInv'
  BY StepKeeps DEF Sound
<1>2. log \in Seq(Events) /\ requests \subseteq Requests /\ todo \in [Calls -> Seq(Events)]
  BY DEF Sound, IInv, TypeOK
<1>3. ASSUME NEW c \in Calls, Command(c)
      PROVE  LogSound' /\ TodoSound'
  BY <1>2, <1>3, CommandPlans, PlanKeeps DEF Decide
<1>4. ASSUME NEW c \in Calls, Write(c)
      PROVE  LogSound' /\ TodoSound'
  BY <1>4, WriteSoundly
<1>5. ASSUME NEW c \in Calls, Conflict(c) \/ GiveUp(c)
      PROVE  LogSound' /\ TodoSound'
  BY <1>5, PlanOfNone, PlanKeeps DEF Conflict, GiveUp
<1>6. ASSUME log' = log, todo' = todo
      PROVE  LogSound' /\ TodoSound'
  <2>1. LogSound'
    BY <1>6 DEF Sound, LogSound, LogGrounded, LogOnce, LogOwned, NoncesOnce, Recorded, Of, Effects
  <2>2. TodoOnce' /\ TodoOwned' /\ TodoApart'
    BY <1>6 DEF Sound, TodoSound, TodoOnce, TodoOwned, TodoApart, Effects, Underway
  <2>3. TodoGrounded' /\ TodoNew'
    BY <1>6 DEF Sound, TodoSound, TodoGrounded, TodoNew, Grounded, Recorded, Of, Effects, Underway
  <2> QED  BY <2>1, <2>2, <2>3 DEF TodoSound
<1>7. ASSUME Retract
      PROVE  LogSound' /\ TodoSound'
  <2> DEFINE e == [type |-> "retraction"]
  <2>1. e \in Events /\ ~IsEffect(e)
    BY DEF Events, Retractions, IsEffect
  <2>2. log' = Append(log, e) /\ todo' = todo
    BY <1>7 DEF Retract, Elsewhere
  <2> HIDE DEF e
  <2> QED  BY <2>1, <2>2, ElsewhereSoundly
<1>8. ASSUME NEW a \in Humans, NEW nonce \in Nonces, NEW acknowledged \in SUBSET Notes,
             Sign(a, nonce, acknowledged)
      PROVE  log' = log /\ todo' = todo
  BY <1>8 DEF Sign
<1>9. ASSUME UNCHANGED vars
      PROVE  LogSound' /\ TodoSound'
  BY <1>6, <1>9 DEF vars
<1> QED  BY <1>1, <1>3, <1>4, <1>5, <1>6, <1>7, <1>8, <1>9 DEF Next, Sound

LEMMA SoundAtFirst == Init => Sound
<1> SUFFICES ASSUME Init PROVE Sound
  OBVIOUS
<1>1. log = <<>> /\ \A c \in Calls : todo[c] = <<>>
  BY DEF Init, CommandInit
<1>2. Effects(<<>>) = {}
  BY DEF Effects
<1>3. Of("signed") = {}
  BY <1>1 DEF Of
<1>4. LogSound
  BY <1>1, <1>2, <1>3 DEF LogSound, LogGrounded, LogOnce, LogOwned, NoncesOnce
<1>5. TodoSound
  BY <1>1, <1>2 DEF TodoSound, TodoOnce, TodoGrounded, TodoOwned, TodoNew, TodoApart
<1> QED  BY <1>4, <1>5, InitKeeps DEF Sound

THEOREM SoundInvariant == Spec => []Sound
<1> QED  BY SoundAtFirst, SoundKeeps, PTL DEF Spec

(* V67-ORDER-001: a disposition follows its version and agrees with it, an *)
(* audit record follows the approval and its disposition, wherever the     *)
(* commands die and whatever the store refuses.                            *)
THEOREM ReferentsComeFirst == Spec => []ReferentsFirst
<1>1. ASSUME Sound
      PROVE  ReferentsFirst
  <2>1. ASSUME NEW i \in Of("disposition") \cup Of("signed")
        PROVE  \E j \in 1 .. Len(log) : j < i /\ Concerns(log[i], log[j])
    BY <1>1 DEF Sound, LogSound, LogGrounded, Effects, IsEffect, Of
  <2>2. ASSUME NEW i \in Of("disposition")
        PROVE  \E j \in Of("report") :
                 /\ j < i
                 /\ log[j].version = log[i].version
                 /\ CASE log[i].disposition = "SUBMITTED"  -> log[j].status = "IN_REVIEW" /\ log[j].actor = log[i].actor
                      [] log[i].disposition = "SUPERSEDED" -> log[j].status \in Approvals
                      [] OTHER -> log[j].status = log[i].disposition /\ log[j].actor = log[i].actor
    <3>1. PICK j \in 1 .. Len(log) : j < i /\ Concerns(log[i], log[j])
      BY <2>1
    <3>2. log[i].type = "disposition"
      BY DEF Of
    <3> QED  BY <3>1, <3>2 DEF Concerns, Of
  <2>3. ASSUME NEW i \in Of("signed")
        PROVE  \E j \in Of("disposition") :
                 /\ j < i
                 /\ log[j].version = log[i].version + 1
                 /\ log[j].disposition \in Approvals /\ log[j].actor = log[i].actor
    <3>1. PICK j \in 1 .. Len(log) : j < i /\ Concerns(log[i], log[j])
      BY <2>1
    <3>2. log[i].type = "signed"
      BY DEF Of
    <3> QED  BY <3>1, <3>2 DEF Concerns, Of
  <2> QED  BY <2>2, <2>3 DEF ReferentsFirst
<1> QED  BY <1>1, SoundInvariant, PTL

(* A version gets one disposition of a kind, a nonce and a signed version  *)
(* one audit record, for any number of deliveries and racing commands      *)
(* (verify_action, commit_action and the store's version check).           *)
THEOREM EffectsHappenOnce == Spec => []EffectsAreSingle
<1>1. ASSUME Sound
      PROVE  EffectsAreSingle
  <2>1. ASSUME NEW i \in Of("disposition"), NEW j \in Of("disposition"),
               log[i].version = log[j].version, log[i].disposition = log[j].disposition
        PROVE  i = j
    <3>1. i \in Effects(log) /\ j \in Effects(log) /\ log[i].type = "disposition" /\ log[j].type = "disposition"
      BY DEF Effects, IsEffect, Of
    <3>2. SameEffect(log[i], log[j])
      BY <2>1, <3>1 DEF SameEffect, Owner
    <3> QED  BY <1>1, <3>1, <3>2 DEF Sound, LogSound, LogOnce
  <2>2. ASSUME NEW i \in Of("signed"), NEW j \in Of("signed"),
               log[i].nonce = log[j].nonce \/ log[i].version = log[j].version
        PROVE  i = j
    <3>1. i \in Effects(log) /\ j \in Effects(log) /\ log[i].type = "signed" /\ log[j].type = "signed"
      BY DEF Effects, IsEffect, Of
    <3>2. log[i].version = log[j].version => SameEffect(log[i], log[j])
      BY <3>1 DEF SameEffect, Owner
    <3> QED  BY <1>1, <2>2, <3>1, <3>2 DEF Sound, LogSound, LogOnce, NoncesOnce
  <2> QED  BY <2>1, <2>2 DEF EffectsAreSingle
<1> QED  BY <1>1, SoundInvariant, PTL
-----------------------------------------------------------------------------
(***************************************************************************)
(* Objections.  An approver finds every open dissent and retraction that   *)
(* the log has at the decision, so in particular those that were there     *)
(* when the version that is approved went to review.                       *)
(***************************************************************************)
(* Positions of the dissents that stood at p and still do at i. *)
Standing(p, i) ==
  {k \in Of("annotation") : k < p /\ log[k].status = "OPEN" /\ \A m \in NotesOf(log[k].id) : m <= k \/ i < m}

Heeded(e, p, i) ==
  e.status \in Approvals =>
    /\ e.cites => \A k \in Of("retraction") : p < k
    /\ \A k \in Standing(p, i) :
         e.status = "APPROVED_WITH_DISSENT" /\ (log[k].restricted => e.actor \in Cleared)

Named(d, p, i) == d.disposition \in Approvals => \A k \in Standing(p, i) : log[k].id \in d.dissent

Follow(p, i) == log[p].version + 1 = log[i].version
Dispositional(s) == {k \in Effects(s) : s[k].type = "disposition"}

LogHeeded == \A i, p \in Of("report") : Follow(p, i) => Heeded(log[i], p, i)
LogNamed  ==
  \A m \in Dispositional(log) : \A i, p \in Of("report") :
    log[i].version = log[m].version /\ Follow(p, i) => Named(log[m], p, i)

(* A version that is still to be written, and the disposition after it. *)
TodoHeeded ==
  \A c \in Calls : todo[c] # <<>> /\ todo[c][1].type = "report" =>
    \A p \in Of("report") : log[p].version + 1 = todo[c][1].version =>
      /\ Heeded(todo[c][1], p, Len(log))
      /\ \A k \in Dispositional(todo[c]) : Named(todo[c][k], p, Len(log))

(* A disposition whose version is written. *)
TodoNamed ==
  \A c \in Calls : Underway(todo[c]) => \A k \in Dispositional(todo[c]) : \A i, p \in Of("report") :
    log[i].version = todo[c][k].version /\ Follow(p, i) => Named(todo[c][k], p, i)

Heard == Sound /\ LogHeeded /\ LogNamed /\ TodoHeeded /\ TodoNamed

(* What a command that approves has found out. *)
Heeds(s) ==
  s # <<>> /\ s[1].type = "report" =>
    /\ s[1].status \in Approvals =>
         /\ s[1].cites => Of("retraction") = {}
         /\ \A n \in OpenDissent : s[1].status = "APPROVED_WITH_DISSENT" /\ CanView(s[1].actor, n)
    /\ \A k \in Dispositional(s) : s[k].disposition \in Approvals => OpenDissent \subseteq s[k].dissent

LEMMA NoApproval ==
  ASSUME NEW s, s[1].type = "report" => s[1].status \notin Approvals,
         \A k \in Dispositional(s) : s[k].disposition \notin Approvals
  PROVE  Heeds(s)
BY DEF Heeds

LEMMA OneHeeds ==
  ASSUME NEW e, e.type = "report" => e.status \notin Approvals, ~IsEffect(e)
  PROVE  Heeds(<<e>>)
<1>1. Len(<<e>>) = 1 /\ <<e>>[1] = e
  OBVIOUS
<1>2. Dispositional(<<e>>) = {}
  BY <1>1 DEF Dispositional, Effects
<1> QED  BY <1>1, <1>2, NoApproval

(* A status change that is no approval. *)
LEMMA DisposedHeeds ==
  ASSUME NEW r, NEW a, NEW status \in {"IN_REVIEW"} \cup Rejections, NEW dissent
  PROVE  Heeds(Disposed(r, status, a, dissent))
<1> DEFINE e == Version(r.version + 1, status, r.author, a, r.content, r.cites)
           d == Disposition(r.version + 1, IF status = "IN_REVIEW" THEN "SUBMITTED" ELSE status, a, dissent)
           s == <<e, d>>
<1>1. Disposed(r, status, a, dissent) = s
  BY DEF Disposed, Restated
<1>2. Len(s) = 2 /\ s[1] = e /\ s[2] = d
  OBVIOUS
<1>3. e.type = "report" /\ e.status \notin Approvals /\ d.disposition \notin Approvals
  BY DEF Version, Disposition, Approvals, Rejections
<1> HIDE DEF e, d, s
<1>4. Dispositional(s) \subseteq {2}
  BY <1>2, <1>3 DEF Dispositional, Effects, IsEffect
<1> QED  BY <1>1, <1>2, <1>3, <1>4, NoApproval

(* An approval, alone or with an audit record behind it. *)
LEMMA ApprovalHeeds ==
  ASSUME NEW r, NEW a, NEW acknowledged, MayApprove(a, r, acknowledged),
         NEW s, s[1] = Approval(r, a)[1], s[2] = Approval(r, a)[2], Len(s) \in {2, 3},
         Len(s) = 3 => s[3].type = "signed"
  PROVE  Heeds(s)
<1> DEFINE status == IF OpenDissent = {} THEN "APPROVED" ELSE "APPROVED_WITH_DISSENT"
           e == Version(r.version + 1, status, r.author, a, r.content, r.cites)
           d == Disposition(r.version + 1, IF status = "IN_REVIEW" THEN "SUBMITTED" ELSE status, a, OpenDissent)
<1>1. Approval(r, a) = <<e, d>>
  BY DEF Approval, Disposed, Restated
<1>2. s[1] = e /\ s[2] = d
  BY <1>1
<1>3. e.type = "report" /\ e.status = status /\ e.cites = r.cites /\ e.actor = a /\ d.dissent = OpenDissent
  BY DEF Version, Disposition
<1>4. e.cites => Of("retraction") = {}
  BY <1>3 DEF MayApprove, StaleBasis
<1>5. \A n \in OpenDissent : status = "APPROVED_WITH_DISSENT" /\ CanView(a, n)
  BY DEF MayApprove
<1> HIDE DEF status, e, d
<1>6. Dispositional(s) \subseteq {2}
  BY <1>2, <1>3 DEF Dispositional, Effects, IsEffect
<1> QED  BY <1>2, <1>3, <1>4, <1>5, <1>6 DEF Heeds

LEMMA CommandHeeds ==
  ASSUME log \in Seq(Events), requests \subseteq Requests, NEW c \in Calls, Command(c)
  PROVE  \E s : Heeds(s) /\ Decide(c, s)
<1>1. ASSUME NEW a, NEW cites, Create(c, a, cites)
      PROVE  \E s : Heeds(s) /\ Decide(c, s)
  <2>1. ~IsEffect(Version(1, "DRAFT", a, a, 1, cites)) /\ Version(1, "DRAFT", a, a, 1, cites).status \notin Approvals
    BY DEF IsEffect, Version, Approvals
  <2> QED  BY <1>1, <2>1, OneHeeds DEF Create
<1>2. ASSUME NEW a, NEW cites, Edit(c, a, cites)
      PROVE  \E s : Heeds(s) /\ Decide(c, s)
  <2>1. PICK r \in Report :
          Decide(c, <<Version(r.version + 1, "DRAFT", a, a, r.version + 1, cites)>>
                      \o IF r.status \in Approvals
                         THEN <<Disposition(r.version, "SUPERSEDED", a, {})>> ELSE <<>>)
    BY <1>2 DEF Edit
  <2> DEFINE e == Version(r.version + 1, "DRAFT", a, a, r.version + 1, cites)
             d == Disposition(r.version, "SUPERSEDED", a, {})
             s == <<e>> \o <<d>>
  <2>2. /\ e.type = "report" /\ e.status \notin Approvals /\ ~IsEffect(e) /\ d.disposition \notin Approvals
    BY DEF Version, Disposition, IsEffect, Approvals
  <2>3. Decide(c, s) \/ Decide(c, <<e>> \o <<>>)
    BY <2>1
  <2>4. Len(s) = 2 /\ s[1] = e /\ s[2] = d
    BY JoinTwo
  <2> HIDE DEF e, d, s
  <2>5. Heeds(s)
    <3>1. Dispositional(s) \subseteq {2}
      BY <2>2, <2>4 DEF Dispositional, Effects
    <3> QED  BY <2>2, <2>4, <3>1, NoApproval
  <2>6. Heeds(<<e>>) /\ <<e>> \o <<>> = <<e>>
    BY <2>2, OneHeeds
  <2> QED  BY <2>3, <2>5, <2>6
<1>3. ASSUME NEW a, Submit(c, a)
      PROVE  \E s : Heeds(s) /\ Decide(c, s)
  BY <1>3, DisposedHeeds DEF Submit
<1>4. ASSUME NEW a, NEW status \in Rejections, Reject(c, a, status)
      PROVE  \E s : Heeds(s) /\ Decide(c, s)
  BY <1>4, DisposedHeeds DEF Reject
<1>5. \A r, a : \E e, d : Approval(r, a) = <<e, d>>
  BY DEF Approval, Disposed
<1>6. ASSUME NEW a, NEW acknowledged, Approve(c, a, acknowledged)
      PROVE  \E s : Heeds(s) /\ Decide(c, s)
  <2>1. PICK r : MayApprove(a, r, acknowledged) /\ Decide(c, Approval(r, a))
    BY <1>6 DEF Approve
  <2>2. Len(Approval(r, a)) = 2
    <3>1. PICK e, d : Approval(r, a) = <<e, d>>
      BY <1>5
    <3> QED  BY <3>1
  <2> QED  BY <2>1, <2>2, ApprovalHeeds
<1>7. ASSUME NEW q, ApproveSigned(c, q)
      PROVE  \E s : Heeds(s) /\ Decide(c, s)
  <2>1. PICK r : MayApprove(q.actor, r, q.acknowledged) /\ Decide(c, Approval(r, q.actor) \o <<SignedAction(q)>>)
    BY <1>7 DEF ApproveSigned
  <2>2. PICK e, d : Approval(r, q.actor) = <<e, d>>
    BY <1>5
  <2> DEFINE f == SignedAction(q)
             s == <<e, d>> \o <<f>>
  <2>3. f.type = "signed"
    BY DEF SignedAction
  <2>4. Len(s) = 3 /\ s[1] = e /\ s[2] = d /\ s[3] = f
    BY JoinThree
  <2>5. <<e, d>>[1] = e /\ <<e, d>>[2] = d
    OBVIOUS
  <2>6. Decide(c, s)
    BY <2>1, <2>2
  <2> HIDE DEF f, s
  <2>7. Heeds(s)
    BY <2>1, <2>2, <2>3, <2>4, <2>5, ApprovalHeeds
  <2> QED  BY <2>6, <2>7
<1>8. \A n, v, a, status, restricted : Heeds(<<NoteVersion(n, v, a, status, restricted)>>)
  <2>1. \A n, v, a, status, restricted :
          ~IsEffect(NoteVersion(n, v, a, status, restricted)) /\ NoteVersion(n, v, a, status, restricted).type # "report"
    BY DEF IsEffect, NoteVersion
  <2> QED  BY <2>1, OneHeeds
<1>9. ASSUME NEW a, NEW n, NEW restricted, Dissent(c, a, n, restricted)
      PROVE  \E s : Heeds(s) /\ Decide(c, s)
  BY <1>8, <1>9 DEF Dissent
<1>10. ASSUME NEW a, NEW n, NEW status, Resolve(c, a, n, status)
       PROVE  \E s : Heeds(s) /\ Decide(c, s)
  BY <1>8, <1>10 DEF Resolve
<1> QED  BY <1>1, <1>2, <1>3, <1>4, <1>6, <1>7, <1>9, <1>10 DEF Command

(* A dissent that stands is one the decision finds. *)
LEMMA StandingIsFound ==
  ASSUME log \in Seq(Events), NEW p, NEW k \in Standing(p, Len(log))
  PROVE  /\ log[k].id \in OpenDissent
         /\ \A a : CanView(a, log[k].id) /\ log[k].restricted => a \in Cleared
<1> DEFINE n == log[k].id
<1>1. /\ k \in 1 .. Len(log) /\ log[k].type = "annotation" /\ log[k].status = "OPEN" /\ k \in NotesOf(n)
      /\ \A m \in NotesOf(n) : m <= k \/ Len(log) < m
  BY DEF Standing, Of, NotesOf
<1>2. \A m \in NotesOf(n) : m \in 1 .. Len(log)
  BY DEF NotesOf, Of
<1>3. Len(log) \in Nat /\ log[k] \in Events
  BY <1>1
<1>4. k \in Newest(NotesOf(n))
  BY <1>1, <1>2, <1>3 DEF Newest
<1>5. log[k] \in Note(n)
  BY <1>4 DEF Note
<1>6. n \in Notes
  BY <1>1, <1>3 DEF Events, Versions, Dispositions, Annotations, SignedActions, Retractions
<1>7. n \in OpenDissent
  BY <1>1, <1>5, <1>6 DEF OpenDissent
<1> QED  BY <1>5, <1>7 DEF CanView

LEMMA HeedsWhatStands ==
  ASSUME log \in Seq(Events), NEW s, Heeds(s), s # <<>>, s[1].type = "report", NEW p \in Of("report")
  PROVE  Heeded(s[1], p, Len(log)) /\ \A k \in Dispositional(s) : Named(s[k], p, Len(log))
<1>1. Heeded(s[1], p, Len(log))
  BY StandingIsFound DEF Heeds, Heeded
<1>2. ASSUME NEW k \in Dispositional(s)
      PROVE  Named(s[k], p, Len(log))
  BY StandingIsFound DEF Heeds, Named
<1> QED  BY <1>1, <1>2

(* A decision, or the end of a command. *)
LEMMA PlanHeard ==
  ASSUME Heard, NEW c \in Calls, NEW s, Planned(s), Heeds(s), todo' = [todo EXCEPT ![c] = s], log' = log
  PROVE  LogHeeded' /\ LogNamed' /\ TodoHeeded' /\ TodoNamed'
<1>0. log \in Seq(Events) /\ todo \in [Calls -> Seq(Events)]
  BY DEF Heard, Sound, IInv, TypeOK
<1>1. todo'[c] = s /\ \A x \in Calls : x # c => todo'[x] = todo[x]
  BY <1>0
<1>2. /\ Of("report")' = Of("report") /\ Of("retraction")' = Of("retraction")
      /\ Dispositional(log)' = Dispositional(log) /\ \A p, i : Standing(p, i)' = Standing(p, i)
  BY DEF Of, Dispositional, Effects, Standing, NotesOf
<1>3. \A x, p, i : (Heeded(x, p, i) => Heeded(x, p, i)') /\ (Named(x, p, i) => Named(x, p, i)')
  BY <1>2 DEF Heeded, Named
<1>4. LogHeeded' /\ LogNamed'
  BY <1>2 DEF Heard, LogHeeded, LogNamed, Heeded, Named, Follow
<1>5. TodoHeeded'
  <2>1. SUFFICES ASSUME NEW x \in Calls, todo'[x] # <<>>, todo'[x][1].type = "report", NEW p \in Of("report"),
                        log[p].version + 1 = todo'[x][1].version
                 PROVE  /\ Heeded(todo'[x][1], p, Len(log))
                        /\ \A k \in Dispositional(todo'[x]) : Named(todo'[x][k], p, Len(log))
    BY <1>2, <1>3 DEF TodoHeeded, Dispositional, Effects, Heeded, Named
  <2>2. CASE x = c
    BY <1>0, <1>1, <2>1, <2>2, HeedsWhatStands
  <2>3. CASE x # c
    BY <1>1, <2>1, <2>3 DEF Heard, TodoHeeded
  <2> QED  BY <2>2, <2>3
<1>6. TodoNamed'
  <2>1. SUFFICES ASSUME NEW x \in Calls, Underway(todo'[x]), NEW k \in Dispositional(todo'[x]),
                        NEW i \in Of("report"), NEW p \in Of("report"), log[i].version = todo'[x][k].version, Follow(p, i)
                 PROVE  Named(todo'[x][k], p, i)
    BY <1>2, <1>3 DEF TodoNamed, Dispositional, Effects, Underway, Follow, Named
  <2>2. x # c
    <3>1. k \in Effects(todo'[x])
      BY DEF Dispositional
    <3> QED  BY <1>1, <2>1, <3>1 DEF Planned, Underway
  <2> QED  BY <1>1, <2>1, <2>2 DEF Heard, TodoNamed
<1> QED  BY <1>4, <1>5, <1>6

(* What an append does to the dissents and retractions of before. *)
LEMMA ObjectionsAfter ==
  ASSUME log \in Seq(Events), NEW e \in Events, log' = Append(log, e), NEW n, n = Len(log) + 1,
         NEW p \in 1 .. Len(log)
  PROVE  /\ \A x : \A i \in 1 .. Len(log) : Heeded(x, p, i) => Heeded(x, p, i)'
         /\ \A x : Heeded(x, p, Len(log)) => Heeded(x, p, n)'
         /\ \A x : \A i \in 1 .. Len(log) : Named(x, p, i) => Named(x, p, i)'
         /\ \A x : Named(x, p, Len(log)) => Named(x, p, n)'
<1>1. /\ Len(log) \in Nat /\ n \in Nat /\ Len(log') = n /\ \A i \in 1 .. Len(log) : log'[i] = log[i]
  BY AppendFacts
<1>2. \A type : \A k \in Of(type)' : (k \in Of(type) /\ k \in 1 .. Len(log)) \/ k = n
  BY <1>1 DEF Of
<1>3. \A k \in Of("annotation") : k \in Of("annotation")' /\ k \in 1 .. Len(log)
  BY <1>1 DEF Of
<1>4. ASSUME NEW i \in Nat, NEW k \in Standing(p, i)'
      PROVE  /\ k \in 1 .. Len(log) /\ k < p /\ k \in Of("annotation") /\ log'[k] = log[k] /\ log[k].status = "OPEN"
             /\ \A m \in NotesOf(log[k].id) : m \in 1 .. Len(log) /\ (m <= k \/ i < m)
  <2>1. /\ k \in Of("annotation")' /\ k < p /\ log'[k].status = "OPEN"
        /\ \A m \in Of("annotation")' : log'[m].id = log'[k].id => m <= k \/ i < m
    BY DEF Standing, NotesOf
  <2>2. k \in 1 .. Len(log) /\ k \in Of("annotation") /\ log'[k] = log[k]
    BY <1>1, <1>2, <2>1
  <2>3. \A m \in NotesOf(log[k].id) : m \in Of("annotation") /\ log[m].id = log[k].id
    BY DEF NotesOf
  <2> QED  BY <1>1, <1>3, <2>1, <2>2, <2>3
<1>5. ASSUME NEW i \in Nat, NEW k \in Standing(p, i)', NEW j, \A m \in 1 .. Len(log) : i < m => j < m
      PROVE  k \in Standing(p, j)
  BY <1>4, <1>5 DEF Standing
<1>6. ASSUME NEW i \in 1 .. Len(log)
      PROVE  Standing(p, i)' \subseteq Standing(p, i)
  BY <1>1, <1>5
<1>7. Standing(p, n)' \subseteq Standing(p, Len(log))
  BY <1>1, <1>5
<1>8. \A k \in Of("retraction")' : k \in Of("retraction") \/ p < k
  BY <1>1, <1>2
<1>9. ASSUME NEW i \in Nat, NEW j, Standing(p, i)' \subseteq Standing(p, j)
      PROVE  \A x : (Heeded(x, p, j) => Heeded(x, p, i)') /\ (Named(x, p, j) => Named(x, p, i)')
  <2>1. \A k \in Standing(p, i)' : k \in Standing(p, j) /\ log'[k] = log[k]
    BY <1>4, <1>9
  <2> QED  BY <1>8, <2>1 DEF Heeded, Named
<1>10. \A i \in 1 .. Len(log) : i \in Nat
  BY <1>1
<1> QED  BY <1>1, <1>6, <1>7, <1>9, <1>10

(* What a version says of its predecessor stands while no version is written. *)
LEMMA LogHeard ==
  ASSUME Heard, NEW e \in Events, log' = Append(log, e), e.type \notin {"report", "disposition"}
  PROVE  LogHeeded' /\ LogNamed'
<1>0. log \in Seq(Events)
  BY DEF Heard, Sound, IInv, TypeOK
<1>1. PICK n : n = Len(log) + 1
  OBVIOUS
<1>2. Of("report")' = Of("report") /\ \A i \in Of("report") : i \in 1 .. Len(log) /\ log'[i] = log[i]
  BY <1>0, ReportsAfter, AppendFacts DEF Of
<1>3. \A m \in Dispositional(log') : m \in Dispositional(log) /\ log'[m] = log[m]
  BY <1>0, <1>1, EffectsAfter DEF Dispositional, Effects
<1>4. \A p \in 1 .. Len(log) :
        /\ \A x : \A i \in 1 .. Len(log) : Heeded(x, p, i) => Heeded(x, p, i)'
        /\ \A x : \A i \in 1 .. Len(log) : Named(x, p, i) => Named(x, p, i)'
  BY <1>0, <1>1, ObjectionsAfter
<1>5. LogHeeded'
  <2>1. SUFFICES ASSUME NEW i \in Of("report")', NEW p \in Of("report")', log'[p].version + 1 = log'[i].version
                 PROVE  \E x : x = log'[i] /\ Heeded(x, p, i)'
    BY DEF LogHeeded, Heeded, Follow
  <2>2. Heeded(log[i], p, i)
    BY <1>2, <2>1 DEF Heard, LogHeeded, Follow
  <2> QED  BY <1>2, <1>4, <2>2
<1>6. LogNamed'
  <2>1. SUFFICES ASSUME NEW m \in Dispositional(log'), NEW i \in Of("report")', NEW p \in Of("report")',
                        log'[i].version = log'[m].version, log'[p].version + 1 = log'[i].version
                 PROVE  \E x : x = log'[m] /\ Named(x, p, i)'
    BY DEF LogNamed, Dispositional, Effects, Named, Follow
  <2>2. Named(log[m], p, i)
    BY <1>2, <1>3, <2>1 DEF Heard, LogNamed, Follow
  <2> QED  BY <1>2, <1>3, <1>4, <2>2
<1> QED  BY <1>5, <1>6

(* A version that the store accepts is new, and none is in the log after it. *)
LEMMA WrittenIsNew ==
  ASSUME IInv, NEW c \in Calls, Write(c), todo[c][1].type = "report"
  PROVE  /\ ~Recorded(todo[c][1].version)
         /\ \A i \in Of("report") : log[i].version + 1 # todo[c][1].version + 1 /\ todo[c][1].version + 1 # log[i].version
         /\ todo[c][1].version + 1 # todo[c][1].version /\ todo[c][1].version + 1 # 1
<1> DEFINE e == todo[c][1]
<1>1. /\ log \in Seq(Events) /\ todo[c] \in Seq(Events) /\ Len(todo[c]) >= 1 /\ 1 \in 1 .. Len(todo[c])
      /\ e = Head(todo[c]) /\ e \in Events /\ Fits(e)
  BY DEF IInv, TypeOK, Write, WriteNext, Ready
<1>2. FirstVersion(e) \/ \E j \in Of("report") : DecidedOn(e, j)
  BY <1>1 DEF IInv, TodoDecided
<1>3. \A i \in Of("report") : log[i].version < e.version /\ log[i].version \in Nat
  BY <1>1, <1>2, FitsNewest, ReportPositions DEF Versions
<1>4. e.version \in Nat /\ e.version # 0
  BY <1>2, <1>3 DEF FirstVersion, DecidedOn, Succeeds
<1>5. \A i \in Of("report") : log[i].version # e.version
  BY <1>3, <1>4
<1>6. ~Recorded(e.version)
  BY <1>5 DEF Recorded
<1> HIDE DEF e
<1>7. \A i \in Of("report") : log[i].version + 1 # e.version + 1 /\ e.version + 1 # log[i].version
  BY <1>3, <1>4
<1>8. e.version + 1 # e.version /\ e.version + 1 # 1
  BY <1>4
<1> QED  BY <1>6, <1>7, <1>8 DEF e

LEMMA WriteHeard ==
  ASSUME Heard, NEW c \in Calls, Write(c)
  PROVE  LogHeeded' /\ LogNamed' /\ TodoHeeded' /\ TodoNamed'
<1> DEFINE e == todo[c][1]
           rest == Tail(todo[c])
<1>1. /\ todo[c] \in Seq(Events) /\ todo[c] # <<>> /\ e \in Events
      /\ Len(todo[c]) \in Nat /\ Len(todo[c]) >= 1 /\ Len(rest) = Len(todo[c]) - 1
      /\ \A k \in 1 .. Len(rest) : rest[k] = todo[c][k + 1] /\ k + 1 \in 1 .. Len(todo[c]) /\ k \in Nat /\ k # 0
  BY DEF Heard, Sound, IInv, TypeOK, Write, WriteNext, Ready
<1>2. log \in Seq(Events) /\ log' = Append(log, e) /\ todo'[c] = rest
      /\ \A x \in Calls : x # c => todo'[x] = todo[x]
  BY DEF Heard, Sound, IInv, TypeOK, Write, WriteNext, Ready
<1>3. e.type = "report" =>
        /\ ~Recorded(e.version) /\ e.version + 1 # e.version /\ e.version + 1 # 1
        /\ \A i \in Of("report") : log[i].version + 1 # e.version + 1 /\ e.version + 1 # log[i].version
  BY WrittenIsNew DEF Heard, Sound
<1> HIDE DEF e
<1>4. rest \in Seq(Events) /\ (rest # <<>> => rest[1].type # "report")
  <2>1. rest \in Seq(Events)
    BY <1>1
  <2>2. SUFFICES ASSUME rest # <<>>, rest[1].type = "report" PROVE FALSE
    BY <2>1
  <2>3. 1 \in 1 .. Len(rest)
    BY <2>1, <2>2
  <2>4. todo[c][2].type = "report" /\ 2 \in 1 .. Len(todo[c])
    BY <1>1, <2>2, <2>3
  <2> QED  BY <2>4 DEF Heard, Sound, IInv, TodoDecided
<1>5. \A k \in Dispositional(rest) : k + 1 \in Dispositional(todo[c]) /\ rest[k] = todo[c][k + 1]
  BY <1>1 DEF Dispositional, Effects
<1> HIDE DEF rest
<1>6. PICK n : n = Len(log) + 1
  OBVIOUS
<1>7. /\ n \in Nat /\ log'[n] = e /\ Len(log') = n
      /\ \A i \in Of("report") : i \in 1 .. Len(log) /\ i \in Of("report")' /\ log'[i] = log[i]
      /\ \A i \in Of("report")' : i \in Of("report") \/ (i = n /\ e.type = "report")
      /\ \A m \in Dispositional(log') :
           (m \in Dispositional(log) /\ log'[m] = log[m]) \/ (m = n /\ e.type = "disposition")
  BY <1>1, <1>2, <1>6, ReportsAfter, AppendFacts, EffectsAfter DEF Dispositional, Effects, Of
<1>8. \A p \in Of("report") :
        /\ \A x : \A i \in Of("report") : Heeded(x, p, i) => Heeded(x, p, i)'
        /\ \A x : Heeded(x, p, Len(log)) => Heeded(x, p, n)'
        /\ \A x : \A i \in Of("report") : Named(x, p, i) => Named(x, p, i)'
        /\ \A x : Named(x, p, Len(log)) => Named(x, p, n)'
  BY <1>1, <1>2, <1>6, <1>7, ObjectionsAfter
<1>9. (* The version that is written now has no successor yet. *)
      ASSUME NEW i \in Of("report")', NEW p \in Of("report")', log'[p].version + 1 = log'[i].version
      PROVE  p \in Of("report")
  BY <1>3, <1>7, <1>9
<1>10. (* A disposition that approves belongs to the version it names. *)
       \A d : d.type = "disposition" /\ d.disposition \in Approvals => Owner(d) = d.version
  BY DEF Owner, Approvals
<1>11. LogHeeded'
  <2>1. SUFFICES ASSUME NEW i \in Of("report")', NEW p \in Of("report")', log'[p].version + 1 = log'[i].version
                 PROVE  \E x : x = log'[i] /\ Heeded(x, p, i)'
    BY DEF LogHeeded, Heeded, Follow
  <2>2. p \in Of("report") /\ log'[p] = log[p]
    BY <1>7, <1>9, <2>1
  <2>3. CASE i = n /\ e.type = "report"
    <3>1. Heeded(e, p, Len(log))
      BY <1>1, <1>7, <2>1, <2>2, <2>3 DEF Heard, TodoHeeded, e
    <3> QED  BY <1>7, <1>8, <2>2, <2>3, <3>1
  <2>4. CASE i \in Of("report")
    <3>1. Heeded(log[i], p, i)
      BY <1>7, <2>1, <2>2, <2>4 DEF Heard, LogHeeded, Follow
    <3> QED  BY <1>7, <1>8, <2>2, <2>4, <3>1
  <2> QED  BY <1>7, <2>3, <2>4
<1>12. LogNamed'
  <2>1. SUFFICES ASSUME NEW m \in Dispositional(log'), NEW i \in Of("report")', NEW p \in Of("report")',
                        log'[i].version = log'[m].version, log'[p].version + 1 = log'[i].version,
                        log'[m].disposition \in Approvals
                 PROVE  \E x : x = log'[m] /\ Named(x, p, i)'
    BY DEF LogNamed, Dispositional, Effects, Named, Follow
  <2>2. p \in Of("report") /\ log'[p] = log[p]
    BY <1>7, <1>9, <2>1
  <2>3. CASE m = n /\ e.type = "disposition"
    <3>1. i \in Of("report") /\ log'[i] = log[i] /\ log'[m] = e
      BY <1>7, <2>3
    <3>2. Underway(todo[c]) /\ 1 \in Dispositional(todo[c])
      BY <1>1, <2>3 DEF Underway, Dispositional, Effects, IsEffect, e
    <3>3. Named(e, p, i)
      BY <2>1, <2>2, <3>1, <3>2 DEF Heard, TodoNamed, Follow, e
    <3> QED  BY <1>8, <2>2, <3>1, <3>3
  <2>4. CASE m \in Dispositional(log) /\ log'[m] = log[m]
    <3>1. CASE i \in Of("report")
      <4>1. Named(log[m], p, i)
        BY <1>7, <2>1, <2>2, <2>4, <3>1 DEF Heard, LogNamed, Follow
      <4> QED  BY <1>8, <2>2, <2>4, <3>1, <4>1
    <3>2. CASE i = n /\ e.type = "report"
      <4>1. Recorded(Owner(log[m]))
        BY <2>4 DEF Heard, Sound, LogSound, LogOwned, Dispositional
      <4>2. Owner(log[m]) = e.version
        BY <1>7, <1>10, <2>1, <2>4, <3>2 DEF Dispositional
      <4> QED  BY <1>3, <3>2, <4>1, <4>2
    <3> QED  BY <1>7, <3>1, <3>2
  <2> QED  BY <1>7, <2>3, <2>4
<1>13. TodoHeeded'
  <2>1. SUFFICES ASSUME NEW x \in Calls, todo'[x] # <<>>, todo'[x][1].type = "report", NEW p \in Of("report")',
                        log'[p].version + 1 = todo'[x][1].version
                 PROVE  /\ \E y : y = todo'[x][1] /\ Heeded(y, p, n)'
                        /\ \A k \in Dispositional(todo'[x]) : \E y : y = todo'[x][k] /\ Named(y, p, n)'
    BY <1>7 DEF TodoHeeded, Dispositional, Effects, Heeded, Named
  <2>2. x # c /\ todo'[x] = todo[x]
    BY <1>2, <1>4, <2>1
  <2>3. CASE p \in Of("report")
    <3>1. /\ Heeded(todo[x][1], p, Len(log))
          /\ \A k \in Dispositional(todo[x]) : Named(todo[x][k], p, Len(log))
      BY <1>7, <2>1, <2>2, <2>3 DEF Heard, TodoHeeded
    <3> QED  BY <1>8, <2>2, <2>3, <3>1
  <2>4. CASE p = n /\ e.type = "report"
    <3>1. 1 \in 1 .. Len(todo[x])
      BY <2>1, <2>2 DEF Heard, Sound, IInv, TypeOK
    <3>2. FirstVersion(todo[x][1]) \/ \E i \in Of("report") : DecidedOn(todo[x][1], i)
      BY <2>1, <2>2, <3>1 DEF Heard, Sound, IInv, TodoDecided
    <3>3. todo[x][1].version = e.version + 1
      BY <1>7, <2>1, <2>2, <2>4
    <3>4. \A i \in Of("report") : todo[x][1].version # log[i].version + 1
      BY <1>3, <2>4, <3>3
    <3> QED  BY <1>3, <2>4, <3>2, <3>3, <3>4 DEF FirstVersion, DecidedOn, Succeeds
  <2> QED  BY <1>7, <2>3, <2>4
<1>14. TodoNamed'
  <2>1. SUFFICES ASSUME NEW x \in Calls, Underway(todo'[x]), NEW k \in Dispositional(todo'[x]),
                        NEW i \in Of("report")', NEW p \in Of("report")',
                        log'[i].version = todo'[x][k].version, log'[p].version + 1 = log'[i].version,
                        todo'[x][k].disposition \in Approvals
                 PROVE  \E y : y = todo'[x][k] /\ Named(y, p, i)'
    BY DEF TodoNamed, Dispositional, Effects, Underway, Named, Follow
  <2>2. p \in Of("report") /\ log'[p] = log[p]
    BY <1>7, <1>9, <2>1
  <2>3. /\ Owner(todo'[x][k]) = todo'[x][k].version /\ k \in Effects(todo'[x])
    BY <1>10, <2>1 DEF Dispositional
  <2>4. CASE x = c /\ i \in Of("report")
    <3>1. k + 1 \in Dispositional(todo[c]) /\ todo'[x][k] = todo[c][k + 1]
      BY <1>2, <1>5, <2>4
    <3>2. e.type # "report"
      <4>1. SUFFICES ASSUME e.type = "report" PROVE FALSE
        OBVIOUS
      <4>2. Owner(todo[c][k + 1]) = e.version
        BY <3>1, <4>1 DEF Heard, Sound, TodoSound, TodoOwned, Dispositional, e
      <4>3. log[i].version = e.version
        BY <1>7, <2>1, <2>3, <2>4, <3>1, <4>2
      <4> QED  BY <1>3, <2>4, <4>1, <4>3 DEF Recorded
    <3>3. Underway(todo[c])
      BY <1>1, <3>2 DEF Underway, e
    <3>4. Named(todo[c][k + 1], p, i)
      BY <1>7, <2>1, <2>2, <2>4, <3>1, <3>3 DEF Heard, TodoNamed, Follow
    <3> QED  BY <1>8, <2>2, <2>4, <3>1, <3>4
  <2>5. CASE x = c /\ i = n /\ e.type = "report"
    <3>1. k + 1 \in Dispositional(todo[c]) /\ todo'[x][k] = todo[c][k + 1]
      BY <1>2, <1>5, <2>5
    <3>2. Named(todo[c][k + 1], p, Len(log))
      BY <1>1, <1>7, <2>1, <2>2, <2>5, <3>1 DEF Heard, TodoHeeded, e
    <3> QED  BY <1>8, <2>2, <2>5, <3>1, <3>2
  <2>6. CASE x # c /\ i \in Of("report")
    <3>1. todo'[x] = todo[x]
      BY <1>2, <2>6
    <3>2. Named(todo[x][k], p, i)
      BY <1>7, <2>1, <2>2, <2>6, <3>1 DEF Heard, TodoNamed, Follow
    <3> QED  BY <1>8, <2>2, <2>6, <3>1, <3>2
  <2>7. CASE x # c /\ i = n /\ e.type = "report"
    <3>1. todo'[x] = todo[x]
      BY <1>2, <2>7
    <3>2. Recorded(Owner(todo[x][k]))
      BY <2>1, <2>3, <3>1 DEF Heard, Sound, TodoSound, TodoNew
    <3> QED  BY <1>3, <1>7, <2>1, <2>3, <2>7, <3>1, <3>2
  <2> QED  BY <1>7, <2>4, <2>5, <2>6, <2>7
<1> QED  BY <1>11, <1>12, <1>13, <1>14

(* The retraction of the claim is heard by whoever decides after it. *)
LEMMA RetractHeard ==
  ASSUME Heard, Retract
  PROVE  LogHeeded' /\ LogNamed' /\ TodoHeeded' /\ TodoNamed'
<1> DEFINE e == [type |-> "retraction"]
<1>0. log \in Seq(Events) /\ e \in Events /\ e.type \notin {"report", "disposition"} /\ log' = Append(log, e) /\ todo' = todo
  BY DEF Heard, Sound, IInv, TypeOK, Events, Retractions, Retract, Elsewhere
<1> HIDE DEF e
<1>1. PICK n : n = Len(log) + 1
  OBVIOUS
<1>2. LogHeeded' /\ LogNamed'
  BY <1>0, LogHeard
<1>3. /\ Len(log') = n /\ Of("report")' = Of("report")
      /\ \A i \in Of("report") : i \in 1 .. Len(log) /\ log'[i] = log[i]
  BY <1>0, <1>1, ReportsAfter, AppendFacts DEF Of
<1>4. \A p \in Of("report") :
        /\ \A x : Heeded(x, p, Len(log)) => Heeded(x, p, n)'
        /\ \A x : Named(x, p, Len(log)) => Named(x, p, n)'
        /\ \A x : \A i \in Of("report") : Named(x, p, i) => Named(x, p, i)'
  BY <1>0, <1>1, <1>3, ObjectionsAfter
<1>5. TodoHeeded'
  <2>1. SUFFICES ASSUME NEW x \in Calls, todo'[x] # <<>>, todo'[x][1].type = "report", NEW p \in Of("report")',
                        log'[p].version + 1 = todo'[x][1].version
                 PROVE  /\ \E y : y = todo'[x][1] /\ Heeded(y, p, n)'
                        /\ \A k \in Dispositional(todo'[x]) : \E y : y = todo'[x][k] /\ Named(y, p, n)'
    BY <1>3 DEF TodoHeeded, Dispositional, Effects, Heeded, Named
  <2>2. /\ Heeded(todo[x][1], p, Len(log))
        /\ \A k \in Dispositional(todo[x]) : Named(todo[x][k], p, Len(log))
    BY <1>0, <1>3, <2>1 DEF Heard, TodoHeeded
  <2> QED  BY <1>0, <1>3, <1>4, <2>2
<1>6. TodoNamed'
  <2>1. SUFFICES ASSUME NEW x \in Calls, Underway(todo'[x]), NEW k \in Dispositional(todo'[x]),
                        NEW i \in Of("report")', NEW p \in Of("report")',
                        log'[i].version = todo'[x][k].version, log'[p].version + 1 = log'[i].version
                 PROVE  \E y : y = todo'[x][k] /\ Named(y, p, i)'
    BY DEF TodoNamed, Dispositional, Effects, Underway, Named, Follow
  <2>2. Named(todo[x][k], p, i)
    BY <1>0, <1>3, <2>1 DEF Heard, TodoNamed, Follow
  <2> QED  BY <1>0, <1>3, <1>4, <2>2
<1> QED  BY <1>2, <1>5, <1>6

LEMMA HeardKeeps == Heard /\ [Next]_vars => Heard'
<1> SUFFICES ASSUME Heard, [Next]_vars PROVE Heard'
  OBVIOUS
<1>1. Sound'
  BY SoundKeeps DEF Heard
<1>2. log \in Seq(Events) /\ requests \subseteq Requests /\ todo \in [Calls -> Seq(Events)]
  BY DEF Heard, Sound, IInv, TypeOK
<1>3. ASSUME NEW c \in Calls, Command(c)
      PROVE  LogHeeded' /\ LogNamed' /\ TodoHeeded' /\ TodoNamed'
  <2>1. PICK s : Planned(s) /\ Decide(c, s)
    BY <1>2, <1>3, CommandPlans
  <2>2. PICK t : Heeds(t) /\ Decide(c, t)
    BY <1>2, <1>3, CommandHeeds
  <2>3. s = t
    BY <1>2, <2>1, <2>2 DEF Decide
  <2> QED  BY <2>1, <2>2, <2>3, PlanHeard DEF Decide
<1>4. ASSUME NEW c \in Calls, Write(c)
      PROVE  LogHeeded' /\ LogNamed' /\ TodoHeeded' /\ TodoNamed'
  BY <1>4, WriteHeard
<1>5. ASSUME NEW c \in Calls, Conflict(c) \/ GiveUp(c)
      PROVE  LogHeeded' /\ LogNamed' /\ TodoHeeded' /\ TodoNamed'
  <2>1. Heeds(<<>>)
    BY DEF Heeds
  <2> QED  BY <1>5, <2>1, PlanOfNone, PlanHeard DEF Conflict, GiveUp
<1>6. ASSUME log' = log, todo' = todo
      PROVE  LogHeeded' /\ LogNamed' /\ TodoHeeded' /\ TodoNamed'
  <2>1. LogHeeded' /\ LogNamed'
    BY <1>6 DEF Heard, LogHeeded, LogNamed, Heeded, Named, Follow, Standing, NotesOf, Of, Dispositional, Effects
  <2>2. TodoHeeded' /\ TodoNamed'
    BY <1>6 DEF Heard, TodoHeeded, TodoNamed, Heeded, Named, Follow, Standing, NotesOf, Of, Dispositional, Effects, Underway
  <2> QED  BY <2>1, <2>2
<1>7. ASSUME NEW a \in Humans, NEW nonce \in Nonces, NEW acknowledged \in SUBSET Notes,
             Sign(a, nonce, acknowledged)
      PROVE  log' = log /\ todo' = todo
  BY <1>7 DEF Sign
<1>8. ASSUME UNCHANGED vars
      PROVE  log' = log /\ todo' = todo
  BY <1>8 DEF vars
<1> QED  BY <1>1, <1>3, <1>4, <1>5, <1>6, <1>7, <1>8, RetractHeard DEF Next, Heard

LEMMA HeardAtFirst == Init => Heard
<1> SUFFICES ASSUME Init PROVE Heard
  OBVIOUS
<1>1. log = <<>> /\ \A c \in Calls : todo[c] = <<>>
  BY DEF Init, CommandInit
<1>2. Of("report") = {}
  BY <1>1 DEF Of
<1>3. LogHeeded /\ LogNamed
  BY <1>2 DEF LogHeeded, LogNamed
<1>4. TodoHeeded /\ TodoNamed
  BY <1>1 DEF TodoHeeded, TodoNamed, Underway
<1> QED  BY <1>3, <1>4, SoundAtFirst DEF Heard

THEOREM HeardInvariant == Spec => []Heard
<1> QED  BY HeardAtFirst, HeardKeeps, PTL DEF Spec

(* What is on record against a report when it goes to review counts in its *)
(* approval, plain or signed, whatever is resolved, reopened or retracted  *)
(* while the approval is on its way (authority.py,                         *)
(* authoritative_approval_state).                                          *)
THEOREM ObjectionsCount == Spec => []StandingObjectionsCount
<1>1. ASSUME Heard
      PROVE  StandingObjectionsCount
  <2>1. SUFFICES ASSUME NEW i \in 1 .. Len(log), ApprovedAt(i), NEW j \in 1 .. Len(log), Reviewed(j, i)
                 PROVE  /\ log[i].cites => \A k \in Of("retraction") : j < k
                        /\ \A k \in Standing(j, i) :
                             /\ log[i].status = "APPROVED_WITH_DISSENT"
                             /\ log[k].restricted => log[i].actor \in Cleared
                             /\ \A m \in Of("disposition") :
                                  log[m].version = log[i].version /\ log[m].disposition \in Approvals
                                    => log[k].id \in log[m].dissent
    BY DEF StandingObjectionsCount, Standing
  <2>2. i \in Of("report") /\ j \in Of("report") /\ Follow(j, i) /\ log[i].status \in Approvals
    BY <2>1 DEF ApprovedAt, Reviewed, Follow
  <2>3. Heeded(log[i], j, i)
    BY <1>1, <2>2 DEF Heard, LogHeeded
  <2>4. ASSUME NEW m \in Of("disposition"), log[m].version = log[i].version
        PROVE  Named(log[m], j, i)
    <3>1. m \in Dispositional(log)
      BY DEF Dispositional, Effects, IsEffect, Of
    <3> QED  BY <1>1, <2>2, <2>4, <3>1 DEF Heard, LogNamed
  <2> QED  BY <2>2, <2>3, <2>4 DEF Heeded, Named
<1> QED  BY <1>1, HeardInvariant, PTL
=============================================================================
