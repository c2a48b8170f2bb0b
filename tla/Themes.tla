-------------------------------- MODULE Themes --------------------------------
(***************************************************************************)
(* Themes (themes.py): claims about one matter.  A theme's working status  *)
(* follows its basis; people resolve themes, merge one into another and    *)
(* split one into parts, with the lineage written on both sides in several *)
(* appends.                                                                *)
(***************************************************************************)
EXTENDS AnalyticPlane

CONSTANTS
  ThemeIds,  \* a theme is named by its title and its parent
  Parent,    \* [ThemeIds -> ThemeIds, or "" for none]
  Parts      \* how people split a theme: a sequence of <<theme, claims>>

ASSUME ThemesAssumption ==
  /\ Parts \in Seq(ThemeIds \X ((SUBSET Claims) \ {{}}))
  /\ \A id \in ThemeIds : Parent[id] \in ThemeIds \cup {""}

T == "theme"
MachineStatuses == {"EMERGING", "ACTIVE", "CONTESTED", "STALE"}
Retired         == {"MERGED", "SPLIT", "RESOLVED"}

DerivedStatus(b) ==
  CASE Cardinality(b.sup) <= b.deg -> "STALE"
    [] Cardinality(b.sup) > b.deg /\ b.con # {} -> "CONTESTED"
    [] OTHER -> IF Cardinality(b.fam) > 1 THEN "ACTIVE" ELSE "EMERGING"

Theme(id, proposal, basis, lineage) ==
  [type |-> T, id |-> id, version |-> 0, status |-> DerivedStatus(basis),
   proposal |-> proposal, basis |-> basis, lineage |-> lineage]

(* ThemeRecord refuses anything else. *)
ThemeContract(r) == r.type = T =>
                    /\ r.status \in MachineStatuses \cup Retired
                    /\ r.version >= 1 /\ r.basis.sup # {} /\ BasisContract(r.basis)
                    /\ \A p \in r.lineage : p[1] \in {"MERGED_FROM", "MERGED_INTO", "SPLIT_FROM", "SPLIT_INTO"}

The(l, id) == Current(l, T, id)
Is(l, id)  == Known(l, T, id)
Emerged(id)   == IF Parent[id] = "" THEN <<>> ELSE <<Transition(Parent[id], "SUBTHEME_EMERGED", <<id>>)>>
NewTheme(id)  == Ensure(id, "CREATED", <<id>>)

(***************************************************************************)
(* Commands.                                                               *)
(***************************************************************************)
UpdateMembership(l, id, sup, con, cause) ==
  LET was == The(l, id)  basis == Widened(l, was.basis, sup, con)
  IN  IF basis = was.basis THEN <<>>
      ELSE <<[was EXCEPT !.basis = basis,
                         !.status = IF @ \in MachineStatuses THEN DerivedStatus(basis) ELSE @],
             Transition(id, "MEMBERSHIP_CHANGED", cause)>>
           \o IF con = {} THEN <<>> ELSE <<Transition(id, "CONTRADICTION_ADDED", cause)>>

(* An existing theme takes in what is new to it; a candidate has nothing   *)
(* new to give to the theme it made, and none may touch another theme.     *)
CreateTheme(l, id, proposal, sup, con, lineage) ==
  CASE Is(l, id) ->
         <<NewTheme(id)>> \o Emerged(id)
         \o (LET more == <<id, sup \ The(l, id).basis.sup, con \ The(l, id).basis.con>>
             IN  IF proposal # "" \/ (more[2] = {} /\ more[3] = {}) THEN <<>>
                 ELSE <<Step("membership", more)>>)
    [] ~Is(l, id) /\ (~Authorized(l, proposal) \/ (proposal # "" /\ sup # Offered)) -> <<>>
    [] OTHER -> <<Theme(id, proposal, Basis(l, sup, con), lineage), NewTheme(id)>> \o Emerged(id)

RefreshTheme(l, id, cause) ==
  LET was == The(l, id)
      b   == Rebased(l, was.basis)
      to  == DerivedStatus(b)
      Say(condition, what) == IF condition THEN <<Transition(id, what, cause)>> ELSE <<>>
  IN  IF was.status \in Retired \/ (b = was.basis /\ to = was.status) THEN <<>>
      ELSE <<[was EXCEPT !.basis = b, !.status = to]>>
           \o Say(b.fam # was.basis.fam, "SOURCE_DIVERSITY_CHANGED")
           \o Say(to # was.status, CASE to = "CONTESTED" -> "CONTRADICTION_ADDED" [] to = "STALE" -> "STALE"
                                     [] to = "ACTIVE" -> "STRENGTHENED" [] to = "EMERGING" -> "WEAKENED")
           \o Say(b.obs # was.basis.obs /\ to = was.status, "EVIDENCE_UPDATED")
           \o Say(b.deg > was.basis.deg, "WEAKENED")

ResolveTheme(l, id) ==
  IF The(l, id).status = "RESOLVED" THEN <<>>
  ELSE <<[The(l, id) EXCEPT !.status = "RESOLVED"], Transition(id, "RESOLVED", <<"analyst">>)>>

ProposeMerge(left, right) ==
  <<Transition(left, "MERGE_PROPOSED", <<"proposed", left, right>>), Transition(right, "MERGE_PROPOSED", <<"proposed", left, right>>)>>

(* The survivor takes in the basis of the absorbed theme and is appended   *)
(* first; the absorbed theme is appended as it was read before that.       *)
Merged(type, into, from) ==
  LET of(id) == [type |-> type, id |-> id, what |-> "MERGED", cause |-> <<"merge", into, from>>]
  IN  <<of(into), of(from)>>
Absorbed(was, into) == [was EXCEPT !.status = "MERGED", !.lineage = @ \cup {<<"MERGED_INTO", into>>}]

ApplyMerge(l, into, from) ==
  LET survivor == The(l, into)  was == The(l, from)
      basis    == Widened(l, survivor.basis, was.basis.sup, was.basis.con)
  IN  CASE <<"MERGED_FROM", from>> \in survivor.lineage ->
             Merged("ensure", into, from) \o (IF was.status = "MERGED" THEN <<>> ELSE <<Absorbed(was, into)>>)
        [] <<"MERGED_FROM", from>> \notin survivor.lineage /\ was.status = "MERGED" -> <<>>
        [] OTHER -> <<[survivor EXCEPT !.basis = basis, !.status = DerivedStatus(basis),
                                       !.lineage = @ \cup {<<"MERGED_FROM", from>>}],
                      Absorbed(was, into)>> \o Merged("transition", into, from)

(* The parts are created one by one, then the theme is appended as it was  *)
(* read before that.                                                       *)
ApplySplit(l, id) ==
  LET into == {<<"SPLIT_INTO", Parts[n][1]>> : n \in DOMAIN Parts}
  IN  IF The(l, id).status = "SPLIT" THEN <<>>
      ELSE [n \in DOMAIN Parts |-> Step("part", <<id, n>>)]
           \o <<[The(l, id) EXCEPT !.status = "SPLIT", !.lineage = @ \cup into], Transition(id, "SPLIT", <<"analyst">>)>>

Part(l, id, n) == CreateTheme(l, Parts[n][1], "", Parts[n][2], {}, {<<"SPLIT_FROM", id>>})

ThemeContinue(l, step) ==
  IF step.what = "part" THEN Part(l, step.id[1], step.id[2])
  ELSE UpdateMembership(l, step.id[1], step.id[2], step.id[3], <<step.id[1]>>)

(***************************************************************************)
(* The specification.                                                      *)
(***************************************************************************)
ThemeDo(c, events) == Idle(c) /\ Do(ThemeContinue, c, events)
Themes == {id \in ThemeIds : Is(log, id)}

MakeTheme(c, proposals) ==
  \E id \in ThemeIds, proposal \in proposals, sup, con \in SUBSET Claims :
    sup # {} /\ sup \cap con = {} /\ ThemeDo(c, CreateTheme(log, id, proposal, sup, con, {}))
RecheckTheme(c) == \E id \in Themes : ThemeDo(c, RefreshTheme(log, id, Changeset(log, Resting(The(log, id).basis))))
EndTheme(c)     == \E id \in Themes : ThemeDo(c, ResolveTheme(log, id))
Propose(c)      == \E left, right \in Themes : left # right /\ ThemeDo(c, ProposeMerge(left, right))
Merge(c)        == \E into, from \in Themes : into # from /\ ThemeDo(c, ApplyMerge(log, into, from))
Split(c)        == \E id \in Themes \ {Parts[n][1] : n \in DOMAIN Parts} : ThemeDo(c, ApplySplit(log, id))
ThemeWrite(c)   == WriteAnd(ThemeContinue, c)

ThemeCommand(c) ==
  \/ MakeTheme(c, {"", "candidate"}) \/ RecheckTheme(c) \/ EndTheme(c) \/ Propose(c) \/ Merge(c) \/ Split(c)
  \/ Idle(c) /\ CandidateCommand(c, "candidate")

ThemeNext == \/ \E c \in Calls : ThemeCommand(c) \/ ThemeWrite(c) \/ GiveUp(c)
             \/ \E e \in ClaimNews \cup SeenIn("other", 0) : News(log, e) /\ Happen(e)

ThemeSpec == CommandInit /\ [][ThemeNext]_<<log, todo>>

(***************************************************************************)
(* Properties.                                                             *)
(***************************************************************************)
(* What people have ended, no refresh and no late claim brings back: only  *)
(* people move a retired theme, by a merge or a split (themes.py:203).     *)
RetiredStays == \A r \in Revisions(T) :
  log[r[1]].status \in Retired /\ log[r[2]].status \notin Retired =>
    \E p \in log[r[2]].lineage \ log[r[1]].lineage : p[1] = "MERGED_FROM"
=============================================================================
