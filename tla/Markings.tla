------------------------------ MODULE Markings ------------------------------
(***************************************************************************)
(* Who may see a record, and what a record derived from others is marked   *)
(* with (curunir_operational/access.py).  A marking restricts on three     *)
(* axes: a role, compartments, and either the groups it may be released to *)
(* or, with no group named, the organisation that owns it.  The last two   *)
(* are not points of one scale, so some markings have no safe join.        *)
(***************************************************************************)
EXTENDS Naturals

CONSTANTS
  Authorities,   \* organisations that own records
  Compartments,  \* those that a context can hold
  Groups,        \* whom a record can be released to
  Seal           \* UNJOINABLE_SEAL_COMPARTMENT, which no context can hold

ASSUME SealIsReserved == Seal \notin Compartments

Roles == 0 .. 2  \* ROLE_RANK: OBSERVER, ANALYST, SUPERVISOR

Marking ==
  [authority : Authorities, compartments : SUBSET (Compartments \cup {Seal}),
   releasability : SUBSET Groups, minRole : Roles]

(* Who looks, with the highest of its roles; one without a role sees       *)
(* nothing.  A context is refused the seal.                                *)
Context ==
  [organisation : Authorities, compartments : SUBSET Compartments,
   releasability : SUBSET Groups, rank : Roles]

(* can_view *)
CanView(m, ctx) ==
  /\ m.minRole <= ctx.rank
  /\ m.compartments \subseteq ctx.compartments
  /\ IF m.releasability # {}
     THEN m.releasability \cap ctx.releasability # {}
     ELSE ctx.organisation = m.authority

-----------------------------------------------------------------------------
(* Joins of a first marking, whose authority the result has, with others.  *)

CommonGroups(markings) == {g \in Groups : \A m \in markings : g \in m.releasability}

HighestRole(markings) ==
  CHOOSE role \in Roles : (\E m \in markings : m.minRole = role) /\ (\A m \in markings : m.minRole <= role)

(* A join that names no group is for the one owner that all inputs are for. *)
Joinable(first, others) ==
  \/ CommonGroups({first} \cup others) # {}
  \/ \A m \in {first} \cup others : m.releasability = {} /\ m.authority = first.authority

(* most_restrictive, of markings that are joinable; of others it is refused. *)
MostRestrictive(first, others) ==
  [authority     |-> first.authority,
   compartments  |-> UNION {m.compartments : m \in {first} \cup others},
   releasability |-> CommonGroups({first} \cup others),
   minRole       |-> HighestRole({first} \cup others)]

(* _deny_all_seal *)
Sealed(first, others) ==
  [authority     |-> first.authority,
   compartments  |-> {Seal} \cup UNION {m.compartments : m \in {first} \cup others},
   releasability |-> {},
   minRole       |-> 2]

(* inherited_marking: a derivation nobody is asked about is never refused;  *)
(* where there is no safe join nobody may see it.                           *)
Inherited(base, references) ==
  IF Joinable(base, references) THEN MostRestrictive(base, references) ELSE Sealed(base, references)
=============================================================================
