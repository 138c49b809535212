--------------------------- MODULE ThreeWayMerge ---------------------------
(***************************************************************************)
(* The deterministic three-way merge of packages/context-engine: a Delta,  *)
(* the snapshot of the commit it was branched from (Base) and the snapshot *)
(* of the project HEAD (Current) give one verdict for each proposed change. *)
(*                                                                         *)
(* Data abstraction.  A topic stands for a <kind, key> pair: the code      *)
(* compares kind and key together and otherwise asks of the kind only      *)
(* whether it is high risk and whether it may be expanded.  A JSON value   *)
(* is an object (a partial function on Fields), an array or a scalar.      *)
(* A scope keeps the labels that are present, the validity interval and    *)
(* the tags.  Provenance and confidence decide nothing and are left out.   *)
(***************************************************************************)
EXTENDS Naturals, Null

CONSTANTS
  Topics,            \* <kind, key> pairs
  HighRiskTopics,    \* those of kind decision, requirement, constraint, architecture
  ExpandableTopics,  \* those of kind fact, artifact, risk
  Scopes,            \* scopes of items and proposals
  Fields, Atoms,     \* members of JSON objects and what they hold
  Arrays, Scalars    \* JSON values that are not objects

ASSUME TopicAssumption ==
  /\ HighRiskTopics \subseteq Topics
  /\ ExpandableTopics \subseteq Topics
  /\ HighRiskTopics \cap ExpandableTopics = {}

Objects == UNION {[F -> Atoms] : F \in SUBSET Fields}
Values == Objects \cup Arrays \cup Scalars

Authorities == {"authoritative", "alternative"}
Lifecycles == {"active", "deprecated"}
Verdicts == {"clean", "conflict", "duplicate"}

(***************************************************************************)
(* Scopes: absent labels match everything, so only a label both sides fix  *)
(* differently, or intervals that do not meet, make two scopes disjoint.   *)
(***************************************************************************)
EndsBefore(left, right) ==
  left.to # None /\ right.from # None /\ left.to <= right.from

ScopesAreDisjoint(left, right) ==
  \/ \E d \in DOMAIN left.labels \cap DOMAIN right.labels :
       left.labels[d] # right.labels[d]
  \/ EndsBefore(left, right)
  \/ EndsBefore(right, left)

SameContextSlot(left, right) ==
  left.topic = right.topic /\ left.scope = right.scope

(***************************************************************************)
(* JSON expansion: equal arrays, or objects that agree where they overlap. *)
(***************************************************************************)
Compatible(current, proposed) ==
  \/ current \in Arrays /\ proposed = current
  \/ /\ current \in Objects /\ proposed \in Objects
     /\ \A f \in DOMAIN current \cap DOMAIN proposed : current[f] = proposed[f]

\* Mutant: the proposed object replaces the current one.
ExpansionDropsCurrent(current, proposed) == proposed

Expansion(current, proposed) ==
  IF current \in Arrays THEN current
  ELSE [f \in DOMAIN current \cup DOMAIN proposed |->
          IF f \in DOMAIN current THEN current[f] ELSE proposed[f]]

(***************************************************************************)
(* Versions.  A commit writes at most one version of a lineage, so the     *)
(* pair names the version.  Lineages are numbers only because snapshots    *)
(* are sorted by lineage id, which decides what Array.find returns.        *)
(***************************************************************************)
VersionId(version) == <<version.lineage, version.commit>>

FindByLogicalItem(items, lineage) ==
  IF \E v \in items : v.lineage = lineage
  THEN CHOOSE v \in items : v.lineage = lineage
  ELSE None

FirstOf(versions) ==
  CHOOSE v \in versions : \A w \in versions : v.lineage <= w.lineage

SameProposalValue(version, proposal) ==
  /\ SameContextSlot(version, proposal)
  /\ version.authority = proposal.authority
  /\ version.value = proposal.value

ConflictClassification(current, proposal) ==
  IF /\ current.topic = proposal.topic
     /\ ~ScopesAreDisjoint(current.scope, proposal.scope)
     /\ current.authority = "authoritative"
     /\ proposal.authority = "authoritative"
     /\ current.topic \in HighRiskTopics \/ current.scope = proposal.scope
  THEN "C3"
  ELSE "C2"

(***************************************************************************)
(* Plan entries.  "proposal" is what review shows and accepting writes:    *)
(* the effective proposal of a clean change, the proposed one of a         *)
(* conflict, None for a deprecation.                                       *)
(***************************************************************************)
Clean(class, proposal, current) ==
  [verdict |-> "clean", class |-> class, proposal |-> proposal, current |-> current]

Conflict(class, change, current) ==
  [verdict |-> "conflict", class |-> class, proposal |-> change.proposal,
   current |-> current]

Duplicate(current) ==
  [verdict |-> "duplicate", class |-> "duplicate", proposal |-> None,
   current |-> current]

CanExpand(current, proposal) ==
  /\ proposal.topic \in ExpandableTopics
  /\ Compatible(current.value, proposal.value)

Expanded(current, proposal) ==
  Clean("C1", [proposal EXCEPT !.value = Expansion(current.value, proposal.value)],
        current)

MergeAdd(change, items) ==
  LET proposal == change.proposal
      sameKey == {v \in items : v.lifecycle = "active" /\ v.topic = proposal.topic}
      sameSlot == {v \in sameKey : SameContextSlot(v, proposal)}
      overlapping == {v \in sameKey : ~ScopesAreDisjoint(v.scope, proposal.scope)}
      slot == FirstOf(sameSlot)
  IN IF sameSlot = {}
     THEN IF overlapping # {}
          THEN Conflict("C2", change, FirstOf(overlapping))
          ELSE Clean("C0", proposal, None)
     ELSE IF SameProposalValue(slot, proposal) THEN Duplicate(slot)
     ELSE IF proposal.supersedes = VersionId(slot) THEN Clean("C4", proposal, slot)
     ELSE IF CanExpand(slot, proposal) THEN Expanded(slot, proposal)
     ELSE Conflict(ConflictClassification(slot, proposal), change, slot)

MergeTargetedChange(change, baseItems, items) ==
  LET proposal == change.proposal
      base == FindByLogicalItem(baseItems, change.target)
      current == FindByLogicalItem(items, change.target)
      unmoved == VersionId(current) = change.expected
  IN IF base = None \/ VersionId(base) # change.expected
     THEN Conflict("C2", change, current)
     ELSE IF current = None \/ current.lifecycle # "active" THEN Duplicate(current)
     ELSE IF change.op = "deprecate"
     THEN IF unmoved THEN Clean("C4", None, current)
                     ELSE Conflict("C2", change, current)
     ELSE IF SameProposalValue(current, proposal) THEN Duplicate(current)
     ELSE IF unmoved
     THEN Clean(IF change.op = "supersede" THEN "C4" ELSE "C0", proposal, current)
     ELSE IF SameProposalValue(base, proposal) THEN Duplicate(current)
     ELSE IF CanExpand(current, proposal) /\ SameContextSlot(current, proposal)
     THEN Expanded(current, proposal)
     ELSE Conflict(ConflictClassification(current, proposal), change, current)

\* One entry per change.  Base must be Current or one of its ancestors.
PlanInputsValid(delta, base, current) ==
  /\ delta.base = base.commit
  /\ base.commit = current.commit \/ base.commit \in current.ancestors

\* Mutant: a Delta that was applied already is merged again.
CreatePlanAgain(id, delta, base, current) ==
  [c \in DOMAIN delta.changes |->
     IF delta.changes[c].op = "add" THEN MergeAdd(delta.changes[c], current.items)
     ELSE MergeTargetedChange(delta.changes[c], base.items, current.items)]

CreateThreeWayMergePlan(id, delta, base, current) ==
  [c \in DOMAIN delta.changes |->
     LET change == delta.changes[c]
     IN IF id \in current.applied THEN Duplicate(None)
        ELSE IF change.op = "add" THEN MergeAdd(change, current.items)
        ELSE MergeTargetedChange(change, base.items, current.items)]

Reviewable(plan) == {c \in DOMAIN plan : plan[c].verdict # "duplicate"}

(***************************************************************************)
(* What contextDeltaSchema refuses: two changes of one lineage, two        *)
(* authoritative values for one slot, a supersession that does not name    *)
(* the base version it replaces.                                           *)
(***************************************************************************)
DeltaSchema(changes) ==
  /\ \A c, d \in DOMAIN changes :
       c # d =>
         /\ changes[c].op # "add" /\ changes[d].op # "add"
              => changes[c].target # changes[d].target
         /\ changes[c].op # "deprecate" /\ changes[d].op # "deprecate"
            /\ changes[c].proposal.authority = "authoritative"
            /\ changes[d].proposal.authority = "authoritative"
              => ~SameContextSlot(changes[c].proposal, changes[d].proposal)
  /\ \A c \in DOMAIN changes :
       changes[c].op = "supersede" =>
         changes[c].proposal.supersedes = changes[c].expected
=============================================================================
