------------------------- MODULE ContextMergeProofs -------------------------
(***************************************************************************)
(* Proofs about ContextMerge for every value of its constants: its types,  *)
(* the moves of a request, the one line of the history, and what a commit  *)
(* does to the snapshots (the one it makes is HEAD's with the reviewed     *)
(* batch applied, and no other changes), from which follow the projection, *)
(* the lineages, the slots and ContextHistory.  And that what was reviewed *)
(* is what is committed: the plan computed when a request is finalized is  *)
(* the plan that was put to review, and high-risk changes are committed by *)
(* owners.                                                                 *)
(***************************************************************************)
EXTENDS ContextMerge, WellFoundedInduction, Sequences, TLAPS

-----------------------------------------------------------------------------
(* Lemmas about members *)

\* Members keep their roles in Roles, and the archived flag stays a Boolean.
LEMMA MembersTyped ==
  ASSUME role \in [Users -> Roles \cup {None}], archived \in BOOLEAN, MembershipNext
  PROVE  role' \in [Users -> Roles \cup {None}] /\ archived' \in BOOLEAN
BY DEF MembershipNext, ChangeMemberRole, AddMember, ArchiveProject

\* A change of members never takes the last owner away.
LEMMA OwnerRemains ==
  ASSUME role \in [Users -> Roles \cup {None}], HasOwner, MembershipNext
  PROVE  HasOwner'
<1>1. PICK v \in Users : role[v] = "owner"
  BY DEF HasOwner
<1>2. ASSUME UNCHANGED role PROVE HasOwner'
  BY <1>1, <1>2 DEF HasOwner
<1>3. ASSUME NEW u \in Users, NEW target \in Users, NEW next \in Roles,
             ChangeMemberRole(u, target, next)
      PROVE  HasOwner'
  <2>1. role' = [role EXCEPT ![target] = next]
    BY <1>3 DEF ChangeMemberRole
  <2>2. CASE next = "owner"
    BY <2>1, <2>2 DEF HasOwner
  <2>3. CASE v # target
    BY <1>1, <2>1, <2>3 DEF HasOwner
  <2>4. CASE v = target /\ next # "owner"
    <3>1. PICK w \in Users \ {target} : role[w] = "owner"
      BY <1>1, <1>3, <2>4 DEF ChangeMemberRole, OtherOwners
    <3>. QED BY <2>1, <3>1 DEF HasOwner
  <2>. QED BY <2>2, <2>3, <2>4
<1>4. ASSUME NEW u \in Users, NEW target \in Users, NEW granted \in Roles,
             AddMember(u, target, granted)
      PROVE  HasOwner'
  <2>1. role' = [role EXCEPT ![target] = granted] /\ role[target] = None
    BY <1>4 DEF AddMember
  <2>2. v # target
    BY <1>1, <2>1, MemberAssumption DEF Roles
  <2>. QED BY <1>1, <2>1, <2>2 DEF HasOwner
<1>. QED BY <1>2, <1>3, <1>4 DEF MembershipNext, ArchiveProject

-----------------------------------------------------------------------------
(* Lemmas about the merge plan *)

LEMMA NatMin ==
  ASSUME NEW T \in SUBSET Nat, T # {}
  PROVE  \E m \in T : \A k \in T : m <= k
<1> DEFINE R == {ss \in Nat \X Nat : ss[1] < ss[2]}
<1>1. IsWellFoundedOn(R, Nat)
  BY NatLessThanWellFounded DEF OpToRel
<1>2. PICK m \in T : \A k \in T : ~(<<k, m>> \in R)
  BY <1>1, WFMin
<1>3. ASSUME NEW k \in T PROVE m <= k
  <2>1. ~(<<k, m>> \in R)
    BY <1>2
  <2>2. ~(k < m)
    BY <2>1
  <2>. QED BY <2>2
<1>. QED BY <1>3

LEMMA FirstOfMember ==
  ASSUME NEW versions \in SUBSET ItemVersion, versions # {}
  PROVE  FirstOf(versions) \in versions
<1> DEFINE T == {v.lineage : v \in versions}
<1>0. Lineages \subseteq Nat
  BY IdAssumption
<1>1. T \in SUBSET Nat /\ T # {}
  <2>1. \A v \in versions : v.lineage \in Nat
    BY <1>0 DEF ItemVersion
  <2>. QED BY <2>1
<1>2. PICK m \in T : \A k \in T : m <= k
  BY <1>1, NatMin
<1>3. PICK v \in versions : v.lineage = m
  OBVIOUS
<1>4. \A w \in versions : v.lineage <= w.lineage
  BY <1>2, <1>3
<1>. QED BY <1>4 DEF FirstOf

LEMMA FoundItem ==
  ASSUME NEW items, NEW lineage
  PROVE  FindByLogicalItem(items, lineage) \in items \cup {None}
BY DEF FindByLogicalItem

LEMMA ExpansionType ==
  ASSUME NEW current \in Values, NEW addition \in Values, Compatible(current, addition)
  PROVE  Expansion(current, addition) \in Values
<1>1. CASE current \in Arrays
  BY <1>1 DEF Expansion
<1>2. CASE current \notin Arrays
  <2>1. current \in Objects /\ addition \in Objects
    BY <1>2 DEF Compatible
  <2>2. PICK F \in SUBSET Fields : current \in [F -> Atoms]
    BY <2>1 DEF Objects
  <2>3. PICK G \in SUBSET Fields : addition \in [G -> Atoms]
    BY <2>1 DEF Objects
  <2>4. Expansion(current, addition) \in [F \cup G -> Atoms]
    BY <1>2, <2>2, <2>3 DEF Expansion
  <2>5. Expansion(current, addition) \in Objects
    BY <2>4 DEF Objects
  <2>. QED BY <2>5 DEF Values
<1>. QED BY <1>1, <1>2

\* What the plan says of one change has the shape of a review entry, and only
\* a deprecation is reviewed without a proposal.
PlanEntryOK(change, entry) ==
  /\ entry.current \in ItemVersion \cup {None}
  /\ entry.proposal \in Proposal \cup {None}
  /\ entry.verdict # "duplicate" /\ change.op # "deprecate" => entry.proposal \in Proposal

LEMMA ExpandedOK ==
  ASSUME NEW change \in Change, change.op # "deprecate", NEW current \in ItemVersion,
         CanExpand(current, change.proposal)
  PROVE  PlanEntryOK(change, Expanded(current, change.proposal))
<1> DEFINE proposal == change.proposal
<1>1. proposal \in Proposal
  BY DEF Change
<1>2. Expansion(current.value, proposal.value) \in Values
  BY <1>1, ExpansionType DEF CanExpand, Proposal, ItemVersion
<1>3. [proposal EXCEPT !.value = Expansion(current.value, proposal.value)] \in Proposal
  BY <1>1, <1>2 DEF Proposal
<1>. QED BY <1>3 DEF PlanEntryOK, Expanded, Clean

LEMMA MergeAddOK ==
  ASSUME NEW change \in Change, change.op = "add", NEW items \in SUBSET ItemVersion
  PROVE  PlanEntryOK(change, MergeAdd(change, items))
<1> DEFINE proposal == change.proposal
           sameKey == {v \in items : v.lifecycle = "active" /\ v.topic = proposal.topic}
           sameSlot == {v \in sameKey : SameContextSlot(v, proposal)}
           overlapping == {v \in sameKey : ~ScopesAreDisjoint(v.scope, proposal.scope)}
           slot == FirstOf(sameSlot)
<1>1. proposal \in Proposal
  BY DEF Change
<1>2. sameSlot # {} => slot \in ItemVersion
  BY FirstOfMember
<1>3. overlapping # {} => FirstOf(overlapping) \in ItemVersion
  BY FirstOfMember
<1>4. sameSlot # {} /\ CanExpand(slot, proposal) => PlanEntryOK(change, Expanded(slot, proposal))
  BY <1>2, ExpandedOK
<1> HIDE DEF sameSlot, overlapping, slot
<1>5. CASE sameSlot = {} /\ overlapping # {}
  <2>1. MergeAdd(change, items) = Conflict("C2", change, FirstOf(overlapping))
    BY <1>5 DEF MergeAdd, sameSlot, overlapping
  <2>. QED BY <1>1, <1>3, <1>5, <2>1 DEF PlanEntryOK, Conflict
<1>6. CASE sameSlot = {} /\ overlapping = {}
  <2>1. MergeAdd(change, items) = Clean("C0", proposal, None)
    BY <1>6 DEF MergeAdd, sameSlot, overlapping
  <2>. QED BY <1>1, <2>1 DEF PlanEntryOK, Clean
<1>7. CASE sameSlot # {}
  <2>1. \/ MergeAdd(change, items) = Duplicate(slot)
        \/ MergeAdd(change, items) = Clean("C4", proposal, slot)
        \/ CanExpand(slot, proposal) /\ MergeAdd(change, items) = Expanded(slot, proposal)
        \/ MergeAdd(change, items) =
              Conflict(ConflictClassification(slot, proposal), change, slot)
    BY <1>7, Zenon DEF MergeAdd, sameSlot, slot
  <2>. QED BY <1>1, <1>2, <1>4, <1>7, <2>1 DEF PlanEntryOK, Duplicate, Clean, Conflict
<1>. QED BY <1>5, <1>6, <1>7

LEMMA MergeTargetedChangeOK ==
  ASSUME NEW change \in Change, change.op # "add",
         NEW baseItems, NEW items \in SUBSET ItemVersion
  PROVE  PlanEntryOK(change, MergeTargetedChange(change, baseItems, items))
<1> DEFINE proposal == change.proposal
           base == FindByLogicalItem(baseItems, change.target)
           current == FindByLogicalItem(items, change.target)
           entry == MergeTargetedChange(change, baseItems, items)
<1> SUFFICES PlanEntryOK(change, entry)
  OBVIOUS
<1>1. proposal \in Proposal \cup {None} /\ (change.op # "deprecate" => proposal \in Proposal)
  BY DEF Change
<1>2. current \in ItemVersion \cup {None}
  BY FoundItem
<1>3. ASSUME change.op # "deprecate", current # None, CanExpand(current, proposal)
      PROVE  PlanEntryOK(change, Expanded(current, proposal))
  BY <1>2, <1>3, ExpandedOK
<1>4. \/ \E class : entry = Conflict(class, change, current)
      \/ entry = Duplicate(current)
      \/ change.op = "deprecate" /\ entry = Clean("C4", None, current)
      \/ change.op # "deprecate" /\ \E class : entry = Clean(class, proposal, current)
      \/ /\ change.op # "deprecate" /\ current # None /\ CanExpand(current, proposal)
         /\ entry = Expanded(current, proposal)
  BY Zenon DEF MergeTargetedChange
<1> HIDE DEF proposal, current, entry
<1>5. ASSUME NEW class, entry = Conflict(class, change, current)
      PROVE  PlanEntryOK(change, entry)
  BY <1>1, <1>2, <1>5 DEF PlanEntryOK, Conflict, proposal
<1>6. CASE entry = Duplicate(current)
  BY <1>2, <1>6 DEF PlanEntryOK, Duplicate
<1>7. CASE change.op = "deprecate" /\ entry = Clean("C4", None, current)
  BY <1>2, <1>7 DEF PlanEntryOK, Clean
<1>8. ASSUME change.op # "deprecate", NEW class, entry = Clean(class, proposal, current)
      PROVE  PlanEntryOK(change, entry)
  BY <1>1, <1>2, <1>8 DEF PlanEntryOK, Clean
<1>. QED BY <1>3, <1>4, <1>5, <1>6, <1>7, <1>8

\* The plan has one well-formed entry for each change of the Delta.
LEMMA PlanOK ==
  ASSUME NEW id, NEW delta, NEW base, NEW current,
         \A c \in DOMAIN delta.changes : delta.changes[c] \in Change,
         current.items \in SUBSET ItemVersion
  PROVE  LET plan == CreateThreeWayMergePlan(id, delta, base, current)
         IN /\ DOMAIN plan = DOMAIN delta.changes
            /\ \A c \in DOMAIN plan : PlanEntryOK(delta.changes[c], plan[c])
<1> DEFINE plan == CreateThreeWayMergePlan(id, delta, base, current)
<1>1. DOMAIN plan = DOMAIN delta.changes
  BY DEF CreateThreeWayMergePlan
<1>2. ASSUME NEW c \in DOMAIN plan PROVE PlanEntryOK(delta.changes[c], plan[c])
  <2> DEFINE change == delta.changes[c]
  <2>1. change \in Change
    BY <1>1
  <2>2. plan[c] = IF id \in current.applied THEN Duplicate(None)
                  ELSE IF change.op = "add" THEN MergeAdd(change, current.items)
                  ELSE MergeTargetedChange(change, base.items, current.items)
    BY <1>1 DEF CreateThreeWayMergePlan
  <2> HIDE DEF plan, change
  <2>3. PlanEntryOK(change, Duplicate(None))
    BY DEF PlanEntryOK, Duplicate
  <2>4. change.op = "add" => PlanEntryOK(change, MergeAdd(change, current.items))
    BY <2>1, MergeAddOK
  <2>5. change.op # "add" =>
          PlanEntryOK(change, MergeTargetedChange(change, base.items, current.items))
    BY <2>1, MergeTargetedChangeOK
  <2>. QED BY <2>2, <2>3, <2>4, <2>5 DEF change
<1>. QED BY <1>1, <1>2

-----------------------------------------------------------------------------
(* Lemmas about snapshots of well-typed states *)

LEMMA ChainInCommits ==
  ASSUME NEW c PROVE Chain(c) \subseteq DOMAIN commits
BY DEF Chain

LEMMA SnapshotOK ==
  ASSUME TypeOK, NEW c
  PROVE  /\ GetSnapshot(c).commit = c
         /\ GetSnapshot(c).items \in SUBSET ItemVersion
         /\ GetSnapshot(c).ancestors = Chain(c) \ {c}
         /\ GetSnapshot(c).applied = {commits[d].delta : d \in Chain(c)} \ {None}
<1>1. \A d \in Chain(c) : WrittenVersions(d) \subseteq ItemVersion
  BY ChainInCommits DEF TypeOK, IsPartial, Commit, CommitChange, WrittenVersions
<1>2. LatestVersions(Chain(c)) \in SUBSET ItemVersion
  BY <1>1 DEF LatestVersions
<1>. QED BY <1>2 DEF GetSnapshot

LEMMA KnownOK ==
  ASSUME TypeOK
  PROVE  KnownLineages \subseteq Lineages /\ KnownVersionIds \subseteq VersionIds
<1>1. \A c \in DOMAIN commits : WrittenVersions(c) \subseteq ItemVersion
  BY DEF TypeOK, IsPartial, Commit, CommitChange, WrittenVersions
<1>2. \A v \in ItemVersion : v.lineage \in Lineages /\ VersionId(v) \in VersionIds
  BY DEF ItemVersion, VersionId, VersionIds
<1>. QED BY <1>1, <1>2 DEF KnownLineages, KnownVersionIds

-----------------------------------------------------------------------------
(* Type correctness *)

\* What a request refers to is never deleted.
LEMMA RequestsStayTyped ==
  ASSUME DOMAIN deltas \subseteq DOMAIN deltas', DOMAIN commits \subseteq DOMAIN commits'
  PROVE  \A request : IsMergeRequest(request) => IsMergeRequest(request)'
BY DEF IsMergeRequest

LEMMA TypeInit == Init => TypeOK
<1> SUFFICES ASSUME Init PROVE TypeOK
  OBVIOUS
<1>1. role \in [Users -> Roles \cup {None}]
  BY DEF Init, MembershipInit, Roles
<1>2. commits \in [{Genesis} -> Commit] /\ DOMAIN commits = {Genesis}
  BY DEF Init, Commit
<1>3. IsPartial(commits, CommitIds, Commit) /\ head \in DOMAIN commits
  BY <1>2, IdAssumption DEF Init, IsPartial
<1>4. archived \in BOOLEAN /\ version \in Nat /\ admitted \in SUBSET DeltaIds
  BY DEF Init, MembershipInit
<1>5. DOMAIN projection = {} /\ DOMAIN deltas = {} /\ DOMAIN requests = {}
      /\ DOMAIN finalizations = {} /\ DOMAIN drafted = {}
  BY DEF Init
<1>6. IsPartial(projection, Lineages, VersionIds)
      /\ IsPartial(finalizations, RequestIds, MergeFinalization)
  BY <1>5 DEF Init, IsPartial
<1>7. IsFunctionOn(deltas, DeltaIds) /\ IsFunctionOn(requests, RequestIds)
      /\ IsFunctionOn(drafted, RequestIds)
  BY <1>5 DEF Init, IsFunctionOn
<1>. QED BY <1>1, <1>3, <1>4, <1>5, <1>6, <1>7 DEF TypeOK

LEMMA TypeUnchanged == TypeOK /\ UNCHANGED vars => TypeOK'
BY DEF TypeOK, vars, project, review, proposed, IsMergeRequest, IsDelta

LEMMA TypeAdmitDelta ==
  ASSUME TypeOK, NEW u \in Users, NEW d \in DeltaIds, AdmitDelta(u, d)
  PROVE  TypeOK'
BY DEF TypeOK, AdmitDelta, project, review, IsMergeRequest, IsDelta

LEMMA ProposableOK ==
  ASSUME TypeOK PROVE ProposableChanges \subseteq Change
<1>1. KnownLineages \subseteq Lineages /\ KnownVersionIds \subseteq VersionIds
  BY KnownOK
<1>2. \A p \in Proposals, s \in VersionIds \cup {None} : Propose(p, s) \in Proposal
  BY ProposalAssumption DEF Propose, Proposal, Authorities
<1>3. Additions \subseteq Change
  BY <1>1, <1>2 DEF Additions, Change
<1>4. ASSUME NEW t \in KnownLineages \cup {UnknownLineage} PROVE TargetedChanges(t) \subseteq Change
  <2>1. t \in Lineages \cup {UnknownLineage, None}
    BY <1>1
  <2>2. Expectations(t) \subseteq VersionIds /\ VersionIdsOf(t) \subseteq VersionIds
    BY <1>1, IdAssumption DEF Expectations, VersionIdsOf, VersionIds
  <2>. QED BY <1>2, <2>1, <2>2 DEF TargetedChanges, Change
<1>. QED BY <1>3, <1>4 DEF ProposableChanges

LEMMA TypeInsertDelta ==
  ASSUME TypeOK, NEW d \in DeltaIds, InsertDelta(d)
  PROVE  TypeOK'
<1>1. PICK base \in DOMAIN commits, changed \in SUBSET ChangeIds :
        \E changes \in [changed -> ProposableChanges] :
          deltas' = [e \in DOMAIN deltas \cup {d} |->
            IF e = d THEN [base |-> base, changes |-> changes] ELSE deltas[e]]
  BY DEF InsertDelta
<1>2. PICK changes \in [changed -> ProposableChanges] :
        deltas' = [e \in DOMAIN deltas \cup {d} |->
          IF e = d THEN [base |-> base, changes |-> changes] ELSE deltas[e]]
  BY <1>1
<1>3. changes \in [changed -> Change] /\ DOMAIN changes = changed
  BY ProposableOK
<1>4. IsPartial(changes, ChangeIds, Change)
  BY <1>3 DEF IsPartial
<1>5. base \in CommitIds
  BY DEF TypeOK, IsPartial
<1>6. IsDelta([base |-> base, changes |-> changes])
  BY <1>4, <1>5 DEF IsDelta
<1>7. IsFunctionOn(deltas', DeltaIds) /\ \A e \in DOMAIN deltas' : IsDelta(deltas'[e])
  BY <1>2, <1>6 DEF TypeOK, IsFunctionOn
<1>8. \A request : IsMergeRequest(request) => IsMergeRequest(request)'
  BY <1>2, RequestsStayTyped DEF InsertDelta, project
<1>. QED BY <1>7, <1>8 DEF TypeOK, InsertDelta, project, review, IsDelta

\* The plan of a stored Delta over HEAD is well formed.
LEMMA HeadPlanOK ==
  ASSUME TypeOK, NEW d \in DOMAIN deltas
  PROVE  LET plan == PlanFor(d, GetSnapshot(head))
         IN /\ DOMAIN plan = DOMAIN deltas[d].changes
            /\ DOMAIN plan \subseteq ChangeIds
            /\ \A c \in DOMAIN plan :
                 /\ deltas[d].changes[c] \in Change
                 /\ PlanEntryOK(deltas[d].changes[c], plan[c])
<1>1. IsPartial(deltas[d].changes, ChangeIds, Change)
  BY DEF TypeOK, IsDelta
<1>2. /\ DOMAIN deltas[d].changes \subseteq ChangeIds
      /\ \A c \in DOMAIN deltas[d].changes : deltas[d].changes[c] \in Change
  BY <1>1 DEF IsPartial
<1>3. GetSnapshot(head).items \in SUBSET ItemVersion
  BY SnapshotOK
<1>. QED BY <1>2, <1>3, PlanOK DEF PlanFor

LEMMA TypeReadForRequest ==
  ASSUME TypeOK, NEW u \in Users, NEW r \in RequestIds, NEW d \in DeltaIds,
         ReadForRequest(u, r, d)
  PROVE  TypeOK'
<1> DEFINE current == GetSnapshot(head)
           plan == PlanFor(d, current)
           entries == ReviewEntries(plan)
           request == [delta |-> d, base |-> deltas[d].base, evaluated |-> head,
                       status |-> IF DOMAIN entries = {} THEN "ready" ELSE "reviewing",
                       result |-> None, conflicts |-> entries]
<1>1. d \in DOMAIN deltas /\ deltas[d].base \in DOMAIN commits
  <2>1. \/ deltas[d].base = head
        \/ deltas[d].base \in GetSnapshot(head).ancestors
    BY SnapshotOK DEF ReadForRequest, PlanInputsValid
  <2>. QED BY <2>1, SnapshotOK, ChainInCommits DEF ReadForRequest, TypeOK
<1>2. /\ DOMAIN plan \subseteq ChangeIds
      /\ \A c \in DOMAIN plan : plan[c].current \in ItemVersion \cup {None}
                                /\ plan[c].proposal \in Proposal \cup {None}
  BY <1>1, HeadPlanOK DEF PlanEntryOK
<1> HIDE DEF plan
<1>3. IsPartial(entries, ChangeIds, ReviewEntry)
  BY <1>2 DEF ReviewEntries, Reviewable, IsPartial, ReviewEntry
<1> HIDE DEF entries
<1>4. IsMergeRequest(request)
  BY <1>1, <1>3 DEF IsMergeRequest, TypeOK
<1>5. drafted' = [q \in DOMAIN drafted \cup {r} |-> IF q = r THEN request ELSE drafted[q]]
  BY DEF ReadForRequest, plan, entries
<1> HIDE DEF request
<1>6. IsFunctionOn(drafted', RequestIds) /\ \A q \in DOMAIN drafted' : IsMergeRequest(drafted'[q])
  BY <1>4, <1>5 DEF TypeOK, IsFunctionOn
<1>7. \A q : IsMergeRequest(q) => IsMergeRequest(q)'
  BY RequestsStayTyped DEF ReadForRequest, project, proposed
<1>. QED BY <1>6, <1>7 DEF TypeOK, ReadForRequest, project, proposed, IsDelta

LEMMA TypeInsertRequest ==
  ASSUME TypeOK, NEW r \in RequestIds, InsertRequest(r)
  PROVE  TypeOK'
<1>1. /\ IsFunctionOn(requests', RequestIds) /\ IsFunctionOn(drafted', RequestIds)
      /\ \A q \in DOMAIN requests' : IsMergeRequest(requests'[q])
      /\ \A q \in DOMAIN drafted' : IsMergeRequest(drafted'[q])
  BY DEF TypeOK, InsertRequest, IsFunctionOn
<1>2. \A q : IsMergeRequest(q) => IsMergeRequest(q)'
  BY RequestsStayTyped DEF InsertRequest, project, proposed
<1>. QED BY <1>1, <1>2 DEF TypeOK, InsertRequest, project, proposed, IsDelta

LEMMA ResolutionOK ==
  ASSUME NEW u \in Users, NEW conflict \in ReviewEntry,
         NEW resolution \in ResolutionsOf(u, conflict)
  PROVE  resolution \in Resolution
<1>1. \A e \in RebuiltEdits(conflict) : e \in Proposal
  BY ProposalAssumption DEF RebuiltEdits, ReviewEntry, Proposal
<1>. QED BY <1>1 DEF ResolutionsOf, Resolution

LEMMA TypeResolve ==
  ASSUME TypeOK, NEW u \in Users, NEW r \in RequestIds, NEW c \in ChangeIds, Resolve(u, r, c)
  PROVE  TypeOK'
<1>1. PICK resolution \in ResolutionsOf(u, requests[r].conflicts[c]) :
        LET resolved == [requests[r].conflicts EXCEPT ![c].resolution = resolution]
        IN requests' = [requests EXCEPT
             ![r].conflicts = resolved,
             ![r].status = IF Unresolved(resolved) = {} THEN "ready" ELSE "reviewing"]
  BY DEF Resolve
<1> DEFINE conflicts == requests[r].conflicts
           resolved == [conflicts EXCEPT ![c].resolution = resolution]
           status == IF Unresolved(resolved) = {} THEN "ready" ELSE "reviewing"
           request == [requests[r] EXCEPT !.conflicts = resolved, !.status = status]
<1>2. r \in DOMAIN requests /\ c \in DOMAIN conflicts
  BY DEF Resolve
<1>3. IsMergeRequest(requests[r]) /\ IsPartial(conflicts, ChangeIds, ReviewEntry)
  BY <1>2 DEF TypeOK, IsMergeRequest
<1>4. conflicts[c] \in ReviewEntry
  BY <1>2, <1>3 DEF IsPartial
<1>5. resolution \in Resolution
  BY <1>4, ResolutionOK
<1>6. [conflicts[c] EXCEPT !.resolution = resolution] \in ReviewEntry
  BY <1>4, <1>5 DEF ReviewEntry
<1>7. IsPartial(resolved, ChangeIds, ReviewEntry)
  BY <1>2, <1>3, <1>6 DEF IsPartial
<1>8. requests' = [requests EXCEPT ![r] = request]
  BY <1>1
<1> HIDE DEF resolved
<1>9. IsMergeRequest(request)
  BY <1>3, <1>7 DEF IsMergeRequest
<1> HIDE DEF request
<1>10. IsFunctionOn(requests', RequestIds) /\ \A q \in DOMAIN requests' : IsMergeRequest(requests'[q])
  BY <1>2, <1>8, <1>9 DEF TypeOK, IsFunctionOn
<1>11. \A q : IsMergeRequest(q) => IsMergeRequest(q)'
  BY RequestsStayTyped DEF Resolve, project, proposed
<1>. QED BY <1>10, <1>11 DEF TypeOK, Resolve, project, proposed, IsDelta

LEMMA TypeMembers ==
  ASSUME TypeOK, MembershipNext, UNCHANGED <<project, review, proposed>>
  PROVE  TypeOK'
<1>1. role' \in [Users -> Roles \cup {None}] /\ archived' \in BOOLEAN
  BY MembersTyped DEF TypeOK
<1>. QED BY <1>1 DEF TypeOK, project, review, proposed, IsMergeRequest, IsDelta

LEMMA SelectedProposalOK ==
  ASSUME NEW change \in Change, NEW entry, PlanEntryOK(change, entry),
         entry.verdict # "duplicate", change.op # "deprecate",
         NEW resolution \in Resolution, Materializable(change, entry, resolution)
  PROVE  SelectedProposal(entry, resolution) \in Proposal
<1>1. entry.proposal \in Proposal
  BY DEF PlanEntryOK
<1>2. CASE resolution.choice = "edit"
  BY <1>2 DEF SelectedProposal, Materializable, Resolution
<1>3. CASE resolution.choice = "keep_alternative"
  BY <1>1, <1>3 DEF SelectedProposal, Proposal, Authorities
<1>4. CASE resolution.choice \in {"keep_current", "accept_proposed"}
  BY <1>1, <1>4 DEF SelectedProposal
<1>. QED BY <1>2, <1>3, <1>4 DEF Resolution

LEMMA MaterializeChangeOK ==
  ASSUME NEW change \in Change, NEW entry, PlanEntryOK(change, entry),
         entry.verdict # "duplicate", NEW resolution \in Resolution,
         Materializable(change, entry, resolution),
         NEW source \in ChangeIds, NEW lineage \in Lineages, NEW commit \in CommitIds
  PROVE  MaterializeChange(source, change, entry, resolution, lineage, commit) \in CommitChange
<1> DEFINE proposal == SelectedProposal(entry, resolution)
           before == IF StartsLineage(entry, resolution) THEN None ELSE entry.current
           op == CommitOperation(change, entry, resolution, proposal)
           after == MaterializeChange(source, change, entry, resolution, lineage, commit).after
<1>1. before \in ItemVersion \cup {None}
  BY DEF PlanEntryOK, StartsLineage
<1>2. \A v \in ItemVersion : VersionId(v) \in VersionIds
  BY DEF ItemVersion, VersionId, VersionIds
<1>3. op \in {"add", "update", "supersede", "deprecate"}
  BY DEF CommitOperation
<1>4. op = "supersede" => before \in ItemVersion
  BY DEF CommitOperation, PlanEntryOK, StartsLineage
<1>5. after \in ItemVersion
  <2>1. CASE change.op = "deprecate"
    <3>1. before \in ItemVersion
      BY <2>1 DEF Materializable, StartsLineage, PlanEntryOK
    <3>2. after = [before EXCEPT !.commit = commit, !.previous = VersionId(before),
                                 !.lifecycle = "deprecated", !.supersedes = None]
      BY <2>1 DEF MaterializeChange
    <3> HIDE DEF before, after
    <3>. QED BY <1>2, <3>1, <3>2 DEF ItemVersion, Lifecycles
  <2>2. CASE change.op # "deprecate"
    <3>1. proposal \in Proposal
      BY <2>2, SelectedProposalOK
    <3>2. after = [lineage |-> lineage, commit |-> commit,
                   previous |-> IF before = None THEN None ELSE VersionId(before),
                   supersedes |-> IF op = "supersede" THEN VersionId(before) ELSE None,
                   topic |-> proposal.topic, scope |-> proposal.scope,
                   value |-> proposal.value, authority |-> proposal.authority,
                   lifecycle |-> "active"]
      BY <2>2 DEF MaterializeChange
    <3> HIDE DEF before, after, proposal, op
    <3>. QED BY <1>1, <1>2, <1>4, <3>1, <3>2 DEF ItemVersion, Lifecycles, Proposal
  <2>. QED BY <2>1, <2>2
<1>6. MaterializeChange(source, change, entry, resolution, lineage, commit)
        = [source |-> source, op |-> op, lineage |-> lineage, before |-> before, after |-> after]
  BY DEF MaterializeChange
<1> HIDE DEF before, after, op
<1>. QED BY <1>1, <1>3, <1>5, <1>6 DEF CommitChange

LEMMA MaterializedChangesOK ==
  ASSUME TypeOK, NEW r \in DOMAIN requests, NEW id \in CommitIds,
         Unresolved(requests[r].conflicts) = {}, NEW plan,
         plan = PlanFor(requests[r].delta, GetSnapshot(head)), ReviewCovers(r, plan),
         NEW fresh \in FreshLineages(r, plan)
  PROVE  MaterializedChanges(r, plan, id, fresh) \subseteq CommitChange
<1> DEFINE conflicts == requests[r].conflicts
           d == requests[r].delta
           Lineage(c) == IF StartsLineage(plan[c], conflicts[c].resolution)
                         THEN fresh[c] ELSE plan[c].current.lineage
<1>1. d \in DOMAIN deltas /\ IsPartial(conflicts, ChangeIds, ReviewEntry)
  BY DEF TypeOK, IsMergeRequest
<1>2. \A c \in DOMAIN plan : deltas[d].changes[c] \in Change
                             /\ PlanEntryOK(deltas[d].changes[c], plan[c])
  BY <1>1, HeadPlanOK
<1>3. ASSUME NEW c \in Written(plan, conflicts)
      PROVE  MaterializeChange(c, deltas[d].changes[c], plan[c], conflicts[c].resolution,
                               Lineage(c), id) \in CommitChange
  <2>1. c \in DOMAIN plan /\ c \in DOMAIN conflicts /\ plan[c].verdict # "duplicate"
    BY DEF Written, Reviewable, ReviewCovers
  <2>2. c \in ChangeIds /\ conflicts[c] \in ReviewEntry
    BY <1>1, <2>1 DEF IsPartial
  <2>3. conflicts[c].resolution \in Resolution
    BY <2>1, <2>2 DEF Unresolved, ReviewEntry
  <2>4. Materializable(deltas[d].changes[c], plan[c], conflicts[c].resolution)
    BY DEF ReviewCovers
  <2>5. PlanEntryOK(deltas[d].changes[c], plan[c]) /\ deltas[d].changes[c] \in Change
    BY <1>2, <2>1
  <2>6. Lineage(c) \in Lineages
    <3>1. CASE StartsLineage(plan[c], conflicts[c].resolution)
      BY <3>1 DEF FreshLineages
    <3>2. CASE ~StartsLineage(plan[c], conflicts[c].resolution)
      <4>1. plan[c].current \in ItemVersion
        BY <2>5, <3>2 DEF StartsLineage, PlanEntryOK
      <4>. QED BY <3>2, <4>1 DEF ItemVersion
    <3>. QED BY <3>1, <3>2
  <2> HIDE DEF Lineage
  <2>. QED BY <2>1, <2>2, <2>3, <2>4, <2>5, <2>6, MaterializeChangeOK
<1>. QED BY <1>3 DEF MaterializedChanges

\* The two updates every finalization makes keep their tables well typed.
LEMMA FinalizationTyped ==
  ASSUME TypeOK, NEW r \in DOMAIN requests, NEW k \in ClientKeys,
         NEW status \in {"committed", "rejected"}, NEW outcome \in {"committed", "no_changes"},
         NEW result \in CommitIds \cup {None}, result \in DOMAIN commits' \cup {None},
         DOMAIN commits \subseteq DOMAIN commits', UNCHANGED deltas,
         FinalizedRequest(r, status, result), RecordFinalization(r, k, outcome, result)
  PROVE  /\ IsFunctionOn(requests', RequestIds)
         /\ (\A q \in DOMAIN requests : IsMergeRequest(requests[q]))'
         /\ IsPartial(finalizations', RequestIds, MergeFinalization)
<1>1. \A q : IsMergeRequest(q) => IsMergeRequest(q)'
  BY RequestsStayTyped
<1>2. r \in RequestIds /\ IsMergeRequest(requests[r])
  BY DEF TypeOK, IsFunctionOn
<1>3. PICK request : request = [requests[r] EXCEPT !.status = status, !.result = result]
  OBVIOUS
<1>4. IsMergeRequest(request)'
  <2>1. PICK old : old = requests[r]
    OBVIOUS
  <2>2. IsMergeRequest(old)'
    BY <1>1, <1>2, <2>1
  <2>3. request = [old EXCEPT !.status = status, !.result = result]
    BY <1>3, <2>1
  <2>. QED BY <2>2, <2>3 DEF IsMergeRequest
<1>5. IsFunctionOn(requests', RequestIds)
      /\ (\A q \in DOMAIN requests : IsMergeRequest(requests[q]))'
  <2>1. requests' = [requests EXCEPT ![r] = request]
    BY <1>3 DEF FinalizedRequest
  <2>2. IsFunctionOn(requests', RequestIds)
    BY <2>1 DEF TypeOK, IsFunctionOn
  <2>3. \A q \in DOMAIN requests' : requests'[q] = request \/ IsMergeRequest(requests'[q])
    BY <2>1 DEF TypeOK, IsFunctionOn
  <2>. QED BY <1>1, <1>4, <2>2, <2>3
<1>6. [key |-> <<r, k>>, outcome |-> outcome, result |-> result] \in MergeFinalization
  BY <1>2 DEF MergeFinalization, OperationKeys
<1>7. IsPartial(finalizations', RequestIds, MergeFinalization)
  BY <1>2, <1>6 DEF RecordFinalization, TypeOK, IsPartial
<1>. QED BY <1>5, <1>7

LEMMA TypeFinalizeWithCommit ==
  ASSUME TypeOK, NEW u \in Users, NEW r \in RequestIds, NEW k \in ClientKeys,
         NEW id \in CommitIds, FinalizeWithCommit(u, r, k, id)
  PROVE  TypeOK'
<1> DEFINE plan == PlanFor(requests[r].delta, GetSnapshot(head))
<1>1. r \in DOMAIN requests /\ Unresolved(requests[r].conflicts) = {}
      /\ id \notin DOMAIN commits /\ ReviewCovers(r, plan)
  BY DEF FinalizeWithCommit, Finalizable
<1>2. PICK fresh \in FreshLineages(r, plan) :
        /\ commits' = [c \in DOMAIN commits \cup {id} |->
             IF c = id THEN NewCommit(u, r, k, MaterializedChanges(r, plan, id, fresh))
             ELSE commits[c]]
        /\ projection' = Projected(MaterializedChanges(r, plan, id, fresh), id)
  BY DEF FinalizeWithCommit
<1> DEFINE changes == MaterializedChanges(r, plan, id, fresh)
<1>3. changes \subseteq CommitChange
  BY <1>1, MaterializedChangesOK
<1>4. /\ UNCHANGED <<role, archived, drafted, deltas, admitted>>
      /\ head' = id /\ version' = version + 1
      /\ FinalizedRequest(r, "committed", id) /\ RecordFinalization(r, k, "committed", id)
  BY DEF FinalizeWithCommit, proposed
<1> HIDE DEF changes, plan
<1>5. NewCommit(u, r, k, changes) \in Commit
  <2>1. requests[r].delta \in DeltaIds
    BY <1>1 DEF TypeOK, IsMergeRequest, IsFunctionOn
  <2>2. head \in CommitIds
    BY DEF TypeOK, IsPartial
  <2>. QED BY <1>3, <2>1, <2>2 DEF NewCommit, Commit, OperationKeys, TypeOK
<1>6. IsPartial(commits', CommitIds, Commit) /\ DOMAIN commits' = DOMAIN commits \cup {id}
  BY <1>2, <1>5 DEF TypeOK, IsPartial, changes
<1>7. IsPartial(projection', Lineages, VersionIds)
  <2>1. \A change \in changes : change.lineage \in Lineages
    BY <1>3 DEF CommitChange
  <2>2. \A l \in Lineages : <<l, id>> \in VersionIds
    BY DEF VersionIds
  <2>. QED BY <1>2, <2>1, <2>2 DEF Projected, TypeOK, IsPartial, changes
<1>8. /\ IsFunctionOn(requests', RequestIds)
      /\ (\A q \in DOMAIN requests : IsMergeRequest(requests[q]))'
      /\ IsPartial(finalizations', RequestIds, MergeFinalization)
  BY <1>1, <1>4, <1>6, FinalizationTyped
<1>9. \A q : IsMergeRequest(q) => IsMergeRequest(q)'
  BY <1>4, <1>6, RequestsStayTyped
<1>. QED BY <1>4, <1>6, <1>7, <1>8, <1>9 DEF TypeOK, IsDelta

LEMMA TypeFinalizeWithoutChanges ==
  ASSUME TypeOK, NEW u \in Users, NEW r \in RequestIds, NEW k \in ClientKeys,
         FinalizeWithoutChanges(u, r, k)
  PROVE  TypeOK'
<1>1. /\ r \in DOMAIN requests /\ UNCHANGED <<role, archived, project, drafted, proposed>>
      /\ FinalizedRequest(r, "rejected", None) /\ RecordFinalization(r, k, "no_changes", None)
  BY DEF FinalizeWithoutChanges, Finalizable
<1>2. /\ IsFunctionOn(requests', RequestIds)
      /\ (\A q \in DOMAIN requests : IsMergeRequest(requests[q]))'
      /\ IsPartial(finalizations', RequestIds, MergeFinalization)
  BY <1>1, FinalizationTyped DEF project, proposed
<1>. QED BY <1>1, <1>2 DEF TypeOK, project, proposed, IsMergeRequest, IsDelta

LEMMA TypeStep == TypeOK /\ [Next]_vars => TypeOK'
<1> SUFFICES ASSUME TypeOK, [Next]_vars PROVE TypeOK'
  OBVIOUS
<1>1. ASSUME NEW u \in Users, NEW d \in DeltaIds, AdmitDelta(u, d) PROVE TypeOK'
  BY <1>1, TypeAdmitDelta
<1>2. ASSUME NEW d \in DeltaIds, InsertDelta(d) PROVE TypeOK'
  BY <1>2, TypeInsertDelta
<1>3. ASSUME NEW u \in Users, NEW r \in RequestIds, NEW d \in DeltaIds, ReadForRequest(u, r, d)
      PROVE  TypeOK'
  BY <1>3, TypeReadForRequest
<1>4. ASSUME NEW r \in RequestIds, InsertRequest(r) PROVE TypeOK'
  BY <1>4, TypeInsertRequest
<1>5. ASSUME NEW u \in Users, NEW r \in RequestIds, NEW c \in ChangeIds, Resolve(u, r, c)
      PROVE  TypeOK'
  BY <1>5, TypeResolve
<1>6. ASSUME NEW u \in Users, NEW r \in RequestIds, NEW k \in ClientKeys, NEW id \in CommitIds,
             FinalizeWithCommit(u, r, k, id)
      PROVE  TypeOK'
  BY <1>6, TypeFinalizeWithCommit
<1>7. ASSUME NEW u \in Users, NEW r \in RequestIds, NEW k \in ClientKeys,
             FinalizeWithoutChanges(u, r, k)
      PROVE  TypeOK'
  BY <1>7, TypeFinalizeWithoutChanges
<1>8. CASE MembershipNext /\ UNCHANGED <<project, review, proposed>>
  BY <1>8, TypeMembers
<1>9. CASE UNCHANGED vars
  BY <1>9, TypeUnchanged
<1>. QED BY <1>1, <1>2, <1>3, <1>4, <1>5, <1>6, <1>7, <1>8, <1>9 DEF Next

\* In every reachable state every row of every table has the shape its schema
\* gives it and refers to rows that exist: merge_requests to their Delta and
\* commits, versions and changes to the item versions the plan selected.
THEOREM TypeCorrect == Spec => []TypeOK
BY TypeInit, TypeStep, PTL DEF Spec

-----------------------------------------------------------------------------
(* Which steps write which tables *)

LEMMA RoleSteps ==
  ASSUME [Next]_vars
  PROVE  UNCHANGED role \/ MembershipNext
BY DEF Next, vars, AdmitDelta, InsertDelta, ReadForRequest, InsertRequest, Resolve,
       FinalizeWithCommit, FinalizeWithoutChanges

LEMMA ProjectSteps ==
  ASSUME [Next]_vars
  PROVE  \/ UNCHANGED project
         \/ \E u \in Users, r \in RequestIds, k \in ClientKeys, id \in CommitIds :
              FinalizeWithCommit(u, r, k, id)
BY DEF Next, vars, AdmitDelta, InsertDelta, ReadForRequest, InsertRequest, Resolve,
       FinalizeWithoutChanges

LEMMA RequestSteps ==
  ASSUME [Next]_vars
  PROVE  \/ UNCHANGED requests
         \/ \E r \in RequestIds : InsertRequest(r)
         \/ \E u \in Users, r \in RequestIds, c \in ChangeIds : Resolve(u, r, c)
         \/ \E u \in Users, r \in RequestIds, k \in ClientKeys, id \in CommitIds :
              FinalizeWithCommit(u, r, k, id)
         \/ \E u \in Users, r \in RequestIds, k \in ClientKeys : FinalizeWithoutChanges(u, r, k)
BY DEF Next, vars, review, AdmitDelta, InsertDelta, ReadForRequest

-----------------------------------------------------------------------------
(* Membership *)

\* A project never loses its last owner, whichever owners demote each other:
\* ProjectService counts the other owners under the project lock.
THEOREM ProjectKeepsOwner == Spec => []HasOwner
<1>1. Init => HasOwner
  BY DEF Init, MembershipInit, HasOwner
<1>2. TypeOK /\ HasOwner /\ [Next]_vars => HasOwner'
  <2>1. UNCHANGED role /\ HasOwner => HasOwner'
    BY DEF HasOwner
  <2>. QED BY <2>1, RoleSteps, OwnerRemains DEF TypeOK
<1>. QED BY <1>1, <1>2, TypeCorrect, PTL DEF Spec

-----------------------------------------------------------------------------
(* The life of a merge request *)

\* A request id is drafted or inserted, never both.
DraftsAreNew == DOMAIN drafted \cap DOMAIN requests = {}

LEMMA DraftsStayNew ==
  ASSUME TypeOK, DraftsAreNew, [Next]_vars PROVE DraftsAreNew'
<1>1. ASSUME NEW r \in RequestIds, InsertRequest(r) PROVE DraftsAreNew'
  BY <1>1 DEF InsertRequest, DraftsAreNew
<1>2. ASSUME NEW u \in Users, NEW r \in RequestIds, NEW d \in DeltaIds, ReadForRequest(u, r, d)
      PROVE  DraftsAreNew'
  BY <1>2 DEF ReadForRequest, DraftsAreNew, UsedRequestIds
<1>3. ASSUME DOMAIN requests' = DOMAIN requests, UNCHANGED drafted PROVE DraftsAreNew'
  BY <1>3 DEF DraftsAreNew
<1>4. \/ UNCHANGED drafted
      \/ \E r \in RequestIds : InsertRequest(r)
      \/ \E u \in Users, r \in RequestIds, d \in DeltaIds : ReadForRequest(u, r, d)
  BY DEF Next, vars, review, AdmitDelta, InsertDelta, Resolve, FinalizeWithCommit,
         FinalizeWithoutChanges
<1>5. \/ DOMAIN requests' = DOMAIN requests
      \/ \E r \in RequestIds : InsertRequest(r)
  <2>1. ASSUME NEW u \in Users, NEW r \in RequestIds, NEW c \in ChangeIds, Resolve(u, r, c)
        PROVE  DOMAIN requests' = DOMAIN requests
    BY <2>1 DEF Resolve
  <2>2. ASSUME NEW u \in Users, NEW r \in RequestIds, NEW k \in ClientKeys,
               FinalizeWithoutChanges(u, r, k) \/ \E id \in CommitIds : FinalizeWithCommit(u, r, k, id)
        PROVE  DOMAIN requests' = DOMAIN requests
    BY <2>2 DEF FinalizeWithoutChanges, FinalizeWithCommit, FinalizedRequest
  <2>. QED BY <2>1, <2>2, RequestSteps
<1>. QED BY <1>1, <1>2, <1>3, <1>4, <1>5

\* What RequestsMoveForward says of one request in one step.
MovesForward(old, new) ==
  /\ old.status # new.status => <<old.status, new.status>> \in RequestTransitions
  /\ old.status # "reviewing" => new.conflicts = old.conflicts
  /\ new.evaluated = old.evaluated

LEMMA RequestMoves ==
  ASSUME TypeOK, DraftsAreNew, [Next]_vars
  PROVE  \A q \in DOMAIN requests : q \in DOMAIN requests' /\ MovesForward(requests[q], requests'[q])
<1> SUFFICES ASSUME NEW q \in DOMAIN requests
             PROVE  q \in DOMAIN requests' /\ MovesForward(requests[q], requests'[q])
  OBVIOUS
<1>0. IsMergeRequest(requests[q])
  BY DEF TypeOK
<1>1. CASE UNCHANGED requests
  BY <1>1 DEF MovesForward
<1>2. ASSUME NEW r \in RequestIds, InsertRequest(r)
      PROVE  q \in DOMAIN requests' /\ requests'[q] = requests[q]
  BY <1>2 DEF InsertRequest, DraftsAreNew
<1>3. ASSUME NEW u \in Users, NEW r \in RequestIds, NEW c \in ChangeIds, Resolve(u, r, c)
      PROVE  q \in DOMAIN requests' /\ MovesForward(requests[q], requests'[q])
  <2>1. /\ requests[r].status = "reviewing"
        /\ \E conflicts : \E status \in {"ready", "reviewing"} :
             requests' = [requests EXCEPT ![r].conflicts = conflicts, ![r].status = status]
    <3>1. PICK resolution :
            LET resolved == [requests[r].conflicts EXCEPT ![c].resolution = resolution]
            IN requests' = [requests EXCEPT
                 ![r].conflicts = resolved,
                 ![r].status = IF Unresolved(resolved) = {} THEN "ready" ELSE "reviewing"]
      BY <1>3 DEF Resolve
    <3> DEFINE resolved == [requests[r].conflicts EXCEPT ![c].resolution = resolution]
               status == IF Unresolved(resolved) = {} THEN "ready" ELSE "reviewing"
    <3>2. status \in {"ready", "reviewing"}
      OBVIOUS
    <3>3. requests' = [requests EXCEPT ![r].conflicts = resolved, ![r].status = status]
      BY <3>1
    <3> HIDE DEF resolved, status
    <3>. QED BY <1>3, <3>2, <3>3 DEF Resolve
  <2>2. PICK conflicts : \E status \in {"ready", "reviewing"} :
          requests' = [requests EXCEPT ![r].conflicts = conflicts, ![r].status = status]
    BY <2>1
  <2>. QED BY <1>0, <2>1, <2>2 DEF MovesForward, RequestTransitions, IsMergeRequest
<1>4. ASSUME NEW r \in RequestIds, requests[r].status = "ready", NEW result,
             NEW status \in {"committed", "rejected"}, FinalizedRequest(r, status, result)
      PROVE  q \in DOMAIN requests' /\ MovesForward(requests[q], requests'[q])
  BY <1>0, <1>4 DEF FinalizedRequest, MovesForward, RequestTransitions, IsMergeRequest
<1>5. ASSUME NEW u \in Users, NEW r \in RequestIds, NEW k \in ClientKeys, NEW id \in CommitIds,
             FinalizeWithCommit(u, r, k, id)
      PROVE  q \in DOMAIN requests' /\ MovesForward(requests[q], requests'[q])
  BY <1>4, <1>5 DEF FinalizeWithCommit, Finalizable
<1>6. ASSUME NEW u \in Users, NEW r \in RequestIds, NEW k \in ClientKeys,
             FinalizeWithoutChanges(u, r, k)
      PROVE  q \in DOMAIN requests' /\ MovesForward(requests[q], requests'[q])
  BY <1>4, <1>6 DEF FinalizeWithoutChanges, Finalizable
<1>. QED BY <1>1, <1>2, <1>3, <1>5, <1>6, RequestSteps DEF MovesForward

\* Requests follow the transition table of domain/merge.ts though no service
\* looks at it, and the review of a request that is ready is never touched.
THEOREM RequestsFollowTheirTable == Spec => RequestsMoveForward
<1>1. Init => DraftsAreNew
  BY DEF Init, DraftsAreNew
<1>2. Spec => []DraftsAreNew
  BY <1>1, DraftsStayNew, TypeCorrect, PTL DEF Spec
<1>3. TypeOK /\ DraftsAreNew /\ [Next]_vars =>
        [\A r \in DOMAIN requests :
           LET old == requests[r]
               new == requests'[r]
           IN /\ r \in DOMAIN requests'
              /\ old.status # new.status => <<old.status, new.status>> \in RequestTransitions
              /\ old.status # "reviewing" => new.conflicts = old.conflicts
              /\ new.evaluated = old.evaluated]_vars
  BY RequestMoves DEF MovesForward
<1>. QED BY <1>2, <1>3, TypeCorrect, PTL DEF Spec, RequestsMoveForward

-----------------------------------------------------------------------------
(* The history of a project is linear, and a Delta is applied once *)

\* What a commit adds to the history.
LEMMA CommitAppends ==
  ASSUME TypeOK, NEW u \in Users, NEW r \in RequestIds, NEW k \in ClientKeys,
         NEW id \in CommitIds, FinalizeWithCommit(u, r, k, id)
  PROVE  /\ r \in DOMAIN requests
         /\ id \notin DOMAIN commits
         /\ head' = id
         /\ version' = version + 1
         /\ \E changes \in SUBSET CommitChange :
              /\ changes # {}
              /\ commits' = [c \in DOMAIN commits \cup {id} |->
                   IF c = id THEN NewCommit(u, r, k, changes) ELSE commits[c]]
<1> DEFINE plan == PlanFor(requests[r].delta, GetSnapshot(head))
<1>1. /\ r \in DOMAIN requests /\ Unresolved(requests[r].conflicts) = {}
      /\ id \notin DOMAIN commits /\ ReviewCovers(r, plan)
      /\ head' = id /\ version' = version + 1
  BY DEF FinalizeWithCommit, Finalizable
<1>2. PICK fresh \in FreshLineages(r, plan) :
        /\ MaterializedChanges(r, plan, id, fresh) # {}
        /\ commits' = [c \in DOMAIN commits \cup {id} |->
             IF c = id THEN NewCommit(u, r, k, MaterializedChanges(r, plan, id, fresh))
             ELSE commits[c]]
  BY DEF FinalizeWithCommit
<1>3. MaterializedChanges(r, plan, id, fresh) \subseteq CommitChange
  BY <1>1, MaterializedChangesOK
<1> HIDE DEF plan
<1>. QED BY <1>1, <1>2, <1>3

\* Only a Delta that no commit of HEAD's chain applies has anything to commit.
LEMMA CommitAppliesNewDelta ==
  ASSUME TypeOK, NEW u \in Users, NEW r \in RequestIds, NEW k \in ClientKeys,
         NEW id \in CommitIds, FinalizeWithCommit(u, r, k, id)
  PROVE  \A c \in Chain(head) : commits[c].delta # requests[r].delta
<1> DEFINE d == requests[r].delta
           plan == PlanFor(d, GetSnapshot(head))
<1>1. PICK fresh \in FreshLineages(r, plan) : MaterializedChanges(r, plan, id, fresh) # {}
  BY DEF FinalizeWithCommit
<1>2. Written(plan, requests[r].conflicts) # {}
  BY <1>1 DEF MaterializedChanges
<1>3. PICK c \in DOMAIN plan : plan[c].verdict # "duplicate"
  BY <1>2 DEF Written, Reviewable
<1>4. d \notin GetSnapshot(head).applied
  <2>1. SUFFICES ASSUME d \in GetSnapshot(head).applied PROVE plan[c].verdict = "duplicate"
    BY <1>3
  <2>2. plan[c] = Duplicate(None)
    BY <1>3, <2>1 DEF PlanFor, CreateThreeWayMergePlan
  <2>. QED BY <2>2 DEF Duplicate
<1>5. d # None
  <2>1. r \in DOMAIN requests
    BY DEF FinalizeWithCommit, Finalizable
  <2>2. d \in DeltaIds
    BY <2>1 DEF TypeOK, IsMergeRequest, IsFunctionOn
  <2>. QED BY <2>2, IdAssumption
<1>. QED BY <1>4, <1>5, SnapshotOK

-----------------------------------------------------------------------------
(* The inductive invariant *)

\* Versions number the commits from 0, at Genesis, to that of HEAD.
Numbered ==
  /\ Genesis \in DOMAIN commits
  /\ commits[Genesis].version = 0 /\ commits[Genesis].parent = None
  /\ commits[Genesis].delta = None
  /\ \A c \in DOMAIN commits : commits[c].version <= version

HistoryInv == Numbered /\ LinearHistory /\ DeltaAppliedOnce

LEMMA HistoryInit == Init => HistoryInv
<1> SUFFICES ASSUME Init PROVE HistoryInv
  OBVIOUS
<1>1. DOMAIN commits = {Genesis} /\ head = Genesis /\ version = 0
      /\ commits[Genesis] = [parent |-> None, version |-> 0, key |-> None, delta |-> None,
                             by |-> None, changes |-> {}]
  BY DEF Init
<1>2. Chain(head) = DOMAIN commits
  BY <1>1 DEF Chain
<1>. QED BY <1>1, <1>2 DEF HistoryInv, Numbered, LinearHistory, DeltaAppliedOnce

\* The new commit's chain is the old history and itself.
LEMMA ChainGrows ==
  ASSUME TypeOK, HistoryInv, NEW id \in CommitIds \ DOMAIN commits, head' = id,
         commits'[id].parent = head, DOMAIN commits' = DOMAIN commits \cup {id},
         \A c \in DOMAIN commits : commits'[c] = commits[c]
  PROVE  Chain(head)' = DOMAIN commits'
<1>1. SUFFICES ASSUME NEW S \in SUBSET DOMAIN commits', id \in S, ClosedUnderParent(S)'
               PROVE  DOMAIN commits \subseteq S
  BY DEF Chain
<1>2. head # None /\ head \in DOMAIN commits
  BY IdAssumption DEF TypeOK, IsPartial
<1>3. head \in S
  BY <1>1, <1>2 DEF ClosedUnderParent
<1> DEFINE T == S \ {id}
<1>4. ClosedUnderParent(T)
  <2>1. SUFFICES ASSUME NEW c \in T, commits[c].parent # None PROVE commits[c].parent \in T
    BY DEF ClosedUnderParent
  <2>2. c \in DOMAIN commits /\ commits'[c].parent = commits[c].parent
    OBVIOUS
  <2>3. commits[c].parent \in S
    BY <1>1, <2>1, <2>2 DEF ClosedUnderParent
  <2>4. commits[c].parent \in DOMAIN commits
    BY <2>1, <2>2 DEF HistoryInv, Numbered, LinearHistory
  <2>. QED BY <2>3, <2>4
<1>5. T \in SUBSET DOMAIN commits /\ head \in T
  BY <1>2, <1>3
<1>6. Chain(head) \subseteq T
  BY <1>4, <1>5 DEF Chain
<1>. QED BY <1>6 DEF HistoryInv, LinearHistory

LEMMA HistoryCommit ==
  ASSUME TypeOK, HistoryInv, NEW u \in Users, NEW r \in RequestIds, NEW k \in ClientKeys,
         NEW id \in CommitIds, FinalizeWithCommit(u, r, k, id)
  PROVE  HistoryInv'
<1>1. PICK changes \in SUBSET CommitChange :
        commits' = [c \in DOMAIN commits \cup {id} |->
          IF c = id THEN NewCommit(u, r, k, changes) ELSE commits[c]]
  BY CommitAppends
<1>2. id \notin DOMAIN commits /\ head' = id /\ version' = version + 1
  BY CommitAppends
<1>3. /\ DOMAIN commits' = DOMAIN commits \cup {id}
      /\ \A c \in DOMAIN commits : commits'[c] = commits[c]
      /\ commits'[id].parent = head /\ commits'[id].version = version + 1
      /\ commits'[id].delta = requests[r].delta
  BY <1>1, <1>2 DEF NewCommit
<1>4. \A c \in DOMAIN commits : commits[c].version \in Nat
  BY DEF TypeOK, IsPartial, Commit
<1>5. version \in Nat /\ head \in DOMAIN commits
  BY DEF TypeOK
<1>6. Numbered'
  BY <1>2, <1>3, <1>4, <1>5 DEF HistoryInv, Numbered
<1>7. LinearHistory'
  <2>1. Chain(head)' = DOMAIN commits'
    BY <1>2, <1>3, ChainGrows
  <2>2. \A c, d \in DOMAIN commits' : commits'[c].version = commits'[d].version => c = d
    BY <1>3, <1>4, <1>5 DEF HistoryInv, Numbered, LinearHistory
  <2>3. \A c \in DOMAIN commits' \ {Genesis} :
          /\ commits'[c].parent \in DOMAIN commits'
          /\ commits'[c].version = commits'[commits'[c].parent].version + 1
    BY <1>3, <1>5 DEF HistoryInv, LinearHistory
  <2>. QED BY <1>2, <1>3, <2>1, <2>2, <2>3 DEF LinearHistory
<1>8. DeltaAppliedOnce'
  <2>1. \A c \in DOMAIN commits : commits[c].delta # requests[r].delta
    BY CommitAppliesNewDelta DEF HistoryInv, LinearHistory
  <2>. QED BY <1>3, <2>1 DEF HistoryInv, DeltaAppliedOnce
<1>. QED BY <1>6, <1>7, <1>8 DEF HistoryInv

LEMMA HistoryStep == TypeOK /\ HistoryInv /\ [Next]_vars => HistoryInv'
<1> SUFFICES ASSUME TypeOK, HistoryInv, [Next]_vars PROVE HistoryInv'
  OBVIOUS
<1>1. CASE UNCHANGED project
  BY <1>1 DEF project, HistoryInv, Numbered, LinearHistory, DeltaAppliedOnce, Chain,
              ClosedUnderParent
<1>. QED BY <1>1, HistoryCommit, ProjectSteps

LEMMA HistoryInvariant == Spec => []HistoryInv
BY HistoryInit, HistoryStep, TypeCorrect, PTL DEF Spec

\* Whatever finalizations race, the commits form one chain from Genesis to
\* HEAD, numbered without gaps and with none left beside the chain (ADR 0003).
THEOREM HistoryIsLinear == Spec => []LinearHistory
BY HistoryInvariant, PTL DEF HistoryInv

\* A Delta is committed at most once, however many merge requests were opened
\* for it and however their reviews and finalizations interleave.
THEOREM DeltasApplyOnce == Spec => []DeltaAppliedOnce
BY HistoryInvariant, PTL DEF HistoryInv

-----------------------------------------------------------------------------
(* Commits and snapshots *)

Items(c) == GetSnapshot(c).items

\* A version belongs to the commit and to the lineage of the change that wrote it.
WrittenBy(id, changes) ==
  \A change \in changes : change.after.commit = id /\ change.after.lineage = change.lineage

VersionsBelong == \A c \in DOMAIN commits : WrittenBy(c, commits[c].changes)

\* The history after commit id of these changes.
Extends(id, changes) ==
  /\ id \in CommitIds \ DOMAIN commits
  /\ WrittenBy(id, changes)
  /\ DOMAIN commits' = DOMAIN commits \cup {id}
  /\ \A c \in DOMAIN commits : commits'[c] = commits[c]
  /\ commits'[id].parent = head /\ commits'[id].version = version + 1
  /\ commits'[id].changes = changes
  /\ head' = id

-----------------------------------------------------------------------------
(* Snapshots *)

\* What is committed keeps its snapshot.
LEMMA OldChains ==
  ASSUME TypeOK, HistoryInv, NEW id, NEW changes, Extends(id, changes), NEW c \in DOMAIN commits
  PROVE  Chain(c)' = Chain(c)
<1>1. \A d \in DOMAIN commits : commits[d].parent # None => commits[d].parent \in DOMAIN commits
  BY DEF HistoryInv, Numbered, LinearHistory
<1>2. ASSUME NEW d \in DOMAIN commits',
             \A S \in SUBSET DOMAIN commits' : c \in S /\ ClosedUnderParent(S)' => d \in S,
             NEW S \in SUBSET DOMAIN commits, c \in S, ClosedUnderParent(S)
      PROVE  d \in S
  <2>1. S \in SUBSET DOMAIN commits' /\ ClosedUnderParent(S)'
    BY <1>2 DEF Extends, ClosedUnderParent
  <2>. QED BY <1>2, <2>1
<1>3. ASSUME NEW d \in DOMAIN commits,
             \A S \in SUBSET DOMAIN commits : c \in S /\ ClosedUnderParent(S) => d \in S,
             NEW S \in SUBSET DOMAIN commits', c \in S, ClosedUnderParent(S)'
      PROVE  d \in S
  <2> DEFINE T == S \cap DOMAIN commits
  <2>1. ClosedUnderParent(T)
    BY <1>1, <1>3 DEF Extends, ClosedUnderParent
  <2>2. T \in SUBSET DOMAIN commits /\ c \in T
    BY <1>3
  <2> HIDE DEF T
  <2>3. d \in T
    BY <1>3, <2>1, <2>2
  <2>. QED BY <2>3 DEF T
<1>4. ASSUME NEW d \in DOMAIN commits',
             \A S \in SUBSET DOMAIN commits' : c \in S /\ ClosedUnderParent(S)' => d \in S
      PROVE  d \in DOMAIN commits
  <2>1. PICK S : S = DOMAIN commits
    OBVIOUS
  <2>2. \A e \in S : commits'[e].parent # None => commits'[e].parent \in S
    BY <1>1, <2>1 DEF Extends
  <2>3. S \in SUBSET DOMAIN commits' /\ c \in S
    BY <2>1 DEF Extends
  <2>4. ClosedUnderParent(S)'
    BY <2>2 DEF ClosedUnderParent
  <2>. QED BY <1>4, <2>1, <2>3, <2>4
<1>. QED BY <1>2, <1>3, <1>4 DEF Chain, Extends

LEMMA OldSnapshots ==
  ASSUME TypeOK, HistoryInv, VersionsBelong, NEW id, NEW changes, Extends(id, changes),
         NEW c \in DOMAIN commits
  PROVE  Items(c)' = Items(c)
<1>1. Chain(c)' = Chain(c) /\ Chain(c) \subseteq DOMAIN commits
  BY OldChains, ChainInCommits
<1>2. \A d \in Chain(c) : WrittenVersions(d)' = WrittenVersions(d)
  BY <1>1 DEF WrittenVersions, Extends
<1>3. \A d \in Chain(c) : \A v \in WrittenVersions(d) : v.commit \in DOMAIN commits
  BY <1>1 DEF WrittenVersions, VersionsBelong, WrittenBy
<1>4. LatestVersions(Chain(c))' = LatestVersions(Chain(c))
  BY <1>1, <1>2, <1>3 DEF LatestVersions, Extends
<1>. QED BY <1>4 DEF Items, GetSnapshot

\* Every version that was written is as old as its commit.
LEMMA NewSnapshot ==
  ASSUME TypeOK, HistoryInv, VersionsBelong, NEW id, NEW changes, Extends(id, changes)
  PROVE  Items(id)' = Effective(Items(head), changes)
<1> DEFINE old == UNION {WrittenVersions(c) : c \in DOMAIN commits}
           new == {change.after : change \in changes}
           age(v) == commits'[v.commit].version
<1>1. Chain(head) = DOMAIN commits
  BY DEF HistoryInv, LinearHistory
<1>2. Chain(id)' = DOMAIN commits'
  BY ChainGrows DEF Extends
<1>3. (UNION {WrittenVersions(c) : c \in DOMAIN commits})' = old \cup new
  <2>1. WrittenVersions(id)' = new
    BY DEF WrittenVersions, Extends
  <2>2. \A c \in DOMAIN commits : WrittenVersions(c)' = WrittenVersions(c)
    BY DEF WrittenVersions, Extends
  <2>. QED BY <2>1, <2>2 DEF Extends
<1>4. \A v \in old : /\ age(v) \in Nat /\ age(v) <= version
                     /\ age(v) = commits[v.commit].version
  <2>1. SUFFICES ASSUME NEW c \in DOMAIN commits, NEW v \in WrittenVersions(c)
                 PROVE  /\ age(v) \in Nat /\ age(v) <= version
                        /\ age(v) = commits[v.commit].version
    OBVIOUS
  <2>2. v.commit = c
    BY <2>1 DEF WrittenVersions, VersionsBelong, WrittenBy
  <2>3. commits[c].version \in Nat /\ commits[c].version <= version /\ commits'[c] = commits[c]
    BY DEF HistoryInv, Numbered, TypeOK, IsPartial, Commit, Extends
  <2>. QED BY <2>2, <2>3
<1>5. \A v \in new : age(v) = version + 1
  BY DEF Extends, WrittenBy
<1>6. version \in Nat
  BY DEF TypeOK
<1>7. Items(id)' = {v \in old \cup new :
                      \A w \in old \cup new : w.lineage = v.lineage => age(w) <= age(v)}
  BY <1>2, <1>3 DEF Items, GetSnapshot, LatestVersions
<1>8. Items(head) = {v \in old :
                       \A w \in old : w.lineage = v.lineage => age(w) <= age(v)}
  <2>1. Items(head) = {v \in old : \A w \in old : w.lineage = v.lineage
                         => commits[w.commit].version <= commits[v.commit].version}
    BY <1>1 DEF Items, GetSnapshot, LatestVersions
  <2> HIDE DEF old, age
  <2>. QED BY <1>4, <2>1
<1>9. \A v : (\E change \in changes : change.lineage = v.lineage)
               <=> \E w \in new : w.lineage = v.lineage
  BY DEF Extends, WrittenBy
<1>10. Effective(Items(head), changes)
         = {v \in Items(head) : \A w \in new : w.lineage # v.lineage} \cup new
  BY <1>9 DEF Effective
<1> HIDE DEF old, new, age
<1>. QED BY <1>4, <1>5, <1>6, <1>7, <1>8, <1>10

-----------------------------------------------------------------------------
(* What finalize commits *)

\* The plan names versions that are in force.
LEMMA PlanCurrent ==
  ASSUME TypeOK, NEW d \in DOMAIN deltas, NEW plan, plan = PlanFor(d, GetSnapshot(head)),
         NEW c \in DOMAIN plan
  PROVE  plan[c].current \in Items(head) \cup {None}
<1> DEFINE change == deltas[d].changes[c]
           baseItems == Items(deltas[d].base)
           items == Items(head)
           proposal == change.proposal
<1>1. items \in SUBSET ItemVersion
  BY SnapshotOK DEF Items
<1>2. \/ plan[c] = Duplicate(None)
      \/ plan[c] = MergeAdd(change, items)
      \/ plan[c] = MergeTargetedChange(change, baseItems, items)
  BY DEF PlanFor, CreateThreeWayMergePlan, Items
<1> HIDE DEF items, baseItems, change
<1>3. MergeAdd(change, items).current \in items \cup {None}
  <2> DEFINE sameKey == {v \in items : v.lifecycle = "active" /\ v.topic = proposal.topic}
             sameSlot == {v \in sameKey : SameContextSlot(v, proposal)}
             overlapping == {v \in sameKey : ~ScopesAreDisjoint(v.scope, proposal.scope)}
  <2>1. /\ sameSlot # {} => FirstOf(sameSlot) \in items
        /\ overlapping # {} => FirstOf(overlapping) \in items
    <3>1. sameSlot \in SUBSET ItemVersion /\ overlapping \in SUBSET ItemVersion
      BY <1>1
    <3>2. sameSlot \subseteq items /\ overlapping \subseteq items
      OBVIOUS
    <3> HIDE DEF sameSlot, overlapping
    <3>. QED BY <3>1, <3>2, FirstOfMember
  <2> HIDE DEF sameSlot, overlapping
  <2>2. \/ overlapping # {} /\ MergeAdd(change, items) = Conflict("C2", change, FirstOf(overlapping))
        \/ MergeAdd(change, items) = Clean("C0", proposal, None)
        \/ /\ sameSlot # {}
           /\ \/ MergeAdd(change, items) = Duplicate(FirstOf(sameSlot))
              \/ MergeAdd(change, items) = Clean("C4", proposal, FirstOf(sameSlot))
              \/ MergeAdd(change, items) = Expanded(FirstOf(sameSlot), proposal)
              \/ \E class : MergeAdd(change, items) = Conflict(class, change, FirstOf(sameSlot))
    BY Zenon DEF MergeAdd, sameSlot, overlapping
  <2>. QED BY <2>1, <2>2 DEF Conflict, Clean, Duplicate, Expanded
<1>4. MergeTargetedChange(change, baseItems, items).current \in items \cup {None}
  <2> DEFINE current == FindByLogicalItem(items, change.target)
             entry == MergeTargetedChange(change, baseItems, items)
  <2>1. current \in items \cup {None}
    BY FoundItem
  <2>2. \/ \E class : entry = Conflict(class, change, current)
        \/ entry = Duplicate(current)
        \/ entry = Clean("C4", None, current)
        \/ \E class : entry = Clean(class, proposal, current)
        \/ entry = Expanded(current, proposal)
    BY Zenon DEF MergeTargetedChange
  <2> HIDE DEF entry
  <2>3. entry.current = current
    BY <2>2 DEF Conflict, Clean, Duplicate, Expanded
  <2>. QED BY <2>1, <2>3 DEF entry
<1>. QED BY <1>2, <1>3, <1>4 DEF Duplicate, items

\* A change of a commit starts a lineage, or continues the version in force.
Continues(items, change) ==
  IF change.before = None
  THEN change.after.previous = None /\ \A v \in items : v.lineage # change.lineage
  ELSE /\ change.before \in items /\ change.before.lineage = change.lineage
       /\ change.after.previous = VersionId(change.before)

LEMMA MaterializedContinues ==
  ASSUME NEW items \in SUBSET ItemVersion, NEW change, NEW entry,
         entry.current \in items \cup {None}, NEW resolution,
         Materializable(change, entry, resolution), NEW source, NEW commit, NEW lineage,
         IF StartsLineage(entry, resolution) THEN \A v \in items : v.lineage # lineage
         ELSE lineage = entry.current.lineage
  PROVE  LET made == MaterializeChange(source, change, entry, resolution, lineage, commit)
         IN /\ made.lineage = lineage
            /\ made.after.commit = commit /\ made.after.lineage = lineage
            /\ Continues(items, made)
<1> DEFINE made == MaterializeChange(source, change, entry, resolution, lineage, commit)
           before == IF StartsLineage(entry, resolution) THEN None ELSE entry.current
<1>1. made.lineage = lineage /\ made.before = before
  BY DEF MaterializeChange
<1>2. None \notin items
  BY NoneAssumption
<1>3. CASE change.op = "deprecate"
  <2>1. ~StartsLineage(entry, resolution) /\ before \in ItemVersion /\ before = entry.current
    BY <1>3 DEF Materializable, StartsLineage
  <2>2. made.after = [before EXCEPT !.commit = commit, !.previous = VersionId(before),
                                    !.lifecycle = "deprecated", !.supersedes = None]
    BY <1>3 DEF MaterializeChange
  <2> HIDE DEF made, before
  <2>3. /\ made.after.commit = commit /\ made.after.lineage = before.lineage
        /\ made.after.previous = VersionId(before)
    BY <2>1, <2>2 DEF ItemVersion
  <2>4. before # None /\ before \in items /\ lineage = before.lineage
    BY <2>1, NoneAssumption
  <2>5. /\ made.lineage = lineage
        /\ made.after.commit = commit /\ made.after.lineage = lineage
        /\ Continues(items, made)
    BY <1>1, <2>3, <2>4 DEF Continues
  <2>. QED BY <2>5 DEF made
<1>4. CASE change.op # "deprecate"
  <2>1. /\ made.after.commit = commit /\ made.after.lineage = lineage
        /\ made.after.previous = IF before = None THEN None ELSE VersionId(before)
    BY <1>4 DEF MaterializeChange
  <2>2. StartsLineage(entry, resolution) \/ (before = entry.current /\ before # None)
    BY DEF StartsLineage
  <2>3. StartsLineage(entry, resolution) => before = None
    OBVIOUS
  <2> HIDE DEF made, before
  <2>4. Continues(items, made)
    BY <1>1, <1>2, <2>1, <2>2, <2>3 DEF Continues
  <2>. QED BY <1>1, <2>1, <2>4 DEF made
<1>. QED BY <1>3, <1>4

\* The changes of a finalized request, as what they do to the items in force.
LEMMA FinalizeExtends ==
  ASSUME TypeOK, HistoryInv, NEW u \in Users, NEW r \in RequestIds, NEW k \in ClientKeys,
         NEW id \in CommitIds, FinalizeWithCommit(u, r, k, id)
  PROVE  \E changes \in SUBSET CommitChange :
           /\ Extends(id, changes) /\ changes # {}
           /\ \A change \in changes : Continues(Items(head), change)
           /\ \A a, b \in changes : a # b => a.lineage # b.lineage
           /\ OneLineagePerSlot(Effective(Items(head), changes))
           /\ projection' = Projected(changes, id)
<1> DEFINE d == requests[r].delta
           plan == PlanFor(d, GetSnapshot(head))
           conflicts == requests[r].conflicts
<1>1. /\ r \in DOMAIN requests /\ Unresolved(conflicts) = {} /\ ReviewCovers(r, plan)
      /\ id \notin DOMAIN commits /\ head' = id
  BY DEF FinalizeWithCommit, Finalizable
<1>2. PICK fresh \in FreshLineages(r, plan) :
        LET changes == MaterializedChanges(r, plan, id, fresh)
        IN /\ changes # {}
           /\ OneLineagePerSlot(Effective(Items(head), changes))
           /\ CommitSchema(changes)
           /\ commits' = [c \in DOMAIN commits \cup {id} |->
                IF c = id THEN NewCommit(u, r, k, changes) ELSE commits[c]]
           /\ projection' = Projected(changes, id)
  BY DEF FinalizeWithCommit, Items
<1> DEFINE changes == MaterializedChanges(r, plan, id, fresh)
           Lineage(c) == IF StartsLineage(plan[c], conflicts[c].resolution)
                         THEN fresh[c] ELSE plan[c].current.lineage
<1>3. changes \subseteq CommitChange
  BY <1>1, MaterializedChangesOK
<1>4. d \in DOMAIN deltas
  BY <1>1 DEF TypeOK, IsMergeRequest
<1>5. Items(head) \in SUBSET ItemVersion
  BY SnapshotOK DEF Items
<1>6. \A v \in Items(head) : v.lineage \in KnownLineages
  BY ChainInCommits DEF Items, GetSnapshot, LatestVersions, KnownLineages
<1>7. ASSUME NEW change \in changes
      PROVE  /\ change.after.commit = id /\ change.after.lineage = change.lineage
             /\ Continues(Items(head), change)
  <2>1. PICK c \in Written(plan, conflicts) :
          change = MaterializeChange(c, deltas[d].changes[c], plan[c],
                                     conflicts[c].resolution, Lineage(c), id)
    BY DEF MaterializedChanges
  <2>2. c \in DOMAIN plan
        /\ Materializable(deltas[d].changes[c], plan[c], conflicts[c].resolution)
    BY <1>1 DEF Written, Reviewable, ReviewCovers
  <2>3. plan[c].current \in Items(head) \cup {None}
    BY <1>4, <2>2, PlanCurrent
  <2>4. StartsLineage(plan[c], conflicts[c].resolution) => fresh[c] \notin KnownLineages
    BY DEF FreshLineages
  <2>5. IF StartsLineage(plan[c], conflicts[c].resolution)
        THEN \A v \in Items(head) : v.lineage # Lineage(c)
        ELSE Lineage(c) = plan[c].current.lineage
    BY <1>6, <2>4
  <2> HIDE DEF Lineage, plan, conflicts, d, changes
  <2>. QED BY <1>5, <2>1, <2>2, <2>3, <2>5, MaterializedContinues
<1>8. /\ DOMAIN commits' = DOMAIN commits \cup {id}
      /\ \A c \in DOMAIN commits : commits'[c] = commits[c]
      /\ commits'[id].parent = head /\ commits'[id].version = version + 1
      /\ commits'[id].changes = changes
  BY <1>1, <1>2 DEF NewCommit
<1> HIDE DEF changes
<1>9. Extends(id, changes)
  BY <1>1, <1>7, <1>8 DEF Extends, WrittenBy
<1>. QED BY <1>2, <1>3, <1>7, <1>9 DEF changes, CommitSchema

-----------------------------------------------------------------------------
(* The inductive invariant *)

\* A snapshot has one version of each lineage.
OneVersionPerLineage(items) == \A v, w \in items : v.lineage = w.lineage => v = w

\* Every number up to the version is that of a commit.
NoGaps == \A i \in 0..version : \E c \in DOMAIN commits : commits[c].version = i

SnapshotInv ==
  /\ VersionsBelong
  /\ OneVersionPerLineage(Items(head))
  /\ ProjectionIsHead
  /\ LineagesNeverFork
  /\ OneAuthoritativePerSlot
  /\ NoGaps

LEMMA SnapshotInit == Init => SnapshotInv
<1> SUFFICES ASSUME Init PROVE SnapshotInv
  OBVIOUS
<1>1. /\ DOMAIN commits = {Genesis} /\ head = Genesis /\ version = 0
      /\ commits[Genesis].version = 0 /\ commits[Genesis].changes = {}
      /\ DOMAIN projection = {}
  BY DEF Init
<1>2. \A c : Items(c) = {}
  BY <1>1 DEF Items, GetSnapshot, LatestVersions, WrittenVersions, Chain
<1>3. OneAuthoritativePerSlot /\ ProjectionIsHead /\ LineagesNeverFork
  BY <1>1, <1>2 DEF Items, OneAuthoritativePerSlot, ProjectionIsHead, LineagesNeverFork,
                    OneLineagePerSlot, EffectiveAuthoritative
<1>. QED BY <1>1, <1>2, <1>3 DEF SnapshotInv, VersionsBelong, WrittenBy, OneVersionPerLineage, NoGaps

\* The version that a commit's change replaced, seen from the new history.
LEMMA SnapshotCommit ==
  ASSUME TypeOK, HistoryInv, SnapshotInv, NEW id, NEW changes \in SUBSET CommitChange,
         Extends(id, changes), version' = version + 1,
         \A change \in changes : Continues(Items(head), change),
         \A a, b \in changes : a # b => a.lineage # b.lineage,
         OneLineagePerSlot(Effective(Items(head), changes)),
         projection' = Projected(changes, id)
  PROVE  SnapshotInv'
<1>1. /\ DOMAIN commits' = DOMAIN commits \cup {id} /\ id \notin DOMAIN commits
      /\ \A c \in DOMAIN commits : commits'[c] = commits[c]
      /\ commits'[id].parent = head /\ commits'[id].version = version + 1
      /\ commits'[id].changes = changes /\ head' = id /\ WrittenBy(id, changes)
  BY DEF Extends
<1>2. \A c \in DOMAIN commits : Items(c)' = Items(c)
  BY OldSnapshots DEF SnapshotInv
<1>3. Items(id)' = Effective(Items(head), changes)
  BY NewSnapshot DEF SnapshotInv
<1>4. Items(head)' = Effective(Items(head), changes)
  BY <1>1, <1>3 DEF Items
<1>5. VersionsBelong'
  BY <1>1 DEF SnapshotInv, VersionsBelong, WrittenBy
<1>6. (OneVersionPerLineage(Items(head)))'
  BY <1>1, <1>4 DEF SnapshotInv, OneVersionPerLineage, Effective, WrittenBy
<1>7. ProjectionIsHead'
  <2> DEFINE items == Items(head)
  <2>1. /\ DOMAIN projection = {v.lineage : v \in items}
        /\ \A v \in items : projection[v.lineage] = VersionId(v)
    BY DEF SnapshotInv, ProjectionIsHead, Items
  <2>2. \A change \in changes : change.after.lineage = change.lineage /\ change.after.commit = id
    BY <1>1 DEF WrittenBy
  <2> HIDE DEF items
  <2>3. DOMAIN projection' = {v.lineage : v \in Effective(items, changes)}
    BY <2>1, <2>2 DEF Projected, Effective
  <2>4. \A v \in Effective(items, changes) : projection'[v.lineage] = VersionId(v)
    <3>1. ASSUME NEW change \in changes
          PROVE  projection'[change.after.lineage] = VersionId(change.after)
      BY <2>2 DEF Projected, VersionId
    <3>2. ASSUME NEW v \in items, \A change \in changes : change.lineage # v.lineage
          PROVE  projection'[v.lineage] = VersionId(v)
      BY <2>1, <3>2 DEF Projected
    <3>. QED BY <3>1, <3>2 DEF Effective
  <2>. QED BY <1>4, <2>3, <2>4 DEF ProjectionIsHead, Items, items
<1>8. LineagesNeverFork'
  <2> DEFINE Fits(c, items) ==
        \A change \in commits[c].changes :
          IF change.before = None THEN \A v \in items : v.lineage # change.lineage
          ELSE change.before \in items /\ change.after.previous = VersionId(change.before)
  <2>1. ASSUME NEW c \in DOMAIN commits, c # Genesis
        PROVE  Fits(c, Items(commits[c].parent))'
    <3>1. commits[c].parent \in DOMAIN commits
      BY <2>1 DEF HistoryInv, LinearHistory
    <3>2. Items(commits[c].parent)' = Items(commits[c].parent)
      BY <1>1, <1>2, <3>1 DEF Items
    <3>3. Fits(c, Items(commits[c].parent))
      BY <2>1 DEF SnapshotInv, LineagesNeverFork, Items
    <3>. QED BY <1>1, <3>2, <3>3
  <2>2. Fits(id, Items(commits[id].parent))'
    <3>1. Items(commits[id].parent)' = Items(head)
      BY <1>1, <1>2 DEF Items, TypeOK
    <3>. QED BY <1>1, <3>1 DEF Continues
  <2>. QED BY <1>1, <2>1, <2>2 DEF LineagesNeverFork, Items
<1>9. OneAuthoritativePerSlot'
  <2>1. \A c \in DOMAIN commits' : OneLineagePerSlot(Items(c)')
    <3>1. ASSUME NEW c \in DOMAIN commits PROVE OneLineagePerSlot(Items(c)')
      BY <1>2 DEF SnapshotInv, OneAuthoritativePerSlot, Items
    <3>. QED BY <1>1, <1>3, <3>1
  <2>. QED BY <2>1 DEF OneAuthoritativePerSlot, OneLineagePerSlot, EffectiveAuthoritative, Items
<1>10. NoGaps'
  <2>1. \A i \in 0..version' : i \in 0..version \/ i = version + 1
    BY DEF TypeOK
  <2>. QED BY <1>1, <2>1 DEF SnapshotInv, NoGaps
<1>. QED BY <1>5, <1>6, <1>7, <1>8, <1>9, <1>10 DEF SnapshotInv

LEMMA SnapshotStep == TypeOK /\ HistoryInv /\ SnapshotInv /\ [Next]_vars => SnapshotInv'
<1> SUFFICES ASSUME TypeOK, HistoryInv, SnapshotInv, [Next]_vars PROVE SnapshotInv'
  OBVIOUS
<1>1. CASE UNCHANGED project
  <2>1. /\ \A c : GetSnapshot(c)' = GetSnapshot(c)
        /\ UNCHANGED <<head, version, commits, projection>>
    BY <1>1 DEF project, GetSnapshot, LatestVersions, WrittenVersions, Chain, ClosedUnderParent
  <2>2. (VersionsBelong /\ OneVersionPerLineage(Items(head)) /\ NoGaps)'
    BY <2>1 DEF SnapshotInv, VersionsBelong, WrittenBy, OneVersionPerLineage, Items, NoGaps
  <2>3. (ProjectionIsHead /\ LineagesNeverFork)'
    BY <2>1 DEF SnapshotInv, ProjectionIsHead, LineagesNeverFork
  <2>4. OneAuthoritativePerSlot'
    BY <2>1 DEF SnapshotInv, OneAuthoritativePerSlot, OneLineagePerSlot, EffectiveAuthoritative
  <2>. QED BY <2>2, <2>3, <2>4 DEF SnapshotInv
<1>2. ASSUME NEW u \in Users, NEW r \in RequestIds, NEW k \in ClientKeys, NEW id \in CommitIds,
             FinalizeWithCommit(u, r, k, id)
      PROVE  SnapshotInv'
  <2>1. version' = version + 1
    BY <1>2 DEF FinalizeWithCommit
  <2>. QED BY <1>2, <2>1, FinalizeExtends, SnapshotCommit
<1>. QED BY <1>1, <1>2, ProjectSteps

LEMMA SnapshotInvariant == Spec => []SnapshotInv
BY SnapshotInit, SnapshotStep, HistoryInvariant, TypeCorrect, PTL DEF Spec

\* The current_context_items table, of which each commit touches only the rows
\* of the lineages it changes, equals the replay of the whole chain.
THEOREM ProjectionFollowsHead == Spec => []ProjectionIsHead
BY SnapshotInvariant, PTL DEF SnapshotInv

\* However stale its base, a commit continues the version in force in its
\* parent or starts a lineage the parent does not have.
THEOREM NoLineageForks == Spec => []LineagesNeverFork
BY SnapshotInvariant, PTL DEF SnapshotInv

\* What finalize checks over HEAD with the batch applied holds of the snapshot
\* that readers of the commit get.
THEOREM SlotsStaySingle == Spec => []OneAuthoritativePerSlot
BY SnapshotInvariant, PTL DEF SnapshotInv

-----------------------------------------------------------------------------
(* The refinement of ContextHistory *)

\* The commit of a number is there for good.
Numbering(i) == CHOOSE c \in DOMAIN commits : commits[c].version = i

LEMMA LogGrows ==
  ASSUME TypeOK, HistoryInv, SnapshotInv, HistoryInv', NEW id, NEW changes, Extends(id, changes),
         version' = version + 1
  PROVE  /\ AppliedDeltas' = Append(AppliedDeltas, commits'[id].delta)
         /\ \A i \in DOMAIN AppliedDeltas :
              \E c \in DOMAIN commits : AppliedDeltas[i] = commits[c].delta
<1>1. /\ DOMAIN commits' = DOMAIN commits \cup {id}
      /\ \A c \in DOMAIN commits : commits'[c] = commits[c]
      /\ commits'[id].version = version + 1
  BY DEF Extends
<1>2. version \in Nat
  BY DEF TypeOK
<1>3. \A c, e \in DOMAIN commits' : commits'[c].version = commits'[e].version => c = e
  BY DEF HistoryInv, LinearHistory
<1>4. ASSUME NEW i \in 1..version
      PROVE  Numbering(i) \in DOMAIN commits /\ Numbering(i)' = Numbering(i)
  <2>1. \E c \in DOMAIN commits : commits[c].version = i
    BY <1>2 DEF SnapshotInv, NoGaps
  <2>2. Numbering(i) \in DOMAIN commits /\ commits[Numbering(i)].version = i
    BY <2>1 DEF Numbering
  <2>3. \E c \in DOMAIN commits' : commits'[c].version = i
    BY <1>1, <2>1
  <2>4. Numbering(i)' \in DOMAIN commits' /\ commits'[Numbering(i)'].version = i
    BY <2>3 DEF Numbering
  <2>. QED BY <1>1, <1>3, <2>2, <2>4
<1>5. ASSUME NEW n, n = version + 1 PROVE Numbering(n)' = id
  <2>1. \E c \in DOMAIN commits' : commits'[c].version = n
    BY <1>1, <1>5
  <2>2. Numbering(n)' \in DOMAIN commits' /\ commits'[Numbering(n)'].version = n
    BY <2>1 DEF Numbering
  <2>. QED BY <1>1, <1>3, <1>5, <2>2
<1>6. AppliedDeltas = [i \in 1..version |-> commits[Numbering(i)].delta]
  BY DEF AppliedDeltas, Numbering
<1>7. AppliedDeltas' = [i \in 1..(version + 1) |-> commits'[Numbering(i)'].delta]
  BY DEF AppliedDeltas, Numbering
<1>8. AppliedDeltas \in Seq({commits[c].delta : c \in DOMAIN commits})
      /\ Len(AppliedDeltas) = version
  BY <1>2, <1>4, <1>6
<1>9. ASSUME NEW i \in 1..(version + 1)
      PROVE  AppliedDeltas'[i] = Append(AppliedDeltas, commits'[id].delta)[i]
  <2>1. CASE i = version + 1
    <3>1. AppliedDeltas'[i] = commits'[id].delta
      BY <1>5, <1>7, <1>9, <2>1
    <3>. QED BY <1>2, <1>8, <2>1, <3>1
  <2>2. CASE i \in 1..version
    BY <1>1, <1>2, <1>4, <1>6, <1>7, <1>8, <2>2
  <2>3. i = version + 1 \/ i \in 1..version
    BY <1>2
  <2>. QED BY <2>1, <2>2, <2>3
<1>10. AppliedDeltas' = Append(AppliedDeltas, commits'[id].delta)
  BY <1>2, <1>7, <1>8, <1>9
<1>11. \A i \in DOMAIN AppliedDeltas :
         \E c \in DOMAIN commits : AppliedDeltas[i] = commits[c].delta
  BY <1>4, <1>6
<1>. QED BY <1>10, <1>11

\* The batch moves the items in force as ContextHistory allows.
LEMMA BatchSucceeds ==
  ASSUME TypeOK, HistoryInv, SnapshotInv, SnapshotInv', NEW id, NEW changes \in SUBSET CommitChange,
         Extends(id, changes), changes # {},
         \A change \in changes : Continues(Items(head), change)
  PROVE  /\ Items(head)' # Items(head)
         /\ History!Succeeds(Items(head)', Items(head))
         /\ History!Consistent(Items(head)')
<1> DEFINE old == Items(head)
           new == Items(head)'
<1>1. new = Effective(old, changes)
  BY NewSnapshot DEF SnapshotInv, Items, Extends
<1>2. \A change \in changes : change.after.commit = id /\ change.after.lineage = change.lineage
  BY DEF Extends, WrittenBy
<1>3. \A v \in old : v.commit # id
  <2>1. \A v \in old : \E c \in DOMAIN commits : v \in WrittenVersions(c)
    BY ChainInCommits DEF Items, GetSnapshot, LatestVersions
  <2>2. \A c \in DOMAIN commits : \A v \in WrittenVersions(c) : v.commit = c
    BY DEF WrittenVersions, SnapshotInv, VersionsBelong, WrittenBy
  <2>. QED BY <2>1, <2>2 DEF Extends
<1>4. /\ \A v, w \in new : v.lineage = w.lineage => v = w
      /\ OneLineagePerSlot(new)
  <2>1. OneVersionPerLineage(new)
    BY DEF SnapshotInv, OneVersionPerLineage
  <2>2. head' \in DOMAIN commits'
    BY DEF Extends
  <2>3. OneLineagePerSlot(new)
    BY <2>2 DEF SnapshotInv, OneAuthoritativePerSlot, Items, OneLineagePerSlot,
                EffectiveAuthoritative
  <2>. QED BY <2>1, <2>3 DEF OneVersionPerLineage
<1> HIDE DEF old, new
<1>5. new # old
  <2>1. PICK change \in changes : TRUE
    OBVIOUS
  <2>2. change.after \in new /\ change.after \notin old
    BY <1>1, <1>2, <1>3 DEF Effective
  <2>. QED BY <2>2
<1>6. History!Succeeds(new, old)
  <2>1. ASSUME NEW v \in old PROVE \E w \in new : w.lineage = v.lineage
    <3>1. CASE \E change \in changes : change.lineage = v.lineage
      BY <1>1, <1>2, <3>1 DEF Effective
    <3>2. CASE \A change \in changes : change.lineage # v.lineage
      BY <1>1, <3>2 DEF Effective
    <3>. QED BY <3>1, <3>2
  <2>2. ASSUME NEW w \in new, w \notin old
        PROVE  \/ \E v \in old : v.lineage = w.lineage /\ w.previous = <<v.lineage, v.commit>>
               \/ w.previous = None /\ \A v \in old : v.lineage # w.lineage
    <3>1. PICK change \in changes : w = change.after
      BY <1>1, <2>2 DEF Effective
    <3>. QED BY <1>2, <3>1 DEF Continues, VersionId, old
  <2>. QED BY <2>1, <2>2 DEF History!Succeeds, History!Name
<1>7. History!Consistent(new)
  BY <1>4 DEF History!Consistent, History!Slot, OneLineagePerSlot, EffectiveAuthoritative,
              IsEffective, SameContextSlot
<1>. QED BY <1>5, <1>6, <1>7 DEF old, new

LEMMA CommitApplies ==
  ASSUME TypeOK, HistoryInv, SnapshotInv, HistoryInv', SnapshotInv', NEW u \in Users,
         NEW r \in RequestIds, NEW k \in ClientKeys, NEW id \in CommitIds,
         FinalizeWithCommit(u, r, k, id)
  PROVE  History!Next
<1>1. PICK changes \in SUBSET CommitChange :
        /\ Extends(id, changes) /\ changes # {}
        /\ \A change \in changes : Continues(Items(head), change)
  BY FinalizeExtends
<1>2. /\ commits'[id].delta = requests[r].delta /\ requests[r].delta \in DeltaIds
      /\ version' = version + 1
  <2>1. r \in DOMAIN requests /\ version' = version + 1
    BY CommitAppends
  <2>2. PICK made : commits' = [c \in DOMAIN commits \cup {id} |->
                     IF c = id THEN NewCommit(u, r, k, made) ELSE commits[c]]
    BY CommitAppends
  <2>3. commits'[id].delta = requests[r].delta
    BY <2>2 DEF NewCommit
  <2>. QED BY <2>1, <2>3 DEF TypeOK, IsMergeRequest, IsFunctionOn
<1>3. \A c \in DOMAIN commits : commits[c].delta # requests[r].delta
  BY CommitAppliesNewDelta DEF HistoryInv, LinearHistory
<1>4. /\ AppliedDeltas' = Append(AppliedDeltas, requests[r].delta)
      /\ \A i \in DOMAIN AppliedDeltas : AppliedDeltas[i] # requests[r].delta
  BY <1>1, <1>2, <1>3, LogGrows
<1>5. /\ Items(head)' # Items(head)
      /\ History!Succeeds(Items(head)', Items(head))
      /\ History!Consistent(Items(head)')
  BY <1>1, BatchSucceeds
<1>6. History!Apply(requests[r].delta)
  BY <1>4, <1>5 DEF History!Apply, Items
<1>. QED BY <1>2, <1>6 DEF History!Next

\* Seen through the log of applied Deltas and the items of HEAD's snapshot,
\* the whole system of proposals, reviews and finalizations does nothing but
\* append, once each, batches that move the items in force consistently.
THEOREM HistoryIsKept == Spec => ImplementsHistory
<1>1. Init => History!Init
  <2>1. Init => AppliedDeltas = <<>>
    BY DEF Init, AppliedDeltas
  <2>2. Init => GetSnapshot(head).items = {}
    BY DEF Init, GetSnapshot, LatestVersions, WrittenVersions, Chain
  <2>. QED BY <2>1, <2>2 DEF History!Init
<1>2. TypeOK /\ HistoryInv /\ SnapshotInv /\ HistoryInv' /\ SnapshotInv' /\ [Next]_vars
        => [History!Next]_<<AppliedDeltas, GetSnapshot(head).items>>
  <2> SUFFICES ASSUME TypeOK, HistoryInv, SnapshotInv, HistoryInv', SnapshotInv', [Next]_vars
               PROVE  [History!Next]_<<AppliedDeltas, GetSnapshot(head).items>>
    OBVIOUS
  <2>1. CASE UNCHANGED project
    BY <2>1 DEF project, AppliedDeltas, GetSnapshot, LatestVersions, WrittenVersions, Chain,
                ClosedUnderParent
  <2>. QED BY <2>1, CommitApplies, ProjectSteps
<1>. QED BY <1>1, <1>2, TypeCorrect, HistoryInvariant, SnapshotInvariant, PTL
         DEF Spec, ImplementsHistory, History!Spec

-----------------------------------------------------------------------------
(* What was reviewed is what is committed *)

\* The stored review is the one computing the plan over HEAD gives.
ReviewMatches(request) ==
  LET plan == PlanFor(request.delta, GetSnapshot(head))
  IN /\ Reviewable(plan) = DOMAIN request.conflicts
     /\ \A c \in DOMAIN request.conflicts :
          /\ plan[c].current = request.conflicts[c].current
          /\ plan[c].proposal = request.conflicts[c].proposed

\* The drafts must match too: they are inserted as they were computed.
ReviewInv ==
  /\ admitted \cap DOMAIN deltas = {}
  /\ \A r \in DOMAIN requests : requests[r].evaluated = head => ReviewMatches(requests[r])
  /\ \A r \in DOMAIN drafted : drafted[r].evaluated = head => ReviewMatches(drafted[r])

LEMMA ReviewInit == Init => ReviewInv
BY DEF Init, ReviewInv

-----------------------------------------------------------------------------
(* Steps that leave the history alone *)

\* The plan of a Delta depends on the Delta and on the history only.
LEMMA PlanUnchanged ==
  ASSUME UNCHANGED project, NEW d, deltas'[d] = deltas[d]
  PROVE  PlanFor(d, GetSnapshot(head))' = PlanFor(d, GetSnapshot(head))
<1>1. \A c : GetSnapshot(c)' = GetSnapshot(c)
  BY DEF project, GetSnapshot, LatestVersions, WrittenVersions, Chain, ClosedUnderParent
<1>. QED BY <1>1 DEF project, PlanFor

LEMMA MatchUnchanged ==
  ASSUME UNCHANGED project, \A d \in DOMAIN deltas : deltas'[d] = deltas[d]
  PROVE  \A request : /\ request.delta \in DOMAIN deltas
                      /\ request.evaluated = head => ReviewMatches(request)
                      => (request.evaluated = head => ReviewMatches(request))'
<1> SUFFICES ASSUME NEW request, request.delta \in DOMAIN deltas,
                    request.evaluated = head => ReviewMatches(request)
             PROVE  (request.evaluated = head => ReviewMatches(request))'
  OBVIOUS
<1>1. PlanFor(request.delta, GetSnapshot(head))' = PlanFor(request.delta, GetSnapshot(head))
  BY PlanUnchanged
<1>. QED BY <1>1 DEF ReviewMatches, project

\* The stored review answers to the plan over HEAD as it is now.
Matching(request) ==
  request.delta \in DOMAIN deltas /\ (request.evaluated = head => ReviewMatches(request))

LEMMA AllMatching ==
  ASSUME TypeOK, ReviewInv
  PROVE  /\ \A r \in DOMAIN requests : Matching(requests[r])
         /\ \A r \in DOMAIN drafted : Matching(drafted[r])
BY DEF TypeOK, IsMergeRequest, ReviewInv, Matching

\* It is enough that a step writes requests that match before it.
LEMMA StillMatching ==
  ASSUME UNCHANGED project, \A d \in DOMAIN deltas : deltas'[d] = deltas[d],
         admitted' \cap DOMAIN deltas' = {},
         \A r \in DOMAIN requests' : Matching(requests'[r]),
         \A r \in DOMAIN drafted' : Matching(drafted'[r])
  PROVE  ReviewInv'
BY MatchUnchanged DEF ReviewInv, Matching

LEMMA ReviewStepPropose ==
  ASSUME TypeOK, ReviewInv, NEW d \in DeltaIds,
         InsertDelta(d) \/ \E u \in Users : AdmitDelta(u, d)
  PROVE  ReviewInv'
<1>1. UNCHANGED <<project, requests, drafted>>
  BY DEF AdmitDelta, InsertDelta, review
<1>2. admitted' \cap DOMAIN deltas' = {}
  BY DEF ReviewInv, AdmitDelta, InsertDelta
<1>3. \A e \in DOMAIN deltas : deltas'[e] = deltas[e]
  BY DEF ReviewInv, AdmitDelta, InsertDelta
<1>. QED BY <1>1, <1>2, <1>3, AllMatching, StillMatching

LEMMA ReviewStepRead ==
  ASSUME TypeOK, ReviewInv, NEW u \in Users, NEW r \in RequestIds, NEW d \in DeltaIds,
         ReadForRequest(u, r, d)
  PROVE  ReviewInv'
<1> DEFINE plan == PlanFor(d, GetSnapshot(head))
           entries == ReviewEntries(plan)
<1>1. /\ r \notin DOMAIN requests /\ r \notin DOMAIN drafted /\ d \in DOMAIN deltas
      /\ UNCHANGED <<project, requests, deltas, admitted>>
  BY DEF ReadForRequest, UsedRequestIds, proposed
<1>2. PICK status :
        drafted' = [q \in DOMAIN drafted \cup {r} |->
          IF q = r THEN [delta |-> d, base |-> deltas[d].base, evaluated |-> head,
                         status |-> status, result |-> None, conflicts |-> entries]
          ELSE drafted[q]]
  BY DEF ReadForRequest
<1>3. Matching(drafted'[r])
  <2>1. drafted'[r].delta = d /\ drafted'[r].conflicts = entries
    BY <1>2
  <2>2. /\ Reviewable(plan) = DOMAIN entries
        /\ \A c \in DOMAIN entries : /\ plan[c].current = entries[c].current
                                     /\ plan[c].proposal = entries[c].proposed
    BY DEF ReviewEntries
  <2> HIDE DEF entries
  <2>. QED BY <1>1, <2>1, <2>2 DEF Matching, ReviewMatches
<1>4. \A q \in DOMAIN drafted' : q # r => drafted'[q] = drafted[q] /\ q \in DOMAIN drafted
  BY <1>2
<1>5. \A q \in DOMAIN drafted' : Matching(drafted'[q])
  BY <1>3, <1>4, AllMatching
<1>6. \A q \in DOMAIN requests' : Matching(requests'[q])
  BY <1>1, AllMatching
<1>7. admitted' \cap DOMAIN deltas' = {}
  BY <1>1 DEF ReviewInv
<1>. QED BY <1>1, <1>5, <1>6, <1>7, StillMatching

LEMMA ReviewStepInsert ==
  ASSUME TypeOK, ReviewInv, NEW r \in RequestIds, InsertRequest(r)
  PROVE  ReviewInv'
<1>1. UNCHANGED <<project, deltas, admitted>>
  BY DEF InsertRequest, proposed
<1>2. /\ \A q \in DOMAIN requests' :
           \/ q \in DOMAIN requests /\ requests'[q] = requests[q]
           \/ r \in DOMAIN drafted /\ requests'[q] = drafted[r]
      /\ \A q \in DOMAIN drafted' : q \in DOMAIN drafted /\ drafted'[q] = drafted[q]
  BY DEF InsertRequest
<1>3. admitted' \cap DOMAIN deltas' = {}
  BY <1>1 DEF ReviewInv
<1>. QED BY <1>1, <1>2, <1>3, AllMatching, StillMatching

\* Requests that differ in their resolutions, status or result only.
SameReview(old, new) ==
  /\ new.delta = old.delta
  /\ new.evaluated = old.evaluated
  /\ DOMAIN new.conflicts = DOMAIN old.conflicts
  /\ \A c \in DOMAIN old.conflicts :
       /\ new.conflicts[c].current = old.conflicts[c].current
       /\ new.conflicts[c].proposed = old.conflicts[c].proposed

LEMMA SameReviewMatches ==
  ASSUME NEW old, NEW new, SameReview(old, new), Matching(old) PROVE Matching(new)
BY DEF SameReview, Matching, ReviewMatches

LEMMA ResolveKeepsReview ==
  ASSUME TypeOK, NEW u \in Users, NEW r \in RequestIds, NEW c \in ChangeIds, Resolve(u, r, c)
  PROVE  \A q \in DOMAIN requests' : q \in DOMAIN requests /\ SameReview(requests[q], requests'[q])
<1> DEFINE conflicts == requests[r].conflicts
<1>1. PICK resolution, status :
        requests' = [requests EXCEPT
          ![r].conflicts = [conflicts EXCEPT ![c].resolution = resolution],
          ![r].status = status]
  BY DEF Resolve
<1>2. r \in DOMAIN requests /\ c \in DOMAIN conflicts
  BY DEF Resolve
<1>3. IsMergeRequest(requests[r]) /\ IsPartial(conflicts, ChangeIds, ReviewEntry)
  BY <1>2 DEF TypeOK, IsMergeRequest
<1>4. PICK resolved : resolved = [conflicts EXCEPT ![c].resolution = resolution]
  OBVIOUS
<1>5. /\ DOMAIN resolved = DOMAIN conflicts
      /\ \A e \in DOMAIN conflicts : /\ resolved[e].current = conflicts[e].current
                                     /\ resolved[e].proposed = conflicts[e].proposed
  <2>1. conflicts[c] \in ReviewEntry
    BY <1>2, <1>3 DEF IsPartial
  <2>. QED BY <1>2, <1>4, <2>1 DEF ReviewEntry
<1>6. /\ DOMAIN requests' = DOMAIN requests
      /\ \A q \in DOMAIN requests : q # r => requests'[q] = requests[q]
      /\ requests'[r] = [requests[r] EXCEPT !.conflicts = resolved, !.status = status]
  BY <1>1, <1>2, <1>4
<1>7. SameReview(requests[r], requests'[r])
  BY <1>3, <1>5, <1>6 DEF SameReview, IsMergeRequest
<1>8. \A request : SameReview(request, request)
  BY DEF SameReview
<1>. QED BY <1>6, <1>7, <1>8

LEMMA ReviewStepResolve ==
  ASSUME TypeOK, ReviewInv, NEW u \in Users, NEW r \in RequestIds, NEW c \in ChangeIds,
         Resolve(u, r, c)
  PROVE  ReviewInv'
<1>1. UNCHANGED <<project, deltas, admitted, drafted>>
  BY DEF Resolve, proposed
<1>2. \A q \in DOMAIN requests' : Matching(requests'[q])
  BY AllMatching, ResolveKeepsReview, SameReviewMatches
<1>3. admitted' \cap DOMAIN deltas' = {}
  BY <1>1 DEF ReviewInv
<1>. QED BY <1>1, <1>2, <1>3, AllMatching, StillMatching

LEMMA FinalizedKeepsReview ==
  ASSUME TypeOK, NEW r \in DOMAIN requests, NEW status, NEW result,
         FinalizedRequest(r, status, result)
  PROVE  \A q \in DOMAIN requests' : q \in DOMAIN requests /\ SameReview(requests[q], requests'[q])
BY DEF FinalizedRequest, SameReview, TypeOK, IsMergeRequest

LEMMA ReviewStepWithoutChanges ==
  ASSUME TypeOK, ReviewInv, NEW u \in Users, NEW r \in RequestIds, NEW k \in ClientKeys,
         FinalizeWithoutChanges(u, r, k)
  PROVE  ReviewInv'
<1>1. UNCHANGED <<project, deltas, admitted, drafted>> /\ r \in DOMAIN requests
      /\ FinalizedRequest(r, "rejected", None)
  BY DEF FinalizeWithoutChanges, Finalizable, proposed
<1>2. \A q \in DOMAIN requests' : Matching(requests'[q])
  BY <1>1, AllMatching, FinalizedKeepsReview, SameReviewMatches
<1>3. admitted' \cap DOMAIN deltas' = {}
  BY <1>1 DEF ReviewInv
<1>. QED BY <1>1, <1>2, <1>3, AllMatching, StillMatching

\* After a commit no stored request was evaluated at HEAD.
LEMMA ReviewStepCommit ==
  ASSUME TypeOK, ReviewInv, NEW u \in Users, NEW r \in RequestIds, NEW k \in ClientKeys,
         NEW id \in CommitIds, FinalizeWithCommit(u, r, k, id)
  PROVE  ReviewInv'
<1>1. /\ UNCHANGED <<deltas, admitted, drafted>> /\ r \in DOMAIN requests
      /\ head' = id /\ id \notin DOMAIN commits /\ FinalizedRequest(r, "committed", id)
  BY DEF FinalizeWithCommit, Finalizable, proposed
<1>2. /\ \A q \in DOMAIN requests : requests[q].evaluated \in DOMAIN commits
      /\ \A q \in DOMAIN drafted : drafted[q].evaluated \in DOMAIN commits
  BY DEF TypeOK, IsMergeRequest
<1>3. \A q \in DOMAIN requests' : requests'[q].evaluated # head'
  BY <1>1, <1>2, FinalizedKeepsReview DEF SameReview
<1>4. \A q \in DOMAIN drafted' : drafted'[q].evaluated # head'
  BY <1>1, <1>2
<1>. QED BY <1>1, <1>3, <1>4 DEF ReviewInv

LEMMA ReviewStep == TypeOK /\ ReviewInv /\ [Next]_vars => ReviewInv'
<1> SUFFICES ASSUME TypeOK, ReviewInv, [Next]_vars PROVE ReviewInv'
  OBVIOUS
<1>1. ASSUME UNCHANGED <<project, review, proposed>> PROVE ReviewInv'
  <2>1. UNCHANGED <<project, requests, drafted, deltas, admitted>>
    BY <1>1 DEF review, proposed
  <2>2. admitted' \cap DOMAIN deltas' = {}
    BY <2>1 DEF ReviewInv
  <2>. QED BY <2>1, <2>2, AllMatching, StillMatching
<1>2. CASE UNCHANGED vars
  BY <1>1, <1>2 DEF vars
<1>3. CASE MembershipNext /\ UNCHANGED <<project, review, proposed>>
  BY <1>1, <1>3
<1>. QED BY <1>2, <1>3, ReviewStepPropose, ReviewStepRead, ReviewStepInsert, ReviewStepResolve,
            ReviewStepWithoutChanges, ReviewStepCommit DEF Next

LEMMA ReviewInvariant == Spec => []ReviewInv
BY ReviewInit, ReviewStep, TypeCorrect, PTL DEF Spec

\* As long as HEAD has not moved since a request was evaluated, finalize
\* computes the very plan that was reviewed: its "stored conflict review
\* diverged" error is unreachable, with any number of Deltas being inserted,
\* requests created and members changed in between.
THEOREM ReviewedPlanIsFinal == Spec => []PlanStaysReviewed
<1>1. ReviewInv => PlanStaysReviewed
  BY DEF ReviewInv, PlanStaysReviewed, ReviewMatches
<1>. QED BY <1>1, ReviewInvariant, PTL

-----------------------------------------------------------------------------
(* High-risk context *)

\* The topics a materialized change touches are among those whose risk is
\* looked at when its resolution is authorized.
LEMMA TopicsAuthorized ==
  ASSUME NEW source, NEW change, NEW entry, NEW resolution \in Resolution, NEW lineage, NEW commit,
         PlanEntryOK(change, entry), entry.verdict # "duplicate",
         resolution.choice # "keep_current", Materializable(change, entry, resolution),
         NEW conflict, conflict.current = entry.current, conflict.proposed = entry.proposal
  PROVE  HighRiskTopicsOf(MaterializeChange(source, change, entry, resolution, lineage, commit))
           \subseteq ResolvedTopics(conflict, resolution)
<1> DEFINE made == MaterializeChange(source, change, entry, resolution, lineage, commit)
           proposal == SelectedProposal(entry, resolution)
<1>1. made.before = IF StartsLineage(entry, resolution) THEN None ELSE entry.current
  BY DEF MaterializeChange
<1>2. made.before # None => /\ made.before = entry.current
                            /\ resolution.choice # "keep_alternative"
  BY <1>1 DEF StartsLineage
<1>3. ASSUME made.before # None PROVE made.before.topic \in ResolvedTopics(conflict, resolution)
  BY <1>2, <1>3 DEF ResolvedTopics
<1>4. made.after.topic \in ResolvedTopics(conflict, resolution)
  <2>1. CASE change.op = "deprecate"
    <3>1. made.before \in ItemVersion /\ made.before # None
      BY <1>1, <2>1 DEF Materializable, StartsLineage, PlanEntryOK
    <3>2. made.after = [made.before EXCEPT
             !.commit = commit, !.previous = VersionId(made.before),
             !.lifecycle = "deprecated", !.supersedes = None]
      BY <2>1 DEF MaterializeChange
    <3>3. made.after.topic = made.before.topic
      BY <3>1, <3>2 DEF ItemVersion
    <3>. QED BY <1>3, <3>1, <3>3
  <2>2. CASE change.op # "deprecate"
    <3>1. made.after.topic = proposal.topic /\ proposal # None
      BY <2>2 DEF MaterializeChange, Materializable
    <3>2. entry.proposal \in Proposal
      BY <2>2 DEF PlanEntryOK
    <3>3. CASE resolution.choice = "edit"
      BY <3>1, <3>3 DEF SelectedProposal, ResolvedTopics
    <3>4. CASE resolution.choice = "keep_alternative"
      BY <3>1, <3>2, <3>4, NoneAssumption DEF SelectedProposal, ResolvedTopics, Proposal
    <3>5. CASE resolution.choice = "accept_proposed"
      BY <3>1, <3>5 DEF SelectedProposal, ResolvedTopics
    <3>. QED BY <3>3, <3>4, <3>5 DEF Resolution
  <2>. QED BY <2>1, <2>2
<1> HIDE DEF made
<1>. QED BY <1>3, <1>4 DEF HighRiskTopicsOf, made

LEMMA ApproverIsOwner ==
  ASSUME NEW u \in Users, TypeOK, Authorized(u, "context:approve_high_risk")
  PROVE  role[u] = "owner"
BY DEF Authorized, Permissions, TypeOK, Roles

LEMMA HighRiskCommit ==
  ASSUME TypeOK, ReviewInv, NEW u \in Users, NEW r \in RequestIds, NEW k \in ClientKeys,
         NEW id \in CommitIds, FinalizeWithCommit(u, r, k, id)
  PROVE  \A c \in DOMAIN commits' \ DOMAIN commits :
           (\E change \in commits'[c].changes : HighRiskTopicsOf(change) # {})
             => role[commits'[c].by] = "owner"
<1> DEFINE d == requests[r].delta
           plan == PlanFor(d, GetSnapshot(head))
           conflicts == requests[r].conflicts
<1>1. /\ r \in DOMAIN requests /\ Unresolved(conflicts) = {} /\ ReviewCovers(r, plan)
      /\ AuthorizeResolvedChanges(u, conflicts) /\ requests[r].evaluated = head
  BY DEF FinalizeWithCommit, Finalizable
<1>2. PICK fresh \in FreshLineages(r, plan) :
        commits' = [c \in DOMAIN commits \cup {id} |->
          IF c = id THEN NewCommit(u, r, k, MaterializedChanges(r, plan, id, fresh))
          ELSE commits[c]]
  BY DEF FinalizeWithCommit
<1>3. SUFFICES ASSUME NEW change \in MaterializedChanges(r, plan, id, fresh),
                      HighRiskTopicsOf(change) # {}
               PROVE  role[u] = "owner"
  <2>1. \A c \in DOMAIN commits' \ DOMAIN commits :
          /\ commits'[c].changes = MaterializedChanges(r, plan, id, fresh)
          /\ commits'[c].by = u
    BY <1>2 DEF NewCommit
  <2>. QED BY <2>1
<1>4. PICK c \in Written(plan, conflicts) :
        \E lineage : change = MaterializeChange(c, deltas[d].changes[c], plan[c],
                                                conflicts[c].resolution, lineage, id)
  BY DEF MaterializedChanges
<1>5. d \in DOMAIN deltas /\ IsPartial(conflicts, ChangeIds, ReviewEntry)
  BY <1>1 DEF TypeOK, IsMergeRequest
<1>6. /\ c \in DOMAIN plan /\ c \in DOMAIN conflicts /\ plan[c].verdict # "duplicate"
      /\ conflicts[c].resolution.choice # "keep_current"
      /\ Materializable(deltas[d].changes[c], plan[c], conflicts[c].resolution)
  BY <1>1 DEF Written, Reviewable, ReviewCovers
<1>7. PlanEntryOK(deltas[d].changes[c], plan[c])
  BY <1>5, <1>6, HeadPlanOK
<1>8. conflicts[c].current = plan[c].current /\ conflicts[c].proposed = plan[c].proposal
  BY <1>1, <1>6 DEF ReviewInv, ReviewMatches
<1>9. conflicts[c].resolution \in Resolution /\ conflicts[c].resolution # None
  BY <1>1, <1>5, <1>6 DEF Unresolved, IsPartial, ReviewEntry
<1> HIDE DEF plan, conflicts, d
<1>10. HighRiskTopicsOf(change) \subseteq ResolvedTopics(conflicts[c], conflicts[c].resolution)
  BY <1>4, <1>6, <1>7, <1>8, <1>9, TopicsAuthorized
<1>11. ResolutionIncludesHighRisk(conflicts[c], conflicts[c].resolution)
  BY <1>3, <1>10 DEF HighRiskTopicsOf, ResolutionIncludesHighRisk
<1>12. Authorized(u, "context:approve_high_risk")
  BY <1>1, <1>6, <1>9, <1>11 DEF AuthorizeResolvedChanges, conflicts
<1>. QED BY <1>12, ApproverIsOwner

\* Whoever commits high-risk context is an owner when committing: approval is
\* asked again from the role row read under the project lock, and the topics
\* asked about cover every topic the commit writes over or writes.
THEOREM HighRiskNeedsOwner == Spec => HighRiskByOwner
<1>1. TypeOK /\ ReviewInv /\ [Next]_vars =>
        [\A c \in DOMAIN commits' \ DOMAIN commits :
           (\E change \in commits'[c].changes : HighRiskTopicsOf(change) # {})
             => role[commits'[c].by] = "owner"]_vars
  <2>1. CASE UNCHANGED project
    BY <2>1 DEF project
  <2>. QED BY <2>1, HighRiskCommit, ProjectSteps
<1>. QED BY <1>1, ReviewInvariant, TypeCorrect, PTL DEF Spec, HighRiskByOwner

-----------------------------------------------------------------------------
(* What was decided, recorded and committed *)

Open == {"reviewing", "ready"}
Closed == {"committed", "rejected"}

\* What a retry finds: the finalization, the request and the commit agree.
Recorded(r) ==
  LET finalization == finalizations[r]
  IN /\ \E k \in ClientKeys : finalization.key = <<r, k>>
     /\ IF finalization.outcome = "no_changes"
        THEN requests[r].status = "rejected" /\ requests[r].result = None
        ELSE /\ requests[r].status = "committed"
             /\ requests[r].result = finalization.result
             /\ finalization.result \in DOMAIN commits
             /\ commits[finalization.result].key = finalization.key
             /\ commits[finalization.result].delta = requests[r].delta

EditsRebuilt(conflicts) ==
  \A c \in DOMAIN conflicts :
    conflicts[c].resolution # None /\ conflicts[c].resolution.choice = "edit"
      => conflicts[c].resolution.edited \in RebuiltEdits(conflicts[c])

\* What is offered for review has not been decided.
Undecided(request) ==
  request.status \in Open /\ \A c \in DOMAIN request.conflicts : request.conflicts[c].resolution = None

DeprecationsProposeNothing(changes) ==
  \A c \in DOMAIN changes : changes[c].op = "deprecate" => changes[c].proposal = None

Offered ==
  /\ DraftsAreNew
  /\ \A r \in DOMAIN drafted : Undecided(drafted[r])
  /\ \A d \in DOMAIN deltas : DeprecationsProposeNothing(deltas[d].changes)
  /\ \A r \in DOMAIN requests : EditsRebuilt(requests[r].conflicts)

Decided ==
  /\ DOMAIN finalizations = {r \in DOMAIN requests : requests[r].status \in Closed}
  /\ \A r \in DOMAIN finalizations : Recorded(r)
  /\ \A c \in DOMAIN commits \ {Genesis} :
       \E r \in DOMAIN finalizations :
         finalizations[r].result = c /\ finalizations[r].key = commits[c].key
  /\ CommittedAsReviewed

LEMMA DecidedInit == Init => Offered /\ Decided
BY DEF Init, Offered, Decided, DraftsAreNew, CommittedAsReviewed

LEMMA OfferedStep ==
  ASSUME TypeOK, Offered, [Next]_vars
  PROVE  Offered'
<1>1. DraftsAreNew'
  BY DraftsStayNew DEF Offered
<1>2. ASSUME NEW r \in DOMAIN drafted' PROVE Undecided(drafted'[r])
  <2>1. CASE r \in DOMAIN drafted /\ drafted'[r] = drafted[r]
    BY <2>1 DEF Offered
  <2>2. ASSUME NEW u \in Users, NEW q \in RequestIds, NEW d \in DeltaIds, ReadForRequest(u, q, d)
        PROVE  Undecided(drafted'[r])
    <3> DEFINE entries == ReviewEntries(PlanFor(d, GetSnapshot(head)))
    <3>1. \/ r \in DOMAIN drafted /\ drafted'[r] = drafted[r]
          \/ drafted'[r].status \in Open /\ drafted'[r].conflicts = entries
      BY <2>2 DEF ReadForRequest, Open
    <3>2. \A c \in DOMAIN entries : entries[c].resolution = None
      BY DEF ReviewEntries
    <3> HIDE DEF entries
    <3>. QED BY <2>1, <3>1, <3>2 DEF Undecided
  <2>3. ASSUME NEW q \in RequestIds, InsertRequest(q) PROVE Undecided(drafted'[r])
    BY <2>1, <2>3 DEF InsertRequest
  <2>4. CASE UNCHANGED drafted
    BY <2>1, <2>4
  <2>. QED BY <2>2, <2>3, <2>4 DEF Next, vars, review, AdmitDelta, InsertDelta, Resolve,
                                   FinalizeWithCommit, FinalizeWithoutChanges
<1>3. ASSUME NEW d \in DOMAIN deltas' PROVE DeprecationsProposeNothing(deltas'[d].changes)
  <2>1. CASE UNCHANGED deltas
    BY <2>1 DEF Offered
  <2>2. ASSUME NEW e \in DeltaIds, InsertDelta(e)
        PROVE  DeprecationsProposeNothing(deltas'[d].changes)
    <3>1. \/ d \in DOMAIN deltas /\ deltas'[d] = deltas[d]
          \/ \E changed \in SUBSET ChangeIds : deltas'[d].changes \in [changed -> ProposableChanges]
      BY <2>2 DEF InsertDelta
    <3>2. \A change \in ProposableChanges : change.op = "deprecate" => change.proposal = None
      BY DEF ProposableChanges, Additions, TargetedChanges
    <3>. QED BY <3>1, <3>2 DEF Offered, DeprecationsProposeNothing
  <2>. QED BY <2>1, <2>2 DEF Next, vars, proposed, AdmitDelta, ReadForRequest, InsertRequest,
                             Resolve, FinalizeWithCommit, FinalizeWithoutChanges
<1>4. ASSUME NEW q \in DOMAIN requests' PROVE EditsRebuilt(requests'[q].conflicts)
  <2>1. CASE q \in DOMAIN requests /\ requests'[q].conflicts = requests[q].conflicts
    BY <2>1 DEF Offered
  <2>2. ASSUME NEW r \in RequestIds, InsertRequest(r) PROVE EditsRebuilt(requests'[q].conflicts)
    BY <2>1, <2>2 DEF InsertRequest, Offered, Undecided, EditsRebuilt
  <2>3. ASSUME NEW u \in Users, NEW r \in RequestIds, NEW c \in ChangeIds, Resolve(u, r, c)
        PROVE  EditsRebuilt(requests'[q].conflicts)
    <3> DEFINE conflicts == requests[r].conflicts
    <3>1. PICK resolution \in ResolutionsOf(u, conflicts[c]) :
            LET resolved == [conflicts EXCEPT ![c].resolution = resolution]
            IN requests' = [requests EXCEPT
                 ![r].conflicts = resolved,
                 ![r].status = IF Unresolved(resolved) = {} THEN "ready" ELSE "reviewing"]
      BY <2>3 DEF Resolve
    <3>2. PICK resolved : resolved = [conflicts EXCEPT ![c].resolution = resolution]
      OBVIOUS
    <3>3. /\ r \in DOMAIN requests /\ c \in DOMAIN conflicts
          /\ IsMergeRequest(requests[r]) /\ IsPartial(conflicts, ChangeIds, ReviewEntry)
      BY <2>3 DEF Resolve, TypeOK, IsMergeRequest
    <3>4. /\ DOMAIN requests' = DOMAIN requests
          /\ \A p \in DOMAIN requests : p # r => requests'[p] = requests[p]
          /\ requests'[r].conflicts = resolved
      BY <3>1, <3>2, <3>3 DEF IsMergeRequest
    <3>5. EditsRebuilt(resolved)
      <4>1. resolution.choice = "edit" => resolution.edited \in RebuiltEdits(conflicts[c])
        BY DEF ResolutionsOf
      <4>2. /\ DOMAIN resolved = DOMAIN conflicts
            /\ \A e \in DOMAIN conflicts : e # c => resolved[e] = conflicts[e]
            /\ resolved[c] = [conflicts[c] EXCEPT !.resolution = resolution]
        BY <3>2, <3>3
      <4>3. resolved[c].proposed = conflicts[c].proposed /\ resolved[c].resolution = resolution
        BY <3>3, <4>2 DEF IsPartial, ReviewEntry
      <4>4. EditsRebuilt(conflicts)
        BY <3>3 DEF Offered
      <4>5. RebuiltEdits(resolved[c]) = RebuiltEdits(conflicts[c])
        BY <4>3 DEF RebuiltEdits
      <4> HIDE DEF conflicts
      <4>6. ASSUME NEW e \in DOMAIN resolved, resolved[e].resolution # None,
                   resolved[e].resolution.choice = "edit"
            PROVE  resolved[e].resolution.edited \in RebuiltEdits(resolved[e])
        <5>1. CASE e = c
          BY <4>1, <4>3, <4>5, <4>6, <5>1
        <5>2. CASE e # c
          BY <4>2, <4>4, <4>6, <5>2 DEF EditsRebuilt
        <5>. QED BY <5>1, <5>2
      <4>. QED BY <4>6 DEF EditsRebuilt
    <3>. QED BY <2>1, <3>4, <3>5
  <2>4. ASSUME NEW r \in RequestIds, r \in DOMAIN requests, NEW status, NEW result,
               FinalizedRequest(r, status, result)
        PROVE  EditsRebuilt(requests'[q].conflicts)
    BY <2>1, <2>4 DEF FinalizedRequest, TypeOK, IsMergeRequest
  <2>5. CASE UNCHANGED requests
    BY <2>1, <2>5
  <2>6. ASSUME NEW u \in Users, NEW r \in RequestIds, NEW k \in ClientKeys,
               FinalizeWithoutChanges(u, r, k) \/ \E id \in CommitIds : FinalizeWithCommit(u, r, k, id)
        PROVE  EditsRebuilt(requests'[q].conflicts)
    <3>1. r \in DOMAIN requests /\ \E status, result : FinalizedRequest(r, status, result)
      BY <2>6 DEF FinalizeWithCommit, FinalizeWithoutChanges, Finalizable
    <3>. QED BY <2>4, <3>1
  <2>. QED BY <2>2, <2>3, <2>5, <2>6, RequestSteps
<1>. QED BY <1>1, <1>2, <1>3, <1>4 DEF Offered

\* Steps that decide no request.
LEMMA DecidedUnchanged ==
  ASSUME Decided, UNCHANGED <<commits, finalizations>>,
         \A q \in DOMAIN requests :
           /\ q \in DOMAIN requests'
           /\ \/ requests'[q] = requests[q]
              \/ requests[q].status \in Open /\ requests'[q].status \in Open,
         \A q \in DOMAIN requests' \ DOMAIN requests : requests'[q].status \in Open
  PROVE  Decided'
<1>1. \A q \in DOMAIN requests' :
        requests'[q].status \in Closed => q \in DOMAIN requests /\ requests'[q] = requests[q]
  BY DEF Open, Closed
<1>2. \A q \in DOMAIN requests :
        requests[q].status \in Closed => q \in DOMAIN requests' /\ requests'[q] = requests[q]
  BY DEF Open, Closed
<1>3. DOMAIN finalizations' = {r \in DOMAIN requests' : requests'[r].status \in Closed}
  BY <1>1, <1>2 DEF Decided
<1>4. \A r \in DOMAIN finalizations' : Recorded(r)'
  BY <1>2 DEF Decided, Recorded
<1>5. CommittedAsReviewed'
  BY <1>1 DEF Decided, CommittedAsReviewed, Closed, AgreesWithReview
<1>. QED BY <1>3, <1>4, <1>5 DEF Decided

\* Whatever finalize decides, it decides and records together.
LEMMA DecidedFinalize ==
  ASSUME TypeOK, Decided, NEW r \in DOMAIN requests, r \notin DOMAIN finalizations,
         NEW k \in ClientKeys, NEW status \in Closed, NEW outcome, NEW result,
         FinalizedRequest(r, status, result), RecordFinalization(r, k, outcome, result),
         \A c \in DOMAIN commits : c \in DOMAIN commits' /\ commits'[c] = commits[c]
  PROVE  /\ DOMAIN finalizations' = {q \in DOMAIN requests' : requests'[q].status \in Closed}
         /\ \A q \in DOMAIN finalizations : Recorded(q)'
         /\ \A c \in DOMAIN commits \ {Genesis} :
              \E q \in DOMAIN finalizations' :
                finalizations'[q].result = c /\ finalizations'[q].key = commits'[c].key
         /\ requests'[r] = [requests[r] EXCEPT !.status = status, !.result = result]
         /\ finalizations'[r] = [key |-> <<r, k>>, outcome |-> outcome, result |-> result]
         /\ \A q \in DOMAIN requests' \ {r} : q \in DOMAIN requests /\ requests'[q] = requests[q]
<1>1. /\ DOMAIN requests' = DOMAIN requests
      /\ requests'[r] = [requests[r] EXCEPT !.status = status, !.result = result]
      /\ \A q \in DOMAIN requests : q # r => requests'[q] = requests[q]
  BY DEF FinalizedRequest
<1>2. /\ DOMAIN finalizations' = DOMAIN finalizations \cup {r}
      /\ finalizations'[r] = [key |-> <<r, k>>, outcome |-> outcome, result |-> result]
      /\ \A q \in DOMAIN finalizations : finalizations'[q] = finalizations[q]
  BY DEF RecordFinalization
<1>3. requests'[r].status = status
  BY <1>1 DEF TypeOK, IsMergeRequest
<1>4. DOMAIN finalizations' = {q \in DOMAIN requests' : requests'[q].status \in Closed}
  BY <1>1, <1>2, <1>3 DEF Decided
<1>5. ASSUME NEW q \in DOMAIN finalizations PROVE Recorded(q)'
  <2>1. /\ q \in DOMAIN requests /\ requests'[q] = requests[q]
        /\ finalizations'[q] = finalizations[q]
    BY <1>1, <1>2 DEF Decided
  <2>. QED BY <2>1 DEF Decided, Recorded
<1>6. ASSUME NEW c \in DOMAIN commits \ {Genesis}
      PROVE  \E q \in DOMAIN finalizations' :
               finalizations'[q].result = c /\ finalizations'[q].key = commits'[c].key
  BY <1>2 DEF Decided
<1>. QED BY <1>1, <1>2, <1>4, <1>5, <1>6

LEMMA DecidedWithoutChanges ==
  ASSUME TypeOK, Decided, NEW u \in Users, NEW r \in RequestIds, NEW k \in ClientKeys,
         FinalizeWithoutChanges(u, r, k)
  PROVE  Decided'
<1>1. /\ r \in DOMAIN requests /\ r \notin DOMAIN finalizations /\ UNCHANGED commits
      /\ FinalizedRequest(r, "rejected", None) /\ RecordFinalization(r, k, "no_changes", None)
  BY DEF FinalizeWithoutChanges, Finalizable, project
<1>2. /\ DOMAIN finalizations' = {q \in DOMAIN requests' : requests'[q].status \in Closed}
      /\ \A q \in DOMAIN finalizations : Recorded(q)'
      /\ \A c \in DOMAIN commits \ {Genesis} :
           \E q \in DOMAIN finalizations' :
             finalizations'[q].result = c /\ finalizations'[q].key = commits'[c].key
      /\ requests'[r] = [requests[r] EXCEPT !.status = "rejected", !.result = None]
      /\ finalizations'[r] = [key |-> <<r, k>>, outcome |-> "no_changes", result |-> None]
      /\ \A q \in DOMAIN requests' \ {r} : q \in DOMAIN requests /\ requests'[q] = requests[q]
  BY <1>1, DecidedFinalize DEF Closed
<1>3. requests'[r].status = "rejected" /\ requests'[r].result = None
  BY <1>1, <1>2 DEF TypeOK, IsMergeRequest
<1>4. \A q \in DOMAIN finalizations' : Recorded(q)'
  <2>1. DOMAIN finalizations' = DOMAIN finalizations \cup {r}
    BY <1>1 DEF RecordFinalization
  <2>2. Recorded(r)'
    BY <1>2, <1>3 DEF Recorded
  <2>. QED BY <1>2, <2>1, <2>2
<1>5. CommittedAsReviewed'
  <2>1. \A q \in DOMAIN requests' :
          requests'[q].status = "committed" => q \in DOMAIN requests /\ requests'[q] = requests[q]
    BY <1>2, <1>3
  <2>. QED BY <1>1, <2>1 DEF Decided, CommittedAsReviewed, AgreesWithReview
<1>. QED BY <1>1, <1>2, <1>4, <1>5 DEF Decided

\* A materialized change is what the reviewer of its entry chose.
LEMMA MaterializedAgrees ==
  ASSUME NEW source, NEW change, NEW entry, NEW lineage, NEW commit,
         PlanEntryOK(change, entry), entry.verdict # "duplicate",
         change.op = "deprecate" => change.proposal = None,
         change.op = "deprecate" => entry.proposal = None,
         NEW row, row.current = entry.current, row.proposed = entry.proposal,
         row.resolution \in Resolution, row.resolution.choice # "keep_current",
         row.resolution.choice = "edit" => row.resolution.edited \in RebuiltEdits(row),
         Materializable(change, entry, row.resolution)
  PROVE  LET made == MaterializeChange(source, change, entry, row.resolution, lineage, commit)
         IN made.source = source /\ AgreesWithReview(made, row)
<1> DEFINE resolution == row.resolution
           made == MaterializeChange(source, change, entry, resolution, lineage, commit)
           proposal == SelectedProposal(entry, resolution)
<1>1. made.source = source
      /\ made.before = IF StartsLineage(entry, resolution) THEN None ELSE entry.current
  BY DEF MaterializeChange
<1>2. resolution.choice # "keep_alternative" => made.before = row.current
  BY <1>1 DEF StartsLineage
<1>3. resolution.choice = "keep_alternative" => made.before = None
  BY <1>1 DEF StartsLineage
<1>4. CASE change.op = "deprecate"
  <2>1. made.before \in ItemVersion /\ resolution.choice # "keep_alternative"
    BY <1>1, <1>4 DEF Materializable, StartsLineage, PlanEntryOK
  <2>2. made.after = [made.before EXCEPT
           !.commit = commit, !.previous = VersionId(made.before),
           !.lifecycle = "deprecated", !.supersedes = None]
    BY <1>4 DEF MaterializeChange
  <2> HIDE DEF made
  <2>3. made.after.lifecycle = "deprecated"
    BY <2>1, <2>2 DEF ItemVersion
  <2>4. resolution.choice # "edit"
    BY <1>4 DEF RebuiltEdits
  <2>5. resolution.choice = "accept_proposed"
    BY <2>1, <2>4 DEF Resolution
  <2>6. AgreesWithReview(made, row)
    BY <1>2, <1>4, <2>3, <2>5 DEF AgreesWithReview
  <2>. QED BY <1>1, <2>6 DEF made
<1>5. CASE change.op # "deprecate"
  <2>1. entry.proposal \in Proposal /\ entry.proposal # None
    BY <1>5, NoneAssumption DEF PlanEntryOK
  <2>2. /\ made.after.topic = proposal.topic /\ made.after.scope = proposal.scope
        /\ made.after.value = proposal.value /\ made.after.authority = proposal.authority
    BY <1>5 DEF MaterializeChange
  <2> HIDE DEF made
  <2>3. CASE resolution.choice = "accept_proposed"
    <3>1. proposal = entry.proposal
      BY <2>3 DEF SelectedProposal
    <3>. QED BY <1>1, <1>2, <2>1, <2>2, <2>3, <3>1 DEF AgreesWithReview, made
  <2>4. CASE resolution.choice = "keep_alternative"
    <3>1. proposal = [entry.proposal EXCEPT !.authority = "alternative"]
      BY <2>4 DEF SelectedProposal
    <3>2. proposal.authority = "alternative" /\ proposal.value = entry.proposal.value
      BY <2>1, <3>1 DEF Proposal
    <3> HIDE DEF proposal
    <3>. QED BY <1>1, <1>3, <2>2, <2>4, <3>2 DEF AgreesWithReview, made
  <2>5. CASE resolution.choice = "edit"
    <3>1. proposal = resolution.edited
      BY <2>5 DEF SelectedProposal
    <3>2. PICK v : resolution.edited = [entry.proposal EXCEPT !.value = v]
      BY <2>1, <2>5 DEF RebuiltEdits
    <3>3. /\ proposal.topic = entry.proposal.topic /\ proposal.scope = entry.proposal.scope
      BY <2>1, <3>1, <3>2 DEF Proposal
    <3> HIDE DEF proposal
    <3>. QED BY <1>1, <1>2, <2>2, <2>5, <3>1, <3>3 DEF AgreesWithReview, SameContextSlot, made
  <2>. QED BY <2>3, <2>4, <2>5 DEF Resolution
<1>. QED BY <1>4, <1>5

\* The plan proposes nothing for a deprecation.
LEMMA DeprecationEntry ==
  ASSUME NEW d, DeprecationsProposeNothing(deltas[d].changes), NEW plan,
         plan = PlanFor(d, GetSnapshot(head)), NEW c \in DOMAIN plan,
         deltas[d].changes[c].op = "deprecate"
  PROVE  plan[c].proposal = None
<1> DEFINE change == deltas[d].changes[c]
<1>1. change.proposal = None
  BY DEF DeprecationsProposeNothing, PlanFor, CreateThreeWayMergePlan
<1>2. \/ plan[c] = Duplicate(None)
      \/ plan[c] = MergeTargetedChange(change, GetSnapshot(deltas[d].base).items,
                                       GetSnapshot(head).items)
  BY DEF PlanFor, CreateThreeWayMergePlan
<1> HIDE DEF change
<1>3. ASSUME NEW baseItems, NEW items
      PROVE  MergeTargetedChange(change, baseItems, items).proposal = None
  <2> DEFINE current == FindByLogicalItem(items, change.target)
             entry == MergeTargetedChange(change, baseItems, items)
  <2>1. change.op = "deprecate"
    BY DEF change
  <2>2. \/ entry = Conflict("C2", change, current)
        \/ entry = Duplicate(current)
        \/ entry = Clean("C4", None, current)
    BY <2>1, Zenon DEF MergeTargetedChange
  <2> HIDE DEF entry, current
  <2>3. entry.proposal = None
    BY <1>1, <2>2 DEF Conflict, Duplicate, Clean
  <2>. QED BY <2>3 DEF entry
<1>. QED BY <1>2, <1>3 DEF Duplicate

\* The changes are those the review decided on.
DecidedOn(changes, conflicts) ==
  /\ {change.source : change \in changes}
       = {c \in DOMAIN conflicts : conflicts[c].resolution.choice # "keep_current"}
  /\ \A change \in changes : AgreesWithReview(change, conflicts[change.source])

LEMMA CommitAgrees ==
  ASSUME TypeOK, ReviewInv, Offered, NEW u \in Users, NEW r \in RequestIds, NEW k \in ClientKeys,
         NEW id \in CommitIds, FinalizeWithCommit(u, r, k, id)
  PROVE  \E changes :
           /\ DOMAIN commits' = DOMAIN commits \cup {id}
           /\ \A c \in DOMAIN commits : commits'[c] = commits[c]
           /\ commits'[id] = NewCommit(u, r, k, changes)
           /\ DecidedOn(changes, requests[r].conflicts)
<1> DEFINE d == requests[r].delta
           plan == PlanFor(d, GetSnapshot(head))
           conflicts == requests[r].conflicts
<1>1. /\ r \in DOMAIN requests /\ Unresolved(conflicts) = {} /\ ReviewCovers(r, plan)
      /\ requests[r].evaluated = head
  BY DEF FinalizeWithCommit, Finalizable
<1>2. PICK fresh \in FreshLineages(r, plan) :
        commits' = [c \in DOMAIN commits \cup {id} |->
          IF c = id THEN NewCommit(u, r, k, MaterializedChanges(r, plan, id, fresh))
          ELSE commits[c]]
  BY DEF FinalizeWithCommit
<1> DEFINE changes == MaterializedChanges(r, plan, id, fresh)
           Lineage(c) == IF StartsLineage(plan[c], conflicts[c].resolution)
                         THEN fresh[c] ELSE plan[c].current.lineage
           Made(c) == MaterializeChange(c, deltas[d].changes[c], plan[c],
                                        conflicts[c].resolution, Lineage(c), id)
<1>3. changes = {Made(c) : c \in Written(plan, conflicts)}
  BY DEF MaterializedChanges
<1>4. /\ d \in DOMAIN deltas /\ IsPartial(conflicts, ChangeIds, ReviewEntry)
      /\ DeprecationsProposeNothing(deltas[d].changes) /\ EditsRebuilt(conflicts)
  BY <1>1 DEF TypeOK, IsMergeRequest, Offered
<1>5. /\ Reviewable(plan) = DOMAIN conflicts
      /\ \A c \in DOMAIN conflicts : /\ plan[c].current = conflicts[c].current
                                     /\ plan[c].proposal = conflicts[c].proposed
  BY <1>1 DEF ReviewInv, ReviewMatches
<1>6. ASSUME NEW c \in Written(plan, conflicts)
      PROVE  Made(c).source = c /\ AgreesWithReview(Made(c), conflicts[c])
  <2> DEFINE change == deltas[d].changes[c]
             entry == plan[c]
             row == conflicts[c]
  <2>1. /\ c \in DOMAIN plan /\ c \in DOMAIN conflicts /\ entry.verdict # "duplicate"
        /\ row.resolution.choice # "keep_current" /\ Materializable(change, entry, row.resolution)
    BY <1>1, <1>5 DEF Written, Reviewable, ReviewCovers
  <2>2. PlanEntryOK(change, entry)
    BY <1>4, <2>1, HeadPlanOK
  <2>3. c \in DOMAIN deltas[d].changes
    BY <2>1 DEF PlanFor, CreateThreeWayMergePlan
  <2>4. change.op = "deprecate" => change.proposal = None
    BY <1>4, <2>3 DEF DeprecationsProposeNothing
  <2>5. change.op = "deprecate" => entry.proposal = None
    BY <1>4, <2>1, DeprecationEntry
  <2>6. row.resolution \in Resolution /\ row.resolution # None
    BY <1>1, <1>4, <2>1 DEF Unresolved, IsPartial, ReviewEntry
  <2>7. row.resolution.choice = "edit" => row.resolution.edited \in RebuiltEdits(row)
    BY <1>4, <2>1, <2>6 DEF EditsRebuilt
  <2>8. row.current = entry.current /\ row.proposed = entry.proposal
    BY <1>5, <2>1
  <2>9. Made(c) = MaterializeChange(c, change, entry, row.resolution, Lineage(c), id)
    OBVIOUS
  <2> DEFINE made == MaterializeChange(c, change, entry, row.resolution, Lineage(c), id)
  <2> HIDE DEF change, entry, row, Lineage, Made
  <2>10. made.source = c /\ AgreesWithReview(made, row)
    BY <2>1, <2>2, <2>4, <2>5, <2>6, <2>7, <2>8, MaterializedAgrees
  <2>. QED BY <2>9, <2>10 DEF row
<1>7. Written(plan, conflicts)
        = {c \in DOMAIN conflicts : conflicts[c].resolution.choice # "keep_current"}
  BY <1>5 DEF Written
<1> HIDE DEF changes, Made, plan, conflicts
<1>8. /\ {change.source : change \in changes} = Written(plan, conflicts)
      /\ \A change \in changes : AgreesWithReview(change, conflicts[change.source])
  BY <1>3, <1>6
<1>9. DecidedOn(changes, conflicts)
  BY <1>7, <1>8 DEF DecidedOn
<1>10. /\ DOMAIN commits' = DOMAIN commits \cup {id}
       /\ \A c \in DOMAIN commits : commits'[c] = commits[c]
       /\ commits'[id] = NewCommit(u, r, k, changes)
  BY <1>2 DEF changes, FinalizeWithCommit
<1>. QED BY <1>9, <1>10 DEF conflicts

LEMMA DecidedCommit ==
  ASSUME TypeOK, ReviewInv, Offered, Decided, NEW u \in Users, NEW r \in RequestIds,
         NEW k \in ClientKeys, NEW id \in CommitIds, FinalizeWithCommit(u, r, k, id)
  PROVE  Decided'
<1>1. /\ r \in DOMAIN requests /\ r \notin DOMAIN finalizations /\ id \notin DOMAIN commits
      /\ FinalizedRequest(r, "committed", id) /\ RecordFinalization(r, k, "committed", id)
  BY DEF FinalizeWithCommit, Finalizable
<1>2. PICK changes :
        /\ DOMAIN commits' = DOMAIN commits \cup {id}
        /\ \A c \in DOMAIN commits : commits'[c] = commits[c]
        /\ commits'[id] = NewCommit(u, r, k, changes)
        /\ DecidedOn(changes, requests[r].conflicts)
  BY CommitAgrees
<1>3. /\ DOMAIN commits' = DOMAIN commits \cup {id}
      /\ \A c \in DOMAIN commits : c \in DOMAIN commits' /\ commits'[c] = commits[c]
      /\ commits'[id].key = <<r, k>> /\ commits'[id].delta = requests[r].delta
      /\ commits'[id].changes = changes
  BY <1>2 DEF NewCommit
<1>4. /\ DOMAIN finalizations' = {q \in DOMAIN requests' : requests'[q].status \in Closed}
      /\ \A q \in DOMAIN finalizations : Recorded(q)'
      /\ \A c \in DOMAIN commits \ {Genesis} :
           \E q \in DOMAIN finalizations' :
             finalizations'[q].result = c /\ finalizations'[q].key = commits'[c].key
      /\ requests'[r] = [requests[r] EXCEPT !.status = "committed", !.result = id]
      /\ finalizations'[r] = [key |-> <<r, k>>, outcome |-> "committed", result |-> id]
      /\ \A q \in DOMAIN requests' \ {r} : q \in DOMAIN requests /\ requests'[q] = requests[q]
  BY <1>1, <1>3, DecidedFinalize DEF Closed
<1>5. /\ requests'[r].status = "committed" /\ requests'[r].result = id
      /\ requests'[r].delta = requests[r].delta
      /\ requests'[r].conflicts = requests[r].conflicts
  BY <1>1, <1>4 DEF TypeOK, IsMergeRequest
<1>6. DOMAIN finalizations' = DOMAIN finalizations \cup {r}
  BY <1>1 DEF RecordFinalization
<1>7. \A q \in DOMAIN finalizations' : Recorded(q)'
  <2>1. Recorded(r)'
    BY <1>3, <1>4, <1>5 DEF Recorded
  <2>. QED BY <1>4, <1>6, <2>1
<1>8. \A c \in DOMAIN commits' \ {Genesis} :
        \E q \in DOMAIN finalizations' :
          finalizations'[q].result = c /\ finalizations'[q].key = commits'[c].key
  BY <1>3, <1>4, <1>6
<1>9. CommittedAsReviewed'
  <2> DEFINE Kept(q) == DecidedOn(commits[requests[q].result].changes, requests[q].conflicts)
  <2>1. Kept(r)'
    BY <1>2, <1>3, <1>5
  <2>2. ASSUME NEW q \in DOMAIN requests' \ {r}, requests'[q].status = "committed"
        PROVE  Kept(q)'
    <3>1. q \in DOMAIN requests /\ requests'[q] = requests[q]
      BY <1>4
    <3>2. requests[q].result \in DOMAIN commits
      BY <2>2, <3>1 DEF Decided, Recorded, Closed
    <3>3. Kept(q)
      BY <2>2, <3>1 DEF Decided, CommittedAsReviewed, DecidedOn
    <3>. QED BY <1>3, <3>1, <3>2, <3>3
  <2>. QED BY <2>1, <2>2 DEF CommittedAsReviewed, DecidedOn
<1>. QED BY <1>4, <1>7, <1>8, <1>9 DEF Decided

LEMMA DecidedStep ==
  ASSUME TypeOK, ReviewInv, Offered, Decided, [Next]_vars
  PROVE  Decided'
<1>1. ASSUME UNCHANGED <<commits, finalizations, requests>> PROVE Decided'
  BY <1>1, DecidedUnchanged
<1>2. ASSUME NEW r \in RequestIds, InsertRequest(r) PROVE Decided'
  <2>1. UNCHANGED <<commits, finalizations>> /\ r \in DOMAIN drafted /\ r \notin DOMAIN requests
    BY <1>2 DEF InsertRequest, project, Offered, DraftsAreNew
  <2>2. drafted[r].status \in Open
    BY <2>1 DEF Offered, Undecided
  <2>3. /\ DOMAIN requests' = DOMAIN requests \cup {r} /\ requests'[r] = drafted[r]
        /\ \A q \in DOMAIN requests : requests'[q] = requests[q]
    BY <1>2, <2>1 DEF InsertRequest
  <2>. QED BY <2>1, <2>2, <2>3, DecidedUnchanged
<1>3. ASSUME NEW u \in Users, NEW r \in RequestIds, NEW c \in ChangeIds, Resolve(u, r, c)
      PROVE  Decided'
  <2>1. UNCHANGED <<commits, finalizations>> /\ r \in DOMAIN requests
        /\ requests[r].status \in Open
    BY <1>3 DEF Resolve, project, Open
  <2>2. PICK resolution :
          LET resolved == [requests[r].conflicts EXCEPT ![c].resolution = resolution]
          IN requests' = [requests EXCEPT
               ![r].conflicts = resolved,
               ![r].status = IF Unresolved(resolved) = {} THEN "ready" ELSE "reviewing"]
    BY <1>3 DEF Resolve
  <2> DEFINE resolved == [requests[r].conflicts EXCEPT ![c].resolution = resolution]
             status == IF Unresolved(resolved) = {} THEN "ready" ELSE "reviewing"
  <2>3. /\ status \in Open
        /\ requests' = [requests EXCEPT ![r].conflicts = resolved, ![r].status = status]
    BY <2>2 DEF Open
  <2> HIDE DEF resolved, status
  <2>4. /\ DOMAIN requests' = DOMAIN requests /\ requests'[r].status \in Open
        /\ \A q \in DOMAIN requests : q # r => requests'[q] = requests[q]
    BY <2>1, <2>3 DEF TypeOK, IsMergeRequest
  <2>. QED BY <2>1, <2>4, DecidedUnchanged
<1>4. \/ UNCHANGED <<commits, finalizations, requests>>
      \/ \E r \in RequestIds : InsertRequest(r)
      \/ \E u \in Users, r \in RequestIds, c \in ChangeIds : Resolve(u, r, c)
      \/ \E u \in Users, r \in RequestIds, k \in ClientKeys, id \in CommitIds :
           FinalizeWithCommit(u, r, k, id)
      \/ \E u \in Users, r \in RequestIds, k \in ClientKeys : FinalizeWithoutChanges(u, r, k)
  BY DEF Next, vars, review, project, AdmitDelta, InsertDelta, ReadForRequest
<1>. QED BY <1>1, <1>2, <1>3, <1>4, DecidedCommit, DecidedWithoutChanges

LEMMA DecidedInvariant == Spec => [](Offered /\ Decided)
<1>1. TypeOK /\ ReviewInv /\ Offered /\ Decided /\ [Next]_vars => (Offered /\ Decided)'
  BY OfferedStep, DecidedStep
<1>. QED BY <1>1, DecidedInit, ReviewInvariant, TypeCorrect, PTL DEF Spec

\* What a finalized request's commit holds is what its reviewers chose, entry
\* by entry, over the versions they were shown: the plan is computed again and
\* paired with rows stored earlier, and the two never come apart.
THEOREM ReviewIsCommitted == Spec => []CommittedAsReviewed
BY DecidedInvariant, PTL DEF Decided

\* A retry of finalize finds its outcome however much later it comes, and no
\* other key does: request, finalization and commit are written together.
THEOREM RetriesReplay == Spec => []FinalizationsReplay
<1>1. Decided => FinalizationsReplay
  <2> SUFFICES ASSUME Decided PROVE FinalizationsReplay
    OBVIOUS
  <2>1. ASSUME NEW r \in DOMAIN finalizations, NEW k \in ClientKeys
        PROVE  RetryAccepted(r, k) <=> finalizations[r].key = <<r, k>>
    <3>1. Recorded(r)
      BY DEF Decided
    <3>. QED BY <3>1 DEF Recorded, RetryAccepted
  <2>. QED BY <2>1 DEF Decided, FinalizationsReplay, Closed
<1>. QED BY <1>1, DecidedInvariant, PTL

-----------------------------------------------------------------------------
(* Clean verdicts *)

\* What CleanKeepsConcurrentWork says of one entry.
KeepsCurrent(change, entry) ==
  entry.verdict = "clean" /\ entry.current # None =>
    \/ VersionId(entry.current) \in
         {change.expected} \cup (IF change.op = "deprecate" THEN {}
                                 ELSE {change.proposal.supersedes})
    \/ LET old == entry.current.value
           new == entry.proposal.value
       IN \A field \in DOMAIN old : field \in DOMAIN new /\ new[field] = old[field]

LEMMA ExpandedKeeps ==
  ASSUME NEW change \in Change, change.op # "deprecate", NEW current,
         CanExpand(current, change.proposal)
  PROVE  KeepsCurrent(change, Expanded(current, change.proposal))
<1> DEFINE value == Expansion(current.value, change.proposal.value)
<1>1. \A field \in DOMAIN current.value :
        field \in DOMAIN value /\ value[field] = current.value[field]
  BY DEF Expansion
<1>2. change.proposal \in Proposal
  BY DEF Change
<1> HIDE DEF value
<1>3. [change.proposal EXCEPT !.value = value].value = value
  BY <1>2 DEF Proposal
<1>4. /\ Expanded(current, change.proposal).current = current
      /\ Expanded(current, change.proposal).proposal.value = value
  BY <1>3 DEF Expanded, Clean, value
<1>. QED BY <1>1, <1>4 DEF KeepsCurrent

LEMMA MergeAddKeeps ==
  ASSUME NEW change \in Change, change.op = "add", NEW items
  PROVE  KeepsCurrent(change, MergeAdd(change, items))
<1> DEFINE proposal == change.proposal
           entry == MergeAdd(change, items)
           slot == FirstOf({v \in {w \in items : w.lifecycle = "active" /\ w.topic = proposal.topic} :
                              SameContextSlot(v, proposal)})
<1>1. \/ entry.verdict # "clean"
      \/ entry = Clean("C0", proposal, None)
      \/ proposal.supersedes = VersionId(slot) /\ entry = Clean("C4", proposal, slot)
      \/ CanExpand(slot, proposal) /\ entry = Expanded(slot, proposal)
  <2>1. \A class, current : Conflict(class, change, current).verdict # "clean"
    BY DEF Conflict
  <2>2. \A current : Duplicate(current).verdict # "clean"
    BY DEF Duplicate
  <2>. QED BY <2>1, <2>2, Zenon DEF MergeAdd
<1> HIDE DEF entry, slot
<1>2. entry = Clean("C0", proposal, None) => KeepsCurrent(change, entry)
  BY DEF KeepsCurrent, Clean
<1>3. proposal.supersedes = VersionId(slot) /\ entry = Clean("C4", proposal, slot)
        => KeepsCurrent(change, entry)
  BY DEF KeepsCurrent, Clean
<1>4. CanExpand(slot, proposal) /\ entry = Expanded(slot, proposal) => KeepsCurrent(change, entry)
  BY ExpandedKeeps
<1>5. entry.verdict # "clean" => KeepsCurrent(change, entry)
  BY DEF KeepsCurrent
<1>6. KeepsCurrent(change, entry)
  BY <1>1, <1>2, <1>3, <1>4, <1>5
<1>. QED BY <1>6 DEF entry

LEMMA MergeTargetedKeeps ==
  ASSUME NEW change \in Change, change.op # "add", NEW baseItems, NEW items
  PROVE  KeepsCurrent(change, MergeTargetedChange(change, baseItems, items))
<1> DEFINE proposal == change.proposal
           entry == MergeTargetedChange(change, baseItems, items)
           current == FindByLogicalItem(items, change.target)
<1>1. \/ entry.verdict # "clean"
      \/ VersionId(current) = change.expected /\ \E class, p : entry = Clean(class, p, current)
      \/ /\ change.op # "deprecate" /\ CanExpand(current, proposal)
         /\ entry = Expanded(current, proposal)
  <2>1. \A class, c : Conflict(class, change, c).verdict # "clean"
    BY DEF Conflict
  <2>2. \A c : Duplicate(c).verdict # "clean"
    BY DEF Duplicate
  <2>. QED BY <2>1, <2>2, Zenon DEF MergeTargetedChange
<1> HIDE DEF entry, current
<1>2. ASSUME VersionId(current) = change.expected, NEW class, NEW p, entry = Clean(class, p, current)
      PROVE  KeepsCurrent(change, entry)
  BY <1>2 DEF KeepsCurrent, Clean
<1>3. change.op # "deprecate" /\ CanExpand(current, proposal) /\ entry = Expanded(current, proposal)
        => KeepsCurrent(change, entry)
  BY ExpandedKeeps
<1>4. entry.verdict # "clean" => KeepsCurrent(change, entry)
  BY DEF KeepsCurrent
<1>5. KeepsCurrent(change, entry)
  BY <1>1, <1>2, <1>3, <1>4
<1>. QED BY <1>5 DEF entry

\* However Base, HEAD and the proposal differ, what review shows as clean
\* names the version it replaces or keeps every field of it.
THEOREM CleanIsSafe == Spec => []CleanKeepsConcurrentWork
<1>1. TypeOK => CleanKeepsConcurrentWork
  <2> SUFFICES ASSUME TypeOK, NEW d \in DOMAIN deltas,
                      NEW c \in DOMAIN PlanFor(d, GetSnapshot(head))
               PROVE  KeepsCurrent(deltas[d].changes[c], PlanFor(d, GetSnapshot(head))[c])
    BY DEF CleanKeepsConcurrentWork, KeepsCurrent
  <2> DEFINE change == deltas[d].changes[c]
             plan == PlanFor(d, GetSnapshot(head))
  <2>1. change \in Change
    BY HeadPlanOK
  <2>2. \/ plan[c] = Duplicate(None)
        \/ change.op = "add" /\ plan[c] = MergeAdd(change, GetSnapshot(head).items)
        \/ /\ change.op # "add"
           /\ plan[c] = MergeTargetedChange(change, GetSnapshot(deltas[d].base).items,
                                            GetSnapshot(head).items)
    BY DEF PlanFor, CreateThreeWayMergePlan
  <2> HIDE DEF change, plan
  <2>3. KeepsCurrent(change, Duplicate(None))
    BY DEF KeepsCurrent, Duplicate
  <2>4. KeepsCurrent(change, plan[c])
    BY <2>1, <2>2, <2>3, MergeAddKeeps, MergeTargetedKeeps
  <2>. QED BY <2>4 DEF change, plan
<1>. QED BY <1>1, TypeCorrect, PTL
=============================================================================
