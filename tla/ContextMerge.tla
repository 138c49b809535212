---------------------------- MODULE ContextMerge ----------------------------
(***************************************************************************)
(* One project's canonical context: Deltas are proposed over a base        *)
(* commit, merge requests put each proposed change to review, and          *)
(* finalizing a fully reviewed request appends a ContextCommit to a linear *)
(* history and moves HEAD and the HEAD projection with it.                 *)
(*                                                                         *)
(* One action is one database transaction, taken whole when it locks the   *)
(* project row first (resolve, finalize, role change, archive).  The two   *)
(* that do not lock it -- inserting a Delta and creating a merge request   *)
(* -- run READ COMMITTED, so they are two steps: what was read and checked, *)
(* then the insert, and any committed transaction may come in between.  A  *)
(* transaction that fails, or whose process dies, leaves no trace: it is   *)
(* the second step that never happens.  Refused calls change nothing.      *)
(***************************************************************************)
EXTENDS ThreeWayMerge, Membership, FiniteSets

CONSTANTS
  Proposals,    \* [topic, scope, value] that extraction and agents propose
  EditValues,   \* values a reviewer may type over a proposed one
  ClientKeys,   \* Idempotency-Key headers
  Genesis,      \* the commit a project is created with
  \* Bounds of the unbounded id spaces: each id is taken from these at most once.
  CommitIds, DeltaIds, RequestIds, ChangeIds, Lineages,
  MaxUnderWay   \* bound on the Deltas and requests under way at the same time

ASSUME IdAssumption ==
  /\ Genesis \in CommitIds
  /\ Lineages \subseteq Nat \ {0}
  /\ MaxUnderWay \in Nat
  /\ None \notin CommitIds \cup DeltaIds \cup RequestIds \cup Lineages

ASSUME ProposalAssumption ==
  /\ Proposals \subseteq [topic : Topics, scope : Scopes, value : Values]
  /\ EditValues \subseteq Values

VARIABLES
  head,           \* projects.head_commit_id
  version,        \* projects.version
  commits,        \* context_commits with their changes and item versions
  projection,     \* current_context_items: lineage -> version id
  deltas,         \* context_deltas
  requests,       \* merge_requests, each with its merge_conflicts
  finalizations,  \* merge_finalizations
  admitted,       \* Delta inserts that passed their checks, not yet committed
  drafted         \* merge requests computed from what was read, not yet inserted

project == <<head, version, commits, projection>>
review == <<requests, finalizations, drafted>>
proposed == <<deltas, admitted>>
vars == <<role, archived, project, review, proposed>>

-----------------------------------------------------------------------------
(* Types *)

UnknownLineage == 0   \* an id that no committed item has
VersionIds == (Lineages \cup {UnknownLineage}) \X CommitIds

Proposal ==
  [topic : Topics, scope : Scopes, value : Values, authority : Authorities,
   supersedes : VersionIds \cup {None}]

ItemVersion ==
  [lineage : Lineages, commit : CommitIds, previous : VersionIds \cup {None},
   supersedes : VersionIds \cup {None}, topic : Topics, scope : Scopes,
   value : Values, authority : Authorities, lifecycle : Lifecycles]

\* null is no row.
ASSUME NoneAssumption == None \notin Proposal \cup ItemVersion

\* Only a deprecation proposes nothing.
Change ==
  {change \in [op : {"add", "update", "supersede", "deprecate"},
               target : Lineages \cup {UnknownLineage, None},
               expected : VersionIds \cup {None},
               proposal : Proposal \cup {None}] :
     change.op # "deprecate" => change.proposal \in Proposal}

CommitChange ==
  [source : ChangeIds, op : {"add", "update", "supersede", "deprecate"},
   lineage : Lineages, before : ItemVersion \cup {None}, after : ItemVersion]

OperationKeys == RequestIds \X ClientKeys

Resolution ==
  [choice : {"keep_current", "accept_proposed", "keep_alternative", "edit"},
   edited : Proposal \cup {None}, by : Users]

\* fn is a function on some of S; and one into T.
IsFunctionOn(fn, S) == DOMAIN fn \subseteq S /\ fn = [z \in DOMAIN fn |-> fn[z]]
IsPartial(fn, S, T) == DOMAIN fn \subseteq S /\ fn \in [DOMAIN fn -> T]

-----------------------------------------------------------------------------
(* Snapshots *)

ClosedUnderParent(S) == \A c \in S : commits[c].parent # None => commits[c].parent \in S

\* The commits reached from c by following parents, c included.
Chain(c) ==
  {d \in DOMAIN commits :
     \A S \in SUBSET DOMAIN commits : c \in S /\ ClosedUnderParent(S) => d \in S}

WrittenVersions(c) == {change.after : change \in commits[c].changes}

\* The newest version of each lineage among the commits of a chain.
LatestVersions(chain) ==
  LET written == UNION {WrittenVersions(c) : c \in chain}
  IN {v \in written :
        \A w \in written :
          w.lineage = v.lineage => commits[w.commit].version <= commits[v.commit].version}

GetSnapshot(c) ==
  LET chain == Chain(c)
  IN [commit    |-> c,
      items     |-> LatestVersions(chain),
      ancestors |-> chain \ {c},
      applied   |-> {commits[d].delta : d \in chain} \ {None}]

\* Mutant: Base stands in for HEAD.
PlanAgainstBase(d, current) ==
  LET base == GetSnapshot(deltas[d].base)
  IN CreateThreeWayMergePlan(d, deltas[d], base, base)

PlanFor(d, current) ==
  CreateThreeWayMergePlan(d, deltas[d], GetSnapshot(deltas[d].base), current)

-----------------------------------------------------------------------------
(* Proposing a Delta: the last transaction of extraction and of an agent run *)

KnownLineages == {v.lineage : v \in UNION {WrittenVersions(c) : c \in DOMAIN commits}}
KnownVersionIds == {VersionId(v) : v \in UNION {WrittenVersions(c) : c \in DOMAIN commits}}

\* Mutant: what the model says of its authority is passed through.
ProposeUnchecked(p, supersedes) ==
  [topic |-> p.topic, scope |-> p.scope, value |-> p.value,
   authority |-> "proposed", supersedes |-> supersedes]

\* Models and agents propose authoritative values only.
Propose(p, supersedes) ==
  [topic |-> p.topic, scope |-> p.scope, value |-> p.value,
   authority |-> "authoritative", supersedes |-> supersedes]

\* Targets and mentioned versions come from a model that has been shown the
\* items of HEAD, so they need not belong to the base commit, nor exist.  (Of
\* an update, naming a version of another lineage decides nothing.)
VersionIdsOf(t) == {id \in KnownVersionIds : id[1] = t}

Expectations(t) == IF t = UnknownLineage THEN {<<t, Genesis>>} ELSE VersionIdsOf(t)

Additions ==
  {[op |-> "add", target |-> None, expected |-> None, proposal |-> Propose(p, s)] :
     p \in Proposals, s \in KnownVersionIds \cup {None}}

TargetedChanges(t) ==
  {[op |-> "update", target |-> t, expected |-> e, proposal |-> Propose(p, s)] :
     p \in Proposals, e \in Expectations(t), s \in VersionIdsOf(t) \cup {None}}
  \cup {[op |-> "supersede", target |-> t, expected |-> e, proposal |-> Propose(p, e)] :
     p \in Proposals, e \in Expectations(t)}
  \cup {[op |-> "deprecate", target |-> t, expected |-> e, proposal |-> None] :
     e \in Expectations(t)}

ProposableChanges ==
  Additions \cup UNION {TargetedChanges(t) : t \in KnownLineages \cup {UnknownLineage}}

\* Deltas nobody has opened a request for, and requests that are not finalized.
UnderWay ==
  admitted
  \cup {d \in DOMAIN deltas :
          /\ \A r \in DOMAIN requests : requests[r].delta # d
          /\ \A r \in DOMAIN drafted : drafted[r].delta # d}
  \cup DOMAIN drafted
  \cup {r \in DOMAIN requests : requests[r].status \in {"reviewing", "ready"}}

AdmitDelta(u, d) ==
  /\ d \notin DOMAIN deltas \cup admitted /\ Cardinality(UnderWay) < MaxUnderWay
  /\ Authorized(u, "context:propose")
  /\ RequireActiveProject
  /\ admitted' = admitted \cup {d}
  /\ UNCHANGED <<role, archived, project, review, deltas>>

InsertDelta(d) ==
  /\ d \in admitted
  /\ \E base \in DOMAIN commits, changed \in SUBSET ChangeIds :
       \E changes \in [changed -> ProposableChanges] :
         /\ DeltaSchema(changes)
         /\ deltas' = [e \in DOMAIN deltas \cup {d} |->
              IF e = d THEN [base |-> base, changes |-> changes] ELSE deltas[e]]
  /\ admitted' = admitted \ {d}
  /\ UNCHANGED <<role, archived, project, review>>

-----------------------------------------------------------------------------
(* MergeService.create *)

UsedRequestIds == DOMAIN requests \cup DOMAIN drafted

\* One review entry for each change the plan does not call a duplicate.
ReviewEntries(plan) ==
  [c \in Reviewable(plan) |->
     [current |-> plan[c].current, proposed |-> plan[c].proposal, resolution |-> None]]

ReadForRequest(u, r, d) ==
  LET current == GetSnapshot(head)
      entries == ReviewEntries(PlanFor(d, current))
  IN /\ r \notin UsedRequestIds /\ Cardinality(UnderWay \ {d}) < MaxUnderWay
     /\ d \in DOMAIN deltas
     /\ Authorized(u, "context:propose")
     /\ RequireActiveProject
     /\ PlanInputsValid(deltas[d], GetSnapshot(deltas[d].base), current)
     /\ drafted' = [q \in DOMAIN drafted \cup {r} |->
          IF q = r
          THEN [delta |-> d, base |-> deltas[d].base, evaluated |-> head,
                status |-> IF DOMAIN entries = {} THEN "ready" ELSE "reviewing",
                result |-> None, conflicts |-> entries]
          ELSE drafted[q]]
     /\ UNCHANGED <<role, archived, project, requests, finalizations, proposed>>

\* Mutant: the evaluated HEAD is read again when the request is inserted.
InsertRequestRestamped(r) ==
  /\ r \in DOMAIN drafted
  /\ requests' = [q \in DOMAIN requests \cup {r} |->
                    IF q = r THEN [drafted[r] EXCEPT !.evaluated = head] ELSE requests[q]]
  /\ drafted' = [q \in DOMAIN drafted \ {r} |-> drafted[q]]
  /\ UNCHANGED <<role, archived, project, finalizations, proposed>>

InsertRequest(r) ==
  /\ r \in DOMAIN drafted
  /\ requests' = [q \in DOMAIN requests \cup {r} |->
                    IF q = r THEN drafted[r] ELSE requests[q]]
  /\ drafted' = [q \in DOMAIN drafted \ {r} |-> drafted[q]]
  /\ UNCHANGED <<role, archived, project, finalizations, proposed>>

-----------------------------------------------------------------------------
(* MergeService.resolve *)

\* The topics whose risk decides who may choose this resolution.
ResolvedTopics(conflict, resolution) ==
  LET current == IF conflict.current = None THEN {} ELSE {conflict.current.topic}
      proposal == IF resolution.choice = "edit" THEN resolution.edited
                                                ELSE conflict.proposed
      selected == IF proposal = None THEN {} ELSE {proposal.topic}
  IN CASE resolution.choice = "keep_current" -> {}
       [] resolution.choice = "keep_alternative" -> selected
       [] OTHER -> current \cup selected

ResolutionIncludesHighRisk(conflict, resolution) ==
  ResolvedTopics(conflict, resolution) \cap HighRiskTopics # {}

\* An edit replaces the value only, and a deprecation has nothing to edit.
RebuiltEdits(conflict) ==
  IF conflict.proposed = None THEN {}
  ELSE {[conflict.proposed EXCEPT !.value = v] : v \in EditValues}

ResolutionsOf(u, conflict) ==
  {[choice |-> choice, edited |-> None, by |-> u] :
     choice \in {"keep_current", "accept_proposed", "keep_alternative"}}
  \cup {[choice |-> "edit", edited |-> e, by |-> u] : e \in RebuiltEdits(conflict)}

Unresolved(conflicts) == {c \in DOMAIN conflicts : conflicts[c].resolution = None}

Resolve(u, r, c) ==
  /\ Authorized(u, "context:review_low_risk")
  /\ RequireActiveProject
  /\ r \in DOMAIN requests
  /\ requests[r].status = "reviewing"
  /\ c \in DOMAIN requests[r].conflicts
  /\ LET conflict == requests[r].conflicts[c]
     IN \E resolution \in ResolutionsOf(u, conflict) :
          /\ ResolutionIncludesHighRisk(conflict, resolution)
               => Authorized(u, "context:approve_high_risk")
          /\ LET resolved == [requests[r].conflicts EXCEPT ![c].resolution = resolution]
             IN requests' = [requests EXCEPT
                  ![r].conflicts = resolved,
                  ![r].status = IF Unresolved(resolved) = {} THEN "ready" ELSE "reviewing"]
  /\ UNCHANGED <<role, archived, project, finalizations, drafted, proposed>>

-----------------------------------------------------------------------------
(* MergeService.finalize *)

\* Mutant: the approval given when resolving is trusted when finalizing.
AuthorizeOnlyWhenResolving(u, conflicts) == TRUE

AuthorizeResolvedChanges(u, conflicts) ==
  (\E c \in DOMAIN conflicts :
     /\ conflicts[c].resolution # None
     /\ ResolutionIncludesHighRisk(conflicts[c], conflicts[c].resolution))
  => Authorized(u, "context:approve_high_risk")

\* The reviewed changes that write something.
Written(plan, conflicts) ==
  {c \in Reviewable(plan) : conflicts[c].resolution.choice # "keep_current"}

StartsLineage(entry, resolution) ==
  resolution.choice = "keep_alternative" \/ entry.current = None

SelectedProposal(entry, resolution) ==
  CASE resolution.choice = "edit" -> resolution.edited
    [] resolution.choice = "keep_alternative" ->
         [entry.proposal EXCEPT !.authority = "alternative"]
    [] OTHER -> entry.proposal

\* A deprecation can be accepted only, and only over an existing item.
Materializable(change, entry, resolution) ==
  IF change.op = "deprecate"
  THEN resolution.choice # "keep_alternative" /\ entry.current # None
  ELSE SelectedProposal(entry, resolution) # None

CommitOperation(change, entry, resolution, proposal) ==
  IF StartsLineage(entry, resolution) THEN "add"
  ELSE IF change.op = "deprecate" THEN "deprecate"
  ELSE IF change.op = "supersede" \/ proposal.supersedes = VersionId(entry.current)
  THEN "supersede"
  ELSE "update"

MaterializeChange(source, change, entry, resolution, lineage, commit) ==
  LET proposal == SelectedProposal(entry, resolution)
      before == IF StartsLineage(entry, resolution) THEN None ELSE entry.current
      op == CommitOperation(change, entry, resolution, proposal)
      after ==
        IF change.op = "deprecate"
        THEN [before EXCEPT !.commit = commit, !.previous = VersionId(before),
                            !.lifecycle = "deprecated", !.supersedes = None]
        ELSE [lineage |-> lineage, commit |-> commit,
              previous |-> IF before = None THEN None ELSE VersionId(before),
              supersedes |-> IF op = "supersede" THEN VersionId(before) ELSE None,
              topic |-> proposal.topic, scope |-> proposal.scope,
              value |-> proposal.value, authority |-> proposal.authority,
              lifecycle |-> "active"]
  IN [source |-> source, op |-> op, lineage |-> lineage, before |-> before,
      after |-> after]

IsEffective(v) == v.lifecycle = "active" /\ v.authority = "authoritative"
EffectiveAuthoritative(items) == {v \in items : IsEffective(v)}

OneLineagePerSlot(items) ==
  \A v, w \in EffectiveAuthoritative(items) :
    SameContextSlot(v, w) => v.lineage = w.lineage

\* Mutant: only the batch is looked at, not what HEAD holds beside it.
EffectiveBatch(items, changes) == {change.after : change \in changes}

\* HEAD with the resolved batch applied.
Effective(items, changes) ==
  {v \in items : \A change \in changes : change.lineage # v.lineage}
  \cup {change.after : change \in changes}

\* contextCommitSchema: a version per lineage and an authoritative value per slot.
CommitSchema(changes) ==
  /\ \A a, b \in changes : a # b => a.lineage # b.lineage
  /\ \A a, b \in {change \in changes : IsEffective(change.after)} :
       a # b => ~SameContextSlot(a.after, b.after)

\* Mutant: the evaluated HEAD is not compared with HEAD.
FinalizableWhenStale(u, r, k) ==
  /\ Authorized(u, "context:review_low_risk")
  /\ r \in DOMAIN requests
  /\ Unresolved(requests[r].conflicts) = {}
  /\ AuthorizeResolvedChanges(u, requests[r].conflicts)
  /\ r \notin DOMAIN finalizations
  /\ RequireActiveProject
  /\ requests[r].status = "ready"
  /\ \A c \in DOMAIN commits : commits[c].key # <<r, k>>

\* The checks finalize makes before it writes.
Finalizable(u, r, k) ==
  /\ Authorized(u, "context:review_low_risk")
  /\ r \in DOMAIN requests
  /\ Unresolved(requests[r].conflicts) = {}
  /\ AuthorizeResolvedChanges(u, requests[r].conflicts)
  /\ r \notin DOMAIN finalizations
  /\ RequireActiveProject
  /\ requests[r].status = "ready"
  /\ requests[r].evaluated = head   \* and the caller's expectedHeadCommitId
  /\ \A c \in DOMAIN commits : commits[c].key # <<r, k>>

\* The changes materialized for commit id, one for each written entry.  New
\* lineages are fresh ids: any ids no committed item has, in any order.
MaterializedChanges(r, plan, id, fresh) ==
  LET conflicts == requests[r].conflicts
      Lineage(c) == IF StartsLineage(plan[c], conflicts[c].resolution)
                    THEN fresh[c] ELSE plan[c].current.lineage
  IN {MaterializeChange(c, deltas[requests[r].delta].changes[c], plan[c],
                        conflicts[c].resolution, Lineage(c), id) :
        c \in Written(plan, conflicts)}

\* Mutant: a new lineage may take an id that is in use.
FreshLineagesReused(r, plan) ==
  LET conflicts == requests[r].conflicts
      new == {c \in Written(plan, conflicts) :
                StartsLineage(plan[c], conflicts[c].resolution)}
  IN [new -> Lineages]

FreshLineages(r, plan) ==
  LET conflicts == requests[r].conflicts
      new == {c \in Written(plan, conflicts) :
                StartsLineage(plan[c], conflicts[c].resolution)}
  IN {f \in [new -> Lineages \ KnownLineages] :
        \A c, d \in new : c # d => f[c] # f[d]}

\* Every reviewable entry has its stored review, and can be written.
ReviewCovers(r, plan) ==
  LET conflicts == requests[r].conflicts
      delta == deltas[requests[r].delta]
  IN /\ Reviewable(plan) \subseteq DOMAIN conflicts
     /\ \A c \in Written(plan, conflicts) :
          Materializable(delta.changes[c], plan[c], conflicts[c].resolution)

\* Mutant: a request that changes nothing goes back to review.
FinalizedRequestReopened(r, status, result) ==
  requests' = [requests EXCEPT
    ![r].status = IF result = None THEN "reviewing" ELSE status, ![r].result = result]

FinalizedRequest(r, status, result) ==
  requests' = [requests EXCEPT ![r].status = status, ![r].result = result]

\* Mutant: the recorded result is the HEAD that was replaced.
RecordFinalizationOfOldHead(r, k, outcome, result) ==
  finalizations' = [q \in DOMAIN finalizations \cup {r} |->
    IF q = r THEN [key |-> <<r, k>>, outcome |-> outcome, result |-> head]
    ELSE finalizations[q]]

RecordFinalization(r, k, outcome, result) ==
  finalizations' = [q \in DOMAIN finalizations \cup {r} |->
    IF q = r THEN [key |-> <<r, k>>, outcome |-> outcome, result |-> result]
    ELSE finalizations[q]]

\* Mutant: the commit is put on the Base of the Delta.
NewCommitOnBase(u, r, k, changes) ==
  [parent |-> requests[r].base, version |-> version + 1, key |-> <<r, k>>,
   delta |-> requests[r].delta, by |-> u, changes |-> changes]

NewCommit(u, r, k, changes) ==
  [parent |-> head, version |-> version + 1, key |-> <<r, k>>,
   delta |-> requests[r].delta, by |-> u, changes |-> changes]

\* Mutant: deprecations leave the projection alone.
ProjectedWithoutDeprecations(changes, id) ==
  [l \in DOMAIN projection \cup {change.lineage : change \in changes} |->
     IF \E change \in changes : change.lineage = l /\ change.op # "deprecate"
     THEN <<l, id>> ELSE projection[l]]

\* The projection row of every changed lineage is set to its new version.
Projected(changes, id) ==
  [l \in DOMAIN projection \cup {change.lineage : change \in changes} |->
     IF \E change \in changes : change.lineage = l THEN <<l, id>> ELSE projection[l]]

FinalizeWithCommit(u, r, k, id) ==
  LET current == GetSnapshot(head)
      plan == PlanFor(requests[r].delta, current)
  IN /\ Finalizable(u, r, k)
     /\ id \in CommitIds \ DOMAIN commits
     /\ PlanInputsValid(deltas[requests[r].delta], GetSnapshot(requests[r].base), current)
     /\ ReviewCovers(r, plan)
     /\ \E fresh \in FreshLineages(r, plan) :
          LET changes == MaterializedChanges(r, plan, id, fresh)
          IN /\ changes # {}
             /\ OneLineagePerSlot(Effective(current.items, changes))
             /\ CommitSchema(changes)
             /\ commits' = [c \in DOMAIN commits \cup {id} |->
                  IF c = id THEN NewCommit(u, r, k, changes) ELSE commits[c]]
             /\ projection' = Projected(changes, id)
     /\ head' = id
     /\ version' = version + 1
     /\ FinalizedRequest(r, "committed", id)
     /\ RecordFinalization(r, k, "committed", id)
     /\ UNCHANGED <<role, archived, drafted, proposed>>

FinalizeWithoutChanges(u, r, k) ==
  LET current == GetSnapshot(head)
      plan == PlanFor(requests[r].delta, current)
  IN /\ Finalizable(u, r, k)
     /\ PlanInputsValid(deltas[requests[r].delta], GetSnapshot(requests[r].base), current)
     /\ ReviewCovers(r, plan)
     /\ Written(plan, requests[r].conflicts) = {}
     /\ OneLineagePerSlot(current.items)
     /\ FinalizedRequest(r, "rejected", None)
     /\ RecordFinalization(r, k, "no_changes", None)
     /\ UNCHANGED <<role, archived, project, drafted, proposed>>

\* What a retry of finalize answers with, once the request is finalized.
RetryAccepted(r, k) ==
  LET finalization == finalizations[r]
  IN /\ finalization.key = <<r, k>>
     /\ IF finalization.outcome = "no_changes"
        THEN requests[r].status = "rejected" /\ requests[r].result = None
        ELSE \E c \in DOMAIN commits :
               /\ commits[c].key = <<r, k>>
               /\ finalization.result = c /\ requests[r].result = c
               /\ commits[c].delta = requests[r].delta

-----------------------------------------------------------------------------
\* A project is created with its creator as owner and a genesis commit.
Init ==
  /\ MembershipInit
  /\ head = Genesis
  /\ version = 0
  /\ commits = [c \in {Genesis} |->
       [parent |-> None, version |-> 0, key |-> None, delta |-> None, by |-> None,
        changes |-> {}]]
  /\ projection = [l \in {} |-> None]
  /\ deltas = [d \in {} |-> None]
  /\ requests = [r \in {} |-> None]
  /\ finalizations = [r \in {} |-> None]
  /\ admitted = {}
  /\ drafted = [r \in {} |-> None]

Next ==
  \/ \E u \in Users, d \in DeltaIds : AdmitDelta(u, d)
  \/ \E d \in DeltaIds : InsertDelta(d)
  \/ \E u \in Users, r \in RequestIds, d \in DeltaIds : ReadForRequest(u, r, d)
  \/ \E r \in RequestIds : InsertRequest(r)
  \/ \E u \in Users, r \in RequestIds, c \in ChangeIds : Resolve(u, r, c)
  \/ \E u \in Users, r \in RequestIds, k \in ClientKeys, id \in CommitIds :
       FinalizeWithCommit(u, r, k, id)
  \/ \E u \in Users, r \in RequestIds, k \in ClientKeys : FinalizeWithoutChanges(u, r, k)
  \/ MembershipNext /\ UNCHANGED <<project, review, proposed>>

Spec == Init /\ [][Next]_vars

-----------------------------------------------------------------------------
(* Properties *)

Commit ==
  [parent : CommitIds \cup {None}, version : Nat, key : OperationKeys \cup {None},
   delta : DeltaIds \cup {None}, by : Users \cup {None}, changes : SUBSET CommitChange]

IsDelta(delta) ==
  /\ delta \in [base : CommitIds, changes : {delta.changes}]
  /\ IsPartial(delta.changes, ChangeIds, Change)

ReviewEntry ==
  [current : ItemVersion \cup {None}, proposed : Proposal \cup {None},
   resolution : Resolution \cup {None}]

IsMergeRequest(request) ==
  /\ request \in [delta : DOMAIN deltas, base : DOMAIN commits, evaluated : DOMAIN commits,
                  status : {"reviewing", "ready", "committed", "rejected"},
                  result : DOMAIN commits \cup {None}, conflicts : {request.conflicts}]
  /\ IsPartial(request.conflicts, ChangeIds, ReviewEntry)

MergeFinalization ==
  [key : OperationKeys, outcome : {"committed", "no_changes"},
   result : CommitIds \cup {None}]

\* Every stored row has the shape its schema gives it, and refers to rows that exist.
TypeOK ==
  /\ role \in [Users -> Roles \cup {None}]
  /\ archived \in BOOLEAN
  /\ IsPartial(commits, CommitIds, Commit)
  /\ head \in DOMAIN commits
  /\ version \in Nat
  /\ IsPartial(projection, Lineages, VersionIds)
  /\ IsFunctionOn(deltas, DeltaIds)
  /\ \A d \in DOMAIN deltas : IsDelta(deltas[d])
  /\ IsFunctionOn(requests, RequestIds)
  /\ \A r \in DOMAIN requests : IsMergeRequest(requests[r])
  /\ IsFunctionOn(drafted, RequestIds)
  /\ \A r \in DOMAIN drafted : IsMergeRequest(drafted[r])
  /\ IsPartial(finalizations, RequestIds, MergeFinalization)
  /\ admitted \in SUBSET DeltaIds

\* The history is one chain that ends at HEAD: versions count its commits and
\* no commit is left beside it, whatever finalizations raced (ADR 0003).
LinearHistory ==
  /\ commits[head].version = version
  /\ \A c, d \in DOMAIN commits : commits[c].version = commits[d].version => c = d
  /\ \A c \in DOMAIN commits \ {Genesis} :
       /\ commits[c].parent \in DOMAIN commits
       /\ commits[c].version = commits[commits[c].parent].version + 1
  /\ Chain(head) = DOMAIN commits

\* The incrementally maintained current_context_items table is what replaying
\* the commits of HEAD's chain gives.
ProjectionIsHead ==
  LET items == GetSnapshot(head).items
  IN /\ DOMAIN projection = {v.lineage : v \in items}
     /\ \A v \in items : projection[v.lineage] = VersionId(v)

\* A commit replaces the version that was current in its parent, and starts
\* only lineages the parent does not have: no update is lost, no lineage forks.
LineagesNeverFork ==
  \A c \in DOMAIN commits \ {Genesis} :
    LET items == GetSnapshot(commits[c].parent).items
    IN \A change \in commits[c].changes :
         IF change.before = None
         THEN \A v \in items : v.lineage # change.lineage
         ELSE change.before \in items /\ change.after.previous = VersionId(change.before)

\* No snapshot has two active authoritative lineages in one context slot.
OneAuthoritativePerSlot ==
  \A c \in DOMAIN commits : OneLineagePerSlot(GetSnapshot(c).items)

\* However many requests are opened for a Delta, one commit at most applies it.
DeltaAppliedOnce ==
  \A c, d \in DOMAIN commits \ {Genesis} : commits[c].delta = commits[d].delta => c = d

\* While HEAD is where a request was evaluated, computing its plan again gives
\* the entries that were put to review, so finalize never finds them diverged.
PlanStaysReviewed ==
  \A r \in DOMAIN requests :
    requests[r].status \in {"reviewing", "ready"} /\ requests[r].evaluated = head =>
      LET plan == PlanFor(requests[r].delta, GetSnapshot(head))
          conflicts == requests[r].conflicts
      IN /\ Reviewable(plan) = DOMAIN conflicts
         /\ \A c \in DOMAIN conflicts :
              /\ plan[c].current = conflicts[c].current
              /\ plan[c].proposal = conflicts[c].proposed

\* A commit contains exactly what its reviewers decided: one change for each
\* entry not kept, over the version they were shown, with the value they chose.
AgreesWithReview(change, row) ==
  CASE row.resolution.choice = "accept_proposed" ->
         /\ change.before = row.current
         /\ IF row.proposed = None THEN change.after.lifecycle = "deprecated"
            ELSE change.after.value = row.proposed.value
    [] row.resolution.choice = "edit" ->
         /\ change.before = row.current
         /\ change.after.value = row.resolution.edited.value
         /\ SameContextSlot(change.after, row.proposed)
    [] row.resolution.choice = "keep_alternative" ->
         /\ change.before = None
         /\ change.after.authority = "alternative"
         /\ change.after.value = row.proposed.value
    [] OTHER -> FALSE

CommittedAsReviewed ==
  \A r \in DOMAIN requests :
    requests[r].status = "committed" =>
      LET changes == commits[requests[r].result].changes
          conflicts == requests[r].conflicts
      IN /\ {change.source : change \in changes}
              = {c \in DOMAIN conflicts : conflicts[c].resolution.choice # "keep_current"}
         /\ \A change \in changes : AgreesWithReview(change, conflicts[change.source])

\* A retry of finalize with the same key is answered with the recorded outcome
\* and one with another key is refused, also after later commits; terminal
\* requests and finalizations are the same set.
FinalizationsReplay ==
  /\ \A r \in DOMAIN finalizations, k \in ClientKeys :
       RetryAccepted(r, k) <=> finalizations[r].key = <<r, k>>
  /\ DOMAIN finalizations =
       {r \in DOMAIN requests : requests[r].status \in {"committed", "rejected"}}
  /\ \A c \in DOMAIN commits \ {Genesis} :
       \E r \in DOMAIN finalizations :
         finalizations[r].result = c /\ finalizations[r].key = commits[c].key

\* A commit that adds, changes or deprecates high-risk context is made by a
\* member who is an owner at that moment, not merely when the review was done.
HighRiskTopicsOf(change) ==
  HighRiskTopics \cap
    ({change.after.topic} \cup (IF change.before = None THEN {} ELSE {change.before.topic}))

HighRiskByOwner ==
  [][\A c \in DOMAIN commits' \ DOMAIN commits :
       (\E change \in commits'[c].changes : HighRiskTopicsOf(change) # {})
         => role[commits'[c].by] = "owner"]_vars

\* Requests move along the table of domain/merge.ts, which the services never
\* consult, and what was reviewed is frozen once the request is ready.
RequestTransitions ==
  {<<"reviewing", "ready">>, <<"reviewing", "rejected">>,
   <<"ready", "committed">>, <<"ready", "rejected">>}

RequestsMoveForward ==
  [][\A r \in DOMAIN requests :
       LET old == requests[r]
           new == requests'[r]
       IN /\ r \in DOMAIN requests'
          /\ old.status # new.status => <<old.status, new.status>> \in RequestTransitions
          /\ old.status # "reviewing" => new.conflicts = old.conflicts
          /\ new.evaluated = old.evaluated]_vars

\* A clean verdict never overwrites work the proposer did not see: it keeps the
\* version the proposal names, or it is an expansion that keeps every field of
\* the current object.  (Reviewers see clean entries as uncontested.)
CleanKeepsConcurrentWork ==
  \A d \in DOMAIN deltas :
    LET current == GetSnapshot(head)
        plan == PlanFor(d, current)
        Seen(c) == {deltas[d].changes[c].expected}
                     \cup (IF deltas[d].changes[c].op = "deprecate" THEN {}
                          ELSE {deltas[d].changes[c].proposal.supersedes})
    IN \A c \in DOMAIN plan :
         plan[c].verdict = "clean" /\ plan[c].current # None =>
           \/ VersionId(plan[c].current) \in Seen(c)
           \/ LET old == plan[c].current.value
                  new == plan[c].proposal.value
              IN \A field \in DOMAIN old : field \in DOMAIN new /\ new[field] = old[field]

\* ContextMerge implements the append-only history it promises.
AppliedDeltas ==
  [i \in 1..version |->
     commits[CHOOSE c \in DOMAIN commits : commits[c].version = i].delta]

History == INSTANCE ContextHistory
             WITH Deltas <- DeltaIds, log <- AppliedDeltas, items <- GetSnapshot(head).items

ImplementsHistory == History!Spec

-----------------------------------------------------------------------------
(* What the repository says of the program and the program does not do. *)

\* "The archived project is read-only." (authorization.ts:62)
ArchivedProjectIsReadOnly ==
  [][archived => UNCHANGED <<project, deltas, requests, finalizations>>]_vars

\* "Proposed equals Current: no-op duplicate" (docs/merge-semantics.md:26): an
\* addition whose very value is in force already is a duplicate.
EqualValueIsDuplicate ==
  \A d \in DOMAIN deltas :
    LET current == GetSnapshot(head)
        plan == PlanFor(d, current)
    IN \A c \in DOMAIN plan :
         LET change == deltas[d].changes[c]
         IN /\ change.op = "add"
            /\ \E v \in EffectiveAuthoritative(current.items) :
                 SameProposalValue(v, change.proposal)
            => plan[c].verdict = "duplicate"
=============================================================================
