------------------------------- MODULE AgentRun -------------------------------
(***************************************************************************)
(* Agent runs: a manager picks a specialty, a specialist proposes a Delta, *)
(* and a proposal of high-risk context waits for an owner.                 *)
(*                                                                         *)
(* A call of ScopedAgentService is a chain of transactions and model calls *)
(* with nothing held in between: it works on the row it last saw.  No      *)
(* transaction here locks the project, so each is two steps: what it has   *)
(* checked, then what it writes.  The process may die, or the client give  *)
(* up, between any two (Lose).  A step that is refused ends the call.      *)
(*                                                                         *)
(* Evidence, prompts, specialties and the research tool only decide        *)
(* whether an execution fails; a proposal is kept as its risk.  A run      *)
(* proposes at most one Delta, so a run id stands for its Delta's id too.  *)
(***************************************************************************)
EXTENDS Membership, Sequences, Naturals

CONSTANTS
  RunIds,  \* agent run ids; each is taken once
  Calls    \* bound on the calls under way at the same time

ASSUME RunAssumption == None \notin RunIds \cup {"low", "high"}

VARIABLES
  runs,    \* agent_runs
  deltas,  \* context_deltas: the runs whose proposal is stored
  audit,   \* audit_events of each run, in order
  calls    \* what each call holds in memory, None when there is none

tables == <<runs, deltas, audit>>
members == <<role, archived>>
vars == <<members, tables, calls>>

-----------------------------------------------------------------------------
(* Rows *)

ExpectedStatus ==
  [queued |-> "queued", selecting |-> "running", executing |-> "running",
   awaiting_approval |-> "awaiting_approval", completed |-> "completed",
   failed |-> "failed", cancelled |-> "cancelled"]

Phases == DOMAIN ExpectedStatus
Statuses == {ExpectedStatus[p] : p \in Phases}
Terminal == {"completed", "failed", "cancelled"}

Approval == [decision : {"approved", "rejected"}, by : Users]

AgentRunRow ==
  [phase : Phases, version : Nat, proposal : {"low", "high", None},
   approval : Approval \cup {None}, cancelledBy : Users \cup {None}]

Status(row) == ExpectedStatus[row.phase]

AllowedRunTransitions ==
  {<<"queued", "running">>, <<"queued", "cancelled">>}
  \cup ({"running"} \X {"running", "awaiting_approval", "completed", "failed", "cancelled"})
  \cup ({"awaiting_approval"} \X {"completed", "cancelled"})

InitialRow ==
  [phase |-> "queued", version |-> 0, proposal |-> None, approval |-> None,
   cancelledBy |-> None]

WithPhase(row, phase) == [row EXCEPT !.phase = phase, !.version = @ + 1]

Proposed(row, risk) ==
  [WithPhase(row, IF risk = "high" THEN "awaiting_approval" ELSE "completed")
     EXCEPT !.proposal = risk]

Decided(row, decision, u) ==
  [WithPhase(row, IF decision = "approved" THEN "completed" ELSE "cancelled")
     EXCEPT !.approval = [decision |-> decision, by |-> u]]

\* Mutant: nobody is named.
CancelledByNobody(row, u) == WithPhase(row, "cancelled")

Cancelled(row, u) == [WithPhase(row, "cancelled") EXCEPT !.cancelledBy = u]

-----------------------------------------------------------------------------
(* Calls *)

Kinds == {"start", "approve", "reject", "cancel", "reconcile"}

\* To write the run.
WritePermission ==
  [start |-> "agent:run", cancel |-> "agent:run", reconcile |-> "agent:run",
   approve |-> "context:approve_high_risk", reject |-> "context:review_low_risk"]

\* To record its outcome.
OutcomePermissions ==
  [start |-> {"agent:run", "context:propose"}, reconcile |-> {"agent:run", "context:propose"},
   cancel |-> {"agent:run"}, approve |-> {"context:approve_high_risk", "context:propose"},
   reject |-> {"context:review_low_risk"}]

OutcomeAction ==
  [start |-> "started", reconcile |-> "reconciled", cancel |-> "cancelled",
   approve |-> "resumed", reject |-> "resumed"]

AuditEvent == [action : {"started", "reconciled", "cancelled", "resumed"}, persisted : BOOLEAN]

\* "look": will read the run for a caller whose role lets it decide nothing; "load": for
\* one who may.
Stages ==
  {"look", "load", "admit", "write", "select", "execute", "record", "publish", "answered"}

\* seen is the row as the call last saw it, next the row it is about to write,
\* replayed that it decides nothing and records what is there, absent that it
\* found no Delta.
Call ==
  [kind : Kinds, by : Users, run : RunIds, at : Stages,
   seen : AgentRunRow \cup {None}, next : AgentRunRow \cup {None},
   replayed : BOOLEAN, absent : BOOLEAN]

At(c, stage) == calls[c] # None /\ calls[c].at = stage

NewCall(kind, u, r, stage, next) ==
  [kind |-> kind, by |-> u, run |-> r, at |-> stage, seen |-> None, next |-> next,
   replayed |-> kind = "reconcile", absent |-> FALSE]

\* null is no row and no call.
ASSUME NothingAssumption == None \notin Approval \cup AgentRunRow \cup Call

\* The call intends to write next over the row it has seen.
Intends(c, next) ==
  calls' = [calls EXCEPT ![c].at = "admit", ![c].next = next]

UsedRunIds == DOMAIN runs \cup {calls[c].run : c \in {d \in Calls : calls[d] # None}}

\* ScopedAgentService.start reads the scope.
Start(c, u, r) ==
  /\ calls[c] = None /\ r \notin UsedRunIds
  /\ Authorized(u, "agent:run")
  /\ RequireActiveProject
  /\ calls' = [calls EXCEPT ![c] = NewCall("start", u, r, "admit", InitialRow)]
  /\ UNCHANGED <<members, tables>>

\* What a call asks of the caller's role before it has seen the run.
AskPermissions(kind) ==
  IF kind = "reconcile" THEN {"agent:run", "context:propose"} ELSE {"project:read"}

\* resume, cancel and reconcile read the caller's role before the run; the workflow holds
\* them to the role they read.
Ask(c, kind, u, r) ==
  /\ calls[c] = None /\ r \in DOMAIN runs
  /\ \A p \in AskPermissions(kind) : Authorized(u, p)
  /\ RequireActiveProject
  /\ LET stage == IF Authorized(u, WritePermission[kind]) THEN "load" ELSE "look"
     IN calls' = [calls EXCEPT ![c] = NewCall(kind, u, r, stage, None)]
  /\ UNCHANGED <<members, tables>>

Already(kind, row) ==
  \/ kind = "reconcile" /\ row.phase = "completed" /\ row.proposal # None
  \/ /\ kind = "approve" /\ row.phase = "completed"
     /\ row.approval # None /\ row.approval.decision = "approved"

\* Mutant: an approval that was already given is answered like a rejection.
AnsweredWhenDecided(kind, row) ==
  \/ kind = "reject" /\ row.phase = "cancelled" /\ row.approval # None
  \/ kind = "approve" /\ row.phase = "completed" /\ row.approval # None

AnsweredAsIs(kind, row) ==
  kind = "reject" /\ row.phase = "cancelled" /\ row.approval # None

Load(c) ==
  LET call == calls[c]
      row == runs[call.run]
  IN /\ At(c, "look") \/ At(c, "load")
     /\ \/ /\ AnsweredAsIs(call.kind, row)
           /\ calls' = [calls EXCEPT ![c].at = "answered", ![c].seen = row]
        \/ /\ Already(call.kind, row) /\ ~AnsweredAsIs(call.kind, row)
           /\ calls' = [calls EXCEPT ![c].at = "record", ![c].seen = row, ![c].replayed = TRUE]
        \/ /\ call.at = "load" /\ call.kind \in {"approve", "reject"}
           /\ row.phase = "awaiting_approval"
           /\ calls' = [calls EXCEPT ![c].at = "admit", ![c].seen = row,
                ![c].next = Decided(row, IF call.kind = "approve" THEN "approved" ELSE "rejected",
                                    call.by)]
        \/ /\ call.at = "load" /\ call.kind = "cancel" /\ Status(row) \notin Terminal
           /\ calls' = [calls EXCEPT ![c].at = "admit", ![c].seen = row,
                ![c].next = Cancelled(row, call.by)]
     /\ UNCHANGED <<members, tables>>

\* The check that begins the transaction of an insert or an update.
Admit(c) ==
  /\ At(c, "admit")
  /\ Authorized(calls[c].by, WritePermission[calls[c].kind])
  /\ RequireActiveProject
  /\ calls' = [calls EXCEPT ![c].at = "write"]
  /\ UNCHANGED <<members, tables>>

InsertAgentRun(c) ==
  LET call == calls[c]
  IN /\ At(c, "write") /\ call.seen = None
     /\ runs' = [r \in DOMAIN runs \cup {call.run} |->
                   IF r = call.run THEN InitialRow ELSE runs[r]]
     /\ calls' = [calls EXCEPT ![c].at = "admit", ![c].seen = InitialRow,
                               ![c].next = WithPhase(InitialRow, "selecting")]
     /\ UNCHANGED <<members, deltas, audit>>

\* The UPDATE finds the version that was seen, and the trigger lets it pass.
UpdateMatches(row, seen, next) ==
  /\ row.version = seen.version
  /\ next.version = row.version + 1
  /\ <<Status(row), Status(next)>> \in AllowedRunTransitions

\* What the workflow does once its update is saved.
StageAfter(phase) ==
  CASE phase = "selecting" -> "select"
    [] phase = "executing" -> "execute"
    [] OTHER -> "record"

UpdateAgentRun(c) ==
  LET call == calls[c]
  IN /\ At(c, "write") /\ call.seen # None
     /\ UpdateMatches(runs[call.run], call.seen, call.next)
     /\ runs' = [runs EXCEPT ![call.run] = call.next]
     /\ calls' = [calls EXCEPT ![c].at = StageAfter(call.next.phase),
                               ![c].seen = call.next, ![c].next = None]
     /\ UNCHANGED <<members, deltas, audit>>

\* Mutant: the call that fails is not caught.
SelectUncaught(c) ==
  /\ At(c, "select")
  /\ Intends(c, WithPhase(calls[c].seen, "executing")) \/ calls' = [calls EXCEPT ![c] = None]
  /\ UNCHANGED <<members, tables>>

\* The manager's answer, or the failure to get a usable one.
SelectSpecialty(c) ==
  /\ At(c, "select")
  /\ \E phase \in {"executing", "failed"} : Intends(c, WithPhase(calls[c].seen, phase))
  /\ UNCHANGED <<members, tables>>

ExecutionResults(row) == {WithPhase(row, "failed"), Proposed(row, "low"), Proposed(row, "high")}

\* The research tool and the specialist, and what their answers make.
Execute(c) ==
  /\ At(c, "execute")
  /\ \E next \in ExecutionResults(calls[c].seen) : Intends(c, next)
  /\ UNCHANGED <<members, tables>>

-----------------------------------------------------------------------------
(* recordOutcome: the Delta of a completed run, and the audit event *)

\* Mutant: whatever was proposed is published.
PublishesAnyProposal(row) == row.proposal # None

Publishes(row) == Status(row) = "completed" /\ row.proposal # None

RecordOutcome(c) ==
  LET call == calls[c]
      row == runs[call.run]
  IN /\ At(c, "record")
     /\ \A p \in OutcomePermissions[call.kind] : Authorized(call.by, p)
     /\ RequireActiveProject
     /\ row.version = call.seen.version /\ Status(row) = Status(call.seen)
     /\ calls' = [calls EXCEPT ![c].at = "publish", ![c].absent = call.run \notin deltas]
     /\ UNCHANGED <<members, tables>>

\* Mutant: an insert that meets the same Delta does nothing.
InsertOrIgnore(r) == TRUE

\* The primary key refuses a second insert.
InsertDelta(r) == r \notin deltas

AuditOutcome(r, action, persisted) ==
  audit' = [audit EXCEPT ![r] = Append(@, [action |-> action, persisted |-> persisted])]

Publish(c) ==
  LET call == calls[c]
      persists == call.absent /\ Publishes(call.seen)
      action == IF call.replayed THEN "reconciled" ELSE OutcomeAction[call.kind]
  IN /\ At(c, "publish")
     /\ IF persists
        THEN InsertDelta(call.run) /\ deltas' = deltas \cup {call.run}
        ELSE UNCHANGED deltas
     /\ IF call.replayed /\ ~persists
        THEN UNCHANGED audit
        ELSE AuditOutcome(call.run, action, persists)
     /\ calls' = [calls EXCEPT ![c].at = "answered"]
     /\ UNCHANGED <<members, runs>>

\* The call is answered, refused, given up, or its process dies.
Lose(c) ==
  /\ calls[c] # None
  /\ calls' = [calls EXCEPT ![c] = None]
  /\ UNCHANGED <<members, tables>>

-----------------------------------------------------------------------------
Init ==
  /\ MembershipInit
  /\ runs = [r \in {} |-> None]
  /\ deltas = {}
  /\ audit = [r \in RunIds |-> <<>>]
  /\ calls = [c \in Calls |-> None]

\* What a call does by itself once it was made.
Proceed(c) ==
  \/ Load(c) \/ Admit(c) \/ InsertAgentRun(c) \/ UpdateAgentRun(c)
  \/ SelectSpecialty(c) \/ Execute(c) \/ RecordOutcome(c) \/ Publish(c)

\* What calls do while no process dies and no role changes.
Serve ==
  \/ \E c \in Calls, u \in Users, r \in RunIds : Start(c, u, r)
  \/ \E c \in Calls, kind \in Kinds \ {"start"}, u \in Users, r \in RunIds : Ask(c, kind, u, r)
  \/ \E c \in Calls : Proceed(c)

Next ==
  \/ Serve
  \/ \E c \in Calls : Lose(c)
  \/ MembershipNext /\ UNCHANGED <<tables, calls>>

Spec == Init /\ [][Next]_vars

-----------------------------------------------------------------------------
(* Properties *)

CallTyped(call) ==
  /\ call \in Call
  /\ call.run \in DOMAIN runs \/ (call.kind = "start" /\ call.seen = None)
  /\ call.at \in {"select", "execute", "record", "publish", "answered"} => call.seen # None
  /\ call.at \in {"admit", "write"} => call.next # None

\* The parts of a run's state agree with its phase: what agentWorkflowStateSchema
\* demands, and that nothing is proposed or decided before execution ends.
StateConsistent(row) ==
  /\ row.phase \in {"queued", "selecting", "executing", "failed"} =>
       row.proposal = None /\ row.approval = None
  /\ row.phase \in {"awaiting_approval", "completed"} => row.proposal # None
  /\ row.phase = "awaiting_approval" => row.proposal = "high"
  /\ row.approval # None => row.proposal = "high"
  /\ row.phase = "cancelled" <=>
       row.cancelledBy # None \/ (row.approval # None /\ row.approval.decision = "rejected")

\* Every stored run is consistent, rows refer to rows that exist, and a call has
\* read the run by the time it works on what it read.
TypeOK ==
  /\ role \in [Users -> Roles \cup {None}] /\ archived \in BOOLEAN
  /\ DOMAIN runs \subseteq RunIds
  /\ \A r \in DOMAIN runs : runs[r] \in AgentRunRow /\ StateConsistent(runs[r])
  /\ deltas \subseteq DOMAIN runs
  /\ audit \in [RunIds -> Seq(AuditEvent)]
  /\ DOMAIN calls = Calls
  /\ \A c \in Calls : calls[c] # None => CallTyped(calls[c])

\* A stored Delta of an agent comes from a run that completed, and if it needed
\* an approval, from one that was approved: whatever the order in which
\* execution, decisions, cancellations and repairs interleave.
OnlyCompletedPublished ==
  \A r \in deltas :
    /\ Status(runs[r]) = "completed"
    /\ runs[r].proposal = "high" => runs[r].approval # None /\ runs[r].approval.decision = "approved"

\* Exactly one audit event says that a run's proposal was stored, however many
\* approvals and reconciliations of it are retried at the same time.
PublicationAuditedOnce ==
  \A r \in RunIds :
    LET persisted == {i \in DOMAIN audit[r] : audit[r][i].persisted}
    IN IF r \in deltas THEN \E i \in persisted : persisted = {i} ELSE persisted = {}

\* A caller who is told that a run completed finds its Delta stored: start,
\* approve (the first time or again) and reconcile answer only after it is.
CompletionAnsweredIsStored ==
  \A c \in Calls :
    At(c, "answered") /\ Status(calls[c].seen) = "completed" => calls[c].run \in deltas

\* A run moves along the transitions of its table only, one version at a time,
\* and what it ended as, and who decided that, is final.  The continuation of a
\* model call that was overtaken changes nothing.
RunsMoveForward ==
  [][\A r \in DOMAIN runs :
       \/ runs'[r] = runs[r]
       \/ /\ <<Status(runs[r]), Status(runs'[r])>> \in AllowedRunTransitions
          /\ runs'[r].version = runs[r].version + 1
          /\ runs[r].proposal # None => runs'[r].proposal = runs[r].proposal]_vars

\* The promise of AgentOutcome is kept.
OutcomeOf(r) ==
  IF r \notin DOMAIN runs THEN "none"
  ELSE CASE Status(runs[r]) \in {"queued", "running"}    -> "open"
         [] Status(runs[r]) = "awaiting_approval"        -> "held"
         [] Status(runs[r]) = "completed"                -> "completed"
         [] OTHER                                        -> "dropped"

Promise == INSTANCE AgentOutcome WITH
  outcome <- [r \in RunIds |-> OutcomeOf(r)], published <- deltas

KeepsPromise == Promise!Spec

\* AuditEvent records management and semantic actions: a run that somebody
\* cancelled, and that no call is working on, has its event.
CancellationsAudited ==
  \A r \in DOMAIN runs :
    /\ runs[r].cancelledBy # None
    /\ \A c \in Calls : calls[c] # None => calls[c].run # r
    => \E i \in DOMAIN audit[r] : audit[r][i].action = "cancelled"
=============================================================================
