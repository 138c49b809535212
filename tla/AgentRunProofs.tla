--------------------------- MODULE AgentRunProofs ---------------------------
(***************************************************************************)
(* Proofs about AgentRun.  What a call remembers is the key: the row it    *)
(* has seen is the stored row unless the version has moved on, and a       *)
(* terminal row it has seen is the stored row for ever.                    *)
(***************************************************************************)
EXTENDS AgentRun, TLAPS

ApprovedIfRequired(row) ==
  row.phase = "completed" /\ row.proposal = "high" =>
    row.approval # None /\ row.approval.decision = "approved"

\* The row a call has seen, against the row that is stored.
SeenIsPast(seen, row) ==
  /\ seen \in AgentRunRow /\ StateConsistent(seen)
  /\ seen.version <= row.version
  /\ seen.version = row.version => seen = row
  /\ Status(seen) \in Terminal => seen = row

\* The row a call means to write, against the one it has seen.
NextFollows(seen, next) ==
  /\ next \in AgentRunRow /\ StateConsistent(next) /\ ApprovedIfRequired(next)
  /\ next.version = seen.version + 1
  /\ <<Status(seen), Status(next)>> \in AllowedRunTransitions
  /\ seen.proposal # None => next.proposal = seen.proposal

Inserting(call) == call.kind = "start" /\ call.seen = None

CallInv(call) ==
  /\ Inserting(call) => call.at \in {"admit", "write"} /\ call.run \notin DOMAIN runs
  /\ ~Inserting(call) => call.run \in DOMAIN runs
  /\ call.seen = None => Inserting(call) \/ call.at \in {"look", "load"}
  /\ call.seen # None => SeenIsPast(call.seen, runs[call.run])
  /\ call.seen # None /\ call.at \in {"admit", "write"} => NextFollows(call.seen, call.next)
  /\ call.at = "select" => call.seen.phase = "selecting"
  /\ call.at = "execute" => call.seen.phase = "executing"
  /\ call.at = "publish" /\ ~call.absent => call.run \in deltas
  /\ call.at = "answered" /\ Status(call.seen) = "completed" => call.run \in deltas

RunsInv == \A r \in DOMAIN runs : ApprovedIfRequired(runs[r])

CallsInv == \A c \in Calls : calls[c] # None => CallInv(calls[c])

\* No two calls insert the same run.
InsertsDiffer ==
  \A c, d \in Calls :
    c # d /\ calls[c] # None /\ calls[d] # None /\ Inserting(calls[c]) /\ Inserting(calls[d])
      => calls[c].run # calls[d].run

AgentInv ==
  TypeOK /\ RunsInv /\ CallsInv /\ InsertsDiffer /\ OnlyCompletedPublished /\ PublicationAuditedOnce

-----------------------------------------------------------------------------
(* Rows *)

LEMMA RowPhases ==
  ASSUME NEW row \in AgentRunRow, NEW phase \in Phases
  PROVE  /\ WithPhase(row, phase) \in AgentRunRow
         /\ WithPhase(row, phase).version = row.version + 1
         /\ WithPhase(row, phase).phase = phase
         /\ WithPhase(row, phase).proposal = row.proposal
         /\ WithPhase(row, phase).approval = row.approval
         /\ WithPhase(row, phase).cancelledBy = row.cancelledBy
<1> DEFINE next == WithPhase(row, phase)
<1>1. next = [row EXCEPT !.phase = phase, !.version = row.version + 1]
  BY DEF WithPhase, AgentRunRow
<1>2. row.version + 1 \in Nat
  BY DEF AgentRunRow
<1>3. next \in AgentRunRow
  BY <1>1, <1>2 DEF AgentRunRow
<1>. QED BY <1>1, <1>3 DEF AgentRunRow

LEMMA StatusOf ==
  /\ \A row \in AgentRunRow :
       /\ row.phase = "queued" => Status(row) = "queued"
       /\ row.phase \in {"selecting", "executing"} => Status(row) = "running"
       /\ row.phase = "awaiting_approval" => Status(row) = "awaiting_approval"
       /\ row.phase = "completed" => Status(row) = "completed"
       /\ row.phase = "failed" => Status(row) = "failed"
       /\ row.phase = "cancelled" => Status(row) = "cancelled"
       /\ row.phase \in {"queued", "selecting", "executing", "awaiting_approval", "completed",
                         "failed", "cancelled"}
BY DEF AgentRunRow, Status, ExpectedStatus, Phases

LEMMA PhaseNames ==
  Phases = {"queued", "selecting", "executing", "awaiting_approval", "completed", "failed",
            "cancelled"}
BY DEF Phases, ExpectedStatus

LEMMA RowsWork ==
  ASSUME NEW row \in AgentRunRow, StateConsistent(row), NEW phase \in Phases,
         \/ row.phase = "queued" /\ phase = "selecting"
         \/ row.phase = "selecting" /\ phase \in {"executing", "failed"}
         \/ row.phase = "executing" /\ phase = "failed"
  PROVE  NextFollows(row, WithPhase(row, phase))
<1> DEFINE next == WithPhase(row, phase)
<1>1. /\ next \in AgentRunRow /\ next.version = row.version + 1 /\ next.phase = phase
      /\ next.proposal = row.proposal /\ next.approval = row.approval
      /\ next.cancelledBy = row.cancelledBy
  BY RowPhases
<1> HIDE DEF next
<1>2. <<Status(row), Status(next)>> \in AllowedRunTransitions
  BY <1>1, StatusOf DEF AllowedRunTransitions
<1>3. StateConsistent(next) /\ ApprovedIfRequired(next)
  BY <1>1 DEF StateConsistent, ApprovedIfRequired
<1>4. NextFollows(row, next)
  BY <1>1, <1>2, <1>3 DEF NextFollows
<1>. QED BY <1>4 DEF next

LEMMA RowsProposed ==
  ASSUME NEW row \in AgentRunRow, StateConsistent(row), row.phase = "executing",
         NEW risk \in {"low", "high"}
  PROVE  NextFollows(row, Proposed(row, risk))
<1> DEFINE phase == IF risk = "high" THEN "awaiting_approval" ELSE "completed"
           next == Proposed(row, risk)
<1>1. phase \in Phases
  BY PhaseNames
<1>2. /\ next \in AgentRunRow /\ next.version = row.version + 1 /\ next.phase = phase
      /\ next.proposal = risk /\ next.approval = row.approval
      /\ next.cancelledBy = row.cancelledBy
  BY <1>1, RowPhases DEF Proposed, AgentRunRow
<1> HIDE DEF next
<1>3. <<Status(row), Status(next)>> \in AllowedRunTransitions
  BY <1>2, StatusOf DEF AllowedRunTransitions
<1>4. StateConsistent(next) /\ ApprovedIfRequired(next)
  BY <1>2, RunAssumption DEF StateConsistent, ApprovedIfRequired
<1>5. NextFollows(row, next)
  BY <1>2, <1>3, <1>4 DEF NextFollows, StateConsistent
<1>. QED BY <1>5 DEF next

LEMMA RowsDecided ==
  ASSUME NEW row \in AgentRunRow, StateConsistent(row), NEW u \in Users,
         row.phase = "awaiting_approval", NEW decision \in {"approved", "rejected"}
  PROVE  NextFollows(row, Decided(row, decision, u))
<1> DEFINE phase == IF decision = "approved" THEN "completed" ELSE "cancelled"
           approval == [decision |-> decision, by |-> u]
           next == Decided(row, decision, u)
<1>1. phase \in Phases /\ approval \in Approval /\ approval # None
  BY PhaseNames, NothingAssumption DEF Approval
<1>2. /\ next \in AgentRunRow /\ next.version = row.version + 1 /\ next.phase = phase
      /\ next.proposal = row.proposal /\ next.approval = approval
      /\ next.cancelledBy = row.cancelledBy
  BY <1>1, RowPhases DEF Decided, AgentRunRow
<1> HIDE DEF next
<1>3. <<Status(row), Status(next)>> \in AllowedRunTransitions
  BY <1>2, StatusOf DEF AllowedRunTransitions
<1>4. StateConsistent(next) /\ ApprovedIfRequired(next)
  BY <1>1, <1>2, RunAssumption DEF StateConsistent, ApprovedIfRequired
<1>5. NextFollows(row, next)
  BY <1>2, <1>3, <1>4 DEF NextFollows
<1>. QED BY <1>5 DEF next

LEMMA RowsCancelled ==
  ASSUME NEW row \in AgentRunRow, StateConsistent(row), NEW u \in Users,
         Status(row) \notin Terminal
  PROVE  NextFollows(row, Cancelled(row, u))
<1> DEFINE next == Cancelled(row, u)
<1>0. "cancelled" \in Phases
  BY PhaseNames
<1>1. /\ next \in AgentRunRow /\ next.version = row.version + 1 /\ next.phase = "cancelled"
      /\ next.proposal = row.proposal /\ next.approval = row.approval
      /\ next.cancelledBy = u
  BY <1>0, RowPhases DEF Cancelled, AgentRunRow
<1> HIDE DEF next
<1>2. <<Status(row), Status(next)>> \in AllowedRunTransitions
  BY <1>1, StatusOf DEF AllowedRunTransitions, Terminal
<1>3. StateConsistent(next) /\ ApprovedIfRequired(next)
  BY <1>1, MemberAssumption DEF StateConsistent, ApprovedIfRequired
<1>4. NextFollows(row, next)
  BY <1>1, <1>2, <1>3 DEF NextFollows
<1>. QED BY <1>4 DEF next

LEMMA TerminalStays ==
  ASSUME NEW row, NEW next, Status(row) \in Terminal
  PROVE  <<Status(row), Status(next)>> \notin AllowedRunTransitions
BY DEF AllowedRunTransitions, Terminal

-----------------------------------------------------------------------------
(* Steps that change what one call remembers, and no table *)

LEMMA CallStep ==
  ASSUME AgentInv, NEW c \in Calls, NEW new, UNCHANGED <<members, tables>>,
         calls' = [calls EXCEPT ![c] = new],
         new # None => CallTyped(new) /\ CallInv(new),
         new # None /\ Inserting(new) =>
           \A d \in Calls \ {c} :
             calls[d] # None /\ Inserting(calls[d]) => calls[d].run # new.run
  PROVE  AgentInv'
<1>1. DOMAIN calls' = Calls /\ \A d \in Calls : calls'[d] = IF d = c THEN new ELSE calls[d]
  BY DEF AgentInv, TypeOK
<1>3. \A d \in Calls : calls[d] # None => CallTyped(calls[d]) /\ CallInv(calls[d])
  BY DEF AgentInv, TypeOK, CallsInv
<1>4. ASSUME NEW d \in Calls, calls'[d] # None
      PROVE  CallTyped(calls[d])' /\ CallInv(calls[d])'
  <2>1. CallTyped(calls'[d]) /\ CallInv(calls'[d])
    BY <1>1, <1>3, <1>4
  <2>. QED BY <2>1 DEF CallTyped, CallInv, tables
<1>5. TypeOK'
  BY <1>1, <1>4 DEF AgentInv, TypeOK, members, tables
<1>6. CallsInv'
  BY <1>4 DEF CallsInv
<1>7. InsertsDiffer'
  BY <1>1 DEF AgentInv, InsertsDiffer
<1>8. RunsInv' /\ OnlyCompletedPublished' /\ PublicationAuditedOnce'
  BY DEF AgentInv, RunsInv, OnlyCompletedPublished, PublicationAuditedOnce, tables
<1>. QED BY <1>5, <1>6, <1>7, <1>8 DEF AgentInv

LEMMA LoseStep ==
  ASSUME AgentInv, NEW c \in Calls, Lose(c) PROVE AgentInv'
BY CallStep DEF Lose

LEMMA StartStep ==
  ASSUME AgentInv, NEW c \in Calls, NEW u \in Users, NEW r \in RunIds, Start(c, u, r)
  PROVE  AgentInv'
<1> DEFINE new == NewCall("start", u, r, "admit", InitialRow)
<1>1. InitialRow \in AgentRunRow
  BY PhaseNames DEF InitialRow, AgentRunRow
<1>2. /\ new \in Call /\ new.kind = "start" /\ new.run = r /\ new.at = "admit"
      /\ new.seen = None /\ new.next = InitialRow
  BY <1>1 DEF NewCall, Call, Kinds, Stages
<1> HIDE DEF new
<1>3. CallTyped(new) /\ CallInv(new)
  BY <1>1, <1>2, NothingAssumption DEF CallTyped, CallInv, Inserting, Start, UsedRunIds
<1>4. \A d \in Calls : calls[d] # None => calls[d].run # r
  BY DEF Start, UsedRunIds
<1>5. calls' = [calls EXCEPT ![c] = new] /\ UNCHANGED <<members, tables>>
  BY DEF Start, new
<1>. QED BY <1>2, <1>3, <1>4, <1>5, CallStep

LEMMA AskStep ==
  ASSUME AgentInv, NEW c \in Calls, NEW kind \in Kinds \ {"start"}, NEW u \in Users,
         NEW r \in RunIds, Ask(c, kind, u, r)
  PROVE  AgentInv'
<1> DEFINE stage == IF Authorized(u, WritePermission[kind]) THEN "load" ELSE "look"
           new == NewCall(kind, u, r, stage, None)
<1>1. /\ new \in Call /\ new.kind = kind /\ new.run = r /\ new.at \in {"load", "look"}
      /\ new.seen = None
  BY DEF NewCall, Call, Stages
<1> HIDE DEF new
<1>2. CallTyped(new) /\ CallInv(new) /\ ~Inserting(new)
  BY <1>1 DEF CallTyped, CallInv, Inserting, Ask
<1>3. calls' = [calls EXCEPT ![c] = new] /\ UNCHANGED <<members, tables>>
  BY DEF Ask, new
<1>. QED BY <1>2, <1>3, CallStep

\* What is known of a call under way.
LEMMA CallFacts ==
  ASSUME AgentInv, NEW c \in Calls, calls[c] # None
  PROVE  /\ calls[c] \in Call /\ CallTyped(calls[c]) /\ CallInv(calls[c])
         /\ calls[c].run \in DOMAIN runs =>
              /\ runs[calls[c].run] \in AgentRunRow /\ StateConsistent(runs[calls[c].run])
              /\ ApprovedIfRequired(runs[calls[c].run])
BY DEF AgentInv, TypeOK, CallsInv, RunsInv, CallTyped

LEMMA AdmitStep ==
  ASSUME AgentInv, NEW c \in Calls, Admit(c) PROVE AgentInv'
<1> DEFINE call == calls[c]
           new == [call EXCEPT !.at = "write"]
<1>1. call # None /\ call.at = "admit"
  BY DEF Admit, At
<1>2. call \in Call /\ CallTyped(call) /\ CallInv(call)
  BY <1>1, CallFacts
<1>3. /\ new \in Call /\ new.kind = call.kind /\ new.run = call.run /\ new.at = "write"
      /\ new.seen = call.seen /\ new.next = call.next
  BY <1>2 DEF Call, Stages
<1>4. calls' = [calls EXCEPT ![c] = new] /\ UNCHANGED <<members, tables>>
  BY DEF Admit
<1> HIDE DEF new, call
<1>5. CallTyped(new) /\ CallInv(new) /\ (Inserting(new) <=> Inserting(call))
  BY <1>1, <1>2, <1>3 DEF CallTyped, CallInv, Inserting
<1>6. Inserting(new) => \A d \in Calls \ {c} :
         calls[d] # None /\ Inserting(calls[d]) => calls[d].run # new.run
  BY <1>1, <1>3, <1>5 DEF AgentInv, InsertsDiffer, call
<1>. QED BY <1>4, <1>5, <1>6, CallStep

\* A call that has read the run and now intends to write next.
LEMMA IntendStep ==
  ASSUME AgentInv, NEW c \in Calls, calls[c] # None, NEW seen, NEW next,
         UNCHANGED <<members, tables>>,
         calls[c].run \in DOMAIN runs, ~Inserting(calls[c]), seen # None,
         SeenIsPast(seen, runs[calls[c].run]), NextFollows(seen, next),
         calls' = [calls EXCEPT ![c] = [calls[c] EXCEPT !.at = "admit", !.seen = seen, !.next = next]]
  PROVE  AgentInv'
<1> DEFINE call == calls[c]
           new == [call EXCEPT !.at = "admit", !.seen = seen, !.next = next]
<1>1. call \in Call /\ next \in AgentRunRow /\ seen \in AgentRunRow
  BY CallFacts DEF NextFollows, SeenIsPast
<1>2. /\ new \in Call /\ new.kind = call.kind /\ new.run = call.run /\ new.at = "admit"
      /\ new.seen = seen /\ new.next = next
  BY <1>1 DEF Call, Stages
<1> HIDE DEF new, call
<1>3. CallTyped(new) /\ CallInv(new) /\ ~Inserting(new)
  BY <1>1, <1>2, NothingAssumption DEF CallTyped, CallInv, Inserting, call
<1>. QED BY <1>3, CallStep DEF new, call

\* A call that has read the run and goes on to answer, record or publish.
LEMMA MoveOnStep ==
  ASSUME AgentInv, NEW c \in Calls, calls[c] # None, NEW seen \in AgentRunRow,
         NEW at \in {"record", "publish", "answered"}, NEW replayed \in BOOLEAN,
         NEW absent \in BOOLEAN,
         UNCHANGED <<members, tables>>,
         calls[c].run \in DOMAIN runs, ~Inserting(calls[c]),
         SeenIsPast(seen, runs[calls[c].run]),
         at = "publish" /\ ~absent => calls[c].run \in deltas,
         at = "answered" => Status(seen) # "completed",
         calls' = [calls EXCEPT ![c] = [calls[c] EXCEPT !.at = at, !.seen = seen,
                     !.replayed = replayed, !.absent = absent]]
  PROVE  AgentInv'
<1> DEFINE call == calls[c]
           new == [call EXCEPT !.at = at, !.seen = seen, !.replayed = replayed, !.absent = absent]
<1>1. call \in Call
  BY CallFacts
<1>2. /\ new \in Call /\ new.kind = call.kind /\ new.run = call.run /\ new.at = at
      /\ new.seen = seen /\ new.absent = absent
  BY <1>1 DEF Call, Stages
<1> HIDE DEF new, call
<1>3. CallTyped(new) /\ CallInv(new) /\ ~Inserting(new)
  BY <1>1, <1>2, NothingAssumption DEF CallTyped, CallInv, Inserting, call
<1>. QED BY <1>3, CallStep DEF new, call

LEMMA SeesTheRow ==
  ASSUME NEW row \in AgentRunRow, StateConsistent(row) PROVE SeenIsPast(row, row)
BY DEF SeenIsPast, AgentRunRow

LEMMA LoadStep ==
  ASSUME AgentInv, NEW c \in Calls, Load(c) PROVE AgentInv'
<1> DEFINE call == calls[c]
           row == runs[call.run]
           decision == IF call.kind = "approve" THEN "approved" ELSE "rejected"
<1>1. call # None /\ call.at \in {"look", "load"} /\ UNCHANGED <<members, tables>>
  BY DEF Load, At
<1>2. call \in Call /\ CallTyped(call) /\ CallInv(call)
  BY <1>1, CallFacts
<1>3. call.run \in DOMAIN runs /\ ~Inserting(call)
  BY <1>1, <1>2 DEF CallInv
<1>4. row \in AgentRunRow /\ StateConsistent(row) /\ row # None
  BY <1>1, <1>3, CallFacts, NothingAssumption
<1>5. SeenIsPast(row, row)
  BY <1>4, SeesTheRow
<1>6. CASE /\ AnsweredAsIs(call.kind, row)
           /\ calls' = [calls EXCEPT ![c].at = "answered", ![c].seen = row]
  <2>1. Status(row) # "completed"
    BY <1>4, <1>6, StatusOf DEF AnsweredAsIs
  <2>2. call.replayed \in BOOLEAN /\ call.absent \in BOOLEAN
    BY <1>2 DEF Call
  <2>3. calls' = [calls EXCEPT ![c] = [calls[c] EXCEPT !.at = "answered", !.seen = row,
                    !.replayed = call.replayed, !.absent = call.absent]]
    BY <1>2, <1>6 DEF Call
  <2>. QED BY <1>1, <1>3, <1>4, <1>5, <2>1, <2>2, <2>3, MoveOnStep
<1>7. CASE calls' = [calls EXCEPT ![c].at = "record", ![c].seen = row, ![c].replayed = TRUE]
  <2>1. call.absent \in BOOLEAN
    BY <1>2 DEF Call
  <2>2. calls' = [calls EXCEPT ![c] = [calls[c] EXCEPT !.at = "record", !.seen = row,
                    !.replayed = TRUE, !.absent = call.absent]]
    BY <1>2, <1>7 DEF Call
  <2>. QED BY <1>1, <1>3, <1>4, <1>5, <2>1, <2>2, MoveOnStep
<1>8. CASE /\ row.phase = "awaiting_approval"
           /\ calls' = [calls EXCEPT ![c].at = "admit", ![c].seen = row,
                ![c].next = Decided(row, decision, call.by)]
  <2>1. NextFollows(row, Decided(row, decision, call.by))
    BY <1>2, <1>4, <1>8, RowsDecided DEF Call
  <2>. QED BY <1>1, <1>3, <1>4, <1>5, <1>8, <2>1, IntendStep
<1>9. CASE /\ Status(row) \notin Terminal
           /\ calls' = [calls EXCEPT ![c].at = "admit", ![c].seen = row,
                ![c].next = Cancelled(row, call.by)]
  <2>1. NextFollows(row, Cancelled(row, call.by))
    BY <1>2, <1>4, <1>9, RowsCancelled DEF Call
  <2>. QED BY <1>1, <1>3, <1>4, <1>5, <1>9, <2>1, IntendStep
<1>. QED BY <1>6, <1>7, <1>8, <1>9 DEF Load

LEMMA WorkStep ==
  ASSUME AgentInv, NEW c \in Calls, SelectSpecialty(c) \/ Execute(c) PROVE AgentInv'
<1> DEFINE call == calls[c]
<1>1. call # None /\ call.at \in {"select", "execute"} /\ UNCHANGED <<members, tables>>
  BY DEF SelectSpecialty, Execute, At
<1>2. call \in Call /\ CallTyped(call) /\ CallInv(call)
  BY <1>1, CallFacts
<1>3. /\ call.seen # None /\ call.run \in DOMAIN runs /\ ~Inserting(call)
      /\ SeenIsPast(call.seen, runs[call.run])
  BY <1>1, <1>2 DEF CallTyped, CallInv, Inserting
<1>4. call.seen \in AgentRunRow /\ StateConsistent(call.seen)
  BY <1>3 DEF SeenIsPast
<1>5. ASSUME NEW next, Intends(c, next), NextFollows(call.seen, next) PROVE AgentInv'
  <2>1. calls' = [calls EXCEPT ![c] = [calls[c] EXCEPT !.at = "admit", !.seen = call.seen,
                                                      !.next = next]]
    BY <1>2, <1>5 DEF Intends, Call
  <2>. QED BY <1>1, <1>3, <1>5, <2>1, IntendStep
<1>6. CASE SelectSpecialty(c)
  <2>1. call.seen.phase = "selecting"
    BY <1>2, <1>6 DEF SelectSpecialty, At, CallInv
  <2>2. \A phase \in {"executing", "failed"} : NextFollows(call.seen, WithPhase(call.seen, phase))
    BY <1>4, <2>1, RowsWork, PhaseNames
  <2>. QED BY <1>5, <1>6, <2>2 DEF SelectSpecialty
<1>7. CASE Execute(c)
  <2>1. call.seen.phase = "executing"
    BY <1>2, <1>7 DEF Execute, At, CallInv
  <2>2. \A next \in ExecutionResults(call.seen) : NextFollows(call.seen, next)
    BY <1>4, <2>1, RowsWork, RowsProposed, PhaseNames DEF ExecutionResults
  <2>. QED BY <1>5, <1>7, <2>2 DEF Execute
<1>. QED BY <1>6, <1>7

LEMMA RecordStep ==
  ASSUME AgentInv, NEW c \in Calls, RecordOutcome(c) PROVE AgentInv'
<1> DEFINE call == calls[c]
           absent == call.run \notin deltas
<1>1. call # None /\ call.at = "record" /\ UNCHANGED <<members, tables>>
  BY DEF RecordOutcome, At
<1>2. call \in Call /\ CallTyped(call) /\ CallInv(call)
  BY <1>1, CallFacts
<1>3. /\ call.seen # None /\ call.run \in DOMAIN runs /\ ~Inserting(call)
      /\ SeenIsPast(call.seen, runs[call.run]) /\ call.seen \in AgentRunRow
  BY <1>1, <1>2 DEF CallTyped, CallInv, Inserting, SeenIsPast
<1>4. absent \in BOOLEAN /\ call.replayed \in BOOLEAN
  BY <1>2 DEF Call
<1>5. calls' = [calls EXCEPT ![c] = [calls[c] EXCEPT !.at = "publish", !.seen = call.seen,
                  !.replayed = call.replayed, !.absent = absent]]
  BY <1>2 DEF RecordOutcome, Call
<1>. QED BY <1>1, <1>3, <1>4, <1>5, MoveOnStep

-----------------------------------------------------------------------------
(* Steps that write a table *)

LEMMA InsertStep ==
  ASSUME AgentInv, NEW c \in Calls, InsertAgentRun(c) PROVE AgentInv'
<1> DEFINE call == calls[c]
           r == call.run
           next == WithPhase(InitialRow, "selecting")
           new == [call EXCEPT !.at = "admit", !.seen = InitialRow, !.next = next]
<1>1. call # None /\ call.at = "write" /\ call.seen = None
  BY DEF InsertAgentRun, At
<1>2. call \in Call /\ CallTyped(call) /\ CallInv(call)
  BY <1>1, CallFacts
<1>3. call.kind = "start" /\ r \in RunIds \ DOMAIN runs
  BY <1>1, <1>2 DEF CallInv, Inserting, Call
<1>4. InitialRow \in AgentRunRow /\ InitialRow.phase = "queued" /\ StateConsistent(InitialRow)
      /\ ApprovedIfRequired(InitialRow) /\ InitialRow # None
  BY PhaseNames, NothingAssumption
     DEF InitialRow, AgentRunRow, StateConsistent, ApprovedIfRequired
<1>5. NextFollows(InitialRow, next) /\ SeenIsPast(InitialRow, InitialRow)
  BY <1>4, RowsWork, SeesTheRow, PhaseNames
<1>6. /\ runs' = [q \in DOMAIN runs \cup {r} |-> IF q = r THEN InitialRow ELSE runs[q]]
      /\ UNCHANGED <<role, archived, deltas, audit>>
      /\ calls' = [calls EXCEPT ![c] = new]
  BY <1>2 DEF InsertAgentRun, members, Call
<1>7. /\ DOMAIN runs' = DOMAIN runs \cup {r} /\ runs'[r] = InitialRow
      /\ \A q \in DOMAIN runs : runs'[q] = runs[q]
  BY <1>3, <1>6
<1>8. /\ new \in Call /\ new.kind = call.kind /\ new.run = r /\ new.at = "admit"
      /\ new.seen = InitialRow /\ new.next = next
  BY <1>2, <1>4, <1>5 DEF Call, Stages, NextFollows
<1>9. next # None
  BY <1>5, NothingAssumption DEF NextFollows
<1>10. DOMAIN calls' = Calls /\ \A d \in Calls : calls'[d] = IF d = c THEN new ELSE calls[d]
  BY <1>6 DEF AgentInv, TypeOK
<1> HIDE DEF new, next
<1>11. ASSUME NEW d \in Calls, calls'[d] # None
       PROVE  /\ CallTyped(calls[d])' /\ CallInv(calls[d])'
              /\ Inserting(calls'[d]) => d # c /\ Inserting(calls[d])
  <2>1. CASE d = c
    <3>1. ~Inserting(new)
      BY <1>4, <1>8 DEF Inserting
    <3>2. calls'[d] = new
      BY <1>10, <2>1
    <3>3. CallTyped(calls[d])'
      BY <1>4, <1>7, <1>8, <1>9, <3>2 DEF CallTyped
    <3>4. CallInv(calls[d])'
      BY <1>4, <1>5, <1>7, <1>8, <3>2 DEF CallInv, Inserting
    <3>. QED BY <3>1, <3>2, <3>3, <3>4
  <2>2. CASE d # c
    <3>1. calls'[d] = calls[d] /\ CallTyped(calls[d]) /\ CallInv(calls[d]) /\ calls[d] # None
      BY <1>10, <1>11, <2>2, CallFacts
    <3>2. Inserting(calls[d]) => calls[d].run # r
      BY <1>1, <1>3, <2>2, <3>1 DEF AgentInv, InsertsDiffer, Inserting
    <3>. QED BY <1>6, <1>7, <2>2, <3>1, <3>2 DEF CallTyped, CallInv, Inserting
  <2>. QED BY <2>1, <2>2
<1>12. TypeOK'
  BY <1>3, <1>4, <1>6, <1>7, <1>10, <1>11 DEF AgentInv, TypeOK
<1>13. CallsInv' /\ RunsInv'
  BY <1>4, <1>7, <1>11 DEF CallsInv, RunsInv, AgentInv
<1>14. InsertsDiffer'
  BY <1>10, <1>11 DEF InsertsDiffer, AgentInv
<1>15. OnlyCompletedPublished' /\ PublicationAuditedOnce'
  BY <1>6, <1>7 DEF AgentInv, TypeOK, OnlyCompletedPublished, PublicationAuditedOnce
<1>. QED BY <1>12, <1>13, <1>14, <1>15 DEF AgentInv

\* An update that finds the version it has seen writes the successor of the
\* stored row, whatever else has happened.
LEMMA UpdateFacts ==
  ASSUME AgentInv, NEW c \in Calls, UpdateAgentRun(c)
  PROVE  LET call == calls[c]
         IN /\ call # None /\ call \in Call /\ call.run \in DOMAIN runs
            /\ NextFollows(runs[call.run], call.next)
            /\ call.seen # None
<1> DEFINE call == calls[c]
<1>1. call # None /\ call.at = "write" /\ call.seen # None
  BY DEF UpdateAgentRun, At
<1>2. call \in Call /\ CallInv(call)
  BY <1>1, CallFacts
<1>3. /\ call.run \in DOMAIN runs /\ SeenIsPast(call.seen, runs[call.run])
      /\ NextFollows(call.seen, call.next)
  BY <1>1, <1>2 DEF CallInv, Inserting
<1>4. call.seen = runs[call.run]
  BY <1>3 DEF UpdateAgentRun, UpdateMatches, SeenIsPast
<1>. QED BY <1>1, <1>2, <1>3, <1>4

LEMMA UpdateStep ==
  ASSUME AgentInv, NEW c \in Calls, UpdateAgentRun(c) PROVE AgentInv'
<1> DEFINE call == calls[c]
           r == call.run
           row == runs[r]
           next == call.next
           new == [call EXCEPT !.at = StageAfter(next.phase), !.seen = next, !.next = None]
<1>1. call # None /\ call \in Call /\ r \in DOMAIN runs /\ NextFollows(row, next)
  BY UpdateFacts
<1>2. next \in AgentRunRow /\ next # None /\ StateConsistent(next) /\ row \in AgentRunRow
  BY <1>1, CallFacts, NothingAssumption DEF NextFollows
<1>3. Status(row) \notin Terminal /\ next.version = row.version + 1
  BY <1>1, TerminalStays DEF NextFollows
<1>4. /\ runs' = [runs EXCEPT ![r] = next] /\ UNCHANGED <<role, archived, deltas, audit>>
      /\ calls' = [calls EXCEPT ![c] = new]
  BY <1>1 DEF UpdateAgentRun, members, Call
<1>5. /\ DOMAIN runs' = DOMAIN runs /\ runs'[r] = next
      /\ \A q \in DOMAIN runs \ {r} : runs'[q] = runs[q]
  BY <1>1, <1>4
<1>6. StageAfter(next.phase) \in {"select", "execute", "record"}
      /\ (StageAfter(next.phase) = "select" => next.phase = "selecting")
      /\ (StageAfter(next.phase) = "execute" => next.phase = "executing")
  BY DEF StageAfter
<1>7. /\ new \in Call /\ new.kind = call.kind /\ new.run = r /\ new.at = StageAfter(next.phase)
      /\ new.seen = next /\ new.next = None
  BY <1>1, <1>2, <1>6 DEF Call, Stages
<1>8. DOMAIN calls' = Calls /\ \A d \in Calls : calls'[d] = IF d = c THEN new ELSE calls[d]
  BY <1>4 DEF AgentInv, TypeOK
<1>9. SeenIsPast(next, next)
  BY <1>2, SeesTheRow
<1>10. \A seen : SeenIsPast(seen, row) => SeenIsPast(seen, next)
  BY <1>2, <1>3 DEF SeenIsPast, AgentRunRow
<1>11. r \notin deltas
  BY <1>3 DEF AgentInv, OnlyCompletedPublished, Terminal
<1> HIDE DEF new, next, call
<1>12. ASSUME NEW d \in Calls, calls'[d] # None
       PROVE  /\ CallTyped(calls[d])' /\ CallInv(calls[d])'
              /\ Inserting(calls'[d]) => Inserting(calls[d]) /\ d # c
  <2>1. CASE d = c
    <3>1. ~Inserting(new) /\ calls'[d] = new
      BY <1>2, <1>7, <1>8, <2>1 DEF Inserting
    <3>2. CallTyped(calls[d])'
      BY <1>1, <1>2, <1>5, <1>6, <1>7, <3>1 DEF CallTyped
    <3>3. CallInv(calls[d])'
      BY <1>1, <1>2, <1>5, <1>6, <1>7, <1>9, <3>1 DEF CallInv, Inserting
    <3>. QED BY <3>1, <3>2, <3>3
  <2>2. CASE d # c
    <3>1. calls'[d] = calls[d] /\ CallTyped(calls[d]) /\ CallInv(calls[d]) /\ calls[d] # None
      BY <1>8, <1>12, <2>2, CallFacts
    <3>2. calls[d].seen # None => SeenIsPast(calls[d].seen, runs[calls[d].run])
      BY <3>1 DEF CallInv
    <3>3. calls[d].seen # None => SeenIsPast(calls[d].seen, runs'[calls[d].run])
      BY <1>5, <1>10, <3>1, <3>2 DEF CallInv, Inserting
    <3>. QED BY <1>4, <1>5, <2>2, <3>1, <3>3 DEF CallTyped, CallInv, Inserting
  <2>. QED BY <2>1, <2>2
<1>13. TypeOK'
  BY <1>1, <1>2, <1>4, <1>5, <1>8, <1>12 DEF AgentInv, TypeOK
<1>14. CallsInv' /\ RunsInv'
  BY <1>1, <1>5, <1>12 DEF CallsInv, RunsInv, AgentInv, NextFollows
<1>15. InsertsDiffer'
  BY <1>8, <1>12 DEF InsertsDiffer, AgentInv
<1>16. OnlyCompletedPublished'
  <2>1. \A q \in deltas : q # r /\ runs'[q] = runs[q]
    BY <1>5, <1>11 DEF AgentInv, TypeOK
  <2>. QED BY <1>4, <2>1 DEF AgentInv, OnlyCompletedPublished, Status
<1>17. PublicationAuditedOnce'
  BY <1>4 DEF AgentInv, PublicationAuditedOnce
<1>. QED BY <1>13, <1>14, <1>15, <1>16, <1>17 DEF AgentInv

Persisted(events) == {i \in DOMAIN events : events[i].persisted}

LEMMA AuditAppended ==
  ASSUME NEW events \in Seq(AuditEvent), NEW event \in AuditEvent
  PROVE  /\ Append(events, event) \in Seq(AuditEvent)
         /\ Persisted(Append(events, event)) =
              Persisted(events) \cup (IF event.persisted THEN {Len(events) + 1} ELSE {})
<1> DEFINE longer == Append(events, event)
<1>1. /\ longer \in Seq(AuditEvent) /\ DOMAIN longer = DOMAIN events \cup {Len(events) + 1}
      /\ \A i \in DOMAIN events : longer[i] = events[i]
      /\ longer[Len(events) + 1] = event /\ Len(events) + 1 \notin DOMAIN events
  OBVIOUS
<1> HIDE DEF longer
<1>2. Persisted(longer) = Persisted(events) \cup (IF event.persisted THEN {Len(events) + 1} ELSE {})
  BY <1>1 DEF Persisted, AuditEvent
<1>. QED BY <1>1, <1>2 DEF longer

\* What publishing adds, and that it adds no second Delta.
LEMMA PublishFacts ==
  ASSUME AgentInv, NEW c \in Calls, Publish(c)
  PROVE  LET call == calls[c]
             persists == call.absent /\ Publishes(call.seen)
         IN /\ call # None /\ call \in Call /\ call.run \in DOMAIN runs /\ call.seen # None
            /\ persists =>
                 /\ call.run \notin deltas /\ deltas' = deltas \cup {call.run}
                 /\ Status(runs[call.run]) = "completed"
            /\ ~persists => UNCHANGED deltas
            /\ Status(call.seen) = "completed" => call.run \in deltas'
<1> DEFINE call == calls[c]
           persists == call.absent /\ Publishes(call.seen)
<1>1. call # None /\ call.at = "publish"
  BY DEF Publish, At
<1>2. call \in Call /\ CallTyped(call) /\ CallInv(call)
  BY <1>1, CallFacts
<1>3. /\ call.seen # None /\ call.run \in DOMAIN runs
      /\ SeenIsPast(call.seen, runs[call.run]) /\ call.seen \in AgentRunRow
      /\ StateConsistent(call.seen)
  BY <1>1, <1>2 DEF CallTyped, CallInv, Inserting, SeenIsPast
<1>4. Status(call.seen) = "completed" => Publishes(call.seen)
  BY <1>3, StatusOf DEF StateConsistent, Publishes
<1>5. /\ persists => call.run \notin deltas /\ deltas' = deltas \cup {call.run}
      /\ ~persists => UNCHANGED deltas
  BY DEF Publish, InsertDelta
<1>6. persists => Status(runs[call.run]) = "completed"
  BY <1>3 DEF Publishes, SeenIsPast, Terminal
<1>7. ~call.absent => call.run \in deltas
  BY <1>1, <1>2 DEF CallInv
<1>. QED BY <1>1, <1>2, <1>3, <1>4, <1>5, <1>6, <1>7

LEMMA PublishStep ==
  ASSUME AgentInv, NEW c \in Calls, Publish(c) PROVE AgentInv'
<1> DEFINE call == calls[c]
           r == call.run
           persists == call.absent /\ Publishes(call.seen)
           action == IF call.replayed THEN "reconciled" ELSE OutcomeAction[call.kind]
           event == [action |-> action, persisted |-> persists]
           new == [call EXCEPT !.at = "answered"]
<1>1. /\ call # None /\ call \in Call /\ r \in DOMAIN runs /\ call.seen # None
      /\ persists => r \notin deltas /\ deltas' = deltas \cup {r} /\ Status(runs[r]) = "completed"
      /\ ~persists => UNCHANGED deltas
      /\ Status(call.seen) = "completed" => r \in deltas'
  BY PublishFacts
<1>2. CallTyped(call) /\ CallInv(call) /\ r \in RunIds
  BY <1>1, CallFacts DEF Call
<1>3. /\ new \in Call /\ new.kind = call.kind /\ new.run = r /\ new.at = "answered"
      /\ new.seen = call.seen
  BY <1>1 DEF Call, Stages
<1>4. calls' = [calls EXCEPT ![c] = new] /\ UNCHANGED <<role, archived, runs>>
  BY DEF Publish, members
<1>5. DOMAIN calls' = Calls /\ \A d \in Calls : calls'[d] = IF d = c THEN new ELSE calls[d]
  BY <1>4 DEF AgentInv, TypeOK
<1>6. deltas \subseteq deltas' /\ deltas' \subseteq DOMAIN runs
  BY <1>1 DEF AgentInv, TypeOK
<1>7. event \in AuditEvent
  BY <1>1 DEF AuditEvent, Call, Kinds, OutcomeAction
<1>8. /\ \A q \in RunIds \ {r} : audit'[q] = audit[q]
      /\ \/ audit'[r] = audit[r] /\ ~persists
         \/ audit'[r] = Append(audit[r], event)
      /\ audit' \in [RunIds -> Seq(AuditEvent)]
  <2>1. audit \in [RunIds -> Seq(AuditEvent)]
    BY DEF AgentInv, TypeOK
  <2>2. Append(audit[r], event) \in Seq(AuditEvent)
    BY <1>2, <1>7, <2>1
  <2>3. \/ UNCHANGED audit /\ ~persists
        \/ audit' = [audit EXCEPT ![r] = Append(@, event)]
    BY DEF Publish, AuditOutcome
  <2> HIDE DEF event, persists
  <2>. QED BY <1>2, <2>1, <2>2, <2>3
<1>9. \A q \in RunIds : IF q \in deltas THEN \E i \in Persisted(audit[q]) : Persisted(audit[q]) = {i}
                        ELSE Persisted(audit[q]) = {}
  BY DEF AgentInv, PublicationAuditedOnce, Persisted
<1>10. event.persisted = persists
  OBVIOUS
<1> HIDE DEF new, call, event, persists
<1>11. PublicationAuditedOnce'
  <2> SUFFICES ASSUME NEW q \in RunIds
               PROVE  IF q \in deltas' THEN \E i \in Persisted(audit'[q]) : Persisted(audit'[q]) = {i}
                      ELSE Persisted(audit'[q]) = {}
    BY DEF PublicationAuditedOnce, Persisted
  <2>1. CASE q # r
    BY <1>1, <1>8, <1>9, <2>1
  <2>2. CASE q = r /\ audit'[r] = audit[r] /\ ~persists
    BY <1>1, <1>9, <2>2
  <2>3. CASE q = r /\ audit'[r] = Append(audit[r], event)
    <3>1. audit[r] \in Seq(AuditEvent)
      BY <1>2 DEF AgentInv, TypeOK
    <3>2. Persisted(audit'[r]) =
            Persisted(audit[r]) \cup (IF persists THEN {Len(audit[r]) + 1} ELSE {})
      BY <1>7, <1>10, <2>3, <3>1, AuditAppended
    <3>3. CASE persists
      <4>1. Persisted(audit[r]) = {} /\ r \in deltas'
        BY <1>1, <1>2, <1>9, <3>3
      <4>2. Persisted(audit'[r]) = {Len(audit[r]) + 1}
        BY <3>2, <3>3, <4>1
      <4>. QED BY <2>3, <4>1, <4>2
    <3>4. CASE ~persists
      <4>1. deltas' = deltas /\ Persisted(audit'[r]) = Persisted(audit[r])
        BY <1>1, <3>2, <3>4
      <4>. QED BY <1>9, <2>3, <4>1
    <3>. QED BY <3>3, <3>4
  <2>. QED BY <1>8, <2>1, <2>2, <2>3
<1>12. ASSUME NEW d \in Calls, calls'[d] # None
       PROVE  /\ CallTyped(calls[d])' /\ CallInv(calls[d])'
              /\ Inserting(calls'[d]) => Inserting(calls[d]) /\ d # c
  <2>1. CASE d = c
    <3>1. ~Inserting(new) /\ calls'[d] = new
      BY <1>1, <1>3, <1>5, <2>1 DEF Inserting
    <3>2. CallTyped(calls[d])'
      BY <1>1, <1>3, <1>4, <3>1 DEF CallTyped
    <3>3. CallInv(calls[d])'
      BY <1>1, <1>2, <1>3, <1>4, <3>1 DEF CallInv, Inserting, call
    <3>. QED BY <3>1, <3>2, <3>3
  <2>2. CASE d # c
    <3>1. calls'[d] = calls[d] /\ CallTyped(calls[d]) /\ CallInv(calls[d])
      BY <1>5, <1>12, <2>2, CallFacts
    <3>. QED BY <1>4, <1>6, <2>2, <3>1 DEF CallTyped, CallInv, Inserting
  <2>. QED BY <2>1, <2>2
<1>13. TypeOK'
  BY <1>4, <1>5, <1>6, <1>8, <1>12 DEF AgentInv, TypeOK
<1>14. CallsInv' /\ RunsInv' /\ InsertsDiffer'
  BY <1>4, <1>5, <1>12 DEF CallsInv, RunsInv, InsertsDiffer, AgentInv
<1>15. OnlyCompletedPublished'
  <2>1. \A q \in deltas' : q \in deltas \/ (q = r /\ Status(runs[r]) = "completed")
    BY <1>1
  <2>2. ApprovedIfRequired(runs[r]) /\ runs[r] \in AgentRunRow
    BY <1>1, CallFacts DEF call
  <2>3. Status(runs[r]) = "completed" => runs[r].phase = "completed"
    BY <2>2, StatusOf
  <2>. QED BY <1>4, <2>1, <2>2, <2>3 DEF AgentInv, OnlyCompletedPublished, ApprovedIfRequired, Status
<1>. QED BY <1>11, <1>13, <1>14, <1>15 DEF AgentInv

-----------------------------------------------------------------------------
(* The invariant *)

LEMMA AgentInit == Init => AgentInv
<1> SUFFICES ASSUME Init PROVE AgentInv
  OBVIOUS
<1>1. DOMAIN runs = {} /\ deltas = {} /\ \A c \in Calls : calls[c] = None
  BY DEF Init
<1>2. audit \in [RunIds -> Seq(AuditEvent)] /\ \A r \in RunIds : audit[r] = <<>>
  BY DEF Init
<1>3. role \in [Users -> Roles \cup {None}] /\ archived \in BOOLEAN
  BY DEF Init, MembershipInit, Roles
<1>4. TypeOK
  BY <1>1, <1>2, <1>3 DEF Init, TypeOK
<1>. QED BY <1>1, <1>2, <1>4 DEF AgentInv, RunsInv, CallsInv, InsertsDiffer,
       OnlyCompletedPublished, PublicationAuditedOnce

LEMMA AgentStep == AgentInv /\ [Next]_vars => AgentInv'
<1> SUFFICES ASSUME AgentInv, [Next]_vars PROVE AgentInv'
  OBVIOUS
<1>1. ASSUME UNCHANGED <<tables, calls>>,
             role' \in [Users -> Roles \cup {None}] /\ archived' \in BOOLEAN
      PROVE  AgentInv'
  BY <1>1 DEF AgentInv, TypeOK, RunsInv, CallsInv, CallTyped, CallInv, InsertsDiffer,
       OnlyCompletedPublished, PublicationAuditedOnce, tables
<1>2. CASE MembershipNext /\ UNCHANGED <<tables, calls>>
  <2>1. role' \in [Users -> Roles \cup {None}] /\ archived' \in BOOLEAN
    BY <1>2 DEF AgentInv, TypeOK, MembershipNext, ChangeMemberRole, AddMember, ArchiveProject
  <2>. QED BY <1>1, <1>2, <2>1
<1>3. CASE UNCHANGED vars
  BY <1>1, <1>3 DEF AgentInv, TypeOK, vars, members
<1>4. CASE Serve
  BY <1>4, StartStep, AskStep, LoadStep, AdmitStep, InsertStep, UpdateStep, WorkStep,
     RecordStep, PublishStep DEF Serve, Proceed
<1>5. CASE \E c \in Calls : Lose(c)
  BY <1>5, LoseStep
<1>. QED BY <1>2, <1>3, <1>4, <1>5 DEF Next

LEMMA AgentInvariant == Spec => []AgentInv
BY AgentInit, AgentStep, PTL DEF Spec

-----------------------------------------------------------------------------
(* Theorems *)

\* Every stored run is one agentWorkflowStateSchema accepts, and a call never
\* works on a run it has not read.
THEOREM RunsAreConsistent == Spec => []TypeOK
BY AgentInvariant, PTL DEF AgentInv

\* Nothing an agent proposed is stored before its run completed, and nothing of
\* high risk before somebody who may approve it did: no interleaving of
\* execution, decisions, cancellations, retries and crashes lets it through.
THEOREM OnlyCompletedIsPublished == Spec => []OnlyCompletedPublished
BY AgentInvariant, PTL DEF AgentInv

\* Concurrent approvals and reconciliations store a proposal once and say so once.
THEOREM PublicationIsAuditedOnce == Spec => []PublicationAuditedOnce
BY AgentInvariant, PTL DEF AgentInv

\* Whoever is told that a run completed finds its Delta stored.
THEOREM CompletionIsStored == Spec => []CompletionAnsweredIsStored
<1>1. AgentInv => CompletionAnsweredIsStored
  BY DEF AgentInv, CallsInv, CallInv, CompletionAnsweredIsStored, At
<1>. QED BY <1>1, AgentInvariant, PTL

\* Which steps write the runs, and how.
LEMMA RunSteps ==
  ASSUME AgentInv, [Next]_vars
  PROVE  \/ UNCHANGED runs
         \/ \E c \in Calls : InsertAgentRun(c)
         \/ \E c \in Calls : UpdateAgentRun(c)
BY DEF Next, Serve, Proceed, Start, Ask, Load, Admit, SelectSpecialty, Execute, RecordOutcome,
       Publish, Lose, vars, tables

RunMovesForward(old, new) ==
  \/ new = old
  \/ /\ <<Status(old), Status(new)>> \in AllowedRunTransitions
     /\ new.version = old.version + 1
     /\ old.proposal # None => new.proposal = old.proposal

\* A run moves along its table, one version at a time, and keeps what was
\* proposed: a stale continuation never overwrites a decision.
THEOREM RunsFollowTheirTable == Spec => RunsMoveForward
<1>1. AgentInv /\ [Next]_vars => \A r \in DOMAIN runs : RunMovesForward(runs[r], runs'[r])
  <2> SUFFICES ASSUME AgentInv, [Next]_vars, NEW r \in DOMAIN runs
               PROVE  RunMovesForward(runs[r], runs'[r])
    OBVIOUS
  <2>1. CASE UNCHANGED runs
    BY <2>1 DEF RunMovesForward
  <2>2. ASSUME NEW c \in Calls, InsertAgentRun(c) PROVE RunMovesForward(runs[r], runs'[r])
    <3>1. calls[c] # None /\ calls[c].at = "write" /\ calls[c].seen = None
      BY <2>2 DEF InsertAgentRun, At
    <3>2. calls[c].run \notin DOMAIN runs
      BY <3>1, CallFacts DEF CallInv
    <3>3. runs'[r] = runs[r]
      BY <2>2, <3>2 DEF InsertAgentRun
    <3>. QED BY <3>3 DEF RunMovesForward
  <2>3. ASSUME NEW c \in Calls, UpdateAgentRun(c) PROVE RunMovesForward(runs[r], runs'[r])
    <3>1. NextFollows(runs[calls[c].run], calls[c].next)
      BY <2>3, UpdateFacts
    <3>2. runs'[r] = IF r = calls[c].run THEN calls[c].next ELSE runs[r]
      BY <2>3 DEF UpdateAgentRun
    <3>. QED BY <3>1, <3>2 DEF RunMovesForward, NextFollows
  <2>. QED BY <2>1, <2>2, <2>3, RunSteps
<1>2. AgentInv /\ [Next]_vars =>
        [\A r \in DOMAIN runs :
           \/ runs'[r] = runs[r]
           \/ /\ <<Status(runs[r]), Status(runs'[r])>> \in AllowedRunTransitions
              /\ runs'[r].version = runs[r].version + 1
              /\ runs[r].proposal # None => runs'[r].proposal = runs[r].proposal]_vars
  BY <1>1 DEF RunMovesForward
<1>. QED BY <1>2, AgentInvariant, PTL DEF Spec, RunsMoveForward

-----------------------------------------------------------------------------
(* The refinement *)

outcomes == [r \in RunIds |-> OutcomeOf(r)]

LEMMA OutcomeOfRow ==
  ASSUME NEW row \in AgentRunRow
  PROVE  /\ Status(row) \in {"queued", "running", "awaiting_approval", "completed", "failed",
                             "cancelled"}
BY StatusOf

LEMMA OutcomeTyped ==
  ASSUME TypeOK, NEW r \in RunIds PROVE OutcomeOf(r) \in Promise!Outcomes
BY OutcomeOfRow DEF TypeOK, OutcomeOf, Promise!Outcomes

\* One run changes, along the moves of AgentOutcome or not at all.
LEMMA OutcomeMoves ==
  ASSUME AgentInv, AgentInv', NEW r \in DOMAIN runs', UNCHANGED deltas,
         DOMAIN runs' = DOMAIN runs \cup {r},
         \A q \in DOMAIN runs \ {r} : runs'[q] = runs[q],
         IF r \in DOMAIN runs
         THEN <<Status(runs[r]), Status(runs'[r])>> \in AllowedRunTransitions
         ELSE Status(runs'[r]) = "queued"
  PROVE  Promise!Next \/ UNCHANGED <<outcomes, deltas>>
<1>1. r \in RunIds /\ runs'[r] \in AgentRunRow
  BY DEF AgentInv, TypeOK
<1>2. \A q \in RunIds \ {r} : OutcomeOf(q)' = OutcomeOf(q)
  BY DEF OutcomeOf, Status
<1>3. <<OutcomeOf(r), OutcomeOf(r)'>> \in Promise!Moves \/ OutcomeOf(r)' = OutcomeOf(r)
  <2>1. CASE r \in DOMAIN runs
    <3>1. /\ OutcomeOf(r) = CASE Status(runs[r]) \in {"queued", "running"} -> "open"
                              [] Status(runs[r]) = "awaiting_approval" -> "held"
                              [] Status(runs[r]) = "completed" -> "completed"
                              [] OTHER -> "dropped"
          /\ OutcomeOf(r)' = CASE Status(runs'[r]) \in {"queued", "running"} -> "open"
                               [] Status(runs'[r]) = "awaiting_approval" -> "held"
                               [] Status(runs'[r]) = "completed" -> "completed"
                               [] OTHER -> "dropped"
      BY <2>1 DEF OutcomeOf, Status
    <3>. QED BY <2>1, <3>1 DEF AllowedRunTransitions, Promise!Moves
  <2>2. CASE r \notin DOMAIN runs
    <3>1. OutcomeOf(r) = "none" /\ OutcomeOf(r)' = "open"
      BY <2>2 DEF OutcomeOf, Status
    <3>. QED BY <3>1 DEF Promise!Moves
  <2>. QED BY <2>1, <2>2
<1>4. CASE OutcomeOf(r)' = OutcomeOf(r)
  BY <1>2, <1>4 DEF outcomes
<1>5. CASE <<OutcomeOf(r), OutcomeOf(r)'>> \in Promise!Moves
  <2>1. outcomes' = [outcomes EXCEPT ![r] = OutcomeOf(r)']
    BY <1>1, <1>2 DEF outcomes
  <2>2. Promise!Move(r, OutcomeOf(r)')
    BY <1>1, <1>5, <2>1 DEF Promise!Move, outcomes
  <2>3. OutcomeOf(r)' \in Promise!Outcomes
    BY <1>5 DEF Promise!Moves, Promise!Outcomes
  <2>. QED BY <1>1, <2>2, <2>3 DEF Promise!Next
<1>. QED BY <1>3, <1>4, <1>5

LEMMA PromiseStep ==
  ASSUME AgentInv, AgentInv', [Next]_vars
  PROVE  Promise!Next \/ UNCHANGED <<outcomes, deltas>>
<1>1. CASE UNCHANGED <<runs, deltas>>
  BY <1>1 DEF outcomes, OutcomeOf, Status
<1>2. ASSUME NEW c \in Calls, InsertAgentRun(c)
      PROVE  Promise!Next \/ UNCHANGED <<outcomes, deltas>>
  <2> DEFINE r == calls[c].run
  <2>1. r \notin DOMAIN runs
    BY <1>2, CallFacts DEF InsertAgentRun, At, CallInv
  <2>2. /\ DOMAIN runs' = DOMAIN runs \cup {r} /\ runs'[r] = InitialRow /\ UNCHANGED deltas
        /\ \A q \in DOMAIN runs \ {r} : runs'[q] = runs[q]
    BY <1>2, <2>1 DEF InsertAgentRun
  <2>3. Status(runs'[r]) = "queued"
    BY <2>2 DEF Status, InitialRow, ExpectedStatus
  <2>. QED BY <2>1, <2>2, <2>3, OutcomeMoves
<1>3. ASSUME NEW c \in Calls, UpdateAgentRun(c)
      PROVE  Promise!Next \/ UNCHANGED <<outcomes, deltas>>
  <2> DEFINE r == calls[c].run
  <2>1. r \in DOMAIN runs /\ NextFollows(runs[r], calls[c].next)
    BY <1>3, UpdateFacts
  <2>2. /\ DOMAIN runs' = DOMAIN runs \cup {r} /\ runs'[r] = calls[c].next /\ UNCHANGED deltas
        /\ \A q \in DOMAIN runs \ {r} : runs'[q] = runs[q]
    BY <1>3, <2>1 DEF UpdateAgentRun
  <2>3. <<Status(runs[r]), Status(runs'[r])>> \in AllowedRunTransitions
    BY <2>1, <2>2 DEF NextFollows
  <2>. QED BY <2>1, <2>2, <2>3, OutcomeMoves
<1>4. ASSUME NEW c \in Calls, Publish(c)
      PROVE  Promise!Next \/ UNCHANGED <<outcomes, deltas>>
  <2> DEFINE r == calls[c].run
  <2>1. /\ r \in DOMAIN runs
        /\ \/ UNCHANGED deltas
           \/ r \notin deltas /\ deltas' = deltas \cup {r} /\ Status(runs[r]) = "completed"
    BY <1>4, PublishFacts
  <2>2. UNCHANGED <<runs, outcomes>>
    BY <1>4 DEF Publish, outcomes, OutcomeOf, Status
  <2>3. Status(runs[r]) = "completed" => OutcomeOf(r) = "completed"
    BY <2>1 DEF OutcomeOf
  <2>4. r \in RunIds
    BY <2>1 DEF AgentInv, TypeOK
  <2>5. r \notin deltas /\ deltas' = deltas \cup {r} /\ Status(runs[r]) = "completed"
        => Promise!Publish(r)
    BY <2>2, <2>3, <2>4 DEF Promise!Publish, outcomes
  <2>. QED BY <2>1, <2>2, <2>4, <2>5 DEF Promise!Next
<1>5. \/ UNCHANGED <<runs, deltas>>
      \/ \E c \in Calls : InsertAgentRun(c) \/ UpdateAgentRun(c) \/ Publish(c)
  BY DEF Next, Serve, Proceed, Start, Ask, Load, Admit, SelectSpecialty, Execute, RecordOutcome,
         Lose, vars, tables
<1>. QED BY <1>1, <1>2, <1>3, <1>4, <1>5

\* Runs keep the promise of AgentOutcome: an outcome is reached once, a held
\* proposal waits for a decision, and only what completed is published, once.
THEOREM RunsKeepPromise == Spec => KeepsPromise
<1>1. Init => Promise!Init
  BY DEF Init, Promise!Init, OutcomeOf
<1>2. AgentInv /\ AgentInv' /\ [Next]_vars => [Promise!Next]_<<outcomes, deltas>>
  BY PromiseStep
<1>3. Spec => [][Promise!Next]_<<outcomes, deltas>>
  BY <1>2, AgentInvariant, PTL DEF Spec
<1>4. Spec => Promise!Init
  BY <1>1 DEF Spec
<1>. QED BY <1>3, <1>4, PTL DEF KeepsPromise, Promise!Spec, outcomes
=============================================================================
