----------------------------- MODULE Extraction -----------------------------
(***************************************************************************)
(* ExtractionService.extract: it reads a conversation in one transaction,  *)
(* records a model run in a second, asks the model, and in a third stores  *)
(* the Delta it proposes, or marks the run failed in a fourth.  Between    *)
(* any two of them members, messages and the conversation change, and the  *)
(* process may die; a COMMIT may be applied and its answer lost.           *)
(*                                                                         *)
(* Messages are named by their sequence numbers.                           *)
(***************************************************************************)
EXTENDS Membership, Sequences, Integers, FiniteSets

CONSTANTS
  Extractions,  \* bound on the calls of extract
  MaxMessages,  \* bound on the messages of the conversation
  Window        \* the most messages the model is shown

VARIABLES
  conversation,  \* conversations.status; its branch is open iff it is active
  messages,      \* messages.delivery_state, by sequence number
  modelRuns,     \* model_runs.status of each extraction, None without a row
  deltas,        \* its row of context_deltas, None without one
  audited,       \* the extractions with a context_delta.extracted event
  extractions    \* what each call holds in memory

extractionTables == <<modelRuns, deltas, audited>>
conversationTables == <<conversation, messages>>
extractionVars == <<role, archived, conversationTables, extractionTables, extractions>>

Members == <<role, archived>>

-----------------------------------------------------------------------------
DeliveryStates == {"streaming", "completed", "interrupted", "failed"}

\* evidence is provenance.messageIds of the one proposal.
Delta == [through : Nat, evidence : SUBSET Nat]

ExtractionStages ==
  {"starting",    \* has read the conversation, inserts the model run
   "generating",  \* awaits the model
   "persisting",  \* has a proposal to store
   "failing",     \* is in the catch clause
   "answered",    \* returned the Delta
   "failed",      \* threw
   "lost"}        \* its process died

Extracting == {"starting", "generating", "persisting", "failing"}

ExtractionCall ==
  [by : Users, at : ExtractionStages, read : SUBSET Nat, attempt : 0..1, evidence : SUBSET Nat]

ASSUME ExtractionAssumption ==
  /\ MaxMessages \in Nat /\ Window \in Nat \ {0}
  /\ None \notin ExtractionCall \cup Delta \cup {"running", "completed", "failed"}

Extracts(e, stage) == extractions[e] # None /\ extractions[e].at = stage

\* Nothing in memory matters once a call is over.
Over(call, at) ==
  [by |-> call.by, at |-> at, read |-> {}, attempt |-> 0, evidence |-> {}]

Stop(e, at) == extractions' = [extractions EXCEPT ![e] = Over(@, at)]

Advance(e, at) == extractions' = [extractions EXCEPT ![e].at = at]

Greatest(S) == CHOOSE i \in S : \A j \in S : j <= i

-----------------------------------------------------------------------------
(* Reading *)

\* Mutant: a reply that is still being written is read, too.
EligibleSoFar(through) == {i \in DOMAIN messages : i <= through}

Eligible(through) == {i \in DOMAIN messages : messages[i] = "completed" /\ i <= through}

\* The newest of them.
Selected(through) ==
  {i \in Eligible(through) : Cardinality({j \in Eligible(through) : j > i}) < Window}

Extract(e, u, through) ==
  /\ extractions[e] = None
  /\ Authorized(u, "context:propose") /\ RequireActiveProject
  /\ conversation = "active"
  /\ Selected(through) # {}
  /\ extractions' = [extractions EXCEPT ![e] =
       [by |-> u, at |-> "starting", read |-> Selected(through), attempt |-> 0, evidence |-> {}]]
  /\ UNCHANGED <<Members, conversationTables, extractionTables>>

-----------------------------------------------------------------------------
(* The model run *)

\* Nobody is asked for permission again.
InsertModelRun(e) ==
  /\ Extracts(e, "starting")
  /\ modelRuns' = [modelRuns EXCEPT ![e] = "running"]
  /\ \/ Advance(e, "generating")
     \/ Stop(e, "failed")  \* COMMIT was not acknowledged
  /\ UNCHANGED <<Members, conversationTables, deltas, audited>>

InsertModelRunFails(e) ==
  /\ Extracts(e, "starting")
  /\ Stop(e, "failed")
  /\ UNCHANGED <<Members, conversationTables, extractionTables>>

\* Mutant: the guard of the UPDATE is gone.
UpdateAnyModelRun(e, status) == modelRuns' = [modelRuns EXCEPT ![e] = status]

\* UPDATE ... WHERE status = 'running', which must meet one row.
UpdateModelRun(e, status) ==
  modelRuns[e] = "running" /\ modelRuns' = [modelRuns EXCEPT ![e] = status]

-----------------------------------------------------------------------------
(* The model *)

\* Malformed output is asked for once more.
Retry(e) ==
  IF extractions[e].attempt = 0 THEN extractions' = [extractions EXCEPT ![e].attempt = 1]
  ELSE Advance(e, "failing")

ModelAnswersMalformed(e) ==
  /\ Extracts(e, "generating")
  /\ Retry(e)
  /\ UNCHANGED <<Members, conversationTables, extractionTables>>

\* Any other failure, and an answer that did not end by itself or that cannot be
\* stored, is final.
ModelFails(e) ==
  /\ Extracts(e, "generating")
  /\ Advance(e, "failing")
  /\ UNCHANGED <<Members, conversationTables, extractionTables>>

EvidenceWithinRange(e, cited) == cited \subseteq extractions[e].read

ModelProposes(e, cited) ==
  /\ Extracts(e, "generating")
  /\ extractions' = [extractions EXCEPT ![e] =
       IF EvidenceWithinRange(e, cited) THEN [@ EXCEPT !.at = "persisting", !.evidence = cited]
       ELSE [@ EXCEPT !.at = "failing"]]
  /\ UNCHANGED <<Members, conversationTables, extractionTables>>

-----------------------------------------------------------------------------
(* Storing *)

InsertDelta(e) ==
  deltas' = [deltas EXCEPT ![e] = [through  |-> Greatest(extractions[e].read),
                                   evidence |-> extractions[e].evidence]]

\* The member and the project are looked at again, the conversation is not.
PersistDelta(e) ==
  /\ Extracts(e, "persisting")
  /\ Authorized(extractions[e].by, "context:propose") /\ RequireActiveProject
  /\ InsertDelta(e)
  /\ UpdateModelRun(e, "completed")
  /\ audited' = audited \cup {e}
  /\ \/ Stop(e, "answered")
     \/ Advance(e, "failing")  \* COMMIT was not acknowledged
  /\ UNCHANGED <<Members, conversationTables>>

PersistDeltaFails(e) ==
  /\ Extracts(e, "persisting")
  /\ Advance(e, "failing")
  /\ UNCHANGED <<Members, conversationTables, extractionTables>>

FailModelRun(e) ==
  /\ Extracts(e, "failing")
  /\ UpdateModelRun(e, "failed")
  /\ Stop(e, "failed")
  /\ UNCHANGED <<Members, conversationTables, deltas, audited>>

\* The run is no longer running, or the database cannot be reached.
FailModelRunFails(e) ==
  /\ Extracts(e, "failing")
  /\ Stop(e, "failed")
  /\ UNCHANGED <<Members, conversationTables, extractionTables>>

\* Nothing looks for the runs a dead process has left running.
ProcessDies ==
  /\ \E e \in Extractions : \E stage \in Extracting : Extracts(e, stage)
  /\ extractions' = [e \in Extractions |->
       IF \E stage \in Extracting : Extracts(e, stage)
       THEN Over(extractions[e], "lost") ELSE extractions[e]]
  /\ UNCHANGED <<Members, conversationTables, extractionTables>>

-----------------------------------------------------------------------------
(* The conversation meanwhile (see ChatStream) *)

AppendMessage(state) ==
  /\ conversation = "active" /\ Len(messages) < MaxMessages
  /\ messages' = Append(messages, state)
  /\ UNCHANGED <<Members, conversation, extractionTables, extractions>>

FinalizeMessage(i, state) ==
  /\ messages[i] = "streaming"
  /\ messages' = [messages EXCEPT ![i] = state]
  /\ UNCHANGED <<Members, conversation, extractionTables, extractions>>

ArchiveConversation ==
  /\ conversation = "active"
  /\ conversation' = "archived"
  /\ UNCHANGED <<Members, messages, extractionTables, extractions>>

-----------------------------------------------------------------------------
ExtractionInit ==
  /\ MembershipInit
  /\ conversation = "active" /\ messages = <<>>
  /\ modelRuns = [e \in Extractions |-> None]
  /\ deltas = [e \in Extractions |-> None]
  /\ audited = {}
  /\ extractions = [e \in Extractions |-> None]

ExtractionStep(e) ==
  \/ \E u \in Users, through \in DOMAIN messages : Extract(e, u, through)
  \/ InsertModelRun(e) \/ InsertModelRunFails(e)
  \/ ModelAnswersMalformed(e) \/ ModelFails(e)
  \/ \E cited \in SUBSET (1..MaxMessages) : cited # {} /\ ModelProposes(e, cited)
  \/ PersistDelta(e) \/ PersistDeltaFails(e)
  \/ FailModelRun(e) \/ FailModelRunFails(e)

ExtractionNext ==
  \/ \E e \in Extractions : ExtractionStep(e)
  \/ ProcessDies
  \/ \E state \in {"streaming", "completed"} : AppendMessage(state)
  \/ \E i \in DOMAIN messages, state \in DeliveryStates \ {"streaming"} : FinalizeMessage(i, state)
  \/ ArchiveConversation
  \/ MembershipNext /\ UNCHANGED <<conversationTables, extractionTables, extractions>>

ExtractionSpec == ExtractionInit /\ [][ExtractionNext]_extractionVars

-----------------------------------------------------------------------------
(* Properties *)

ExtractionTypeOK ==
  /\ role \in [Users -> Roles \cup {None}] /\ archived \in BOOLEAN
  /\ conversation \in {"active", "archived"} /\ messages \in Seq(DeliveryStates)
  /\ modelRuns \in [Extractions -> {"running", "completed", "failed"} \cup {None}]
  /\ deltas \in [Extractions -> Delta \cup {None}]
  /\ audited \subseteq Extractions
  /\ extractions \in [Extractions -> ExtractionCall \cup {None}]

\* The run, the Delta and the audit event are one record: whatever fails between
\* the transactions, they never disagree, and a proposal once made is never
\* reported as a failed run.
Record(e) ==
  IF modelRuns[e] = "completed" /\ deltas[e] # None /\ e \in audited THEN "proposed"
  ELSE IF deltas[e] # None \/ e \in audited \/ modelRuns[e] = "completed" THEN "torn"
  ELSE IF modelRuns[e] = None THEN "absent"
  ELSE IF modelRuns[e] = "running" THEN "open"
  ELSE "failed"

Recorded == INSTANCE ProposalRecord WITH record <- [e \in Extractions |-> Record(e)]

ImplementsProposalRecord == Recorded!Spec

\* A Delta cites only messages that were whole when the model read them, none of
\* them later than the sequence it says it has seen: what is written to the
\* conversation afterwards cannot become its evidence.
CitesWhatWasRead ==
  /\ ExtractionTypeOK
  /\ \A e \in Extractions : deltas[e] # None =>
       /\ deltas[e].through \in DOMAIN messages
       /\ \A i \in deltas[e].evidence :
            i \in DOMAIN messages /\ messages[i] = "completed" /\ i <= deltas[e].through
=============================================================================
