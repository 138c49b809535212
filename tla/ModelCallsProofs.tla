-------------------------- MODULE ModelCallsProofs --------------------------
(* A Delta cites what was whole when it was read, and what is recorded of an *)
(* extraction is one record.  A request of the provider keeps its limits,    *)
(* leaves nothing behind, and tells its consumer what ModelStream promises.  *)
EXTENDS ModelProvider, Extraction, NaturalsInduction, WellFoundedInduction, SequenceTheorems,
        TLAPS

-----------------------------------------------------------------------------
(* Lemmas about sets of sequence numbers *)

LEMMA LeastOf ==
  ASSUME NEW T \in SUBSET Nat, T # {}
  PROVE  \E m \in T : \A k \in T : m <= k
<1> DEFINE R == {ss \in Nat \X Nat : ss[1] < ss[2]}
<1>1. IsWellFoundedOn(R, Nat)
  BY NatLessThanWellFounded DEF OpToRel
<1>2. PICK m \in T : \A k \in T : ~(<<k, m>> \in R)
  BY <1>1, WFMin
<1>3. ASSUME NEW k \in T PROVE m <= k
  <2>1. ~(<<k, m>> \in R)
    BY <1>2
  <2>2. ~(k < m)
    BY <2>1
  <2>. QED BY <2>2
<1>. QED BY <1>3

\* The least of the numbers that nothing exceeds is one of the set's own.
LEMMA GreatestIsOfIt ==
  ASSUME NEW n \in Nat, NEW S \in SUBSET (1..n), S # {}
  PROVE  Greatest(S) \in S /\ \A j \in S : j <= Greatest(S)
<1> DEFINE Bounds == {b \in Nat : \A j \in S : j <= b}
<1>1. n \in Bounds
  OBVIOUS
<1>2. PICK m \in Bounds : \A b \in Bounds : m <= b
  BY <1>1, LeastOf
<1>3. m \in S
  <2>1. SUFFICES ASSUME m \notin S PROVE FALSE
    OBVIOUS
  <2>2. PICK i \in S : TRUE
    OBVIOUS
  <2>3. m \in Nat /\ i \in Nat /\ 1 <= i /\ i <= m /\ i # m
    BY <2>1, <2>2
  <2>4. m - 1 \in Nat
    BY <2>3
  <2>5. \A j \in S : j <= m - 1
    BY <2>1, <2>3
  <2>6. m <= m - 1
    BY <1>2, <2>4, <2>5
  <2>. QED BY <2>3, <2>6
<1>4. \E i \in S : \A j \in S : j <= i
  BY <1>3
<1>. QED BY <1>4 DEF Greatest

-----------------------------------------------------------------------------
(* The inductive invariant of an extraction *)

\* What a call has read was whole then, and is still; it cites nothing else.
ReadWhole(e) ==
  extractions[e] # None =>
    /\ extractions[e].at \in Extracting => extractions[e].read # {}
    /\ \A i \in extractions[e].read : i \in DOMAIN messages /\ messages[i] = "completed"
    /\ extractions[e].evidence \subseteq extractions[e].read

\* A call that has not inserted its run has none, and one that asks the model, or has its
\* proposal, has a run that is running.
RunIsOpen(e) ==
  /\ extractions[e] = None \/ Extracts(e, "starting") => modelRuns[e] = None
  /\ Extracts(e, "generating") \/ Extracts(e, "persisting") => modelRuns[e] = "running"

\* Delta and audit event are there for the runs that completed.
OneRecord(e) ==
  /\ deltas[e] # None <=> modelRuns[e] = "completed"
  /\ e \in audited <=> modelRuns[e] = "completed"

ExtractionInv ==
  /\ ExtractionTypeOK
  /\ \A e \in Extractions : ReadWhole(e) /\ RunIsOpen(e) /\ OneRecord(e)
  /\ CitesWhatWasRead

-----------------------------------------------------------------------------
(* Steps that change neither a call nor a record *)

\* Messages are only added, and one that is whole stays so.
MessagesGrow ==
  \A i \in DOMAIN messages :
    i \in DOMAIN messages' /\ (messages[i] = "completed" => messages'[i] = "completed")

LEMMA WhatWasReadStays ==
  ASSUME ExtractionInv, MessagesGrow, UNCHANGED <<extractionTables, extractions>>, ExtractionTypeOK'
  PROVE  ExtractionInv'
<1>1. ASSUME NEW e \in Extractions PROVE (ReadWhole(e) /\ RunIsOpen(e) /\ OneRecord(e))'
  BY DEF ExtractionInv, ReadWhole, RunIsOpen, OneRecord, MessagesGrow, Extracts, extractionTables
<1>2. CitesWhatWasRead'
  BY DEF ExtractionInv, CitesWhatWasRead, MessagesGrow, extractionTables
<1>. QED BY <1>1, <1>2 DEF ExtractionInv

LEMMA ConversationStep ==
  ASSUME ExtractionInv,
         \/ \E state \in {"streaming", "completed"} : AppendMessage(state)
         \/ \E i \in DOMAIN messages, state \in DeliveryStates \ {"streaming"} :
              FinalizeMessage(i, state)
         \/ ArchiveConversation
         \/ MembershipNext /\ UNCHANGED <<conversationTables, extractionTables, extractions>>
  PROVE  ExtractionInv'
<1>. USE DEF ExtractionInv, ExtractionTypeOK, Members, conversationTables, extractionTables
<1>1. CASE \E state \in {"streaming", "completed"} : AppendMessage(state)
  <2>1. PICK state \in {"streaming", "completed"} : AppendMessage(state)
    BY <1>1
  <2>2. messages' \in Seq(DeliveryStates) /\ MessagesGrow
    BY <2>1 DEF AppendMessage, MessagesGrow, DeliveryStates
  <2>3. ExtractionTypeOK'
    BY <2>1, <2>2 DEF AppendMessage
  <2>. QED BY <2>1, <2>2, <2>3, WhatWasReadStays DEF AppendMessage
<1>2. CASE \E i \in DOMAIN messages, state \in DeliveryStates \ {"streaming"} :
             FinalizeMessage(i, state)
  <2>1. PICK i \in DOMAIN messages, state \in DeliveryStates \ {"streaming"} :
          FinalizeMessage(i, state)
    BY <1>2
  <2>2. messages' \in Seq(DeliveryStates) /\ MessagesGrow
    BY <2>1 DEF FinalizeMessage, MessagesGrow
  <2>3. ExtractionTypeOK'
    BY <2>1, <2>2 DEF FinalizeMessage
  <2>. QED BY <2>1, <2>2, <2>3, WhatWasReadStays DEF FinalizeMessage
<1>3. CASE ArchiveConversation
  <2>1. ExtractionTypeOK' /\ MessagesGrow
    BY <1>3 DEF ArchiveConversation, MessagesGrow
  <2>. QED BY <1>3, <2>1, WhatWasReadStays DEF ArchiveConversation
<1>4. CASE MembershipNext /\ UNCHANGED <<conversationTables, extractionTables, extractions>>
  <2>1. role' \in [Users -> Roles \cup {None}] /\ archived' \in BOOLEAN
    BY <1>4 DEF MembershipNext, ChangeMemberRole, AddMember, ArchiveProject
  <2>2. ExtractionTypeOK' /\ MessagesGrow
    BY <1>4, <2>1 DEF MessagesGrow
  <2>. QED BY <1>4, <2>2, WhatWasReadStays
<1>. QED BY <1>1, <1>2, <1>3, <1>4

-----------------------------------------------------------------------------
(* Steps of a call *)

\* What is left to show of a step of e: its own call and its own record.
LEMMA CallStep ==
  ASSUME ExtractionInv, NEW e \in Extractions,
         NEW call \in ExtractionCall, extractions' = [extractions EXCEPT ![e] = call],
         UNCHANGED <<Members, conversationTables>>,
         NEW run \in {"running", "completed", "failed"} \cup {None},
         modelRuns' = [modelRuns EXCEPT ![e] = run],
         NEW delta \in Delta \cup {None}, deltas' = [deltas EXCEPT ![e] = delta],
         audited' = IF delta = None THEN audited ELSE audited \cup {e},
         ReadWhole(e)', RunIsOpen(e)',
         delta # None <=> run = "completed",
         delta = None => e \notin audited,
         delta # None =>
           /\ delta.through \in DOMAIN messages
           /\ \A i \in delta.evidence :
                i \in DOMAIN messages /\ messages[i] = "completed" /\ i <= delta.through
  PROVE  ExtractionInv'
<1>1. ExtractionTypeOK'
  BY DEF ExtractionInv, ExtractionTypeOK, Members, conversationTables
<1>2. ASSUME NEW f \in Extractions PROVE (ReadWhole(f) /\ RunIsOpen(f) /\ OneRecord(f))'
  <2>1. CASE f = e
    <3>1. OneRecord(e)'
      BY DEF ExtractionInv, ExtractionTypeOK, OneRecord
    <3>. QED BY <2>1, <3>1
  <2>2. CASE f # e
    <3>1. /\ extractions'[f] = extractions[f] /\ modelRuns'[f] = modelRuns[f]
          /\ deltas'[f] = deltas[f] /\ (f \in audited' <=> f \in audited) /\ messages' = messages
      BY <2>2 DEF ExtractionInv, ExtractionTypeOK, conversationTables
    <3>2. ReadWhole(f) /\ RunIsOpen(f) /\ OneRecord(f)
      BY DEF ExtractionInv
    <3>. QED BY <3>1, <3>2 DEF ReadWhole, RunIsOpen, OneRecord, Extracts
  <2>. QED BY <2>1, <2>2
<1>3. CitesWhatWasRead'
  BY <1>1 DEF ExtractionInv, ExtractionTypeOK, CitesWhatWasRead, conversationTables
<1>. QED BY <1>1, <1>2, <1>3 DEF ExtractionInv

LEMMA OverIsCall ==
  ASSUME NEW call \in ExtractionCall, NEW stage \in ExtractionStages
  PROVE  Over(call, stage) \in ExtractionCall
<1>1. 0 \in 0..1 /\ {} \in SUBSET Nat
  OBVIOUS
<1>. QED BY <1>1 DEF Over, ExtractionCall

\* A step that leaves a record as it is.
LEMMA QuietStep ==
  ASSUME ExtractionInv, NEW e \in Extractions,
         NEW call \in ExtractionCall, extractions' = [extractions EXCEPT ![e] = call],
         UNCHANGED <<Members, conversationTables, extractionTables>>,
         ReadWhole(e)', RunIsOpen(e)'
  PROVE  ExtractionInv'
<1>1. /\ modelRuns' = [modelRuns EXCEPT ![e] = modelRuns[e]]
      /\ deltas' = [deltas EXCEPT ![e] = deltas[e]]
      /\ audited' = IF deltas[e] = None THEN audited ELSE audited \cup {e}
  BY DEF ExtractionInv, ExtractionTypeOK, OneRecord, extractionTables
<1>2. /\ modelRuns[e] \in {"running", "completed", "failed"} \cup {None}
      /\ deltas[e] \in Delta \cup {None}
      /\ deltas[e] # None <=> modelRuns[e] = "completed"
      /\ deltas[e] = None => e \notin audited
  BY DEF ExtractionInv, ExtractionTypeOK, OneRecord
<1>3. deltas[e] # None =>
        /\ deltas[e].through \in DOMAIN messages
        /\ \A i \in deltas[e].evidence :
             i \in DOMAIN messages /\ messages[i] = "completed" /\ i <= deltas[e].through
  BY DEF ExtractionInv, CitesWhatWasRead
<1>. QED BY <1>1, <1>2, <1>3, CallStep

\* A call that ends, or goes on to the catch clause.
LEMMA EndingStep ==
  ASSUME ExtractionInv, NEW e \in Extractions, extractions[e] # None,
         NEW stage \in {"answered", "failed", "lost"}, Stop(e, stage)
  PROVE  /\ Over(extractions[e], stage) \in ExtractionCall
         /\ extractions' = [extractions EXCEPT ![e] = Over(extractions[e], stage)]
         /\ ReadWhole(e)' /\ RunIsOpen(e)'
<1>1. extractions[e] \in ExtractionCall /\ e \in DOMAIN extractions
  BY DEF ExtractionInv, ExtractionTypeOK
<1>2. Over(extractions[e], stage) \in ExtractionCall
  BY <1>1, OverIsCall DEF ExtractionStages
<1>3. extractions' = [extractions EXCEPT ![e] = Over(extractions[e], stage)]
  BY <1>1 DEF Stop
<1>4. extractions'[e] = Over(extractions[e], stage)
  BY <1>1, <1>3
<1>5. /\ extractions'[e].at = stage /\ extractions'[e].read = {}
      /\ extractions'[e].evidence = {} /\ extractions'[e] # None
  BY <1>1, <1>2, <1>4, ExtractionAssumption DEF Over, ExtractionCall
<1>6. ReadWhole(e)'
  BY <1>5 DEF ReadWhole, Extracting
<1>7. RunIsOpen(e)'
  BY <1>5 DEF RunIsOpen, Extracts
<1>. QED BY <1>2, <1>3, <1>6, <1>7

LEMMA CatchStep ==
  ASSUME ExtractionInv, NEW e \in Extractions, extractions[e] # None,
         extractions[e].at \in Extracting, UNCHANGED conversationTables,
         NEW stage \in {"generating", "failing"}, Advance(e, stage),
         stage = "generating" => modelRuns'[e] = "running"
  PROVE  /\ [extractions[e] EXCEPT !.at = stage] \in ExtractionCall
         /\ extractions' = [extractions EXCEPT ![e] = [extractions[e] EXCEPT !.at = stage]]
         /\ ReadWhole(e)' /\ RunIsOpen(e)'
<1>1. extractions[e] \in ExtractionCall /\ e \in DOMAIN extractions
  BY DEF ExtractionInv, ExtractionTypeOK
<1>2. [extractions[e] EXCEPT !.at = stage] \in ExtractionCall
  BY <1>1 DEF ExtractionCall, ExtractionStages
<1>3. extractions' = [extractions EXCEPT ![e] = [extractions[e] EXCEPT !.at = stage]]
  BY <1>1 DEF Advance
<1>4. /\ extractions'[e].at = stage /\ extractions'[e].read = extractions[e].read
      /\ extractions'[e].evidence = extractions[e].evidence /\ extractions'[e] # None
  BY <1>1, <1>2, <1>3, ExtractionAssumption DEF ExtractionCall
<1>5. ReadWhole(e)'
  <2>1. ReadWhole(e) /\ messages' = messages
    BY DEF ExtractionInv, conversationTables
  <2>. QED BY <1>4, <2>1 DEF ReadWhole, Extracting
<1>6. RunIsOpen(e)'
  BY <1>4 DEF RunIsOpen, Extracts
<1>. QED BY <1>2, <1>3, <1>5, <1>6

\* A call's own steps, one by one.
LEMMA ExtractPreserves ==
  ASSUME ExtractionInv, NEW e \in Extractions, NEW u \in Users,
         NEW through \in DOMAIN messages, Extract(e, u, through)
  PROVE  ExtractionInv'
<1> DEFINE call == [by |-> u, at |-> "starting", read |-> Selected(through), attempt |-> 0,
                    evidence |-> {}]
<1>1. /\ messages \in Seq(DeliveryStates) /\ extractions \in [Extractions -> ExtractionCall \cup {None}]
      /\ extractions' = [extractions EXCEPT ![e] = call] /\ extractions[e] = None
      /\ UNCHANGED <<Members, conversationTables, extractionTables>>
  BY DEF ExtractionInv, ExtractionTypeOK, Extract
<1>2. Selected(through) \subseteq {i \in DOMAIN messages : messages[i] = "completed"}
  BY DEF Selected, Eligible
<1>3. call \in ExtractionCall
  BY <1>1, <1>2 DEF ExtractionCall, ExtractionStages
<1>4. extractions'[e] = call /\ messages' = messages /\ modelRuns' = modelRuns
  BY <1>1 DEF conversationTables, extractionTables
<1>5. ReadWhole(e)'
  BY <1>2, <1>4 DEF ReadWhole, Extract
<1>6. RunIsOpen(e)'
  <2>1. RunIsOpen(e)
    BY DEF ExtractionInv
  <2>. QED BY <1>1, <1>4, <2>1 DEF RunIsOpen, Extracts
<1>. QED BY <1>1, <1>3, <1>5, <1>6, QuietStep

LEMMA InsertModelRunPreserves ==
  ASSUME ExtractionInv, NEW e \in Extractions, InsertModelRun(e)
  PROVE  ExtractionInv'
<1>1. /\ extractions[e] # None /\ extractions[e].at = "starting"
      /\ modelRuns[e] = None /\ deltas[e] = None /\ e \notin audited
  <2>1. Extracts(e, "starting") /\ RunIsOpen(e) /\ OneRecord(e)
    BY DEF InsertModelRun, ExtractionInv
  <2>2. modelRuns[e] = None
    BY <2>1 DEF RunIsOpen
  <2>. QED BY <2>1, <2>2, ExtractionAssumption DEF OneRecord, Extracts
<1>2. /\ modelRuns' = [modelRuns EXCEPT ![e] = "running"] /\ modelRuns'[e] = "running"
      /\ UNCHANGED <<Members, conversationTables>>
      /\ deltas' = [deltas EXCEPT ![e] = None] /\ audited' = audited
  BY <1>1 DEF InsertModelRun, ExtractionInv, ExtractionTypeOK
<1>3. CASE Advance(e, "generating")
  <2>1. /\ [extractions[e] EXCEPT !.at = "generating"] \in ExtractionCall
        /\ extractions' = [extractions EXCEPT ![e] = [extractions[e] EXCEPT !.at = "generating"]]
        /\ ReadWhole(e)' /\ RunIsOpen(e)'
    BY <1>1, <1>2, <1>3, CatchStep DEF Extracting
  <2>. QED BY <1>1, <1>2, <2>1, CallStep
<1>4. CASE Stop(e, "failed")
  <2>1. /\ Over(extractions[e], "failed") \in ExtractionCall
        /\ extractions' = [extractions EXCEPT ![e] = Over(extractions[e], "failed")]
        /\ ReadWhole(e)' /\ RunIsOpen(e)'
    BY <1>1, <1>4, EndingStep
  <2>. QED BY <1>1, <1>2, <2>1, CallStep
<1>. QED BY <1>3, <1>4 DEF InsertModelRun

\* The ends of a call that leave its record as it is.
LEMMA EndPreserves ==
  ASSUME ExtractionInv, NEW e \in Extractions,
         InsertModelRunFails(e) \/ FailModelRunFails(e)
  PROVE  ExtractionInv'
<1>1. extractions[e] # None /\ Stop(e, "failed")
  BY DEF InsertModelRunFails, FailModelRunFails, Extracts
<1>2. UNCHANGED <<Members, conversationTables, extractionTables>>
  BY DEF InsertModelRunFails, FailModelRunFails
<1>3. /\ Over(extractions[e], "failed") \in ExtractionCall
      /\ extractions' = [extractions EXCEPT ![e] = Over(extractions[e], "failed")]
      /\ ReadWhole(e)' /\ RunIsOpen(e)'
  BY <1>1, EndingStep
<1>. QED BY <1>2, <1>3, QuietStep

LEMMA FailurePreserves ==
  ASSUME ExtractionInv, NEW e \in Extractions, extractions[e] # None,
         extractions[e].at \in Extracting, Advance(e, "failing"),
         UNCHANGED <<Members, conversationTables, extractionTables>>
  PROVE  ExtractionInv'
<1>1. /\ [extractions[e] EXCEPT !.at = "failing"] \in ExtractionCall
      /\ extractions' = [extractions EXCEPT ![e] = [extractions[e] EXCEPT !.at = "failing"]]
      /\ ReadWhole(e)' /\ RunIsOpen(e)'
  BY CatchStep
<1>. QED BY <1>1, QuietStep

LEMMA ModelAnswersMalformedPreserves ==
  ASSUME ExtractionInv, NEW e \in Extractions, ModelAnswersMalformed(e)
  PROVE  ExtractionInv'
<1>1. /\ extractions[e] # None /\ extractions[e].at = "generating"
      /\ UNCHANGED <<Members, conversationTables, extractionTables>> /\ Retry(e)
  BY DEF ModelAnswersMalformed, Extracts
<1>2. CASE extractions[e].attempt = 0
  <2> DEFINE call == [extractions[e] EXCEPT !.attempt = 1]
  <2>1. extractions[e] \in ExtractionCall /\ e \in DOMAIN extractions
    BY <1>1 DEF ExtractionInv, ExtractionTypeOK
  <2>2. call \in ExtractionCall /\ extractions' = [extractions EXCEPT ![e] = call]
    BY <1>1, <1>2, <2>1 DEF ExtractionCall, Retry
  <2>3. /\ extractions'[e].at = "generating" /\ extractions'[e].read = extractions[e].read
        /\ extractions'[e].evidence = extractions[e].evidence /\ extractions'[e] # None
    BY <1>1, <2>1, <2>2, ExtractionAssumption DEF ExtractionCall
  <2>4. messages' = messages /\ modelRuns' = modelRuns /\ ReadWhole(e) /\ RunIsOpen(e)
    BY <1>1 DEF ExtractionInv, conversationTables, extractionTables
  <2>5. ReadWhole(e)'
    BY <1>1, <2>3, <2>4 DEF ReadWhole
  <2>6. RunIsOpen(e)'
    BY <1>1, <2>3, <2>4 DEF RunIsOpen, Extracts
  <2>. QED BY <1>1, <2>2, <2>5, <2>6, QuietStep
<1>3. CASE extractions[e].attempt # 0
  BY <1>1, <1>3, FailurePreserves DEF Retry, Extracting
<1>. QED BY <1>2, <1>3

LEMMA ModelProposesPreserves ==
  ASSUME ExtractionInv, NEW e \in Extractions, NEW cited \in SUBSET (1..MaxMessages),
         ModelProposes(e, cited)
  PROVE  ExtractionInv'
<1>1. /\ extractions[e] # None /\ extractions[e].at = "generating"
      /\ UNCHANGED <<Members, conversationTables, extractionTables>>
      /\ extractions[e] \in ExtractionCall /\ e \in DOMAIN extractions
  BY DEF ModelProposes, Extracts, ExtractionInv, ExtractionTypeOK
<1>2. CASE cited \subseteq extractions[e].read
  <2> DEFINE call == [extractions[e] EXCEPT !.at = "persisting", !.evidence = cited]
  <2>0. cited \in SUBSET Nat /\ "persisting" \in ExtractionStages
    BY ExtractionAssumption DEF ExtractionStages
  <2>1. call \in ExtractionCall
    BY <1>1, <2>0 DEF ExtractionCall
  <2>2. extractions' = [extractions EXCEPT ![e] = call]
    BY <1>1, <1>2 DEF ModelProposes, EvidenceWithinRange
  <2>3. /\ extractions'[e].at = "persisting" /\ extractions'[e].read = extractions[e].read
        /\ extractions'[e].evidence = cited /\ extractions'[e] # None
    BY <1>1, <2>1, <2>2, ExtractionAssumption DEF ExtractionCall
  <2>4. messages' = messages /\ modelRuns' = modelRuns /\ ReadWhole(e) /\ RunIsOpen(e)
    BY <1>1 DEF ExtractionInv, conversationTables, extractionTables
  <2>5. ReadWhole(e)'
    BY <1>1, <1>2, <2>3, <2>4 DEF ReadWhole, Extracting
  <2>6. RunIsOpen(e)'
    BY <1>1, <2>3, <2>4 DEF RunIsOpen, Extracts
  <2>. QED BY <1>1, <2>1, <2>2, <2>5, <2>6, QuietStep
<1>3. CASE ~(cited \subseteq extractions[e].read)
  <2>1. Advance(e, "failing")
    BY <1>1, <1>3 DEF ModelProposes, EvidenceWithinRange, Advance
  <2>. QED BY <1>1, <2>1, FailurePreserves DEF Extracting
<1>. QED BY <1>2, <1>3

\* The Delta a call stores.
Proposed(e) ==
  [through |-> Greatest(extractions[e].read), evidence |-> extractions[e].evidence]

LEMMA PersistDeltaPreserves ==
  ASSUME ExtractionInv, NEW e \in Extractions, PersistDelta(e)
  PROVE  ExtractionInv'
<1>1. /\ extractions[e] # None /\ extractions[e].at = "persisting" /\ modelRuns[e] = "running"
      /\ extractions[e] \in ExtractionCall /\ e \in DOMAIN extractions
      /\ ReadWhole(e) /\ messages \in Seq(DeliveryStates)
  BY DEF PersistDelta, UpdateModelRun, Extracts, ExtractionInv, ExtractionTypeOK
<1>2. /\ modelRuns' = [modelRuns EXCEPT ![e] = "completed"]
      /\ deltas' = [deltas EXCEPT ![e] = Proposed(e)] /\ audited' = audited \cup {e}
      /\ UNCHANGED <<Members, conversationTables>>
  BY DEF PersistDelta, UpdateModelRun, InsertDelta, Proposed
<1>3. /\ Greatest(extractions[e].read) \in extractions[e].read
      /\ \A i \in extractions[e].read : i <= Greatest(extractions[e].read)
  <2>1. extractions[e].read # {} /\ extractions[e].read \subseteq 1..Len(messages)
    BY <1>1 DEF ReadWhole, Extracting
  <2>2. Len(messages) \in Nat /\ extractions[e].read \in SUBSET (1..Len(messages))
    BY <1>1, <2>1
  <2>. HIDE DEF Greatest
  <2>. QED BY <2>1, <2>2, GreatestIsOfIt
<1>4. /\ Proposed(e).through \in DOMAIN messages /\ Proposed(e) \in Delta
      /\ \A i \in Proposed(e).evidence :
           i \in DOMAIN messages /\ messages[i] = "completed" /\ i <= Proposed(e).through
  BY <1>1, <1>3 DEF Proposed, ReadWhole, Delta, ExtractionCall
<1>5. Proposed(e) # None
  BY <1>4, ExtractionAssumption
<1>6. CASE Stop(e, "answered")
  <2>1. /\ Over(extractions[e], "answered") \in ExtractionCall
        /\ extractions' = [extractions EXCEPT ![e] = Over(extractions[e], "answered")]
        /\ ReadWhole(e)' /\ RunIsOpen(e)'
    BY <1>1, <1>6, EndingStep
  <2>. QED BY <1>2, <1>4, <1>5, <2>1, CallStep
<1>7. CASE Advance(e, "failing")
  <2>1. /\ [extractions[e] EXCEPT !.at = "failing"] \in ExtractionCall
        /\ extractions' = [extractions EXCEPT ![e] = [extractions[e] EXCEPT !.at = "failing"]]
        /\ ReadWhole(e)' /\ RunIsOpen(e)'
    BY <1>1, <1>2, <1>7, CatchStep DEF Extracting
  <2>. QED BY <1>2, <1>4, <1>5, <2>1, CallStep
<1>. QED BY <1>6, <1>7 DEF PersistDelta

LEMMA FailModelRunPreserves ==
  ASSUME ExtractionInv, NEW e \in Extractions, FailModelRun(e)
  PROVE  ExtractionInv'
<1>1. /\ extractions[e] # None /\ modelRuns[e] = "running" /\ Stop(e, "failed")
      /\ modelRuns' = [modelRuns EXCEPT ![e] = "failed"]
      /\ UNCHANGED <<Members, conversationTables>> /\ UNCHANGED deltas /\ UNCHANGED audited
  BY DEF FailModelRun, UpdateModelRun, Extracts
<1>2. deltas[e] = None /\ e \notin audited
  BY <1>1 DEF ExtractionInv, OneRecord
<1>3. /\ deltas' = [deltas EXCEPT ![e] = None] /\ audited' = audited
      /\ modelRuns' = [modelRuns EXCEPT ![e] = "failed"]
      /\ UNCHANGED <<Members, conversationTables>>
  BY <1>1, <1>2 DEF ExtractionInv, ExtractionTypeOK
<1>4. /\ Over(extractions[e], "failed") \in ExtractionCall
      /\ extractions' = [extractions EXCEPT ![e] = Over(extractions[e], "failed")]
      /\ ReadWhole(e)' /\ RunIsOpen(e)'
  BY <1>1, EndingStep
<1>5. "failed" # "completed" /\ "failed" \in {"running", "completed", "failed"} \cup {None}
  OBVIOUS
<1>. QED BY <1>2, <1>3, <1>4, <1>5, CallStep

LEMMA ProcessDiesPreserves ==
  ASSUME ExtractionInv, ProcessDies
  PROVE  ExtractionInv'
<1> DEFINE Running(e) == \E stage \in Extracting : Extracts(e, stage)
<1>2. ASSUME NEW e \in Extractions, Running(e)
      PROVE  /\ extractions[e] \in ExtractionCall
             /\ Over(extractions[e], "lost") \in ExtractionCall
  <2>1. extractions[e] \in ExtractionCall
    BY <1>2 DEF ExtractionInv, ExtractionTypeOK, Extracts
  <2>. QED BY <2>1, OverIsCall DEF ExtractionStages
<1>1. /\ extractions \in [Extractions -> ExtractionCall \cup {None}]
      /\ UNCHANGED <<Members, conversationTables, extractionTables>>
      /\ extractions' = [e \in Extractions |->
           IF Running(e) THEN Over(extractions[e], "lost") ELSE extractions[e]]
  BY <1>2 DEF ProcessDies, ExtractionInv, ExtractionTypeOK
<1>3. ExtractionTypeOK'
  <2>1. extractions' \in [Extractions -> ExtractionCall \cup {None}]
    BY <1>1, <1>2
  <2>. QED BY <1>1, <2>1
         DEF ExtractionInv, ExtractionTypeOK, Members, conversationTables, extractionTables
<1>4. ASSUME NEW e \in Extractions PROVE (ReadWhole(e) /\ RunIsOpen(e) /\ OneRecord(e))'
  <2>1. ReadWhole(e) /\ RunIsOpen(e) /\ OneRecord(e)
    BY DEF ExtractionInv
  <2>2. /\ messages' = messages /\ modelRuns' = modelRuns /\ deltas' = deltas
        /\ audited' = audited
    BY <1>1 DEF conversationTables, extractionTables
  <2>3. CASE Running(e)
    <3>1. extractions'[e] = Over(extractions[e], "lost")
      BY <1>1, <2>3
    <3>2. extractions'[e] \in ExtractionCall
      BY <1>2, <2>3, <3>1
    <3>3. extractions'[e] # None
      BY <3>2, ExtractionAssumption
    <3>4. /\ extractions'[e].at = "lost" /\ extractions'[e].read = {}
          /\ extractions'[e].evidence = {}
      BY <3>1 DEF Over
    <3>. QED BY <2>1, <2>2, <3>3, <3>4 DEF ReadWhole, RunIsOpen, OneRecord, Extracts, Extracting
  <2>4. CASE ~Running(e)
    <3>1. extractions'[e] = extractions[e]
      BY <1>1, <2>4
    <3>. QED BY <2>1, <2>2, <3>1 DEF ReadWhole, RunIsOpen, OneRecord, Extracts
  <2>. QED BY <2>3, <2>4
<1>5. CitesWhatWasRead'
  BY <1>1, <1>3 DEF ExtractionInv, CitesWhatWasRead, conversationTables, extractionTables
<1>. QED BY <1>3, <1>4, <1>5 DEF ExtractionInv

-----------------------------------------------------------------------------
(* The theorems *)

LEMMA ExtractionInitial == ExtractionInit => ExtractionInv
<1> SUFFICES ASSUME ExtractionInit PROVE ExtractionInv
  OBVIOUS
<1>1. ExtractionTypeOK
  <2>1. role \in [Users -> Roles \cup {None}] /\ archived \in BOOLEAN
    BY DEF ExtractionInit, MembershipInit, Roles
  <2>2. messages \in Seq(DeliveryStates)
    BY DEF ExtractionInit
  <2>. QED BY <2>1, <2>2 DEF ExtractionInit, ExtractionTypeOK
<1>2. ASSUME NEW e \in Extractions PROVE ReadWhole(e) /\ RunIsOpen(e) /\ OneRecord(e)
  <2>1. None # "completed"
    BY ExtractionAssumption
  <2>. QED BY <2>1 DEF ExtractionInit, ReadWhole, RunIsOpen, OneRecord, Extracts
<1>3. CitesWhatWasRead
  BY <1>1 DEF ExtractionInit, CitesWhatWasRead
<1>. QED BY <1>1, <1>2, <1>3 DEF ExtractionInv

LEMMA ExtractionStepPreserves ==
  ASSUME ExtractionInv, NEW e \in Extractions, ExtractionStep(e)
  PROVE  ExtractionInv'
<1>1. CASE \E u \in Users, through \in DOMAIN messages : Extract(e, u, through)
  BY <1>1, ExtractPreserves
<1>2. CASE InsertModelRun(e)
  BY <1>2, InsertModelRunPreserves
<1>3. CASE InsertModelRunFails(e) \/ FailModelRunFails(e)
  BY <1>3, EndPreserves
<1>4. CASE ModelAnswersMalformed(e)
  BY <1>4, ModelAnswersMalformedPreserves
<1>5. CASE ModelFails(e) \/ PersistDeltaFails(e)
  BY <1>5, FailurePreserves DEF ModelFails, PersistDeltaFails, Extracts, Extracting
<1>6. CASE \E cited \in SUBSET (1..MaxMessages) : cited # {} /\ ModelProposes(e, cited)
  BY <1>6, ModelProposesPreserves
<1>7. CASE PersistDelta(e)
  BY <1>7, PersistDeltaPreserves
<1>8. CASE FailModelRun(e)
  BY <1>8, FailModelRunPreserves
<1>. QED BY <1>1, <1>2, <1>3, <1>4, <1>5, <1>6, <1>7, <1>8 DEF ExtractionStep

LEMMA ExtractionNextPreserves ==
  ExtractionInv /\ [ExtractionNext]_extractionVars => ExtractionInv'
<1> SUFFICES ASSUME ExtractionInv, [ExtractionNext]_extractionVars PROVE ExtractionInv'
  OBVIOUS
<1>1. CASE \E e \in Extractions : ExtractionStep(e)
  BY <1>1, ExtractionStepPreserves
<1>2. CASE ProcessDies
  BY <1>2, ProcessDiesPreserves
<1>3. CASE UNCHANGED extractionVars
  BY <1>3 DEF extractionVars, ExtractionInv, ExtractionTypeOK, ReadWhole, RunIsOpen, OneRecord,
              CitesWhatWasRead, Extracts, conversationTables, extractionTables
<1>4. CASE \/ \E state \in {"streaming", "completed"} : AppendMessage(state)
           \/ \E i \in DOMAIN messages, state \in DeliveryStates \ {"streaming"} :
                FinalizeMessage(i, state)
           \/ ArchiveConversation
           \/ MembershipNext /\ UNCHANGED <<conversationTables, extractionTables, extractions>>
  BY <1>4, ConversationStep
<1>. QED BY <1>1, <1>2, <1>3, <1>4 DEF ExtractionNext

LEMMA ExtractionInvariant == ExtractionSpec => []ExtractionInv
BY ExtractionInitial, ExtractionNextPreserves, PTL DEF ExtractionSpec

\* A Delta cites only messages that were whole when the model read them, none of them
\* later than the sequence it says it has seen, whatever is written to the conversation
\* while extract waits for the model.
THEOREM DeltasCiteWhatWasRead == ExtractionSpec => []CitesWhatWasRead
<1>1. ExtractionInv => CitesWhatWasRead
  BY DEF ExtractionInv
<1>. QED BY <1>1, ExtractionInvariant, PTL

\* Under the invariant a record is what has become of its run.
LEMMA RecordIsOfRun ==
  ASSUME ExtractionInv, NEW e \in Extractions
  PROVE  Record(e) = IF modelRuns[e] = "completed" THEN "proposed"
                     ELSE IF modelRuns[e] = None THEN "absent"
                     ELSE IF modelRuns[e] = "running" THEN "open" ELSE "failed"
BY ExtractionAssumption DEF ExtractionInv, OneRecord, Record

Moves ==
  {<<None, "running">>, <<"running", "completed">>, <<"running", "failed">>}

\* One run moves at a time, along its transitions.
LEMMA RunsMove ==
  ASSUME ExtractionInv, [ExtractionNext]_extractionVars
  PROVE  \/ UNCHANGED modelRuns
         \/ \E e \in Extractions, to \in {"running", "completed", "failed"} :
              /\ <<modelRuns[e], to>> \in Moves
              /\ modelRuns' = [modelRuns EXCEPT ![e] = to]
<1>1. CASE \E e \in Extractions : InsertModelRun(e)
  <2>1. PICK e \in Extractions : InsertModelRun(e)
    BY <1>1
  <2>2. modelRuns[e] = None
    BY <2>1 DEF ExtractionInv, RunIsOpen, InsertModelRun
  <2>. QED BY <2>1, <2>2 DEF InsertModelRun, Moves
<1>2. CASE \E e \in Extractions : PersistDelta(e) \/ FailModelRun(e)
  BY <1>2 DEF PersistDelta, FailModelRun, UpdateModelRun, Moves
<1>3. CASE UNCHANGED modelRuns
  BY <1>3
<1>4. ASSUME NEW e \in Extractions, ExtractionStep(e),
             ~InsertModelRun(e), ~PersistDelta(e), ~FailModelRun(e)
      PROVE  UNCHANGED modelRuns
  BY <1>4 DEF ExtractionStep, Extract, InsertModelRunFails, ModelAnswersMalformed, ModelFails,
              ModelProposes, PersistDeltaFails, FailModelRunFails, extractionTables
<1>5. CASE ExtractionNext
  BY <1>1, <1>2, <1>4, <1>5
     DEF ExtractionNext, ProcessDies, AppendMessage, FinalizeMessage, ArchiveConversation,
         extractionTables
<1>. QED BY <1>3, <1>5 DEF extractionVars, extractionTables

records == [e \in Extractions |-> Record(e)]

LEMMA RecordStep ==
  ASSUME ExtractionInv, ExtractionInv', [ExtractionNext]_extractionVars
  PROVE  [Recorded!Next]_records
<1> DEFINE As(run) == IF run = "completed" THEN "proposed" ELSE IF run = None THEN "absent"
                      ELSE IF run = "running" THEN "open" ELSE "failed"
<1>1. \A e \in Extractions : Record(e) = As(modelRuns[e])
  BY RecordIsOfRun
<1>2. \A e \in Extractions : Record(e)' = As(modelRuns'[e])
  <2> SUFFICES ASSUME NEW e \in Extractions PROVE Record(e)' = As(modelRuns'[e])
    OBVIOUS
  <2>. QED BY ExtractionAssumption DEF ExtractionInv, OneRecord, Record
<1>3. CASE UNCHANGED modelRuns
  <2>1. \A e \in Extractions : Record(e)' = Record(e)
    BY <1>1, <1>2, <1>3
  <2>. QED BY <2>1 DEF records
<1>4. ASSUME NEW e \in Extractions, NEW to \in {"running", "completed", "failed"},
             <<modelRuns[e], to>> \in Moves, modelRuns' = [modelRuns EXCEPT ![e] = to]
      PROVE  Recorded!Next
  <2>1. modelRuns'[e] = to /\ \A f \in Extractions \ {e} : modelRuns'[f] = modelRuns[f]
    BY <1>4 DEF ExtractionInv, ExtractionTypeOK
  <2>2. <<As(modelRuns[e]), As(to)>> \in
          {<<"absent", "open">>, <<"open", "proposed">>, <<"open", "failed">>}
    BY <1>4, ExtractionAssumption DEF Moves
  <2>3. \A f \in Extractions \ {e} : Record(f)' = Record(f)
    BY <1>1, <1>2, <2>1
  <2>4. Record(e) = As(modelRuns[e]) /\ Record(e)' = As(to)
    BY <1>1, <1>2, <2>1
  <2>5. /\ records[e] = As(modelRuns[e])
        /\ records' = [records EXCEPT ![e] = As(to)]
    BY <2>3, <2>4 DEF records
  <2>. HIDE DEF As
  <2>. QED BY <2>2, <2>5 DEF Recorded!Next, Recorded!Step, records
<1>. QED BY <1>3, <1>4, RunsMove

\* Extraction implements ProposalRecord: whatever fails between and within its four
\* transactions, model run, Delta and audit event are one record that is opened and then
\* closed once.
THEOREM RecordsAreKept == ExtractionSpec => ImplementsProposalRecord
<1>1. ExtractionInit => Recorded!Init
  BY ExtractionAssumption DEF ExtractionInit, Recorded!Init, Record
<1>2. ExtractionInv /\ ExtractionInv' /\ [ExtractionNext]_extractionVars => [Recorded!Next]_records
  BY RecordStep
<1>3. ExtractionSpec => [][Recorded!Next]_records
  BY <1>2, ExtractionInvariant, PTL DEF ExtractionSpec
<1>4. ExtractionSpec => Recorded!Init
  BY <1>1 DEF ExtractionSpec
<1>. QED BY <1>3, <1>4, PTL DEF ImplementsProposalRecord, Recorded!Spec, records

-----------------------------------------------------------------------------
(* The bytes of parts *)

\* The sums of the first parts, as far as the n-th.
Sums(parts, n, f) ==
  /\ f \in [0..n -> Nat] /\ f[0] = 0
  /\ \A i \in 1..n : f[i] = f[i - 1] + parts[i].bytes

LEMMA PartHasBytes ==
  ASSUME NEW parts \in Seq(Part), NEW i \in 1..Len(parts)
  PROVE  parts[i].bytes \in Nat
<1>1. parts[i] \in Part
  OBVIOUS
<1>. QED BY <1>1 DEF Part

LEMMA SumsExist ==
  ASSUME NEW parts \in Seq(Part), NEW n \in 0..Len(parts)
  PROVE  \E f : Sums(parts, n, f)
<1> DEFINE Missing == {k \in Nat : k <= Len(parts) /\ ~\E f : Sums(parts, k, f)}
<1>1. Len(parts) \in Nat /\ n \in Nat
  OBVIOUS
<1>2. SUFFICES ASSUME Missing # {} PROVE FALSE
  BY <1>1
<1>3. PICK k \in Missing : \A j \in Missing : k <= j
  BY <1>2, LeastOf
<1>4. CASE k = 0
  <2>1. Sums(parts, 0, [i \in {0} |-> 0])
    BY DEF Sums
  <2>. QED BY <1>4, <2>1
<1>5. CASE k # 0
  <2>1. k - 1 \in Nat /\ k - 1 <= Len(parts) /\ k - 1 \notin Missing /\ k \in 1..Len(parts)
    BY <1>1, <1>3, <1>5
  <2>2. PICK f : Sums(parts, k - 1, f)
    BY <2>1
  <2>3. parts[k].bytes \in Nat /\ f[k - 1] \in Nat
    BY <2>1, <2>2, PartHasBytes DEF Sums
  <2> DEFINE g == [i \in 0..k |-> IF i = k THEN f[k - 1] + parts[k].bytes ELSE f[i]]
  <2>4. Sums(parts, k, g)
    <3>1. g \in [0..k -> Nat]
      BY <2>1, <2>2, <2>3 DEF Sums
    <3>2. g[0] = 0
      BY <1>5, <2>1, <2>2 DEF Sums
    <3>3. ASSUME NEW i \in 1..k PROVE g[i] = g[i - 1] + parts[i].bytes
      BY <2>1, <2>2, <2>3 DEF Sums
    <3>. QED BY <3>1, <3>2, <3>3 DEF Sums
  <2>. QED BY <1>3, <2>4
<1>. QED BY <1>4, <1>5

LEMMA BytesAreTheSum ==
  ASSUME NEW parts \in Seq(Part)
  PROVE  \E f : Sums(parts, Len(parts), f) /\ Bytes(parts) = f[Len(parts)]
<1> DEFINE Of(f) == f = [i \in 0..Len(parts) |-> IF i = 0 THEN 0 ELSE f[i - 1] + parts[i].bytes]
           sum == CHOOSE f : Of(f)
<1>1. Len(parts) \in Nat /\ \A i \in 1..Len(parts) : parts[i].bytes \in Nat
  BY PartHasBytes
<1>2. PICK f : Sums(parts, Len(parts), f)
  BY <1>1, SumsExist
<1>3. Of(f)
  <2>1. f = [i \in 0..Len(parts) |-> f[i]]
    BY <1>2 DEF Sums
  <2>2. \A i \in 0..Len(parts) : f[i] = IF i = 0 THEN 0 ELSE f[i - 1] + parts[i].bytes
    BY <1>1, <1>2 DEF Sums
  <2>. QED BY <2>1, <2>2
<1>4. Of(sum)
  BY <1>3
<1>5. Bytes(parts) = sum[Len(parts)]
  BY DEF Bytes
<1>. HIDE DEF sum
<1>6. \A i \in 0..Len(parts) : sum[i] = IF i = 0 THEN 0 ELSE sum[i - 1] + parts[i].bytes
  BY <1>4
<1>7. ASSUME NEW i \in 0..Len(parts) PROVE sum[i] = f[i]
  <2> DEFINE Different == {k \in Nat : k <= Len(parts) /\ sum[k] # f[k]}
  <2>1. SUFFICES ASSUME Different # {} PROVE FALSE
    BY <1>1
  <2>2. PICK k \in Different : \A j \in Different : k <= j
    BY <2>1, LeastOf
  <2>3. CASE k = 0
    BY <1>1, <1>2, <1>6, <2>2, <2>3 DEF Sums
  <2>4. CASE k # 0
    <3>1. k \in 1..Len(parts) /\ k - 1 \in Nat /\ k - 1 <= Len(parts) /\ k - 1 \notin Different
      BY <1>1, <2>2, <2>4
    <3>2. sum[k - 1] = f[k - 1]
      BY <3>1
    <3>3. sum[k] = sum[k - 1] + parts[k].bytes
      BY <1>6, <3>1
    <3>4. f[k] = f[k - 1] + parts[k].bytes
      BY <1>2, <3>1 DEF Sums
    <3>. QED BY <2>2, <3>2, <3>3, <3>4
  <2>. QED BY <2>3, <2>4
<1>. QED BY <1>1, <1>2, <1>5, <1>7

LEMMA BytesOfNone == Bytes(<<>>) = 0
<1>1. <<>> \in Seq(Part) /\ Len(<<>>) = 0
  OBVIOUS
<1>2. PICK f : Sums(<<>>, 0, f) /\ Bytes(<<>>) = f[0]
  BY <1>1, BytesAreTheSum
<1>. QED BY <1>2 DEF Sums

\* Parts that are joined count together.
LEMMA BytesOfBoth ==
  ASSUME NEW a \in Seq(Part), NEW b \in Seq(Part)
  PROVE  Bytes(a \o b) = Bytes(a) + Bytes(b) /\ Bytes(a) \in Nat /\ Bytes(b) \in Nat
<1> DEFINE both == a \o b
<1>1. /\ both \in Seq(Part) /\ Len(a) \in Nat /\ Len(b) \in Nat /\ Len(both) = Len(a) + Len(b)
      /\ \A i \in 1..Len(a) : both[i] = a[i]
      /\ \A i \in 1..Len(b) : both[Len(a) + i] = b[i]
  OBVIOUS
<1>2. PICK f : Sums(both, Len(both), f) /\ Bytes(both) = f[Len(both)]
  BY <1>1, BytesAreTheSum
<1>3. PICK g : Sums(a, Len(a), g) /\ Bytes(a) = g[Len(a)]
  BY BytesAreTheSum
<1>4. PICK h : Sums(b, Len(b), h) /\ Bytes(b) = h[Len(b)]
  BY BytesAreTheSum
<1>. HIDE DEF both
<1>5. ASSUME NEW i \in 0..Len(a) PROVE f[i] = g[i]
  <2> DEFINE Different == {k \in Nat : k <= Len(a) /\ f[k] # g[k]}
  <2>1. SUFFICES ASSUME Different # {} PROVE FALSE
    BY <1>1
  <2>2. PICK k \in Different : \A j \in Different : k <= j
    BY <2>1, LeastOf
  <2>3. CASE k = 0
    BY <1>2, <1>3, <2>2, <2>3 DEF Sums
  <2>4. CASE k # 0
    <3>1. k \in 1..Len(a) /\ k \in 1..Len(both) /\ k - 1 \in Nat /\ k - 1 <= Len(a) /\ k - 1 \notin Different
      BY <1>1, <2>2, <2>4
    <3>2. f[k - 1] = g[k - 1] /\ both[k] = a[k]
      BY <1>1, <3>1
    <3>3. f[k] = f[k - 1] + both[k].bytes
      BY <1>2, <3>1 DEF Sums
    <3>4. g[k] = g[k - 1] + a[k].bytes
      BY <1>3, <3>1 DEF Sums
    <3>. QED BY <2>2, <3>2, <3>3, <3>4
  <2>. QED BY <2>3, <2>4
<1>6. f[Len(a)] = g[Len(a)] /\ g[Len(a)] \in Nat /\ \A j \in 0..Len(b) : h[j] \in Nat
  <2>1. Len(a) \in 0..Len(a)
    BY <1>1
  <2>2. g \in [0..Len(a) -> Nat] /\ h \in [0..Len(b) -> Nat]
    BY <1>3, <1>4 DEF Sums
  <2>. QED BY <1>5, <2>1, <2>2
<1>7. ASSUME NEW i \in 0..Len(b) PROVE f[Len(a) + i] = g[Len(a)] + h[i]
  <2> DEFINE Different == {k \in Nat : k <= Len(b) /\ f[Len(a) + k] # g[Len(a)] + h[k]}
  <2>1. SUFFICES ASSUME Different # {} PROVE FALSE
    BY <1>1
  <2>2. PICK k \in Different : \A j \in Different : k <= j
    BY <2>1, LeastOf
  <2>3. CASE k = 0
    BY <1>1, <1>4, <1>6, <2>2, <2>3 DEF Sums
  <2>4. CASE k # 0
    <3>1. /\ k \in 1..Len(b) /\ Len(a) + k \in 1..Len(both) /\ k - 1 \in Nat /\ k - 1 <= Len(b)
          /\ k - 1 \notin Different /\ (Len(a) + k) - 1 = Len(a) + (k - 1)
      BY <1>1, <2>2, <2>4
    <3>2. f[Len(a) + (k - 1)] = g[Len(a)] + h[k - 1] /\ both[Len(a) + k] = b[k]
      BY <1>1, <3>1
    <3>3. f[Len(a) + k] = f[Len(a) + (k - 1)] + both[Len(a) + k].bytes
      BY <1>2, <3>1 DEF Sums
    <3>4. h[k] = h[k - 1] + b[k].bytes
      BY <1>4, <3>1 DEF Sums
    <3>5. b[k].bytes \in Nat
      BY <3>1, PartHasBytes
    <3>6. g[Len(a)] \in Nat /\ h[k - 1] \in Nat
      BY <1>6, <3>1
    <3>. QED BY <2>2, <3>2, <3>3, <3>4, <3>5, <3>6
  <2>. QED BY <2>3, <2>4
<1>8. f[Len(both)] = g[Len(a)] + h[Len(b)]
  BY <1>1, <1>7
<1>. QED BY <1>1, <1>2, <1>3, <1>4, <1>6, <1>8 DEF both

\* Whatever is cut off the front leaves the rest.
LEMMA BytesOfRest ==
  ASSUME NEW parts \in Seq(Part), NEW i \in 1..Len(parts)
  PROVE  /\ SubSeq(parts, 1, i) \in Seq(Part) /\ SubSeq(parts, i + 1, Len(parts)) \in Seq(Part)
         /\ Bytes(SubSeq(parts, i + 1, Len(parts))) = Bytes(parts) - Bytes(SubSeq(parts, 1, i))
         /\ Bytes(SubSeq(parts, i + 1, Len(parts))) \in Nat
<1>1. Len(parts) \in Nat /\ i \in Nat
  OBVIOUS
<1>2. SubSeq(parts, 1, i) \in Seq(Part) /\ SubSeq(parts, i + 1, Len(parts)) \in Seq(Part)
  OBVIOUS
<1>3. SubSeq(parts, 1, i) \o SubSeq(parts, i + 1, Len(parts)) = SubSeq(parts, 1, Len(parts))
  BY <1>1, ConcatAdjacentSubSeq
<1>4. SubSeq(parts, 1, Len(parts)) = parts
  BY SubSeqFull
<1>5. Bytes(parts) = Bytes(SubSeq(parts, 1, i)) + Bytes(SubSeq(parts, i + 1, Len(parts)))
  BY <1>2, <1>3, <1>4, BytesOfBoth
<1>6. Bytes(SubSeq(parts, 1, i)) \in Nat /\ Bytes(SubSeq(parts, i + 1, Len(parts))) \in Nat
  BY <1>2, BytesOfBoth
<1>. QED BY <1>2, <1>5, <1>6
-----------------------------------------------------------------------------
(* The inductive invariant of a request *)

Streaming == {"reading", "framing", "identity", "text", "usage", "paused"}

\* The consumer has been told that the answer is complete.
ToldFinish == \E i \in DOMAIN heard : heard[i] = "finish"

\* Nothing was asked, so nothing is there to clean up; a request that is closed has
\* cleaned up.
CleanedUp ==
  /\ request = None <=> at = "idle"
  /\ request = None => deadline = NoDeadline /\ reader = "none" /\ heard = <<>>
  /\ at \in {"idle", "connecting"} => wire = NoBuffer
  /\ at = "closed" => deadline.timer # "armed" /\ ~deadline.listening /\ reader # "open"

\* Only generate awaits a body, only stream an event.
ForItsKind ==
  /\ at = "body" => request.op = "generate"
  /\ at \in Streaming => request.op = "stream"

\* How the request ends is decided when it begins to close, and said when it has.
EndsOnce ==
  /\ ending # None <=> at = "closing"
  /\ outcome # None <=> at = "closed"

\* An event is at hand while stream works at it.
EventAtHand ==
  /\ at \in {"identity", "text", "usage"} => pending # None
  /\ at = "paused" =>
       heard # <<>> /\ (heard[Len(heard)] \in {"start", "text"} => pending # None)

\* What the consumer heard: nothing before the answer is identified, and nothing after
\* the finish, after which the stream only ends, without an error.
ToldInOrder ==
  /\ heard # <<>> <=> answer.identity # None
  /\ at \in {"text", "usage"} => heard # <<>>
  /\ ToldFinish =>
       \/ at = "paused" /\ heard[Len(heard)] = "finish"
       \/ at = "closing" /\ ending.how \in {"finished", "returned"}
       \/ at = "closed"
  /\ at = "closing" /\ request.op = "stream" =>
       /\ ending.how = "finished" => ToldFinish
       /\ ending.how = "returned" => heard # <<>>

ProviderInv ==
  /\ ProviderTypeOK
  /\ CleanedUp /\ ForItsKind /\ EndsOnce /\ EventAtHand /\ ToldInOrder

-----------------------------------------------------------------------------
(* The steps of a request *)

LEMMA ErrorsTyped ==
  /\ MalformedResponse \in ProviderError /\ InterruptedStream \in ProviderError
  /\ \A retryable \in BOOLEAN : Error("CONNECTION", retryable) \in ProviderError
  /\ \A code \in Codes, retryable \in BOOLEAN : Error(code, retryable) \in ProviderError
BY DEF MalformedResponse, InterruptedStream, Error, ProviderError, Codes

LEMMA OutcomeTyped ==
  ASSUME NEW how \in {"finished", "failed", "returned"}, NEW error \in ProviderError \cup {None}
  PROVE  /\ [how |-> how, error |-> error] \in Outcome
         /\ [how |-> how, error |-> error] # None
BY ProviderAssumption DEF Outcome

\* A part of the state that most steps leave alone.
LEMMA LeavingStep ==
  ASSUME ProviderInv, at \in Stages \ {"idle", "closing", "closed"},
         NEW how \in {"finished", "failed", "returned"}, NEW error \in ProviderError \cup {None},
         at' = "closing", ending' = [how |-> how, error |-> error],
         pending' = None \/ pending' = pending,
         wire' \in [buffer : Seq(Part), bufferBytes : Nat, totalBytes : Nat], BufferAccounted',
         UNCHANGED <<request, deadline, reader, answer, heard, outcome>>,
         ToldFinish => how \in {"finished", "returned"},
         how = "finished" /\ request.op = "stream" => ToldFinish,
         how = "returned" => heard # <<>>
  PROVE  ProviderInv'
<1>1. ending' \in Outcome /\ ending' # None /\ ending'.how = how
  BY OutcomeTyped
<1>2. "closing" \in Stages
  BY DEF Stages
<1>3. ProviderTypeOK'
  BY <1>1, <1>2 DEF ProviderInv, ProviderTypeOK
<1>4. CleanedUp' /\ ForItsKind'
  BY DEF ProviderInv, CleanedUp, ForItsKind, Streaming
<1>5. EndsOnce' /\ EventAtHand'
  BY <1>1 DEF ProviderInv, EndsOnce, EventAtHand
<1>6. ToldInOrder'
  BY <1>1 DEF ProviderInv, ToldInOrder, ToldFinish
<1>. QED BY <1>3, <1>4, <1>5, <1>6 DEF ProviderInv

LEMMA LeaveStep ==
  ASSUME ProviderInv, at \in Stages \ {"idle", "closing", "closed"},
         NEW how \in {"finished", "failed", "returned"}, NEW error \in ProviderError \cup {None},
         Leave(how, error),
         ToldFinish => how \in {"finished", "returned"},
         how = "finished" /\ request.op = "stream" => ToldFinish,
         how = "returned" => heard # <<>>
  PROVE  ProviderInv'
<1>1. wire' \in [buffer : Seq(Part), bufferBytes : Nat, totalBytes : Nat] /\ BufferAccounted'
  BY DEF ProviderInv, ProviderTypeOK, BufferAccounted, Leave
<1>. QED BY <1>1, LeavingStep DEF Leave

\* Nothing fails once the consumer has been told of the finish.
LEMMA ThrowStep ==
  ASSUME ProviderInv,
         at \in {"connecting", "rejected", "body", "reading", "framing", "identity", "text", "usage"},
         NEW error \in ProviderError \cup {None}, Throw(error)
  PROVE  ProviderInv'
<1>1. at \in Stages \ {"idle", "closing", "closed"}
  BY DEF Stages
<1>2. ~ToldFinish
  BY DEF ProviderInv, ToldInOrder
<1>. QED BY <1>1, <1>2, LeaveStep DEF Throw

LEMMA DeadlineStep ==
  ASSUME ProviderInv, TimerFires \/ CallerAborts
  PROVE  ProviderInv'
<1>1. deadline' \in Deadline /\ request # None /\ at # "closed"
  <2>1. deadline \in Deadline
    BY DEF ProviderInv, ProviderTypeOK
  <2>2. deadline' \in Deadline
    BY <2>1 DEF TimerFires, CallerAborts, Deadline, Timers
  <2>3. deadline.timer = "armed" \/ deadline.listening
    BY DEF TimerFires, CallerAborts
  <2>4. NoDeadline.timer # "armed" /\ ~NoDeadline.listening
    BY DEF NoDeadline
  <2>. QED BY <2>2, <2>3, <2>4 DEF ProviderInv, CleanedUp
<1>2. UNCHANGED <<request, at, reader, wire, answer, pending, heard, ending, outcome>>
  BY DEF TimerFires, CallerAborts
<1>3. ProviderTypeOK'
  BY <1>1, <1>2 DEF ProviderInv, ProviderTypeOK, BufferAccounted
<1>4. CleanedUp' /\ ForItsKind' /\ EndsOnce' /\ EventAtHand' /\ ToldInOrder'
  BY <1>1, <1>2
     DEF ProviderInv, CleanedUp, ForItsKind, EndsOnce, EventAtHand, ToldInOrder, ToldFinish
<1>. QED BY <1>3, <1>4 DEF ProviderInv

LEMMA CloseStep ==
  ASSUME ProviderInv, Close
  PROVE  ProviderInv'
<1>1. ending \in Outcome /\ request # None /\ outcome = None
  BY DEF ProviderInv, ProviderTypeOK, CleanedUp, EndsOnce, Close
<1>2. NormalizeRequestFailure(ending.error) \in ProviderError
  BY <1>1, ErrorsTyped DEF NormalizeRequestFailure, Outcome, Codes
<1>3. outcome' \in Outcome /\ outcome' # None /\ outcome'.how = ending.how
  BY <1>1, <1>2, OutcomeTyped DEF Close, Outcome
<1>4. deadline' \in Deadline /\ deadline'.timer # "armed" /\ ~deadline'.listening
  BY DEF ProviderInv, ProviderTypeOK, Close, Disposed, Deadline, Timers
<1>5. "closed" \in Stages /\ reader' \in {"none", "released"}
  BY DEF Stages, Close, ProviderInv, ProviderTypeOK
<1>6. ProviderTypeOK'
  BY <1>3, <1>4, <1>5 DEF ProviderInv, ProviderTypeOK, BufferAccounted, Close
<1>7. CleanedUp' /\ ForItsKind' /\ EndsOnce'
  BY <1>1, <1>3, <1>4, <1>5 DEF Close, CleanedUp, ForItsKind, EndsOnce, Streaming, ProviderInv
<1>8. EventAtHand' /\ ToldInOrder'
  BY DEF Close, EventAtHand, ToldInOrder, ToldFinish, ProviderInv
<1>. QED BY <1>6, <1>7, <1>8 DEF ProviderInv

LEMMA RefuseStep ==
  ASSUME ProviderInv, NEW r \in Request, NEW error \in ProviderError \cup {None}, Refuse(r, error)
  PROVE  ProviderInv'
<1>1. at = "idle" /\ request' \in Request /\ request' # None /\ "closed" \in Stages
  BY ProviderAssumption DEF ProviderInv, CleanedUp, Refuse, Stages
<1>2. outcome' \in Outcome /\ outcome' # None
  BY OutcomeTyped DEF Refuse
<1>3. wire = NoBuffer /\ deadline = NoDeadline /\ reader = "none"
  BY <1>1 DEF ProviderInv, CleanedUp
<1>4. ProviderTypeOK'
  <2>1. BufferAccounted'
    BY <1>1, <1>3, BytesOfNone, ProviderAssumption DEF BufferAccounted, NoBuffer, Refuse
  <2>. QED BY <1>1, <1>2, <2>1 DEF ProviderInv, ProviderTypeOK, Refuse
<1>5. CleanedUp' /\ ForItsKind' /\ EndsOnce'
  BY <1>1, <1>2, <1>3 DEF ProviderInv, CleanedUp, ForItsKind, EndsOnce, Refuse, NoDeadline, Streaming
<1>6. EventAtHand' /\ ToldInOrder'
  BY <1>1 DEF ProviderInv, EventAtHand, ToldInOrder, ToldFinish, Refuse
<1>. QED BY <1>4, <1>5, <1>6 DEF ProviderInv

LEMMA SendStep ==
  ASSUME ProviderInv, NEW r \in Request, NEW aborted \in BOOLEAN, SendRequest(r, aborted)
  PROVE  ProviderInv'
<1>1. at = "idle" /\ request' \in Request /\ request' # None /\ "connecting" \in Stages
  BY ProviderAssumption DEF ProviderInv, CleanedUp, SendRequest, Stages
<1>2. deadline' \in Deadline
  BY DEF SendRequest, RequestDeadline, Deadline, Timers
<1>3. wire = NoBuffer
  BY <1>1 DEF ProviderInv, CleanedUp
<1>4. ProviderTypeOK'
  <2>1. BufferAccounted'
    BY <1>1, <1>3, BytesOfNone, ProviderAssumption DEF BufferAccounted, NoBuffer, SendRequest
  <2>. QED BY <1>1, <1>2, <2>1 DEF ProviderInv, ProviderTypeOK, SendRequest
<1>5. CleanedUp' /\ ForItsKind' /\ EndsOnce'
  BY <1>1, <1>3 DEF ProviderInv, CleanedUp, ForItsKind, EndsOnce, SendRequest, Streaming
<1>6. EventAtHand' /\ ToldInOrder'
  BY <1>1 DEF ProviderInv, EventAtHand, ToldInOrder, ToldFinish, SendRequest
<1>. QED BY <1>4, <1>5, <1>6 DEF ProviderInv

LEMMA AcceptStep ==
  ASSUME ProviderInv, Accept \/ Reject
  PROVE  ProviderInv'
<1>1. /\ at = "connecting" /\ wire = NoBuffer /\ request # None /\ request \in Request
      /\ reader' \in {"none", "open", "released"}
      /\ UNCHANGED <<request, deadline, wire, answer, pending, heard, ending, outcome>>
  BY DEF ProviderInv, ProviderTypeOK, CleanedUp, Accept, Reject
<1>2. /\ at' \in {"reading", "body", "rejected"} /\ at' \in Stages
      /\ at' = "reading" => request.op = "stream"
      /\ at' = "body" => request.op = "generate"
  BY <1>1 DEF Accept, Reject, Stages, Request
<1>3. BufferAccounted'
  BY <1>1, BytesOfNone, ProviderAssumption DEF BufferAccounted, NoBuffer
<1>4. ProviderTypeOK'
  BY <1>1, <1>2, <1>3 DEF ProviderInv, ProviderTypeOK
<1>5. CleanedUp' /\ ForItsKind' /\ EndsOnce'
  BY <1>1, <1>2 DEF ProviderInv, CleanedUp, ForItsKind, EndsOnce, Streaming
<1>6. EventAtHand' /\ ToldInOrder'
  BY <1>1, <1>2 DEF ProviderInv, EventAtHand, ToldInOrder, ToldFinish
<1>. QED BY <1>4, <1>5, <1>6 DEF ProviderInv

LEMMA FailingStep ==
  ASSUME ProviderInv,
         \/ AbortLands \/ ConnectionLost \/ AcceptUnusable \/ EndOfStream
         \/ \E status \in Statuses, details \in ErrorDetails : ReadErrorDetails(status, details)
  PROVE  ProviderInv'
<1>1. ASSUME NEW status \in Statuses, NEW details \in ErrorDetails
      PROVE  NormalizeHttpError(status, details) \in ProviderError
  <2>1. /\ Error("AUTHENTICATION", FALSE) \in ProviderError /\ Error("TIMEOUT", TRUE) \in ProviderError
        /\ Error("RATE_LIMIT", TRUE) \in ProviderError
        /\ Error("INCOMPATIBLE_CAPABILITY", FALSE) \in ProviderError
    BY ErrorsTyped DEF Codes
  <2>2. (status >= 500) \in BOOLEAN
    OBVIOUS
  <2>3. /\ Error("MODEL_UNAVAILABLE", status >= 500) \in ProviderError
        /\ Error("SERVER", status >= 500) \in ProviderError
    <3>1. "MODEL_UNAVAILABLE" \in Codes /\ "SERVER" \in Codes
      BY DEF Codes
    <3>. QED BY <2>2, <3>1, ErrorsTyped, Zenon
  <2>. QED BY <2>1, <2>3, Zenon DEF NormalizeHttpError
<1>2. CASE AbortLands \/ ConnectionLost
  BY <1>2, ErrorsTyped, ThrowStep DEF AbortLands, ConnectionLost
<1>3. CASE AcceptUnusable
  <2>1. Error("INCOMPATIBLE_CAPABILITY", FALSE) \in ProviderError
    BY ErrorsTyped DEF Codes
  <2>. QED BY <1>3, <2>1, ErrorsTyped, ThrowStep DEF AcceptUnusable
<1>4. CASE EndOfStream
  BY <1>4, ErrorsTyped, ThrowStep DEF EndOfStream
<1>5. CASE \E status \in Statuses, details \in ErrorDetails : ReadErrorDetails(status, details)
  BY <1>1, <1>5, ThrowStep DEF ReadErrorDetails
<1>. QED BY <1>2, <1>3, <1>4, <1>5

LEMMA ReadBodyStep ==
  ASSUME ProviderInv, NEW bytes \in 1..(BodyLimit + 1), ReadBody(bytes)
  PROVE  ProviderInv'
<1>1. at = "body" /\ request \in Request /\ request.op = "generate" /\ wire \in [buffer : Seq(Part), bufferBytes : Nat, totalBytes : Nat]
  <2>1. at = "body"
    BY DEF ReadBody
  <2>2. request # None /\ request.op = "generate"
    BY <2>1 DEF ProviderInv, CleanedUp, ForItsKind
  <2>. QED BY <2>1, <2>2 DEF ProviderInv, ProviderTypeOK
<1>2. CASE wire.totalBytes + bytes > BodyLimit
  BY <1>1, <1>2, ErrorsTyped, ThrowStep DEF ReadBody
<1>3. CASE ~(wire.totalBytes + bytes > BodyLimit)
  <2>1. /\ wire' = [wire EXCEPT !.totalBytes = @ + bytes]
        /\ UNCHANGED <<request, at, deadline, reader, answer, pending, heard, ending, outcome>>
    BY <1>3 DEF ReadBody
  <2>2. /\ wire' \in [buffer : Seq(Part), bufferBytes : Nat, totalBytes : Nat]
        /\ wire'.buffer = wire.buffer /\ wire'.bufferBytes = wire.bufferBytes
        /\ wire'.totalBytes = wire.totalBytes + bytes
    BY <1>1, <2>1, ProviderAssumption
  <2>3. wire'.totalBytes <= BodyLimit /\ wire.bufferBytes <= wire'.totalBytes
    BY <1>1, <1>3, <2>2, ProviderAssumption DEF ProviderInv, ProviderTypeOK, BufferAccounted
  <2>4. BufferAccounted'
    BY <1>1, <2>1, <2>2, <2>3 DEF ProviderInv, ProviderTypeOK, BufferAccounted
  <2>5. ProviderTypeOK'
    BY <2>1, <2>2, <2>4 DEF ProviderInv, ProviderTypeOK
  <2>6. CleanedUp' /\ ForItsKind' /\ EndsOnce' /\ EventAtHand' /\ ToldInOrder'
    BY <1>1, <2>1 DEF ProviderInv, CleanedUp, ForItsKind, EndsOnce, EventAtHand, ToldInOrder, ToldFinish
  <2>. QED BY <2>5, <2>6 DEF ProviderInv
<1>. QED BY <1>2, <1>3

LEMMA EndBodyStep ==
  ASSUME ProviderInv, NEW completion \in Completions, EndBody(completion)
  PROVE  ProviderInv'
<1>1. at = "body" /\ request.op = "generate" /\ at \in Stages \ {"idle", "closing", "closed"}
  BY DEF ProviderInv, ForItsKind, EndBody, Stages
<1>2. CASE ~Usable(completion)
  BY <1>1, <1>2, ErrorsTyped, ThrowStep DEF EndBody
<1>3. CASE Usable(completion)
  BY <1>1, <1>3, LeaveStep DEF EndBody
<1>. QED BY <1>2, <1>3

\* A step that only turns to the next stage of the same stream.
LEMMA TurnStep ==
  ASSUME ProviderInv, at \in Streaming, at' \in Streaming \ {"paused"},
         wire' \in [buffer : Seq(Part), bufferBytes : Nat, totalBytes : Nat], BufferAccounted',
         pending' \in {e \in WireEvents : e.kind = "chunk"} \cup {None},
         at' \in {"identity", "text", "usage"} => pending' # None,
         at' \in {"text", "usage"} => heard # <<>>,
         answer' \in [identity : OwnIdentities \cup {None}, finish : FinishReasons \cup {None},
                      length : 0..ContentLimit],
         answer'.identity = answer.identity,
         ~ToldFinish,
         UNCHANGED <<request, deadline, reader, heard, ending, outcome>>
  PROVE  ProviderInv'
<1>1. at' \in Stages /\ at \in Stages
  BY DEF Stages, Streaming
<1>2. at \notin {"idle", "connecting", "closing", "closed", "body"}
      /\ at' \notin {"idle", "connecting", "closing", "closed", "body", "paused"}
  BY DEF Streaming
<1>3. ProviderTypeOK'
  BY <1>1 DEF ProviderInv, ProviderTypeOK
<1>4. CleanedUp' /\ ForItsKind' /\ EndsOnce'
  BY <1>2 DEF ProviderInv, CleanedUp, ForItsKind, EndsOnce
<1>5. EventAtHand' /\ ToldInOrder'
  BY <1>2 DEF ProviderInv, EventAtHand, ToldInOrder, ToldFinish
<1>. QED BY <1>3, <1>4, <1>5 DEF ProviderInv

LEMMA ReadStep ==
  ASSUME ProviderInv, NEW parts \in Deliveries, Read(parts)
  PROVE  ProviderInv'
<1>1. /\ at = "reading" /\ request \in Request /\ request.op = "stream"
      /\ wire \in [buffer : Seq(Part), bufferBytes : Nat, totalBytes : Nat]
  <2>1. at = "reading"
    BY DEF Read
  <2>2. request # None /\ request.op = "stream"
    BY <2>1 DEF ProviderInv, CleanedUp, ForItsKind, Streaming
  <2>. QED BY <2>1, <2>2 DEF ProviderInv, ProviderTypeOK
<1>2. parts \in Seq(Part) /\ wire.buffer \in Seq(Part)
  BY <1>1, ProviderAssumption
<1>3. Bytes(wire.buffer \o parts) = Bytes(wire.buffer) + Bytes(parts) /\ Bytes(parts) \in Nat
  BY <1>2, BytesOfBoth
<1>4. CASE wire.totalBytes + Bytes(parts) > StreamLimit
  BY <1>1, <1>4, ErrorsTyped, ThrowStep DEF Read
<1>5. CASE ~(wire.totalBytes + Bytes(parts) > StreamLimit)
  <2>1. /\ wire' = [buffer |-> wire.buffer \o parts, bufferBytes |-> wire.bufferBytes + Bytes(parts),
                    totalBytes |-> wire.totalBytes + Bytes(parts)]
        /\ at' = "framing"
        /\ UNCHANGED <<request, deadline, reader, answer, pending, heard, ending, outcome>>
    BY <1>5 DEF Read
  <2>2. wire' \in [buffer : Seq(Part), bufferBytes : Nat, totalBytes : Nat]
    BY <1>1, <1>2, <1>3, <2>1
  <2>3. BufferAccounted'
    <3>1. /\ wire.bufferBytes = Bytes(wire.buffer) /\ wire.bufferBytes <= wire.totalBytes
          /\ wire.bufferBytes \in Nat /\ wire.totalBytes \in Nat
      BY <1>1 DEF ProviderInv, ProviderTypeOK, BufferAccounted
    <3>2. wire.totalBytes + Bytes(parts) <= StreamLimit
      BY <1>3, <1>5, <3>1, ProviderAssumption
    <3>. QED BY <1>1, <1>3, <2>1, <3>1, <3>2 DEF BufferAccounted
  <2>4. ~ToldFinish /\ at \in Streaming /\ at' \in Streaming \ {"paused"}
    BY <1>1, <2>1 DEF ProviderInv, ToldInOrder, Streaming
  <2>. QED BY <2>1, <2>2, <2>3, <2>4, TurnStep DEF ProviderInv, ProviderTypeOK
<1>. QED BY <1>4, <1>5

LEMMA NoBoundaryStep ==
  ASSUME ProviderInv, NoBoundary
  PROVE  ProviderInv'
<1>1. at = "framing"
  BY DEF NoBoundary
<1>2. CASE wire.bufferBytes > EventLimit
  BY <1>1, <1>2, ErrorsTyped, ThrowStep DEF NoBoundary
<1>3. CASE ~(wire.bufferBytes > EventLimit)
  <2>1. /\ at' = "reading"
        /\ UNCHANGED <<request, deadline, reader, wire, answer, pending, heard, ending, outcome>>
    BY <1>3 DEF NoBoundary
  <2>2. wire \in [buffer : Seq(Part), bufferBytes : Nat, totalBytes : Nat]
    BY DEF ProviderInv, ProviderTypeOK
  <2>3. BufferAccounted'
    BY <1>3, <2>1, <2>2, ProviderAssumption DEF ProviderInv, ProviderTypeOK, BufferAccounted
  <2>4. ~ToldFinish /\ at \in Streaming /\ at' \in Streaming \ {"paused"}
    BY <1>1, <2>1 DEF ProviderInv, ToldInOrder, Streaming
  <2>. QED BY <2>1, <2>2, <2>3, <2>4, TurnStep DEF ProviderInv, ProviderTypeOK
<1>. QED BY <1>2, <1>3

\* A step that yields an event.
LEMMA YieldStep ==
  ASSUME ProviderInv, at \in Streaming \ {"paused"},
         NEW type \in {"start", "text", "usage", "finish"}, Yield(type),
         wire' \in [buffer : Seq(Part), bufferBytes : Nat, totalBytes : Nat],
         wire'.bufferBytes = Bytes(wire'.buffer), wire'.bufferBytes <= wire'.totalBytes,
         wire'.totalBytes = wire.totalBytes,
         pending' \in {pending, None}, type \in {"start", "text"} => pending' # None,
         answer' \in [identity : OwnIdentities \cup {None}, finish : FinishReasons \cup {None},
                      length : 0..ContentLimit],
         answer'.identity # None,
         UNCHANGED <<request, deadline, reader, ending, outcome>>
  PROVE  ProviderInv'
<1>1. heard \in Seq({"start", "text", "usage", "finish"}) /\ Len(heard) \in Nat
  BY DEF ProviderInv, ProviderTypeOK
<1>2. /\ heard' \in Seq({"start", "text", "usage", "finish"}) /\ heard' # <<>>
      /\ Len(heard') = Len(heard) + 1 /\ heard'[Len(heard')] = type
      /\ \A i \in DOMAIN heard' : (i \in DOMAIN heard /\ heard'[i] = heard[i]) \/ i = Len(heard')
  BY <1>1 DEF Yield
<1>3. at' = "paused" /\ at' \in Stages /\ at \notin {"idle", "connecting", "closing", "closed", "body", "paused"}
  BY DEF Yield, Stages, Streaming
<1>4. ~ToldFinish
  BY <1>3 DEF ProviderInv, ToldInOrder
<1>5. ProviderTypeOK'
  <2>1. BufferAccounted'
    BY <1>3 DEF BufferAccounted, ProviderInv, ProviderTypeOK
  <2>. QED BY <1>2, <1>3, <2>1 DEF ProviderInv, ProviderTypeOK
<1>6. CleanedUp' /\ ForItsKind' /\ EndsOnce'
  BY <1>3 DEF ProviderInv, CleanedUp, ForItsKind, EndsOnce
<1>7. EventAtHand'
  BY <1>2, <1>3 DEF EventAtHand
<1>8. ToldInOrder'
  <2>1. ToldFinish' => type = "finish"
    BY <1>2, <1>4 DEF ToldFinish
  <2>. QED BY <1>2, <1>3, <2>1 DEF ToldInOrder
<1>. QED BY <1>5, <1>6, <1>7, <1>8 DEF ProviderInv

LEMMA FirstBoundary ==
  ASSUME wire.buffer \in Seq(Part), Boundaries # {}
  PROVE  \E i \in 1..Len(wire.buffer) :
           /\ i = CHOOSE j \in Boundaries : \A k \in Boundaries : j <= k
           /\ wire.buffer[i].event \in WireEvents
<1> DEFINE first == CHOOSE j \in Boundaries : \A k \in Boundaries : j <= k
<1>1. Len(wire.buffer) \in Nat /\ Boundaries \in SUBSET Nat
      /\ \A j \in Boundaries : j \in 1..Len(wire.buffer)
  BY DEF Boundaries
<1>2. PICK j \in Boundaries : \A k \in Boundaries : j <= k
  BY <1>1, LeastOf
<1>3. first \in Boundaries
  <2> DEFINE Earliest(i) == i \in Boundaries /\ \A k \in Boundaries : i <= k
  <2>1. Earliest(j)
    BY <1>2
  <2>2. Earliest(CHOOSE i : Earliest(i))
    BY <2>1, Zenon
  <2>3. first = CHOOSE i : Earliest(i)
    OBVIOUS
  <2>. QED BY <2>2, <2>3
<1>. HIDE DEF first
<1>4. wire.buffer[first] \in Part /\ wire.buffer[first].event # None
  BY <1>1, <1>3 DEF Boundaries
<1>5. wire.buffer[first].event \in WireEvents
  BY <1>4 DEF Part
<1>. QED BY <1>1, <1>3, <1>5 DEF first

LEMMA ConsumedTyped ==
  ASSUME ProviderInv, NEW i \in 1..Len(wire.buffer),
         Bytes(SubSeq(wire.buffer, 1, i)) <= wire.bufferBytes
  PROVE  /\ Consumed(i) \in [buffer : Seq(Part), bufferBytes : Nat, totalBytes : Nat]
         /\ Consumed(i).bufferBytes = Bytes(Consumed(i).buffer)
         /\ Consumed(i).bufferBytes <= wire.totalBytes
         /\ Consumed(i).totalBytes = wire.totalBytes
<1>1. wire \in [buffer : Seq(Part), bufferBytes : Nat, totalBytes : Nat]
      /\ wire.bufferBytes = Bytes(wire.buffer) /\ wire.bufferBytes <= wire.totalBytes
  BY DEF ProviderInv, ProviderTypeOK, BufferAccounted
<1> DEFINE rest == SubSeq(wire.buffer, i + 1, Len(wire.buffer))
           cut == Bytes(SubSeq(wire.buffer, 1, i))
<1>2. rest \in Seq(Part) /\ Bytes(rest) = wire.bufferBytes - cut /\ Bytes(rest) \in Nat
  BY <1>1, BytesOfRest
<1>3. cut \in Nat
  BY <1>1, BytesOfRest, BytesOfBoth
<1>4. Consumed(i) = [wire EXCEPT !.buffer = rest, !.bufferBytes = wire.bufferBytes - cut]
  BY DEF Consumed
<1>. HIDE DEF rest, cut
<1>5. /\ Consumed(i) \in [buffer : Seq(Part), bufferBytes : Nat, totalBytes : Nat]
      /\ Consumed(i).buffer = rest /\ Consumed(i).bufferBytes = wire.bufferBytes - cut
      /\ Consumed(i).totalBytes = wire.totalBytes
  BY <1>1, <1>2, <1>4
<1>. QED BY <1>1, <1>2, <1>3, <1>5

LEMMA DoneStep ==
  ASSUME ProviderInv, at = "framing", NEW i \in 1..Len(wire.buffer),
         Bytes(SubSeq(wire.buffer, 1, i)) <= wire.bufferBytes,
         wire' = Consumed(i), Done
  PROVE  ProviderInv'
<1>1. /\ wire' \in [buffer : Seq(Part), bufferBytes : Nat, totalBytes : Nat]
      /\ wire'.bufferBytes = Bytes(wire'.buffer) /\ wire'.bufferBytes <= wire'.totalBytes
      /\ wire'.totalBytes = wire.totalBytes
  BY ConsumedTyped
<1>2. at \in Streaming \ {"paused"} /\ at \in Stages \ {"idle", "closing", "closed"} /\ ~ToldFinish
  BY DEF Streaming, Stages, ProviderInv, ToldInOrder
<1>3. CASE Whole
  <2>1. /\ Yield("finish") /\ answer.identity # None
        /\ UNCHANGED <<request, deadline, reader, answer, pending, ending, outcome>>
    BY <1>3 DEF Done, Whole, Yield
  <2>2. answer \in [identity : OwnIdentities \cup {None}, finish : FinishReasons \cup {None},
                    length : 0..ContentLimit]
    BY DEF ProviderInv, ProviderTypeOK
  <2>. QED BY <1>1, <1>2, <2>1, <2>2, YieldStep
<1>4. CASE ~Whole
  <2>1. PICK error \in ProviderError : ending' = [how |-> "failed", error |-> error]
    BY <1>4, ErrorsTyped DEF Done
  <2>2. at' = "closing" /\ UNCHANGED <<request, deadline, reader, answer, pending, heard, outcome>>
    BY <1>4 DEF Done
  <2>3. BufferAccounted'
    BY <1>1, <2>2 DEF ProviderInv, ProviderTypeOK, BufferAccounted
  <2>4. error \in ProviderError \cup {None}
    OBVIOUS
  <2>. QED BY <1>1, <1>2, <2>1, <2>2, <2>3, <2>4, LeavingStep
<1>. QED BY <1>3, <1>4

LEMMA FrameStep ==
  ASSUME ProviderInv, Frame
  PROVE  ProviderInv'
<1>1. wire \in [buffer : Seq(Part), bufferBytes : Nat, totalBytes : Nat] /\ at = "framing"
      /\ Boundaries # {}
  BY DEF ProviderInv, ProviderTypeOK, Frame
<1>2. PICK i \in 1..Len(wire.buffer) :
        /\ i = CHOOSE j \in Boundaries : \A k \in Boundaries : j <= k
        /\ wire.buffer[i].event \in WireEvents
  BY <1>1, FirstBoundary
<1> DEFINE event == wire.buffer[i].event
           consumed == Bytes(SubSeq(wire.buffer, 1, i))
           Bad == consumed > EventLimit \/ consumed > wire.bufferBytes \/ event.kind = "malformed"
<1>3. IF Bad THEN Throw(MalformedResponse)
      ELSE /\ wire' = Consumed(i)
           /\ IF event.kind = "done" THEN Done
              ELSE /\ at' = IF event.kind = "chunk" THEN "identity" ELSE "framing"
                   /\ pending' = IF event.kind = "chunk" THEN event ELSE None
                   /\ UNCHANGED <<request, deadline, reader, answer, heard, ending, outcome>>
  BY <1>2 DEF Frame
<1>4. CASE Bad
  <2>1. Throw(MalformedResponse)
    BY <1>3, <1>4
  <2>. QED BY <1>1, <2>1, ErrorsTyped, ThrowStep
<1>5. CASE ~Bad
  <2>1. consumed \in Nat /\ consumed <= wire.bufferBytes
    <3>1. consumed \in Nat
      BY <1>1, BytesOfRest, BytesOfBoth
    <3>. QED BY <1>1, <1>5, <3>1
  <2>2. wire' = Consumed(i)
    BY <1>3, <1>5
  <2>3. CASE event.kind = "done"
    BY <1>1, <1>3, <1>5, <2>1, <2>2, <2>3, DoneStep
  <2>4. CASE event.kind # "done"
    <3>1. /\ wire' \in [buffer : Seq(Part), bufferBytes : Nat, totalBytes : Nat]
          /\ wire'.bufferBytes = Bytes(wire'.buffer) /\ wire'.bufferBytes <= wire'.totalBytes
          /\ wire'.totalBytes = wire.totalBytes
      BY <2>1, <2>2, ConsumedTyped
    <3>2. /\ at' = IF event.kind = "chunk" THEN "identity" ELSE "framing"
          /\ pending' = IF event.kind = "chunk" THEN event ELSE None
          /\ UNCHANGED <<request, deadline, reader, answer, heard, ending, outcome>>
      BY <1>3, <1>5, <2>4
    <3>3. at \in Streaming /\ at' \in Streaming \ {"paused", "reading", "text", "usage"} /\ ~ToldFinish
      BY <1>1, <3>2 DEF Streaming, ProviderInv, ToldInOrder
    <3>4. BufferAccounted'
      BY <3>1, <3>2 DEF ProviderInv, ProviderTypeOK, BufferAccounted
    <3>5. event # None
      <4>1. event \in WireEvents /\ WireEvents \subseteq WireEvent /\ None \notin WireEvent
        BY <1>2, ProviderAssumption
      <4>. QED BY <4>1
    <3>6. /\ pending' \in {e \in WireEvents : e.kind = "chunk"} \cup {None}
          /\ at' = "identity" => pending' # None
      BY <1>2, <3>2, <3>5
    <3>. QED BY <3>1, <3>2, <3>3, <3>4, <3>6, TurnStep DEF ProviderInv, ProviderTypeOK
  <2>. QED BY <2>3, <2>4
<1>. QED BY <1>4, <1>5

LEMMA CheckIdentityStep ==
  ASSUME ProviderInv, CheckIdentity
  PROVE  ProviderInv'
<1>1. /\ at = "identity" /\ pending # None /\ at \in Streaming \ {"paused"} /\ ~ToldFinish
      /\ wire \in [buffer : Seq(Part), bufferBytes : Nat, totalBytes : Nat]
      /\ wire.bufferBytes = Bytes(wire.buffer) /\ wire.bufferBytes <= wire.totalBytes
      /\ answer \in [identity : OwnIdentities \cup {None}, finish : FinishReasons \cup {None},
                     length : 0..ContentLimit]
  BY DEF CheckIdentity, ProviderInv, ProviderTypeOK, BufferAccounted, EventAtHand, Streaming, ToldInOrder
<1>2. CASE Throw(MalformedResponse)
  BY <1>1, <1>2, ErrorsTyped, ThrowStep
<1>3. CASE answer.identity = None /\ ~Throw(MalformedResponse)
  <2>1. /\ pending.identity \in OwnIdentities
        /\ answer' = [answer EXCEPT !.identity = pending.identity]
        /\ Yield("start")
        /\ UNCHANGED <<request, deadline, reader, wire, pending, ending, outcome>>
    BY <1>3 DEF CheckIdentity
  <2>2. pending.identity # None
    BY <2>1, ProviderAssumption
  <2>3. answer' \in [identity : OwnIdentities \cup {None}, finish : FinishReasons \cup {None},
                     length : 0..ContentLimit] /\ answer'.identity # None
    BY <1>1, <2>1, <2>2
  <2>. QED BY <1>1, <2>1, <2>3, YieldStep
<1>4. CASE answer.identity # None /\ ~Throw(MalformedResponse)
  <2>1. /\ at' = "text"
        /\ UNCHANGED <<request, deadline, reader, wire, answer, pending, heard, ending, outcome>>
    BY <1>4 DEF CheckIdentity
  <2>2. heard # <<>> /\ pending' \in {e \in WireEvents : e.kind = "chunk"} \cup {None}
    BY <1>4, <2>1 DEF ProviderInv, ProviderTypeOK, ToldInOrder
  <2>3. at' \in Streaming \ {"paused"}
    BY <2>1 DEF Streaming
  <2>4. BufferAccounted'
    BY <2>1 DEF ProviderInv, ProviderTypeOK, BufferAccounted
  <2>. QED BY <1>1, <2>1, <2>2, <2>3, <2>4, TurnStep
<1>. QED BY <1>2, <1>3, <1>4

LEMMA ReadTextStep ==
  ASSUME ProviderInv, ReadText
  PROVE  ProviderInv'
<1>1. /\ at = "text" /\ pending # None /\ at \in Streaming \ {"paused"} /\ ~ToldFinish
      /\ heard # <<>> /\ answer.identity # None
      /\ wire \in [buffer : Seq(Part), bufferBytes : Nat, totalBytes : Nat]
      /\ wire.bufferBytes = Bytes(wire.buffer) /\ wire.bufferBytes <= wire.totalBytes
      /\ pending \in WireEvents /\ pending.kind = "chunk"
      /\ answer \in [identity : OwnIdentities \cup {None}, finish : FinishReasons \cup {None},
                     length : 0..ContentLimit]
  BY DEF ReadText, ProviderInv, ProviderTypeOK, BufferAccounted, EventAtHand, Streaming, ToldInOrder
<1>2. CASE (answer.finish # None /\ pending.choice) \/ (Texted /\ TooLong)
  BY <1>1, <1>2, ErrorsTyped, ThrowStep DEF ReadText
<1>3. CASE ~((answer.finish # None /\ pending.choice) \/ (Texted /\ TooLong))
  <2>1. UNCHANGED <<request, deadline, reader, wire, pending, ending, outcome>>
    BY <1>3 DEF ReadText
  <2>2. CASE Texted
    <3>1. answer' = [answer EXCEPT !.length = @ + pending.text] /\ Yield("text")
      BY <1>3, <2>2 DEF ReadText
    <3>2. pending.text \in Nat
      BY <1>1, ProviderAssumption DEF WireEvent
    <3>3. answer.length + pending.text \in 0..ContentLimit
      BY <1>1, <1>3, <2>2, <3>2, ProviderAssumption DEF TooLong
    <3>4. answer' \in [identity : OwnIdentities \cup {None}, finish : FinishReasons \cup {None},
                       length : 0..ContentLimit] /\ answer'.identity # None
      BY <1>1, <3>1, <3>3
    <3>. QED BY <1>1, <2>1, <3>1, <3>4, YieldStep
  <2>3. CASE ~Texted
    <3>1. at' = "usage" /\ UNCHANGED <<answer, heard>>
      BY <1>3, <2>3 DEF ReadText
    <3>2. at' \in Streaming \ {"paused", "reading"}
      BY <3>1 DEF Streaming
    <3>3. BufferAccounted'
      BY <2>1, <3>2 DEF ProviderInv, ProviderTypeOK, BufferAccounted
    <3>. QED BY <1>1, <2>1, <3>1, <3>2, <3>3, TurnStep
  <2>. QED BY <2>2, <2>3
<1>. QED BY <1>2, <1>3

LEMMA ReadUsageStep ==
  ASSUME ProviderInv, ReadUsage
  PROVE  ProviderInv'
<1>1. /\ at = "usage" /\ at \in Streaming \ {"paused"} /\ ~ToldFinish
      /\ heard # <<>> /\ answer.identity # None
      /\ wire \in [buffer : Seq(Part), bufferBytes : Nat, totalBytes : Nat]
      /\ wire.bufferBytes = Bytes(wire.buffer) /\ wire.bufferBytes <= wire.totalBytes
      /\ pending \in WireEvents /\ pending.kind = "chunk"
      /\ answer \in [identity : OwnIdentities \cup {None}, finish : FinishReasons \cup {None},
                     length : 0..ContentLimit]
  BY DEF ReadUsage, ProviderInv, ProviderTypeOK, BufferAccounted, EventAtHand, Streaming, ToldInOrder
<1>2. pending' = None /\ UNCHANGED <<request, deadline, reader, wire, ending, outcome>>
  BY DEF ReadUsage
<1>3. /\ answer' \in [identity : OwnIdentities \cup {None}, finish : FinishReasons \cup {None},
                      length : 0..ContentLimit]
      /\ answer'.identity = answer.identity
  <2>1. pending.finish \in FinishReasons \cup {None}
    BY <1>1, ProviderAssumption DEF WireEvent
  <2>2. answer' = answer \/ (answer' = [answer EXCEPT !.finish = pending.finish])
    BY DEF ReadUsage
  <2>. QED BY <1>1, <2>1, <2>2
<1>4. CASE pending.usage
  <2>1. Yield("usage")
    BY <1>4 DEF ReadUsage
  <2>. QED BY <1>1, <1>2, <1>3, <2>1, YieldStep
<1>5. CASE ~pending.usage
  <2>1. at' = "framing" /\ UNCHANGED heard
    BY <1>5 DEF ReadUsage
  <2>2. at' \in Streaming \ {"paused", "reading", "identity", "text", "usage"}
    BY <2>1 DEF Streaming
  <2>3. BufferAccounted'
    BY <1>2, <2>2 DEF ProviderInv, ProviderTypeOK, BufferAccounted
  <2>. QED BY <1>1, <1>2, <1>3, <2>1, <2>2, <2>3, TurnStep
<1>. QED BY <1>4, <1>5

LEMMA PausedStep ==
  ASSUME ProviderInv, Resume \/ Return
  PROVE  ProviderInv'
<1>1. /\ at = "paused" /\ heard # <<>> /\ heard \in Seq({"start", "text", "usage", "finish"})
      /\ Len(heard) \in Nat /\ Len(heard) \in DOMAIN heard
      /\ at \in Stages \ {"idle", "closing", "closed"}
      /\ request.op = "stream"
  <2>1. at = "paused"
    BY DEF Resume, Return
  <2>2. heard # <<>> /\ heard \in Seq({"start", "text", "usage", "finish"}) /\ request.op = "stream"
    BY <2>1 DEF ProviderInv, ProviderTypeOK, EventAtHand, ForItsKind, Streaming
  <2>. QED BY <2>1, <2>2 DEF Stages
<1> DEFINE last == heard[Len(heard)]
<1>2. last \in {"start", "text", "usage", "finish"}
  BY <1>1
<1>3. CASE Return
  BY <1>1, <1>3, LeaveStep DEF Return
<1>4. CASE Resume /\ last = "finish"
  <2>1. ToldFinish
    BY <1>1, <1>4 DEF ToldFinish
  <2>2. Leave("finished", None)
    BY <1>4 DEF Resume
  <2>. QED BY <1>1, <2>1, <2>2, LeaveStep
<1>5. CASE Resume /\ last # "finish"
  <2>1. /\ at' = CASE last = "start" -> "text" [] last = "text" -> "usage" [] last = "usage" -> "framing"
        /\ UNCHANGED <<request, deadline, reader, wire, answer, pending, heard, ending, outcome>>
    BY <1>5 DEF Resume
  <2>2. \/ at' = "text" /\ last = "start"
        \/ at' = "usage" /\ last = "text"
        \/ at' = "framing"
    BY <1>2, <1>5, <2>1
  <2>3. pending' # None \/ at' = "framing"
    BY <1>1, <2>1, <2>2 DEF ProviderInv, EventAtHand
  <2>4. ~ToldFinish
    BY <1>1, <1>5 DEF ProviderInv, ToldInOrder
  <2>5. at \in Streaming /\ at' \in Streaming \ {"paused", "reading", "identity"}
    BY <1>1, <2>2 DEF Streaming
  <2>6. BufferAccounted'
    BY <2>1, <2>5 DEF ProviderInv, ProviderTypeOK, BufferAccounted
  <2>. QED BY <1>1, <2>1, <2>3, <2>4, <2>5, <2>6, TurnStep DEF ProviderInv, ProviderTypeOK
<1>. QED BY <1>3, <1>4, <1>5

LEMMA ProviderInvInit == ProviderInit => ProviderInv
<1>. SUFFICES ASSUME ProviderInit PROVE ProviderInv
  OBVIOUS
<1>1. /\ request = None /\ at = "idle" /\ deadline = NoDeadline /\ reader = "none" /\ wire = NoBuffer
      /\ answer = NothingSaid /\ pending = None /\ heard = <<>> /\ ending = None /\ outcome = None
  BY DEF ProviderInit
<1>2. wire \in [buffer : Seq(Part), bufferBytes : Nat, totalBytes : Nat] /\ BufferAccounted
  BY <1>1, BytesOfNone, ProviderAssumption DEF NoBuffer, BufferAccounted
<1>3. /\ answer \in [identity : OwnIdentities \cup {None}, finish : FinishReasons \cup {None},
                     length : 0..ContentLimit]
      /\ answer.identity = None
  BY <1>1, ProviderAssumption DEF NothingSaid
<1>4. deadline \in Deadline /\ deadline.timer # "armed" /\ ~deadline.listening
  BY <1>1 DEF NoDeadline, Deadline, Timers
<1>5. at \in Stages /\ heard \in Seq({"start", "text", "usage", "finish"})
  BY <1>1 DEF Stages
<1>6. ProviderTypeOK
  BY <1>1, <1>2, <1>3, <1>4, <1>5 DEF ProviderTypeOK
<1>7. CleanedUp /\ ForItsKind /\ EndsOnce
  BY <1>1 DEF CleanedUp, ForItsKind, EndsOnce, Streaming
<1>8. EventAtHand /\ ToldInOrder
  BY <1>1, <1>3 DEF EventAtHand, ToldInOrder, ToldFinish
<1>. QED BY <1>6, <1>7, <1>8 DEF ProviderInv

LEMMA ProviderIdles == ProviderInv /\ UNCHANGED providerVars => ProviderInv'
<1>. SUFFICES ASSUME ProviderInv, UNCHANGED providerVars PROVE ProviderInv'
  OBVIOUS
<1>1. UNCHANGED <<request, at, deadline, reader, wire, answer, pending, heard, ending, outcome>>
  BY DEF providerVars
<1>2. ProviderTypeOK'
  BY <1>1 DEF ProviderInv, ProviderTypeOK, BufferAccounted
<1>3. CleanedUp' /\ ForItsKind' /\ EndsOnce' /\ EventAtHand' /\ ToldInOrder'
  BY <1>1 DEF ProviderInv, CleanedUp, ForItsKind, EndsOnce, EventAtHand, ToldInOrder, ToldFinish
<1>. QED BY <1>2, <1>3 DEF ProviderInv

LEMMA ProviderInvStep == ProviderInv /\ [ProviderNext]_providerVars => ProviderInv'
<1>. SUFFICES ASSUME ProviderInv, [ProviderNext]_providerVars PROVE ProviderInv'
  OBVIOUS
<1>1. CASE TimerFires \/ CallerAborts
  BY <1>1, DeadlineStep
<1>2. CASE \/ AbortLands \/ ConnectionLost \/ AcceptUnusable \/ EndOfStream
           \/ \E status \in Statuses, details \in ErrorDetails : ReadErrorDetails(status, details)
  BY <1>2, FailingStep
<1>3. CASE Close
  BY <1>3, CloseStep
<1>4. CASE NoBoundary \/ Frame
  BY <1>4, NoBoundaryStep, FrameStep
<1>5. CASE CheckIdentity \/ ReadText \/ ReadUsage
  BY <1>5, CheckIdentityStep, ReadTextStep, ReadUsageStep
<1>6. CASE \E r \in Request, aborted \in BOOLEAN : SendRequest(r, aborted)
  BY <1>6, SendStep
<1>7. CASE \E r \in Request : Refuse(r, None) \/ Refuse(r, Error("INCOMPATIBLE_CAPABILITY", FALSE))
  <2>1. Error("INCOMPATIBLE_CAPABILITY", FALSE) \in ProviderError
    BY ErrorsTyped DEF Codes
  <2>. QED BY <1>7, <2>1, RefuseStep
<1>8. CASE Accept \/ Reject
  BY <1>8, AcceptStep
<1>9. CASE \E bytes \in 1..(BodyLimit + 1) : ReadBody(bytes)
  BY <1>9, ReadBodyStep
<1>10. CASE \E completion \in Completions : EndBody(completion)
  BY <1>10, EndBodyStep
<1>11. CASE \E parts \in Deliveries : Read(parts)
  BY <1>11, ReadStep
<1>12. CASE Resume \/ Return
  BY <1>12, PausedStep
<1>13. CASE UNCHANGED providerVars
  BY <1>13, ProviderIdles
<1>. QED BY <1>1, <1>2, <1>3, <1>4, <1>5, <1>6, <1>7, <1>8, <1>9, <1>10, <1>11, <1>12, <1>13
         DEF ProviderNext, ProviderProceeds

LEMMA ProviderIsInductive == ProviderSpec => []ProviderInv
BY ProviderInvInit, ProviderInvStep, PTL DEF ProviderSpec

THEOREM RequestsHaveTheirShape == ProviderSpec => []ProviderTypeOK
<1>1. ProviderInv => ProviderTypeOK
  BY DEF ProviderInv
<1>. QED BY <1>1, ProviderIsInductive, PTL

THEOREM RequestsLeaveNothingBehind == ProviderSpec => []NothingLeftBehind
<1>1. ProviderInv => NothingLeftBehind
  <2>1. NoDeadline.timer # "armed" /\ ~NoDeadline.listening
    BY DEF NoDeadline
  <2>. QED BY <2>1 DEF ProviderInv, CleanedUp, NothingLeftBehind
<1>. QED BY <1>1, ProviderIsInductive, PTL

-----------------------------------------------------------------------------
(* The refinement of ModelStream *)

\* How the iteration of a stream ended, as its consumer sees it.
Ended == IF outcome = None \/ request.op = "generate" THEN None ELSE outcome.how

\* What a step may do to what the consumer sees: nothing; an event; an end.
Silent == UNCHANGED <<heard, Ended>>
Hears ==
  \E type \in {"start", "text", "usage", "finish"} :
    /\ outcome = None /\ ~ToldFinish
    /\ type = "start" <=> heard = <<>>
    /\ heard' = Append(heard, type) /\ UNCHANGED outcome
Ends ==
  /\ outcome = None /\ outcome' # None /\ UNCHANGED heard
  /\ request'.op = "stream" =>
       /\ outcome'.how \in {"finished", "failed", "returned"}
       /\ outcome'.how = "finished" => ToldFinish
       /\ outcome'.how = "failed" => ~ToldFinish
       /\ outcome'.how = "returned" => heard # <<>>
  /\ request' \in Request

LEMMA WhatAStepTells ==
  ASSUME ProviderInv, [ProviderNext]_providerVars
  PROVE  Silent \/ Hears \/ Ends
<1>1. CASE Close
  <2>1. /\ ending \in Outcome /\ request \in Request /\ outcome = None /\ at = "closing"
    BY <1>1 DEF ProviderInv, ProviderTypeOK, CleanedUp, EndsOnce, Close
  <2>2. /\ outcome' # None /\ outcome'.how = ending.how /\ request' = request /\ heard' = heard
    <3>1. NormalizeRequestFailure(ending.error) \in ProviderError
      BY <2>1, ErrorsTyped DEF NormalizeRequestFailure, Outcome, Codes
    <3>. QED BY <1>1, <2>1, <3>1, OutcomeTyped DEF Close, Outcome
  <2>3. ending.how \in {"finished", "failed", "returned"}
    BY <2>1 DEF Outcome
  <2>4. request.op = "stream" =>
          /\ ending.how = "finished" => ToldFinish
          /\ ending.how = "failed" => ~ToldFinish
          /\ ending.how = "returned" => heard # <<>>
    BY <2>1 DEF ProviderInv, ToldInOrder
  <2>. QED BY <2>1, <2>2, <2>3, <2>4 DEF Ends
<1>2. ASSUME NEW r \in Request, NEW error \in ProviderError \cup {None}, Refuse(r, error)
      PROVE  Ends
  <2>1. request = None /\ at = "idle" /\ outcome = None /\ heard = <<>>
    BY <1>2 DEF Refuse, ProviderInv, CleanedUp, EndsOnce
  <2>2. /\ request' = r /\ outcome' = [how |-> "failed", error |-> error] /\ UNCHANGED heard
    BY <1>2 DEF Refuse
  <2>3. heard = <<>> /\ ~ToldFinish
    BY <2>1 DEF ToldFinish
  <2>. QED BY <2>1, <2>2, <2>3, OutcomeTyped DEF Ends
<1>3. CASE CheckIdentity \/ ReadText \/ ReadUsage
  <2>1. at \in {"identity", "text", "usage"} /\ outcome = None /\ ~ToldFinish /\ UNCHANGED outcome
    BY <1>3 DEF CheckIdentity, ReadText, ReadUsage, ProviderInv, EndsOnce, ToldInOrder, Throw, Leave
  <2>2. \/ UNCHANGED heard
        \/ answer.identity = None /\ Yield("start")
        \/ at \in {"text", "usage"} /\ (Yield("text") \/ Yield("usage"))
    BY <1>3 DEF CheckIdentity, ReadText, ReadUsage, Throw, Leave
  <2>3. answer.identity = None <=> heard = <<>>
    BY DEF ProviderInv, ToldInOrder
  <2>4. at \in {"text", "usage"} => heard # <<>>
    BY DEF ProviderInv, ToldInOrder
  <2>. QED BY <2>1, <2>2, <2>3, <2>4 DEF Yield, Hears, Silent, Ended
<1>4. CASE Frame
  <2>1. /\ at = "framing" /\ outcome = None /\ ~ToldFinish /\ UNCHANGED outcome
        /\ request.op = "stream"
    BY <1>4 DEF Frame, ProviderInv, EndsOnce, ToldInOrder, ForItsKind, Streaming, Throw, Leave, Done
  <2>2. UNCHANGED heard \/ (answer.identity # None /\ heard' = Append(heard, "finish"))
    BY <1>4 DEF Frame, Throw, Leave, Done, Whole
  <2>3. answer.identity # None => heard # <<>>
    BY DEF ProviderInv, ToldInOrder
  <2>. QED BY <2>1, <2>2, <2>3 DEF Hears, Silent, Ended
<1>5. CASE \/ TimerFires \/ CallerAborts \/ Resume \/ Return \/ UNCHANGED providerVars
           \/ Accept \/ Reject \/ NoBoundary \/ AbortLands \/ ConnectionLost \/ AcceptUnusable
           \/ EndOfStream
  <2>1. UNCHANGED <<request, heard, outcome>>
    BY <1>5 DEF TimerFires, CallerAborts, Resume, Return, providerVars, Accept, Reject, NoBoundary,
                AbortLands, ConnectionLost, AcceptUnusable, EndOfStream, Throw, Leave
  <2>. QED BY <2>1 DEF Silent, Ended
<1>6. CASE \/ \E status \in Statuses, details \in ErrorDetails : ReadErrorDetails(status, details)
           \/ \E bytes \in 1..(BodyLimit + 1) : ReadBody(bytes)
           \/ \E completion \in Completions : EndBody(completion)
           \/ \E parts \in Deliveries : Read(parts)
  <2>1. UNCHANGED <<request, heard, outcome>>
    BY <1>6 DEF ReadErrorDetails, ReadBody, EndBody, Read, Throw, Leave
  <2>. QED BY <2>1 DEF Silent, Ended
<1>7. CASE \E r \in Request, aborted \in BOOLEAN : SendRequest(r, aborted)
  <2>1. outcome = None /\ UNCHANGED <<heard, outcome>>
    BY <1>7 DEF SendRequest, ProviderInv, CleanedUp, EndsOnce
  <2>. QED BY <2>1 DEF Silent, Ended
<1>8. CASE \E r \in Request : Refuse(r, None) \/ Refuse(r, Error("INCOMPATIBLE_CAPABILITY", FALSE))
  <2>1. Error("INCOMPATIBLE_CAPABILITY", FALSE) \in ProviderError
    BY ErrorsTyped DEF Codes
  <2>. QED BY <1>2, <1>8, <2>1
<1>. QED BY <1>1, <1>3, <1>4, <1>5, <1>6, <1>7, <1>8 DEF ProviderNext, ProviderProceeds

LEMMA ToldAsPromised ==
  ASSUME ProviderInv, [ProviderNext]_providerVars
  PROVE  [Iterated!Next]_<<heard, Ended>>
<1>1. ToldFinish <=> Iterated!Finished
  BY DEF ToldFinish, Iterated!Finished
<1>2. CASE Silent
  BY <1>2 DEF Silent
<1>3. CASE Hears
  <2>1. Ended = None /\ Ended' = None
    BY <1>3 DEF Hears, Ended
  <2>2. PICK type \in {"start", "text", "usage", "finish"} :
          ~ToldFinish /\ (type = "start" <=> heard = <<>>) /\ heard' = Append(heard, type)
    BY <1>3 DEF Hears
  <2>3. Iterated!Hear(type)
    BY <1>1, <2>1, <2>2 DEF Iterated!Hear, Iterated!Started, Ended
  <2>. QED BY <2>3 DEF Iterated!Next
<1>4. CASE Ends
  <2>1. Ended = None /\ UNCHANGED heard
    BY <1>4 DEF Ends, Ended
  <2>2. CASE request'.op = "generate"
    <3>1. Ended' = None
      BY <2>2 DEF Ended
    <3>. QED BY <2>1, <3>1
  <2>3. CASE request'.op = "stream"
    <3>1. Ended' = outcome'.how
      BY <1>4, <2>3 DEF Ends, Ended
    <3>2. /\ outcome'.how \in {"finished", "failed", "returned"}
          /\ outcome'.how = "finished" => ToldFinish
          /\ outcome'.how = "failed" => ~ToldFinish
          /\ outcome'.how = "returned" => heard # <<>>
      BY <1>4, <2>3 DEF Ends
    <3>3. Iterated!End(outcome'.how)
      BY <1>1, <2>1, <3>1, <3>2 DEF Iterated!End, Iterated!Started, Ended
    <3>. QED BY <3>2, <3>3 DEF Iterated!Next
  <2>. QED BY <1>4, <2>2, <2>3 DEF Ends, Request
<1>. QED BY <1>2, <1>3, <1>4, WhatAStepTells

THEOREM StreamsKeepTheirPromise == ProviderSpec => ImplementsModelStream
<1>1. ProviderInit => Iterated!Init
  BY DEF ProviderInit, Iterated!Init
<1>2. ProviderInv /\ [ProviderNext]_providerVars => [Iterated!Next]_<<heard, Ended>>
  BY ToldAsPromised
<1>. QED BY <1>1, <1>2, ProviderIsInductive, PTL DEF ProviderSpec, ImplementsModelStream, Iterated!Spec, Ended
=============================================================================
