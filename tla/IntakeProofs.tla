---------------------------- MODULE IntakeProofs ----------------------------
(***************************************************************************)
(* Proofs about Intake, for any number of calls, keys, contents, files and *)
(* previews.  The invariant says who holds which row lock at each stage of *)
(* a call, and that what a call read under a lock is still so when it      *)
(* writes: PostgresUnitOfWork's transactions are not serializable, so only *)
(* the locks keep the rows whole.                                          *)
(***************************************************************************)
EXTENDS Intake, FiniteSetTheorems, TLAPS

-----------------------------------------------------------------------------
(* The inductive invariant *)

\* Calls that write while they hold the project row.
OnProject == {"upload", "submit", "confirm"}

\* The tables and the locks have their shape; the conversations of an import are numbered
\* after it.
TablesTyped ==
  /\ conversations \in [DOMAIN conversations -> {"active", "archived"}]
  /\ DOMAIN conversations \subseteq ConversationIds
  /\ DOMAIN conversations =
       {Home} \cup UNION {imports[n].conversations : n \in DOMAIN imports}
  /\ \A x \in DOMAIN conversations : x[1] <= Len(imports)
  /\ messages \in [DOMAIN conversations -> Seq(Message)]
  /\ rowLock \in [DOMAIN conversations -> Calls \cup {None}]
  /\ projectLock \in Calls \cup {None}
  /\ attachments \subseteq Attachment /\ uploads \subseteq Upload /\ objects \subseteq Calls
  /\ previews \in Seq(Preview) /\ imports \in Seq(Import)
  /\ calls \in [Calls -> Call \cup {None}]

\* What a call asks for, and where it can be.
Shaped(call) ==
  /\ call.at = "storing" => call.kind \in {"upload", "stage"}
  /\ call.at = "project" => call.kind \in {"upload", "stage", "submit", "confirm"}
  /\ call.at = "conversation" => call.kind \in {"say", "archive", "upload", "submit"}
  /\ call.at = "commit" => call.kind # "stage"
  /\ call.kind \in {"say", "upload", "stage"} => call.key \in Keys /\ call.content \in Contents
  /\ call.kind \in {"say", "archive", "upload"} => call.target # None
  /\ call.target # None => call.target \in DOMAIN conversations
  /\ call.kind = "confirm" => call.identity \in Files /\ call.target = None
  /\ call.kind = "submit" =>
       /\ call.identity \in Submission /\ call.selection = {1}
       /\ call.at = "project" => call.target = None
       /\ call.at = "conversation" => call.target # None /\ call.identity.previous # 0
       /\ call.at = "commit" => (call.target = None <=> call.identity.previous = 0)

\* A call that is to write holds the rows it has read, and only such a call holds any.
Holds(c) ==
  /\ projectLock = c <=>
       (At(c, "conversation") \/ At(c, "commit")) /\ calls[c].kind \in OnProject
  /\ \A x \in DOMAIN rowLock : rowLock[x] = c <=> At(c, "commit") /\ calls[c].target = x

\* What a call read under a lock is still so.
Knows(c) ==
  /\ At(c, "commit") /\ calls[c].target # None => Active(calls[c].target)
  /\ At(c, "commit") /\ calls[c].kind \in {"say", "upload"} =>
       FindMessageByClientId(calls[c].target, calls[c].key) = {}
  /\ projectLock = c /\ calls[c].kind = "upload" =>
       Authorized(calls[c].by, "conversation:write") /\ RequireActiveProject
  /\ projectLock = c /\ IsImport(c) =>
       /\ FindCompletedByIdentity(calls[c].identity) = {}
       /\ Previous(calls[c]) # 0 =>
            /\ Previous(calls[c]) \in DOMAIN imports
            /\ imports[Previous(calls[c])].by = calls[c].by
            /\ imports[Previous(calls[c])].conversations = {calls[c].target}
            /\ FindContinuation(Previous(calls[c])) = {}

\* The file of an upload is stored before anything is written about it.
HasStored(c) ==
  calls[c] # None /\ calls[c].kind \in {"upload", "stage"}
    /\ calls[c].at \in {"project", "conversation", "commit"} => c \in objects

CallOK(c) ==
  /\ calls[c] # None => Shaped(calls[c])
  /\ Holds(c) /\ Knows(c) /\ HasStored(c)

\* A client's message is in its conversation once.
MessagesOnce ==
  \A x \in DOMAIN messages : \A i, j \in DOMAIN messages[x] :
    messages[x][i].key # None /\ messages[x][i].key = messages[x][j].key => i = j

\* What was staged is stored.
UploadsWhole ==
  \A s \in uploads : s.id \in objects /\ calls[s.id] # None /\ calls[s.id].kind = "stage"

\* An attachment is of a message that is there, and of one only; whoever bound it has
\* uploaded it, or staged it.
AttachmentsWhole ==
  \A a \in attachments :
    /\ a.conversation \in DOMAIN messages /\ a.sequence \in DOMAIN messages[a.conversation]
    /\ a.id \in objects
    /\ Staged(a.id) \/ At(a.id, "done")
    /\ \A b \in attachments : b.id = a.id => b = a
    /\ messages[a.conversation][a.sequence].key = None =>
         \E s \in uploads : s.id = a.id /\ s.by = a.by

\* Imports do not repeat, and continue earlier ones in one line.
ImportsInOrder ==
  \A n \in DOMAIN imports :
    /\ imports[n].identity \notin Files => \E x \in imports[n].conversations : imports[n].conversations = {x}
    /\ imports[n].previous < n
    /\ \A m \in DOMAIN imports :
         /\ imports[n].identity = imports[m].identity => n = m
         /\ imports[n].previous = m =>
              imports[n].by = imports[m].by /\ imports[n].conversations = imports[m].conversations
         /\ imports[n].previous = imports[m].previous /\ imports[n].previous # 0 => n = m

IntakeInv ==
  /\ TablesTyped /\ MessagesOnce /\ UploadsWhole /\ AttachmentsWhole /\ ImportsInOrder
  /\ \A c \in Calls : CallOK(c)

-----------------------------------------------------------------------------
(* What a step keeps *)

\* A call that takes no part in a step is as it was.
LEMMA CallKept ==
  ASSUME IntakeInv, NEW d \in Calls,
         calls'[d] = calls[d],
         projectLock' = d <=> projectLock = d,
         projectLock = d => UNCHANGED <<role, archived, imports>>,
         DOMAIN conversations \subseteq DOMAIN conversations', None \notin DOMAIN conversations',
         \A x \in DOMAIN rowLock' : rowLock'[x] = d <=> x \in DOMAIN conversations /\ rowLock[x] = d,
         DOMAIN rowLock' = DOMAIN conversations',
         \A x \in DOMAIN conversations :
           rowLock[x] = d => messages'[x] = messages[x] /\ conversations'[x] = conversations[x],
         objects \subseteq objects'
  PROVE  CallOK(d)'
<1>1. CallOK(d) /\ DOMAIN rowLock = DOMAIN conversations /\ calls[d] \in Call \cup {None}
  BY DEF IntakeInv, TablesTyped
<1>2. (calls[d] # None => Shaped(calls[d]))'
  BY <1>1 DEF CallOK, Shaped
<1>3. HasStored(d)'
  BY <1>1 DEF CallOK, HasStored
<1>4. Holds(d)'
  <2>1. (projectLock = d <=>
       (At(d, "conversation") \/ At(d, "commit")) /\ calls[d].kind \in OnProject)'
    BY <1>1 DEF CallOK, Holds, At
  <2>2. ASSUME NEW x \in DOMAIN rowLock'
        PROVE  (rowLock'[x] = d) <=> (At(d, "commit")' /\ calls'[d].target = x)
    <3>1. CASE x \in DOMAIN conversations
      BY <1>1, <2>2, <3>1 DEF CallOK, Holds, At
    <3>2. CASE x \notin DOMAIN conversations
      <4>1. At(d, "commit") /\ calls[d].target # None => calls[d].target \in DOMAIN conversations
        BY <1>1 DEF CallOK, At, Shaped
      <4>2. x # None
        BY <1>1
      <4>. QED BY <2>2, <3>2, <4>1, <4>2 DEF At
    <3>. QED BY <3>1, <3>2
  <2>. QED BY <2>1, <2>2 DEF Holds
<1>5. Knows(d)'
  <2>1. ASSUME At(d, "commit"), calls[d].target # None
        PROVE  /\ calls[d].target \in DOMAIN conversations
               /\ conversations'[calls[d].target] = conversations[calls[d].target]
               /\ messages'[calls[d].target] = messages[calls[d].target]
    BY <1>1, <2>1 DEF CallOK, Holds, At, Shaped
  <2>2. (At(d, "commit") /\ calls[d].target # None => Active(calls[d].target))'
    BY <1>1, <2>1 DEF CallOK, Knows, At, Active
  <2>3. (At(d, "commit") /\ calls[d].kind \in {"say", "upload"} =>
           FindMessageByClientId(calls[d].target, calls[d].key) = {})'
    BY <1>1, <2>1 DEF CallOK, Knows, At, Shaped, FindMessageByClientId
  <2>4. (projectLock = d /\ calls[d].kind = "upload" =>
           Authorized(calls[d].by, "conversation:write") /\ RequireActiveProject)'
    BY <1>1 DEF CallOK, Knows, Authorized, RequireActiveProject
  <2>5. (projectLock = d /\ IsImport(d) =>
           /\ FindCompletedByIdentity(calls[d].identity) = {}
           /\ Previous(calls[d]) # 0 =>
                /\ Previous(calls[d]) \in DOMAIN imports
                /\ imports[Previous(calls[d])].by = calls[d].by
                /\ imports[Previous(calls[d])].conversations = {calls[d].target}
                /\ FindContinuation(Previous(calls[d])) = {})'
    BY <1>1 DEF CallOK, Knows, IsImport, FindCompletedByIdentity, FindContinuation, Previous
  <2>. QED BY <2>2, <2>3, <2>4, <2>5 DEF Knows
<1>. QED BY <1>2, <1>3, <1>4, <1>5 DEF CallOK

\* A step that moves one call on, and changes no table but the storage's files.
LEMMA CallStep ==
  ASSUME IntakeInv, NEW c \in Calls, NEW call \in Call, calls' = [calls EXCEPT ![c] = call],
         calls[c] # None => call.kind = calls[c].kind /\ calls[c].at # "done",
         UNCHANGED <<role, archived, conversations, messages, attachments, uploads, previews, imports>>,
         objects \subseteq objects', objects' \subseteq Calls,
         projectLock' \in {projectLock, c} \/ (projectLock = c /\ projectLock' = None),
         projectLock' = c /\ projectLock # c => projectLock = None,
         rowLock' \in [DOMAIN conversations -> Calls \cup {None}],
         \A x \in DOMAIN conversations : rowLock'[x] # c /\ rowLock[x] # c => rowLock'[x] = rowLock[x],
         \A x \in DOMAIN conversations : rowLock'[x] = c => rowLock[x] \in {None, c},
         \A x \in DOMAIN conversations : rowLock[x] = c => rowLock'[x] \in {None, c},
         CallOK(c)'
  PROVE  IntakeInv'
<1>1. /\ DOMAIN conversations \subseteq ConversationIds /\ DOMAIN rowLock = DOMAIN conversations
      /\ calls \in [Calls -> Call \cup {None}] /\ call # None /\ None \notin Calls
      /\ None \notin ConversationIds
  BY IntakeAssumption DEF IntakeInv, TablesTyped
<1>2. TablesTyped'
  <2>1. calls' \in [Calls -> Call \cup {None}]
    BY <1>1
  <2>2. projectLock' \in Calls \cup {None}
    BY DEF IntakeInv, TablesTyped
  <2>. QED BY <2>1, <2>2 DEF IntakeInv, TablesTyped
<1>3. ASSUME NEW d \in Calls \ {c} PROVE CallOK(d)'
  <2>1. calls'[d] = calls[d]
    BY <1>1
  <2>2. projectLock' = d <=> projectLock = d
    BY <1>1
  <2>3. \A x \in DOMAIN rowLock' : rowLock'[x] = d <=> x \in DOMAIN conversations /\ rowLock[x] = d
    BY <1>1
  <2>4. DOMAIN rowLock' = DOMAIN conversations'
    BY <1>1
  <2>. QED BY <1>1, <2>1, <2>2, <2>3, <2>4, CallKept
<1>4. ASSUME NEW d \in Calls, calls[d] # None
      PROVE  calls'[d] # None /\ calls'[d].kind = calls[d].kind /\ (At(d, "done") => At(d, "done")')
  BY <1>1, <1>4 DEF At
<1>5. MessagesOnce' /\ ImportsInOrder'
  BY DEF IntakeInv, MessagesOnce, ImportsInOrder
<1>6. UploadsWhole'
  <2>1. \A s \in uploads : s.id \in Calls
    BY DEF IntakeInv, TablesTyped, Upload
  <2>. QED BY <1>4, <2>1 DEF IntakeInv, UploadsWhole
<1>7. AttachmentsWhole'
  <2>1. \A a \in attachments : a.id \in Calls
    BY DEF IntakeInv, TablesTyped, Attachment
  <2>2. \A d \in Calls : At(d, "done") => At(d, "done")'
    BY <1>4 DEF At
  <2>. QED BY <2>1, <2>2 DEF IntakeInv, AttachmentsWhole, Staged
<1>. QED BY <1>2, <1>3, <1>5, <1>6, <1>7 DEF IntakeInv

\* A call that goes to a stage changes in nothing else, and no other call changes.
LEMMA GoToIs ==
  ASSUME IntakeInv, NEW c \in Calls, calls[c] # None, NEW stage \in Stages, GoTo(c, stage)
  PROVE  /\ calls[c] \in Call /\ [calls[c] EXCEPT !.at = stage] \in Call
         /\ calls' = [calls EXCEPT ![c] = [calls[c] EXCEPT !.at = stage]]
         /\ calls'[c] = [calls[c] EXCEPT !.at = stage] /\ calls'[c] # None
         /\ \A f \in {"kind", "by", "target", "key", "content", "identity", "selection", "preview"} :
              calls'[c][f] = calls[c][f]
         /\ calls'[c].at = stage
         /\ \A d \in Calls \ {c} : calls'[d] = calls[d]
<1>1. calls \in [Calls -> Call \cup {None}] /\ calls[c] \in Call
  BY DEF IntakeInv, TablesTyped
<1>2. [calls[c] EXCEPT !.at = stage] \in Call
  BY <1>1 DEF Call
<1>3. [calls[c] EXCEPT !.at = stage] # None
  BY <1>2, IntakeAssumption
<1>4. calls' = [calls EXCEPT ![c] = [calls[c] EXCEPT !.at = stage]]
  BY DEF GoTo
<1>5. calls'[c] = [calls[c] EXCEPT !.at = stage]
  BY <1>1, <1>4
<1>6. /\ \A f \in {"kind", "by", "target", "key", "content", "identity", "selection", "preview"} :
           calls'[c][f] = calls[c][f]
      /\ calls'[c].at = stage
  BY <1>1, <1>5 DEF Call
<1>7. \A d \in Calls \ {c} : calls'[d] = calls[d]
  BY <1>1, <1>4
<1>. QED BY <1>1, <1>2, <1>3, <1>4, <1>5, <1>6, <1>7

\* A call that has ended holds nothing.
LEMMA EndedHolds ==
  ASSUME NEW c \in Calls, IntakeInv, calls'[c] # None, calls'[c].at \in {"done", "failed"},
         Shaped(calls[c])', projectLock' # c, \A x \in DOMAIN rowLock' : rowLock'[x] # c
  PROVE  CallOK(c)'
BY DEF CallOK, Holds, Knows, HasStored, At

\* The call's record, but for its stage.
LEMMA ShapedStill ==
  ASSUME NEW c \in Calls, Shaped(calls[c]), DOMAIN conversations \subseteq DOMAIN conversations',
         \A f \in {"kind", "by", "target", "key", "content", "identity", "selection", "preview"} :
           calls'[c][f] = calls[c][f],
         calls'[c].at \in {"done", "failed"}
  PROVE  Shaped(calls[c])'
<1>1. /\ calls'[c].kind = calls[c].kind /\ calls'[c].target = calls[c].target
      /\ calls'[c].key = calls[c].key /\ calls'[c].content = calls[c].content
      /\ calls'[c].identity = calls[c].identity /\ calls'[c].selection = calls[c].selection
  OBVIOUS
<1>. QED BY <1>1 DEF Shaped

\* After ROLLBACK a call holds no row, and every other call what it held.
LEMMA RollbackIs ==
  ASSUME IntakeInv, NEW c \in Calls, Rollback(c)
  PROVE  /\ projectLock' = IF projectLock = c THEN None ELSE projectLock
         /\ projectLock' # c
         /\ rowLock' \in [DOMAIN conversations -> Calls \cup {None}]
         /\ \A x \in DOMAIN conversations : rowLock'[x] = IF rowLock[x] = c THEN None ELSE rowLock[x]
         /\ \A x \in DOMAIN conversations : rowLock'[x] # c
<1>1. rowLock \in [DOMAIN conversations -> Calls \cup {None}] /\ None # c
  BY IntakeAssumption DEF IntakeInv, TablesTyped
<1>. QED BY <1>1 DEF Rollback, Released

\* A call that has failed, or found that there is nothing left to write.
LEMMA EndStep ==
  ASSUME IntakeInv, NEW c \in Calls, calls[c] # None, calls[c].at # "done", Fail(c) \/ Answer(c)
  PROVE  IntakeInv'
<1>1. PICK stage \in {"done", "failed"} : GoTo(c, stage)
  BY DEF Fail, Answer
<1>2. Rollback(c) /\ UNCHANGED <<intakeMembers, intakeTables>>
  BY DEF Fail, Answer
<1>3. stage \in Stages
  BY DEF Stages
<1> DEFINE call == [calls[c] EXCEPT !.at = stage]
<1>4. /\ call \in Call /\ calls' = [calls EXCEPT ![c] = call] /\ calls'[c] = call /\ calls'[c] # None
      /\ \A f \in {"kind", "by", "target", "key", "content", "identity", "selection", "preview"} :
           calls'[c][f] = calls[c][f]
      /\ calls'[c].at = stage
  BY <1>1, <1>3, GoToIs
<1>5. UNCHANGED <<role, archived, conversations, messages, attachments, uploads, previews, imports, objects>>
  BY <1>2 DEF intakeMembers, intakeTables
<1>6. Shaped(calls[c])'
  BY <1>4, <1>5, ShapedStill DEF IntakeInv, CallOK
<1>7. /\ projectLock' = IF projectLock = c THEN None ELSE projectLock
      /\ projectLock' # c
      /\ rowLock' \in [DOMAIN conversations -> Calls \cup {None}]
      /\ \A x \in DOMAIN conversations : rowLock'[x] = IF rowLock[x] = c THEN None ELSE rowLock[x]
      /\ \A x \in DOMAIN conversations : rowLock'[x] # c
  BY <1>2, RollbackIs
<1>8. CallOK(c)'
  BY <1>4, <1>6, <1>7, EndedHolds
<1>9. call.kind = calls[c].kind /\ objects' \subseteq Calls /\ objects \subseteq objects'
  BY <1>4, <1>5 DEF IntakeInv, TablesTyped
<1>. HIDE DEF call
<1>. QED BY <1>4, <1>5, <1>7, <1>8, <1>9, CallStep

\* A call begins with nothing locked and nothing written.
LEMMA BeginStep ==
  ASSUME IntakeInv, NEW c \in Calls, NEW call \in Call, Begin(c, call),
         UNCHANGED <<intakeMembers, intakeTables, intakeLocks>>,
         Shaped(call),
         \/ call.at = "storing"
         \/ call.at = "project" /\ call.kind \in {"submit", "confirm"}
         \/ call.at = "conversation" /\ call.kind \in {"say", "archive"}
  PROVE  IntakeInv'
<1>1. /\ calls[c] = None /\ calls' = [calls EXCEPT ![c] = call] /\ calls'[c] = call
      /\ None \notin Calls
  BY IntakeAssumption DEF Begin, IntakeInv, TablesTyped
<1>2. UNCHANGED <<role, archived, conversations, messages, attachments, uploads, previews, imports,
                  objects, projectLock, rowLock>>
  BY DEF intakeMembers, intakeTables, intakeLocks
<1>3. projectLock # c /\ \A x \in DOMAIN rowLock : rowLock[x] # c
  BY <1>1 DEF IntakeInv, CallOK, Holds, At
<1>4. Shaped(calls[c])'
  BY <1>1, <1>2 DEF Shaped
<1>5. CallOK(c)'
  BY <1>1, <1>2, <1>3, <1>4 DEF CallOK, Holds, Knows, HasStored, At, OnProject
<1>6. /\ objects \subseteq objects' /\ objects' \subseteq Calls
      /\ rowLock' \in [DOMAIN conversations -> Calls \cup {None}]
      /\ projectLock' \in {projectLock, c}
      /\ \A x \in DOMAIN conversations : rowLock'[x] = rowLock[x]
      /\ projectLock' # c
  BY <1>2, <1>3 DEF IntakeInv, TablesTyped
<1>7. \A x \in DOMAIN conversations : rowLock[x] # c
  BY <1>3 DEF IntakeInv, TablesTyped
<1>. QED BY <1>1, <1>2, <1>5, <1>6, <1>7, CallStep

-----------------------------------------------------------------------------
(* Requests *)

\* What a request begins with is a call.
LEMMA NewCallTyped ==
  ASSUME NEW kind \in Kinds, NEW u \in Users, NEW stage \in Stages
  PROVE  NewCall(kind, u, stage) \in Call
<1>1. 0 \in Nat /\ {} \in SUBSET {1, 2}
  OBVIOUS
<1>. QED BY <1>1 DEF NewCall, Call

\* A request is one of the six that begin with nothing locked.
LEMMA RequestStep ==
  ASSUME IntakeInv, NEW c \in Calls, NEW u \in Users, Request(c, u)
  PROVE  IntakeInv'
<1>1. DOMAIN conversations \subseteq ConversationIds /\ None \notin ConversationIds
  BY IntakeAssumption DEF IntakeInv, TablesTyped
<1>2. ASSUME NEW conversation \in DOMAIN conversations, NEW k \in Keys, NEW content \in Contents,
             AppendUserMessage(c, u, conversation, k, content)
      PROVE  IntakeInv'
  <2> DEFINE new == NewCall("say", u, "conversation")
             call == [new EXCEPT !.target = conversation, !.key = k, !.content = content]
  <2>1. new \in Call
    BY NewCallTyped DEF Kinds, Stages
  <2>2. new.kind = "say" /\ new.at = "conversation"
    BY DEF NewCall
  <2>. HIDE DEF new
  <2>3. /\ call \in Call /\ call.kind = "say" /\ call.at = "conversation"
        /\ call.target = conversation /\ call.key = k /\ call.content = content
    BY <1>1, <2>1, <2>2 DEF Call
  <2>4. Begin(c, call) /\ UNCHANGED <<intakeMembers, intakeTables, intakeLocks>>
    BY <1>2 DEF AppendUserMessage, new
  <2>. HIDE DEF call
  <2>5. Shaped(call)
    BY <1>1, <2>3 DEF Shaped
  <2>. QED BY <2>3, <2>4, <2>5, BeginStep
<1>3. ASSUME NEW conversation \in DOMAIN conversations, ArchiveConversation(c, u, conversation)
      PROVE  IntakeInv'
  <2> DEFINE new == NewCall("archive", u, "conversation")
             call == [new EXCEPT !.target = conversation]
  <2>1. new \in Call
    BY NewCallTyped DEF Kinds, Stages
  <2>2. new.kind = "archive" /\ new.at = "conversation"
    BY DEF NewCall
  <2>. HIDE DEF new
  <2>3. /\ call \in Call /\ call.kind = "archive" /\ call.at = "conversation"
        /\ call.target = conversation
    BY <1>1, <2>1, <2>2 DEF Call
  <2>4. Begin(c, call) /\ UNCHANGED <<intakeMembers, intakeTables, intakeLocks>>
    BY <1>3 DEF ArchiveConversation, new
  <2>. HIDE DEF call
  <2>5. Shaped(call)
    BY <1>1, <2>3 DEF Shaped
  <2>. QED BY <2>3, <2>4, <2>5, BeginStep
<1>4. ASSUME NEW conversation \in DOMAIN conversations, NEW k \in Keys, NEW content \in Contents,
             BeginUpload(c, u, conversation, k, content)
      PROVE  IntakeInv'
  <2> DEFINE new == NewCall("upload", u, "storing")
             call == [new EXCEPT !.target = conversation, !.key = k, !.content = content]
  <2>1. new \in Call
    BY NewCallTyped DEF Kinds, Stages
  <2>2. new.kind = "upload" /\ new.at = "storing"
    BY DEF NewCall
  <2>. HIDE DEF new
  <2>3. /\ call \in Call /\ call.kind = "upload" /\ call.at = "storing"
        /\ call.target = conversation /\ call.key = k /\ call.content = content
    BY <1>1, <2>1, <2>2 DEF Call
  <2>4. Begin(c, call) /\ UNCHANGED <<intakeMembers, intakeTables, intakeLocks>>
    BY <1>4 DEF BeginUpload, new
  <2>. HIDE DEF call
  <2>5. Shaped(call)
    BY <1>1, <2>3 DEF Shaped
  <2>. QED BY <2>3, <2>4, <2>5, BeginStep
<1>5. ASSUME NEW k \in Keys, NEW content \in Contents, BeginStage(c, u, k, content)
      PROVE  IntakeInv'
  <2> DEFINE new == NewCall("stage", u, "storing")
             call == [new EXCEPT !.key = k, !.content = content]
  <2>1. new \in Call
    BY NewCallTyped DEF Kinds, Stages
  <2>2. new.kind = "stage" /\ new.at = "storing" /\ new.target = None
    BY DEF NewCall
  <2>. HIDE DEF new
  <2>3. /\ call \in Call /\ call.kind = "stage" /\ call.at = "storing"
        /\ call.target = None /\ call.key = k /\ call.content = content
    BY <2>1, <2>2 DEF Call
  <2>4. Begin(c, call) /\ UNCHANGED <<intakeMembers, intakeTables, intakeLocks>>
    BY <1>5 DEF BeginStage, new
  <2>. HIDE DEF call
  <2>5. Shaped(call)
    BY <2>3 DEF Shaped
  <2>. QED BY <2>3, <2>4, <2>5, BeginStep
<1>6. ASSUME NEW p \in DOMAIN previews, SubmitProviderPreview(c, u, p)
      PROVE  IntakeInv'
  <2> DEFINE new == NewCall("submit", u, "project")
             call == [new EXCEPT !.identity = previews[p].submission, !.selection = {1}, !.preview = p]
  <2>1. new \in Call
    BY NewCallTyped DEF Kinds, Stages
  <2>2. new.kind = "submit" /\ new.at = "project" /\ new.target = None
    BY DEF NewCall
  <2>3. previews[p] \in Preview /\ p \in Nat /\ {1} \in SUBSET {1, 2}
    BY DEF IntakeInv, TablesTyped
  <2>4. previews[p].submission \in Submission
    BY <2>3 DEF Preview
  <2>. HIDE DEF new
  <2>5. /\ call \in Call /\ call.kind = "submit" /\ call.at = "project" /\ call.target = None
        /\ call.identity \in Submission /\ call.selection = {1}
    BY <2>1, <2>2, <2>3, <2>4 DEF Call
  <2>6. Begin(c, call) /\ UNCHANGED <<intakeMembers, intakeTables, intakeLocks>>
    BY <1>6 DEF SubmitProviderPreview, new
  <2>. HIDE DEF call
  <2>7. Shaped(call)
    BY <2>5 DEF Shaped
  <2>. QED BY <2>5, <2>6, <2>7, BeginStep
<1>7. ASSUME NEW file \in Files, NEW selection \in SUBSET {1, 2}, Confirm(c, u, file, selection)
      PROVE  IntakeInv'
  <2> DEFINE new == NewCall("confirm", u, "project")
             call == [new EXCEPT !.identity = file, !.selection = selection]
  <2>1. new \in Call
    BY NewCallTyped DEF Kinds, Stages
  <2>2. new.kind = "confirm" /\ new.at = "project" /\ new.target = None
    BY DEF NewCall
  <2>. HIDE DEF new
  <2>3. /\ call \in Call /\ call.kind = "confirm" /\ call.at = "project" /\ call.target = None
        /\ call.identity = file
    BY <2>1, <2>2 DEF Call
  <2>4. Begin(c, call) /\ UNCHANGED <<intakeMembers, intakeTables, intakeLocks>>
    BY <1>7 DEF Confirm, new
  <2>. HIDE DEF call
  <2>5. Shaped(call)
    BY <2>3 DEF Shaped
  <2>. QED BY <2>3, <2>4, <2>5, BeginStep
<1>. QED BY <1>2, <1>3, <1>4, <1>5, <1>6, <1>7 DEF Request

\* A call that waits has written nothing, and it holds what its stage says.
LEMMA LockedStep ==
  ASSUME IntakeInv, NEW c \in Calls, calls[c] # None, calls[c].at = "conversation",
         calls[c].kind # "archive" =>
           FindMessageByClientId(calls[c].target, calls[c].key) = {} \/ calls[c].kind = "submit",
         rowLock[calls[c].target] = None, Active(calls[c].target),
         LockConversation(c, calls[c].target), GoTo(c, "commit"),
         UNCHANGED <<intakeMembers, intakeTables, projectLock>>
  PROVE  IntakeInv'
<1> DEFINE call == [calls[c] EXCEPT !.at = "commit"]
<1>1. /\ call \in Call /\ calls' = [calls EXCEPT ![c] = call] /\ calls'[c] = call /\ calls'[c] # None
      /\ \A f \in {"kind", "by", "target", "key", "content", "identity", "selection", "preview"} :
           calls'[c][f] = calls[c][f]
      /\ calls'[c].at = "commit"
  BY GoToIs DEF Stages
<1>2. /\ calls'[c].kind = calls[c].kind /\ calls'[c].target = calls[c].target
      /\ calls'[c].key = calls[c].key /\ calls'[c].content = calls[c].content
      /\ calls'[c].identity = calls[c].identity /\ calls'[c].selection = calls[c].selection
      /\ calls'[c].by = calls[c].by
  BY <1>1
<1>. HIDE DEF call
<1>3. UNCHANGED <<role, archived, conversations, messages, attachments, uploads, previews, imports,
                  objects, projectLock>>
  BY DEF intakeMembers, intakeTables
<1>4. /\ Shaped(calls[c]) /\ Holds(c) /\ Knows(c) /\ HasStored(c)
      /\ rowLock \in [DOMAIN conversations -> Calls \cup {None}]
      /\ calls[c].target \in DOMAIN conversations /\ calls[c].target # None
      /\ calls[c].kind \in {"say", "archive", "upload", "submit"}
  BY DEF IntakeInv, CallOK, TablesTyped, Shaped, Active
<1>5. /\ rowLock' \in [DOMAIN conversations -> Calls \cup {None}]
      /\ rowLock' = [rowLock EXCEPT ![calls[c].target] = c]
      /\ \A x \in DOMAIN conversations : rowLock[x] # c
  BY <1>4 DEF LockConversation, Holds, At
<1>6. Shaped(calls[c])'
  BY <1>1, <1>2, <1>3, <1>4 DEF Shaped
<1>7. Holds(c)'
  BY <1>1, <1>2, <1>3, <1>4, <1>5 DEF Holds, At
<1>8. Knows(c)'
  <2>1. (At(c, "commit") /\ calls[c].target # None => Active(calls[c].target))'
    BY <1>1, <1>2, <1>3 DEF Active
  <2>2. (At(c, "commit") /\ calls[c].kind \in {"say", "upload"} =>
           FindMessageByClientId(calls[c].target, calls[c].key) = {})'
    BY <1>1, <1>2, <1>3 DEF FindMessageByClientId
  <2>3. (projectLock = c /\ calls[c].kind = "upload" =>
           Authorized(calls[c].by, "conversation:write") /\ RequireActiveProject)'
    BY <1>2, <1>3, <1>4 DEF Knows, Authorized, RequireActiveProject
  <2>4. (projectLock = c /\ IsImport(c) =>
           /\ FindCompletedByIdentity(calls[c].identity) = {}
           /\ Previous(calls[c]) # 0 =>
                /\ Previous(calls[c]) \in DOMAIN imports
                /\ imports[Previous(calls[c])].by = calls[c].by
                /\ imports[Previous(calls[c])].conversations = {calls[c].target}
                /\ FindContinuation(Previous(calls[c])) = {})'
    BY <1>2, <1>3, <1>4 DEF Knows, IsImport, FindCompletedByIdentity, FindContinuation, Previous
  <2>. QED BY <2>1, <2>2, <2>3, <2>4 DEF Knows
<1>9. HasStored(c)'
  BY <1>1, <1>2, <1>3, <1>4 DEF HasStored
<1>10. CallOK(c)'
  BY <1>6, <1>7, <1>8, <1>9 DEF CallOK
<1>11. /\ objects \subseteq objects' /\ objects' \subseteq Calls /\ call.kind = calls[c].kind
       /\ projectLock' \in {projectLock, c}
       /\ \A x \in DOMAIN conversations : rowLock'[x] # c /\ rowLock[x] # c => rowLock'[x] = rowLock[x]
       /\ \A x \in DOMAIN conversations : rowLock'[x] = c => rowLock[x] \in {None, c}
  BY <1>1, <1>3, <1>4, <1>5 DEF IntakeInv, TablesTyped
<1>12. projectLock' = c /\ projectLock # c => projectLock = None
  BY <1>3
<1>. QED BY <1>1, <1>3, <1>5, <1>10, <1>11, <1>12, CallStep

\* The conversation row is locked by whoever waited for it, or found archived or answered.
LEMMA LockTargetStep ==
  ASSUME IntakeInv, NEW c \in Calls, LockTarget(c) \/ LockToArchive(c)
  PROVE  IntakeInv'
<1>1. calls[c] # None /\ calls[c].at = "conversation" /\ rowLock[calls[c].target] = None
  BY DEF LockTarget, LockToArchive, At
<1>2. CASE Fail(c) \/ Answer(c)
  BY <1>1, <1>2, EndStep
<1>3. CASE LockTarget(c) /\ ~Fail(c) /\ ~Answer(c)
  <2>1. /\ Active(calls[c].target) /\ calls[c].kind \in {"say", "upload", "submit"}
        /\ calls[c].kind = "submit" \/ FindMessageByClientId(calls[c].target, calls[c].key) = {}
        /\ LockConversation(c, calls[c].target) /\ GoTo(c, "commit")
        /\ UNCHANGED <<intakeMembers, intakeTables, projectLock>>
    BY <1>3 DEF LockTarget
  <2>. QED BY <1>1, <2>1, LockedStep
<1>4. CASE LockToArchive(c) /\ ~Fail(c) /\ ~Answer(c)
  <2>1. /\ Active(calls[c].target) /\ calls[c].kind = "archive"
        /\ LockConversation(c, calls[c].target) /\ GoTo(c, "commit")
        /\ UNCHANGED <<intakeMembers, intakeTables, projectLock>>
    BY <1>4 DEF LockToArchive
  <2>. QED BY <1>1, <2>1, LockedStep
<1>. QED BY <1>2, <1>3, <1>4

\* The file is stored before the call asks for the project row, or the call fails.
LEMMA StoreBytesStep ==
  ASSUME IntakeInv, NEW c \in Calls, StoreBytes(c) \/ StoreBytesFails(c)
  PROVE  IntakeInv'
<1>1. calls[c] # None /\ calls[c].at = "storing"
  BY DEF StoreBytes, StoreBytesFails, At
<1>2. CASE StoreBytesFails(c)
  BY <1>1, <1>2, EndStep DEF StoreBytesFails
<1>3. CASE StoreBytes(c)
  <2> DEFINE call == [calls[c] EXCEPT !.at = "project"]
  <2>1. GoTo(c, "project")
    BY <1>3 DEF StoreBytes
  <2>2. /\ call \in Call /\ calls' = [calls EXCEPT ![c] = call] /\ calls'[c] = call /\ calls'[c] # None
        /\ \A f \in {"kind", "by", "target", "key", "content", "identity", "selection", "preview"} :
             calls'[c][f] = calls[c][f]
        /\ calls'[c].at = "project"
    BY <1>1, <2>1, GoToIs DEF Stages
  <2>3. /\ calls'[c].kind = calls[c].kind /\ calls'[c].target = calls[c].target
        /\ calls'[c].key = calls[c].key /\ calls'[c].content = calls[c].content
        /\ calls'[c].identity = calls[c].identity /\ calls'[c].selection = calls[c].selection
        /\ calls'[c].by = calls[c].by
    BY <2>2
  <2>. HIDE DEF call
  <2>4. /\ UNCHANGED <<role, archived, conversations, messages, attachments, uploads, previews, imports,
                       projectLock, rowLock>>
        /\ objects' = objects \cup {c}
    BY <1>3 DEF StoreBytes, intakeMembers, intakeLocks
  <2>5. /\ Shaped(calls[c]) /\ Holds(c) /\ Knows(c)
        /\ rowLock \in [DOMAIN conversations -> Calls \cup {None}]
        /\ calls[c].kind \in {"upload", "stage"}
    BY <1>1 DEF IntakeInv, CallOK, TablesTyped, Shaped
  <2>6. Shaped(calls[c])'
    BY <2>2, <2>3, <2>4, <2>5 DEF Shaped
  <2>7. projectLock # c /\ \A x \in DOMAIN conversations : rowLock[x] # c
    BY <1>1, <2>5 DEF Holds, At
  <2>8. CallOK(c)'
    BY <2>2, <2>3, <2>4, <2>5, <2>6, <2>7 DEF CallOK, Holds, Knows, HasStored, At
  <2>9. /\ objects \subseteq objects' /\ objects' \subseteq Calls /\ call.kind = calls[c].kind
        /\ projectLock' \in {projectLock, c} /\ projectLock' # c
        /\ rowLock' \in [DOMAIN conversations -> Calls \cup {None}]
        /\ \A x \in DOMAIN conversations : rowLock'[x] = rowLock[x]
    BY <2>2, <2>3, <2>4, <2>5, <2>7 DEF IntakeInv, TablesTyped
  <2>. QED BY <1>1, <2>2, <2>4, <2>7, <2>8, <2>9, CallStep
<1>. QED BY <1>2, <1>3

\* An upload asks again for its authority once it has the project row.
LEMMA LockProjectToUploadStep ==
  ASSUME IntakeInv, NEW c \in Calls, LockProjectToUpload(c)
  PROVE  IntakeInv'
<1>1. calls[c] # None /\ calls[c].at = "project" /\ calls[c].kind = "upload" /\ projectLock = None
  BY DEF LockProjectToUpload, At
<1>2. CASE Fail(c)
  BY <1>1, <1>2, EndStep
<1>3. CASE ~Fail(c)
  <2> DEFINE call == [calls[c] EXCEPT !.at = "conversation"]
  <2>1. GoTo(c, "conversation") /\ AuthorizedStill(calls[c]) /\ LockProject(c)
        /\ UNCHANGED <<intakeMembers, intakeTables, rowLock>>
    BY <1>3 DEF LockProjectToUpload
  <2>2. /\ call \in Call /\ calls' = [calls EXCEPT ![c] = call] /\ calls'[c] = call /\ calls'[c] # None
        /\ \A f \in {"kind", "by", "target", "key", "content", "identity", "selection", "preview"} :
             calls'[c][f] = calls[c][f]
        /\ calls'[c].at = "conversation"
    BY <1>1, <2>1, GoToIs DEF Stages
  <2>3. /\ calls'[c].kind = calls[c].kind /\ calls'[c].target = calls[c].target
        /\ calls'[c].key = calls[c].key /\ calls'[c].content = calls[c].content
        /\ calls'[c].identity = calls[c].identity /\ calls'[c].selection = calls[c].selection
        /\ calls'[c].by = calls[c].by
    BY <2>2
  <2>. HIDE DEF call
  <2>4. /\ UNCHANGED <<role, archived, conversations, messages, attachments, uploads, previews, imports,
                       objects, rowLock>>
        /\ projectLock' = c
    BY <2>1 DEF LockProject, intakeMembers, intakeTables
  <2>5. /\ Shaped(calls[c]) /\ Holds(c) /\ HasStored(c)
        /\ rowLock \in [DOMAIN conversations -> Calls \cup {None}]
    BY <1>1 DEF IntakeInv, CallOK, TablesTyped
  <2>6. Shaped(calls[c])'
    BY <1>1, <2>2, <2>3, <2>4, <2>5 DEF Shaped
  <2>7. \A x \in DOMAIN conversations : rowLock[x] # c
    BY <1>1, <2>5 DEF Holds, At
  <2>8. Holds(c)' /\ HasStored(c)'
    BY <1>1, <2>2, <2>3, <2>4, <2>5, <2>7 DEF Holds, HasStored, At, OnProject
  <2>9. Knows(c)'
    <3>1. (Authorized(calls[c].by, "conversation:write") /\ RequireActiveProject)'
      BY <2>1, <2>3, <2>4 DEF AuthorizedStill, AuthorizeUpload, Authorized, RequireActiveProject
    <3>. QED BY <1>1, <2>2, <2>3, <3>1 DEF Knows, At, IsImport
  <2>10. CallOK(c)'
    BY <2>2, <2>6, <2>8, <2>9 DEF CallOK
  <2>11. /\ objects \subseteq objects' /\ objects' \subseteq Calls /\ call.kind = calls[c].kind
         /\ projectLock' \in {projectLock, c}
         /\ rowLock' \in [DOMAIN conversations -> Calls \cup {None}]
         /\ \A x \in DOMAIN conversations : rowLock'[x] = rowLock[x]
    BY <2>2, <2>3, <2>4, <2>5 DEF IntakeInv, TablesTyped
  <2>. QED BY <1>1, <2>2, <2>4, <2>7, <2>10, <2>11, CallStep
<1>. QED BY <1>2, <1>3

\* An import reads what it repeats and continues once it has the project row.
LEMMA LockProjectToImportStep ==
  ASSUME IntakeInv, NEW c \in Calls, LockProjectToImport(c)
  PROVE  IntakeInv'
<1>1. calls[c] # None /\ calls[c].at = "project" /\ IsImport(c) /\ projectLock = None
  BY DEF LockProjectToImport, At
<1>2. CASE Fail(c) \/ Answer(c)
  BY <1>1, <1>2, EndStep
<1>3. CASE ~Fail(c) /\ ~Answer(c)
  <2>0. PICK p : p = Previous(calls[c])
    OBVIOUS
  <2> DEFINE stage == IF p = 0 THEN "commit" ELSE "conversation"
             target == IF p = 0 THEN calls[c].target ELSE Continued(p)
             call == [calls[c] EXCEPT !.at = stage, !.target = target]
  <2>1. /\ FindCompletedByIdentity(calls[c].identity) = {}
        /\ calls[c].kind = "submit" => ResolveContinuation(calls[c].by, calls[c].identity, {})
        /\ LockProject(c) /\ UNCHANGED <<intakeMembers, intakeTables, rowLock>>
        /\ calls' = IF p = 0 THEN [calls EXCEPT ![c].at = "commit"]
                    ELSE [calls EXCEPT ![c].at = "conversation", ![c].target = Continued(p)]
    BY <1>3, <2>0 DEF LockProjectToImport
  <2>2. /\ calls \in [Calls -> Call \cup {None}] /\ calls[c] \in Call
        /\ rowLock \in [DOMAIN conversations -> Calls \cup {None}]
        /\ DOMAIN conversations \subseteq ConversationIds
        /\ Shaped(calls[c]) /\ Holds(c) /\ HasStored(c) /\ ImportsInOrder
    BY <1>1 DEF IntakeInv, CallOK, TablesTyped
  <2>3. calls[c].target = None /\ calls[c].kind \in {"submit", "confirm"}
    BY <1>1, <2>2 DEF Shaped, IsImport
  <2>4. ASSUME p # 0
        PROVE  /\ calls[c].kind = "submit" /\ p = calls[c].identity.previous /\ p \in DOMAIN imports
               /\ imports[p].by = calls[c].by /\ imports[p].conversations = {Continued(p)}
               /\ FindContinuation(p) = {} /\ Active(Continued(p))
    <3>1. calls[c].kind = "submit" /\ p = calls[c].identity.previous
      BY <2>0, <2>4 DEF Previous
    <3>2. /\ p \in DOMAIN imports /\ imports[p].by = calls[c].by /\ imports[p].identity \notin Files
          /\ Active(Continued(p)) /\ FindContinuation(p) = {}
      BY <2>1, <2>4, <3>1 DEF ResolveContinuation
    <3>3. \E x \in imports[p].conversations : imports[p].conversations = {x}
      BY <2>2, <3>2 DEF ImportsInOrder
    <3>4. imports[p].conversations = {Continued(p)}
      BY <3>3 DEF Continued
    <3>. QED BY <3>1, <3>2, <3>4
  <2>5. target \in ConversationIds \cup {None} /\ stage \in Stages
    BY <2>2, <2>3, <2>4 DEF Active, Stages
  <2>6. call \in Call /\ calls' = [calls EXCEPT ![c] = call]
    <3>1. call \in Call
      <4>. HIDE DEF stage, target
      <4>. QED BY <2>2, <2>5 DEF Call
    <3>2. CASE p = 0
      <4>1. calls' = [calls EXCEPT ![c] = [calls[c] EXCEPT !.at = "commit"]]
        BY <2>1, <3>2
      <4>2. [calls[c] EXCEPT !.at = "commit"] = call
        BY <2>2, <3>2 DEF Call
      <4>. QED BY <3>1, <4>1, <4>2
    <3>3. CASE p # 0
      <4>1. calls' = [calls EXCEPT ![c].at = "conversation", ![c].target = Continued(p)]
        BY <2>1, <3>3
      <4>2. [calls EXCEPT ![c].at = "conversation", ![c].target = Continued(p)]
              = [calls EXCEPT ![c] = [calls[c] EXCEPT !.at = "conversation", !.target = Continued(p)]]
        BY <2>2
      <4>. QED BY <3>1, <3>3, <4>1, <4>2
    <3>. QED BY <3>1, <3>2, <3>3
  <2>7. /\ calls'[c] = call /\ calls'[c] # None /\ calls'[c].at = stage /\ calls'[c].target = target
        /\ calls'[c].kind = calls[c].kind
        /\ calls'[c].key = calls[c].key /\ calls'[c].content = calls[c].content
        /\ calls'[c].identity = calls[c].identity /\ calls'[c].selection = calls[c].selection
        /\ calls'[c].by = calls[c].by
    <3>. HIDE DEF stage, target
    <3>. QED BY <2>2, <2>6, IntakeAssumption DEF Call
  <2>8. UNCHANGED <<role, archived, conversations, messages, attachments, uploads, previews, imports,
                    objects, rowLock>> /\ projectLock' = c
    BY <2>1 DEF LockProject, intakeMembers, intakeTables
  <2>9. /\ stage \in {"commit", "conversation"} /\ (stage = "commit" <=> p = 0)
        /\ p = 0 => target = None
        /\ p # 0 => target = Continued(p) /\ target \in DOMAIN conversations /\ target # None
    BY <2>2, <2>3, <2>4, IntakeAssumption DEF Active
  <2>10. calls[c].kind = "submit" => p = calls[c].identity.previous
    BY <2>0 DEF Previous
  <2>. HIDE DEF call, stage, target
  <2>11. Shaped(calls[c])'
    <3>1. CASE calls[c].kind = "submit"
      BY <2>2, <2>7, <2>8, <2>9, <2>10, <3>1 DEF Shaped
    <3>2. CASE calls[c].kind = "confirm"
      <4>1. p = 0
        BY <2>0, <3>2 DEF Previous
      <4>. QED BY <2>2, <2>7, <2>8, <2>9, <3>2, <4>1 DEF Shaped
    <3>. QED BY <2>3, <3>1, <3>2
  <2>12. \A x \in DOMAIN conversations : rowLock[x] # c
    BY <1>1, <2>2 DEF Holds, At
  <2>13. Holds(c)' /\ HasStored(c)'
    <3>1. None \notin DOMAIN conversations
      BY <2>2, IntakeAssumption
    <3>. QED BY <2>2, <2>3, <2>7, <2>8, <2>9, <2>12, <3>1 DEF Holds, HasStored, At, OnProject
  <2>14. Knows(c)'
    <3>1. Previous(calls'[c]) = p
      BY <2>0, <2>7 DEF Previous
    <3>2. (At(c, "commit") /\ calls[c].target # None => Active(calls[c].target))'
      BY <2>7, <2>9 DEF At
    <3>3. (FindCompletedByIdentity(calls[c].identity) = {})'
      BY <2>1, <2>7, <2>8 DEF FindCompletedByIdentity
    <3>4. p # 0 => (/\ p \in DOMAIN imports' /\ imports'[p].by = calls'[c].by
                    /\ imports'[p].conversations = {calls'[c].target}
                    /\ FindContinuation(p)' = {})
      BY <2>4, <2>7, <2>8, <2>9 DEF FindContinuation
    <3>. QED BY <2>3, <2>7, <3>1, <3>2, <3>3, <3>4 DEF Knows, FindContinuation
  <2>15. CallOK(c)'
    BY <2>11, <2>13, <2>14 DEF CallOK
  <2>16. /\ objects \subseteq objects' /\ objects' \subseteq Calls /\ call.kind = calls[c].kind
         /\ projectLock' \in {projectLock, c}
         /\ rowLock' \in [DOMAIN conversations -> Calls \cup {None}]
         /\ \A x \in DOMAIN conversations : rowLock'[x] = rowLock[x]
    BY <2>2, <2>7, <2>8 DEF IntakeInv, TablesTyped
  <2>. QED BY <1>1, <2>6, <2>8, <2>12, <2>15, <2>16, CallStep
<1>. QED BY <1>2, <1>3

-----------------------------------------------------------------------------
(* Commits *)

\* A step that commits what a call has to write.
LEMMA CommittedStep ==
  ASSUME IntakeInv, NEW c \in Calls, calls[c] # None, GoTo(c, "done"),
         UNCHANGED <<role, archived, objects>>,
         projectLock' = IF projectLock = c THEN None ELSE projectLock,
         DOMAIN conversations \subseteq DOMAIN conversations',
         \A x \in DOMAIN conversations' :
           rowLock'[x] = IF x \in DOMAIN conversations /\ rowLock[x] # c THEN rowLock[x] ELSE None,
         \A x \in DOMAIN conversations :
           rowLock[x] \notin {None, c} => messages'[x] = messages[x] /\ conversations'[x] = conversations[x],
         UNCHANGED imports \/ projectLock = c,
         TablesTyped', MessagesOnce', UploadsWhole', AttachmentsWhole', ImportsInOrder'
  PROVE  IntakeInv'
<1>1. /\ calls[c] \in Call /\ calls'[c] # None /\ calls'[c].at = "done"
      /\ \A f \in {"kind", "by", "target", "key", "content", "identity", "selection", "preview"} :
           calls'[c][f] = calls[c][f]
      /\ \A d \in Calls \ {c} : calls'[d] = calls[d]
  BY GoToIs DEF Stages
<1>2. /\ DOMAIN rowLock' = DOMAIN conversations' /\ None \notin DOMAIN conversations'
      /\ None \notin Calls
  BY IntakeAssumption DEF TablesTyped
<1>3. CallOK(c)'
  <2>1. Shaped(calls[c])'
    BY <1>1, ShapedStill DEF IntakeInv, CallOK
  <2>2. projectLock' # c /\ \A x \in DOMAIN rowLock' : rowLock'[x] # c
    BY <1>2
  <2>. QED BY <1>1, <2>1, <2>2, EndedHolds
<1>4. ASSUME NEW d \in Calls \ {c} PROVE CallOK(d)'
  <2>1. calls'[d] = calls[d] /\ (projectLock' = d <=> projectLock = d)
    BY <1>1, <1>2
  <2>2. projectLock = d => UNCHANGED <<role, archived, imports>>
    OBVIOUS
  <2>3. \A x \in DOMAIN rowLock' : rowLock'[x] = d <=> x \in DOMAIN conversations /\ rowLock[x] = d
    BY <1>2
  <2>4. \A x \in DOMAIN conversations :
          rowLock[x] = d => messages'[x] = messages[x] /\ conversations'[x] = conversations[x]
    BY <1>2
  <2>. QED BY <1>2, <2>1, <2>2, <2>3, <2>4, CallKept
<1>. QED BY <1>3, <1>4 DEF IntakeInv

\* A call that is done is a call.
LEMMA DoneTyped ==
  ASSUME IntakeInv, NEW c \in Calls, calls[c] # None, GoTo(c, "done")
  PROVE  calls' \in [Calls -> Call \cup {None}]
<1>1. calls \in [Calls -> Call \cup {None}]
  BY DEF IntakeInv, TablesTyped
<1>2. PICK call \in Call : calls' = [calls EXCEPT ![c] = call]
  BY GoToIs DEF Stages
<1>. QED BY <1>1, <1>2

\* A message whose key is new keeps the keys of its conversation distinct.
LEMMA OnceGrows ==
  ASSUME NEW s \in Seq(Message), NEW m \in Message,
         \A i, j \in DOMAIN s : s[i].key # None /\ s[i].key = s[j].key => i = j,
         m.key # None => \A i \in DOMAIN s : s[i].key # m.key
  PROVE  \A i, j \in DOMAIN Append(s, m) :
           Append(s, m)[i].key # None /\ Append(s, m)[i].key = Append(s, m)[j].key => i = j
<1> DEFINE t == Append(s, m)
<1>1. \A i \in DOMAIN t : (i \in DOMAIN s /\ t[i] = s[i]) \/ (i = Len(s) + 1 /\ t[i] = m)
  OBVIOUS
<1>. HIDE DEF t
<1>2. \A i, j \in DOMAIN t : t[i].key # None /\ t[i].key = t[j].key => i = j
  BY <1>1
<1>. QED BY <1>2 DEF t

\* Attachments stay whole while messages are only appended.
LEMMA AttachmentsStay ==
  ASSUME IntakeInv, UNCHANGED objects, uploads \subseteq uploads',
         \A x \in DOMAIN messages : x \in DOMAIN messages' /\ messages[x] \in Seq(Message)
           /\ (messages'[x] = messages[x] \/ \E m \in Message : messages'[x] = Append(messages[x], m)),
         NEW c \in Calls, GoTo(c, "done"), calls[c] # None, NEW a \in attachments
  PROVE  /\ a.conversation \in DOMAIN messages' /\ a.sequence \in DOMAIN messages'[a.conversation]
         /\ a.id \in objects'
         /\ Staged(a.id)' \/ At(a.id, "done")'
         /\ messages'[a.conversation][a.sequence].key = None =>
              \E s \in uploads' : s.id = a.id /\ s.by = a.by
<1>1. /\ a.conversation \in DOMAIN messages /\ a.sequence \in DOMAIN messages[a.conversation]
      /\ a.id \in objects
      /\ Staged(a.id) \/ At(a.id, "done")
      /\ messages[a.conversation][a.sequence].key = None =>
           \E s \in uploads : s.id = a.id /\ s.by = a.by
      /\ a.id \in Calls
  BY DEF IntakeInv, AttachmentsWhole, TablesTyped, Attachment
<1>2. /\ a.conversation \in DOMAIN messages' /\ a.sequence \in DOMAIN messages'[a.conversation]
      /\ messages'[a.conversation][a.sequence] = messages[a.conversation][a.sequence]
  <2>1. a.conversation \in DOMAIN messages' /\ messages[a.conversation] \in Seq(Message)
    BY <1>1
  <2>2. CASE messages'[a.conversation] = messages[a.conversation]
    BY <1>1, <2>1, <2>2
  <2>3. ASSUME NEW m \in Message, messages'[a.conversation] = Append(messages[a.conversation], m)
        PROVE  /\ a.sequence \in DOMAIN messages'[a.conversation]
               /\ messages'[a.conversation][a.sequence] = messages[a.conversation][a.sequence]
    BY <1>1, <2>1, <2>3
  <2>. QED BY <1>1, <2>1, <2>2, <2>3
<1>3. At(a.id, "done") => At(a.id, "done")'
  BY <1>1, GoToIs DEF At, Stages
<1>4. Staged(a.id) => Staged(a.id)'
  BY DEF Staged
<1>. QED BY <1>1, <1>2, <1>3, <1>4

\* An upload that was staged is stored, and is of a call that staged.
LEMMA UploadsStay ==
  ASSUME IntakeInv, UNCHANGED objects, NEW c \in Calls, GoTo(c, "done"), calls[c] # None,
         NEW s \in uploads
  PROVE  s.id \in objects' /\ calls'[s.id] # None /\ calls'[s.id].kind = "stage"
<1>1. s.id \in objects /\ calls[s.id] # None /\ calls[s.id].kind = "stage" /\ s.id \in Calls
  BY DEF IntakeInv, UploadsWhole, TablesTyped, Upload
<1>. QED BY <1>1, GoToIs DEF Stages

\* What a call has when it commits.
LEMMA AtCommit ==
  ASSUME IntakeInv, NEW c \in Calls, At(c, "commit")
  PROVE  /\ calls[c] # None /\ calls[c].at = "commit" /\ calls[c] \in Call
         /\ Shaped(calls[c]) /\ Holds(c) /\ Knows(c) /\ HasStored(c)
         /\ calls[c].target # None =>
              calls[c].target \in DOMAIN conversations /\ rowLock[calls[c].target] = c
BY DEF At, IntakeInv, CallOK, TablesTyped, Shaped, Holds

\* A message is inserted whose key its conversation has not.
LEMMA Inserted ==
  ASSUME IntakeInv, NEW t \in DOMAIN conversations, NEW m \in Message,
         m.key # None => FindMessageByClientId(t, m.key) = {}, InsertMessage(t, m)
  PROVE  /\ messages' \in [DOMAIN conversations -> Seq(Message)]
         /\ messages[t] \in Seq(Message) /\ messages'[t] = Append(messages[t], m)
         /\ \A x \in DOMAIN conversations \ {t} : messages'[x] = messages[x]
         /\ MessagesOnce'
         /\ \A x \in DOMAIN messages : x \in DOMAIN messages' /\ messages[x] \in Seq(Message)
               /\ (messages'[x] = messages[x] \/ \E mm \in Message : messages'[x] = Append(messages[x], mm))
<1>1. messages \in [DOMAIN conversations -> Seq(Message)] /\ MessagesOnce
  BY DEF IntakeInv, TablesTyped
<1>2. /\ messages' \in [DOMAIN conversations -> Seq(Message)]
      /\ messages[t] \in Seq(Message) /\ messages'[t] = Append(messages[t], m)
      /\ \A x \in DOMAIN conversations \ {t} : messages'[x] = messages[x]
  BY <1>1 DEF InsertMessage
<1>3. MessagesOnce'
  <2>1. ASSUME NEW x \in DOMAIN messages', NEW i \in DOMAIN messages'[x], NEW j \in DOMAIN messages'[x],
               messages'[x][i].key # None, messages'[x][i].key = messages'[x][j].key
        PROVE  i = j
    <3>1. CASE x # t
      BY <1>1, <1>2, <2>1, <3>1 DEF MessagesOnce
    <3>2. CASE x = t
      <4>1. /\ messages[t] \in Seq(Message)
            /\ \A p, q \in DOMAIN messages[t] :
                 messages[t][p].key # None /\ messages[t][p].key = messages[t][q].key => p = q
        BY <1>1 DEF MessagesOnce
      <4>2. m.key # None => \A p \in DOMAIN messages[t] : messages[t][p].key # m.key
        BY DEF FindMessageByClientId
      <4>3. \A p, q \in DOMAIN Append(messages[t], m) :
              Append(messages[t], m)[p].key # None
                /\ Append(messages[t], m)[p].key = Append(messages[t], m)[q].key => p = q
        BY <4>1, <4>2, OnceGrows
      <4>. QED BY <1>2, <2>1, <3>2, <4>3
    <3>. QED BY <3>1, <3>2
  <2>. QED BY <2>1 DEF MessagesOnce
<1>. QED BY <1>1, <1>2, <1>3

\* The message a member says.
LEMMA CommitMessageStep ==
  ASSUME IntakeInv, NEW c \in Calls, CommitMessage(c)
  PROVE  IntakeInv'
<1> DEFINE t == calls[c].target
           m == [key |-> calls[c].key, by |-> calls[c].by, content |-> calls[c].content]
<1>1. At(c, "commit") /\ calls[c].kind = "say" /\ GoTo(c, "done") /\ Rollback(c)
      /\ messages' = [messages EXCEPT ![t] = Append(@, m)]
      /\ UNCHANGED <<role, archived, conversations, attachments, objects, uploads, previews, imports>>
  BY DEF CommitMessage, InsertMessage, intakeMembers
<1>2. /\ calls[c] # None /\ calls[c] \in Call /\ t \in DOMAIN conversations /\ rowLock[t] = c
      /\ calls[c].key \in Keys /\ calls[c].content \in Contents
      /\ FindMessageByClientId(t, calls[c].key) = {}
  BY <1>1, AtCommit DEF Shaped, Knows
<1>3. m \in Message /\ m.key \in Keys /\ m.key # None
  BY <1>2, IntakeAssumption DEF Message, Call
<1>. HIDE DEF m
<1>5. /\ messages' \in [DOMAIN conversations -> Seq(Message)] /\ messages'[t] = Append(messages[t], m)
      /\ \A x \in DOMAIN conversations \ {t} : messages'[x] = messages[x]
      /\ MessagesOnce'
      /\ \A x \in DOMAIN messages : x \in DOMAIN messages' /\ messages[x] \in Seq(Message)
           /\ (messages'[x] = messages[x] \/ \E mm \in Message : messages'[x] = Append(messages[x], mm))
  <2>1. m.key # None => FindMessageByClientId(t, m.key) = {}
    BY <1>2 DEF m
  <2>. QED BY <1>1, <1>2, <1>3, <2>1, Inserted DEF InsertMessage
<1>6. /\ projectLock' = IF projectLock = c THEN None ELSE projectLock
      /\ rowLock' \in [DOMAIN conversations -> Calls \cup {None}]
      /\ \A x \in DOMAIN conversations : rowLock'[x] = IF rowLock[x] = c THEN None ELSE rowLock[x]
  BY <1>1, RollbackIs
<1>7. TablesTyped'
  <2>1. calls' \in [Calls -> Call \cup {None}]
    BY <1>1, <1>2, DoneTyped
  <2>2. projectLock' \in Calls \cup {None}
    BY <1>6 DEF IntakeInv, TablesTyped
  <2>3. UNCHANGED <<conversations, attachments, objects, uploads, previews, imports>>
    BY <1>1
  <2>4. messages' \in [DOMAIN conversations' -> Seq(Message)]
    BY <1>5, <2>3
  <2>5. rowLock' \in [DOMAIN conversations' -> Calls \cup {None}]
    BY <1>6, <2>3
  <2>6. TablesTyped
    BY DEF IntakeInv
  <2>. QED BY <2>1, <2>2, <2>3, <2>4, <2>5, <2>6 DEF TablesTyped
<1>9. AttachmentsWhole' /\ UploadsWhole' /\ ImportsInOrder'
  <2>2. uploads \subseteq uploads'
    BY <1>1
  <2>3. \A a \in attachments : \A b \in attachments : b.id = a.id => b = a
    BY DEF IntakeInv, AttachmentsWhole
  <2>4. AttachmentsWhole'
    BY <1>1, <1>2, <1>5, <2>2, <2>3, AttachmentsStay DEF AttachmentsWhole
  <2>5. UploadsWhole'
    BY <1>1, <1>2, UploadsStay DEF UploadsWhole
  <2>. QED BY <1>1, <2>4, <2>5 DEF IntakeInv, ImportsInOrder
<1>10. /\ DOMAIN conversations \subseteq DOMAIN conversations'
       /\ \A x \in DOMAIN conversations' :
            rowLock'[x] = IF x \in DOMAIN conversations /\ rowLock[x] # c THEN rowLock[x] ELSE None
       /\ \A x \in DOMAIN conversations :
            rowLock[x] \notin {None, c} => messages'[x] = messages[x] /\ conversations'[x] = conversations[x]
  BY <1>1, <1>2, <1>5, <1>6
<1>. QED BY <1>1, <1>2, <1>5, <1>6, <1>7, <1>9, <1>10, CommittedStep

\* Archiving writes no message.
LEMMA CommitArchiveStep ==
  ASSUME IntakeInv, NEW c \in Calls, CommitArchive(c)
  PROVE  IntakeInv'
<1> DEFINE t == calls[c].target
<1>1. At(c, "commit") /\ calls[c].kind = "archive" /\ GoTo(c, "done") /\ Rollback(c)
      /\ conversations' = [conversations EXCEPT ![t] = "archived"]
      /\ UNCHANGED <<role, archived, messages, attachments, objects, uploads, previews, imports>>
  BY DEF CommitArchive, intakeMembers
<1>2. calls[c] # None /\ t \in DOMAIN conversations /\ rowLock[t] = c
  BY <1>1, AtCommit DEF Shaped
<1>3. /\ conversations' \in [DOMAIN conversations -> {"active", "archived"}]
      /\ \A x \in DOMAIN conversations \ {t} : conversations'[x] = conversations[x]
      /\ messages \in [DOMAIN conversations -> Seq(Message)]
  BY <1>1, <1>2 DEF IntakeInv, TablesTyped
<1>4. /\ projectLock' = IF projectLock = c THEN None ELSE projectLock
      /\ rowLock' \in [DOMAIN conversations -> Calls \cup {None}]
      /\ \A x \in DOMAIN conversations : rowLock'[x] = IF rowLock[x] = c THEN None ELSE rowLock[x]
  BY <1>1, RollbackIs
<1>5. TablesTyped'
  <2>1. calls' \in [Calls -> Call \cup {None}]
    BY <1>1, <1>2, DoneTyped
  <2>2. projectLock' \in Calls \cup {None}
    BY <1>4 DEF IntakeInv, TablesTyped
  <2>. QED BY <1>1, <1>3, <1>4, <2>1, <2>2 DEF IntakeInv, TablesTyped
<1>6. MessagesOnce' /\ ImportsInOrder'
  BY <1>1 DEF IntakeInv, MessagesOnce, ImportsInOrder
<1>7. AttachmentsWhole' /\ UploadsWhole'
  <2>1. \A x \in DOMAIN messages : x \in DOMAIN messages' /\ messages[x] \in Seq(Message)
          /\ (messages'[x] = messages[x] \/ \E mm \in Message : messages'[x] = Append(messages[x], mm))
    BY <1>1, <1>3
  <2>2. uploads \subseteq uploads'
    BY <1>1
  <2>3. \A a \in attachments : \A b \in attachments : b.id = a.id => b = a
    BY DEF IntakeInv, AttachmentsWhole
  <2>4. AttachmentsWhole'
    BY <1>1, <1>2, <2>1, <2>2, <2>3, AttachmentsStay DEF AttachmentsWhole
  <2>. QED BY <1>1, <1>2, <2>4, UploadsStay DEF UploadsWhole
<1>8. /\ DOMAIN conversations \subseteq DOMAIN conversations'
      /\ \A x \in DOMAIN conversations' :
           rowLock'[x] = IF x \in DOMAIN conversations /\ rowLock[x] # c THEN rowLock[x] ELSE None
      /\ \A x \in DOMAIN conversations :
           rowLock[x] \notin {None, c} => messages'[x] = messages[x] /\ conversations'[x] = conversations[x]
  BY <1>1, <1>2, <1>3, <1>4
<1>. QED BY <1>1, <1>2, <1>4, <1>5, <1>6, <1>7, <1>8, CommittedStep

\* An upload inserts its message and the attachment that refers to it.
LEMMA CommitUploadStep ==
  ASSUME IntakeInv, NEW c \in Calls, CommitUpload(c)
  PROVE  IntakeInv'
<1> DEFINE t == calls[c].target
           m == [key |-> calls[c].key, by |-> calls[c].by, content |-> calls[c].content]
           new == [id |-> c, by |-> calls[c].by, conversation |-> t, sequence |-> Len(messages[t]) + 1]
<1>1. /\ At(c, "commit") /\ calls[c].kind = "upload" /\ GoTo(c, "done") /\ Rollback(c)
      /\ InsertMessage(t, m) /\ attachments' = attachments \cup {new}
      /\ UNCHANGED <<role, archived, conversations, objects, uploads, previews, imports>>
  BY DEF CommitUpload, Object, NextMessageSequence, intakeMembers
<1>2. /\ calls[c] # None /\ calls[c] \in Call /\ t \in DOMAIN conversations /\ rowLock[t] = c
      /\ calls[c].at = "commit" /\ calls[c].key \in Keys /\ calls[c].content \in Contents
      /\ FindMessageByClientId(t, calls[c].key) = {} /\ c \in objects
  BY <1>1, AtCommit DEF Shaped, Knows, HasStored
<1>3. m \in Message /\ m.key \in Keys /\ m.key # None
  BY <1>2, IntakeAssumption DEF Message, Call
<1>4. /\ messages' \in [DOMAIN conversations -> Seq(Message)]
      /\ messages[t] \in Seq(Message) /\ messages'[t] = Append(messages[t], m)
      /\ \A x \in DOMAIN conversations \ {t} : messages'[x] = messages[x]
      /\ MessagesOnce'
      /\ \A x \in DOMAIN messages : x \in DOMAIN messages' /\ messages[x] \in Seq(Message)
           /\ (messages'[x] = messages[x] \/ \E mm \in Message : messages'[x] = Append(messages[x], mm))
  <2>. HIDE DEF t
  <2>1. m.key # None => FindMessageByClientId(t, m.key) = {}
    BY <1>2
  <2>. HIDE DEF m
  <2>. QED BY <1>1, <1>2, <1>3, <2>1, Inserted
<1>. HIDE DEF m
<1>5. /\ new \in Attachment /\ new.id = c /\ new.conversation = t /\ new.sequence = Len(messages[t]) + 1
  <2>1. Len(messages[t]) + 1 \in Nat \ {0}
    BY <1>4
  <2>2. t \in ConversationIds /\ calls[c].by \in Users
    BY <1>2 DEF IntakeInv, TablesTyped, Call
  <2>. QED BY <2>1, <2>2 DEF Attachment
<1>. HIDE DEF new
<1>6. /\ projectLock' = IF projectLock = c THEN None ELSE projectLock
      /\ rowLock' \in [DOMAIN conversations -> Calls \cup {None}]
      /\ \A x \in DOMAIN conversations : rowLock'[x] = IF rowLock[x] = c THEN None ELSE rowLock[x]
  BY <1>1, RollbackIs
<1>7. TablesTyped'
  <2>1. calls' \in [Calls -> Call \cup {None}]
    BY <1>1, <1>2, DoneTyped
  <2>2. projectLock' \in Calls \cup {None}
    BY <1>6 DEF IntakeInv, TablesTyped
  <2>3. UNCHANGED <<conversations, objects, uploads, previews, imports>>
    BY <1>1
  <2>4. messages' \in [DOMAIN conversations' -> Seq(Message)]
    BY <1>4, <2>3
  <2>5. rowLock' \in [DOMAIN conversations' -> Calls \cup {None}]
    BY <1>6, <2>3
  <2>6. attachments' \subseteq Attachment
    BY <1>1, <1>5 DEF IntakeInv, TablesTyped
  <2>7. TablesTyped
    BY DEF IntakeInv
  <2>. QED BY <2>1, <2>2, <2>3, <2>4, <2>5, <2>6, <2>7 DEF TablesTyped
<1>8. uploads \subseteq uploads' /\ UNCHANGED objects
  BY <1>1
<1>9. \A a \in attachments : a.id # c
  <2>1. ASSUME NEW a \in attachments PROVE Staged(a.id) \/ At(a.id, "done")
    BY DEF IntakeInv, AttachmentsWhole
  <2>2. ~Staged(c)
    BY <1>1 DEF IntakeInv, UploadsWhole, Staged
  <2>3. ~At(c, "done")
    BY <1>2 DEF At
  <2>. QED BY <2>1, <2>2, <2>3
<1>10. AttachmentsWhole'
  <2>1. ASSUME NEW a \in attachments
        PROVE  /\ a.conversation \in DOMAIN messages' /\ a.sequence \in DOMAIN messages'[a.conversation]
               /\ a.id \in objects'
               /\ Staged(a.id)' \/ At(a.id, "done")'
               /\ messages'[a.conversation][a.sequence].key = None =>
                    \E s \in uploads' : s.id = a.id /\ s.by = a.by
    BY <1>1, <1>2, <1>4, <1>8, AttachmentsStay
  <2>2. /\ new.conversation \in DOMAIN messages' /\ new.sequence \in DOMAIN messages'[new.conversation]
        /\ new.id \in objects' /\ new.id = c /\ At(c, "done")'
        /\ messages'[new.conversation][new.sequence].key # None
    <3>1. Len(messages[t]) + 1 \in DOMAIN Append(messages[t], m)
          /\ Append(messages[t], m)[Len(messages[t]) + 1] = m
      BY <1>3, <1>4
    <3>2. At(c, "done")'
      BY <1>1, <1>2, GoToIs DEF At, Stages
    <3>3. new.conversation \in DOMAIN messages' /\ new.id \in objects'
      BY <1>1, <1>2, <1>4, <1>5
    <3>4. messages'[new.conversation] = Append(messages[t], m)
      BY <1>4, <1>5
    <3>. QED BY <1>3, <1>5, <3>1, <3>2, <3>3, <3>4
  <2>3. \A a, b \in attachments' : b.id = a.id => b = a
    BY <1>1, <1>5, <1>9 DEF IntakeInv, AttachmentsWhole
  <2>4. attachments' = attachments \cup {new}
    BY <1>1
  <2>5. ASSUME NEW a \in attachments'
        PROVE  /\ a.conversation \in DOMAIN messages' /\ a.sequence \in DOMAIN messages'[a.conversation]
               /\ a.id \in objects'
               /\ Staged(a.id)' \/ At(a.id, "done")'
               /\ messages'[a.conversation][a.sequence].key = None =>
                    \E s \in uploads' : s.id = a.id /\ s.by = a.by
    <3>1. CASE a \in attachments
      BY <2>1, <3>1
    <3>2. CASE a = new
      BY <2>2, <3>2 DEF At
    <3>. QED BY <2>4, <3>1, <3>2
  <2>. QED BY <2>3, <2>5 DEF AttachmentsWhole
<1>11. UploadsWhole' /\ ImportsInOrder'
  <2>1. UploadsWhole'
    BY <1>1, <1>2, UploadsStay DEF UploadsWhole
  <2>2. UNCHANGED imports
    BY <1>1
  <2>. QED BY <2>1, <2>2 DEF IntakeInv, ImportsInOrder
<1>12. /\ DOMAIN conversations \subseteq DOMAIN conversations'
       /\ \A x \in DOMAIN conversations' :
            rowLock'[x] = IF x \in DOMAIN conversations /\ rowLock[x] # c THEN rowLock[x] ELSE None
       /\ \A x \in DOMAIN conversations :
            rowLock[x] \notin {None, c} => messages'[x] = messages[x] /\ conversations'[x] = conversations[x]
  <2>1. UNCHANGED conversations
    BY <1>1
  <2>2. \A x \in DOMAIN conversations : rowLock[x] \notin {None, c} => messages'[x] = messages[x]
    BY <1>2, <1>4
  <2>. QED BY <1>6, <2>1, <2>2
<1>. QED BY <1>1, <1>2, <1>4, <1>6, <1>7, <1>10, <1>11, <1>12, CommittedStep

\* A file staged for an import is stored, and referred to by nothing yet.
LEMMA CommitStageStep ==
  ASSUME IntakeInv, NEW c \in Calls, CommitStage(c)
  PROVE  IntakeInv'
<1>1. calls[c] # None /\ calls[c].at = "project" /\ calls[c].kind = "stage" /\ projectLock = None
  BY DEF CommitStage, At
<1>2. CASE Fail(c) \/ Answer(c)
  BY <1>1, <1>2, EndStep
<1>3. CASE ~Fail(c) /\ ~Answer(c)
  <2> DEFINE new == [id |-> c, by |-> calls[c].by, key |-> calls[c].key,
                     content |-> calls[c].content, fresh |-> TRUE]
  <2>1. /\ uploads' = uploads \cup {new} /\ GoTo(c, "done")
        /\ UNCHANGED <<role, archived, projectLock, rowLock, conversations, messages, attachments,
                       objects, previews, imports>>
    BY <1>3 DEF CommitStage, intakeMembers, intakeLocks
  <2>2. /\ calls[c] \in Call /\ Shaped(calls[c]) /\ Holds(c) /\ HasStored(c)
        /\ rowLock \in [DOMAIN conversations -> Calls \cup {None}]
        /\ messages \in [DOMAIN conversations -> Seq(Message)]
    BY <1>1 DEF IntakeInv, CallOK, TablesTyped
  <2>3. c \in objects /\ calls[c].key \in Keys /\ calls[c].content \in Contents /\ calls[c].by \in Users
        /\ \A x \in DOMAIN conversations : rowLock[x] # c
    BY <1>1, <2>2 DEF Shaped, HasStored, Holds, At, Call
  <2>4. new \in Upload /\ new.id = c
    BY <2>3 DEF Upload
  <2>. HIDE DEF new
  <2>5. TablesTyped'
    <3>1. calls' \in [Calls -> Call \cup {None}]
      BY <1>1, <2>1, DoneTyped
    <3>2. uploads' \subseteq Upload
      BY <2>1, <2>4 DEF IntakeInv, TablesTyped
    <3>3. UNCHANGED <<projectLock, rowLock, conversations, messages, attachments, objects, previews, imports>>
      BY <2>1
    <3>4. TablesTyped
      BY DEF IntakeInv
    <3>. QED BY <3>1, <3>2, <3>3, <3>4 DEF TablesTyped
  <2>6. UploadsWhole'
    <3>1. calls'[c] # None /\ calls'[c].kind = "stage"
      BY <1>1, <2>1, GoToIs DEF Stages
    <3>2. ASSUME NEW s \in uploads PROVE s.id \in objects' /\ calls'[s.id] # None /\ calls'[s.id].kind = "stage"
      BY <1>1, <2>1, UploadsStay
    <3>. QED BY <2>1, <2>3, <2>4, <3>1, <3>2 DEF UploadsWhole
  <2>7. AttachmentsWhole'
    <3>1. \A x \in DOMAIN messages : x \in DOMAIN messages' /\ messages[x] \in Seq(Message)
            /\ (messages'[x] = messages[x] \/ \E m \in Message : messages'[x] = Append(messages[x], m))
      BY <2>1, <2>2
    <3>2. uploads \subseteq uploads' /\ UNCHANGED <<objects, attachments>>
      BY <2>1
    <3>3. \A a \in attachments : \A b \in attachments : b.id = a.id => b = a
      BY DEF IntakeInv, AttachmentsWhole
    <3>. QED BY <1>1, <2>1, <3>1, <3>2, <3>3, AttachmentsStay DEF AttachmentsWhole
  <2>8. MessagesOnce' /\ ImportsInOrder'
    BY <2>1 DEF IntakeInv, MessagesOnce, ImportsInOrder
  <2>9. /\ projectLock' = IF projectLock = c THEN None ELSE projectLock
        /\ DOMAIN conversations \subseteq DOMAIN conversations'
        /\ \A x \in DOMAIN conversations' :
             rowLock'[x] = IF x \in DOMAIN conversations /\ rowLock[x] # c THEN rowLock[x] ELSE None
        /\ \A x \in DOMAIN conversations :
             rowLock[x] \notin {None, c} => messages'[x] = messages[x] /\ conversations'[x] = conversations[x]
    BY <1>1, <2>1, <2>3
  <2>. QED BY <1>1, <2>1, <2>5, <2>6, <2>7, <2>8, <2>9, CommittedStep
<1>. QED BY <1>2, <1>3

-----------------------------------------------------------------------------
(* Imports *)

\* Where an import writes: to the conversation it continues and holds, or to new ones.
LEMMA DestinationsAre ==
  ASSUME IntakeInv, NEW c \in Calls, At(c, "commit"), IsImport(c)
  PROVE  /\ projectLock = c
         /\ Destinations(calls[c]) \subseteq ConversationIds
         /\ \A x \in Destinations(calls[c]) :
              /\ x[1] <= Len(imports) + 1
              /\ x \in DOMAIN conversations => rowLock[x] = c
         /\ calls[c].target # None => Destinations(calls[c]) = {calls[c].target}
         /\ calls[c].kind = "submit" => \E x \in Destinations(calls[c]) : Destinations(calls[c]) = {x}
<1>1. /\ calls[c] # None /\ calls[c].at = "commit" /\ calls[c] \in Call
      /\ Shaped(calls[c]) /\ Holds(c) /\ Knows(c)
      /\ calls[c].target # None =>
           calls[c].target \in DOMAIN conversations /\ rowLock[calls[c].target] = c
  BY AtCommit
<1>2. /\ DOMAIN conversations \subseteq ConversationIds /\ Len(imports) \in Nat
      /\ \A x \in DOMAIN conversations : x[1] <= Len(imports)
  BY DEF IntakeInv, TablesTyped
<1>3. projectLock = c
  BY <1>1 DEF Holds, At, IsImport, OnProject
<1>4. CASE calls[c].target # None
  <2>1. Destinations(calls[c]) = {calls[c].target}
    BY <1>4 DEF Destinations
  <2>2. calls[c].target \in DOMAIN conversations /\ rowLock[calls[c].target] = c
    BY <1>1, <1>4
  <2>3. calls[c].target[1] <= Len(imports) + 1
    <3>1. calls[c].target[1] <= Len(imports)
      BY <1>2, <2>2
    <3>2. calls[c].target \in {Home} \cup (Nat \X {1, 2})
      BY <1>2, <2>2 DEF ConversationIds
    <3>3. calls[c].target[1] \in Nat
      BY <3>2 DEF Home
    <3>. QED BY <1>2, <3>1, <3>3
  <2>. QED BY <1>2, <1>3, <2>1, <2>2, <2>3
<1>5. CASE calls[c].target = None
  <2>1. Destinations(calls[c]) = {<<Len(imports) + 1, i>> : i \in calls[c].selection}
    BY <1>5 DEF Destinations
  <2>2. calls[c].selection \subseteq {1, 2}
    BY <1>1 DEF Call
  <2>3. Destinations(calls[c]) \subseteq ConversationIds
    BY <1>2, <2>1, <2>2 DEF ConversationIds
  <2>4. \A x \in Destinations(calls[c]) : x[1] = Len(imports) + 1
    BY <2>1
  <2>5. \A x \in Destinations(calls[c]) : x \notin DOMAIN conversations
    BY <1>2, <2>4
  <2>6. calls[c].kind = "submit" => Destinations(calls[c]) = {<<Len(imports) + 1, 1>>}
    BY <1>1, <2>1 DEF Shaped
  <2>7. calls[c].kind = "submit" => \E x \in Destinations(calls[c]) : Destinations(calls[c]) = {x}
    BY <2>6
  <2>8. \A x \in Destinations(calls[c]) : x[1] <= Len(imports) + 1
    BY <1>2, <2>4
  <2>. QED BY <1>3, <1>5, <2>3, <2>5, <2>7, <2>8
<1>. QED BY <1>4, <1>5

\* What an import asks for.
LEMMA ImportIs ==
  ASSUME IntakeInv, NEW c \in Calls, At(c, "commit"), IsImport(c)
  PROVE  /\ Imported(calls[c]) \in Message /\ Imported(calls[c]).key = None
         /\ calls[c].identity \in Files \cup Submission /\ calls[c].by \in Users
         /\ calls[c].identity \notin Files => calls[c].kind = "submit"
         /\ Binds(calls[c]) \subseteq Calls /\ (Binds(calls[c]) # {} => calls[c].kind = "submit")
         /\ Previous(calls[c]) \in Nat
         /\ FindCompletedByIdentity(calls[c].identity) = {}
         /\ Previous(calls[c]) # 0 =>
              /\ Previous(calls[c]) \in DOMAIN imports
              /\ imports[Previous(calls[c])].by = calls[c].by
              /\ imports[Previous(calls[c])].conversations = Destinations(calls[c])
              /\ FindContinuation(Previous(calls[c])) = {}
<1>1. /\ calls[c] # None /\ calls[c].at = "commit" /\ calls[c] \in Call
      /\ Shaped(calls[c]) /\ Holds(c) /\ Knows(c) /\ projectLock = c
      /\ calls[c].kind \in {"submit", "confirm"}
  BY AtCommit, DestinationsAre DEF IsImport
<1>2. /\ calls[c].kind = "submit" => calls[c].identity \in Submission
      /\ calls[c].kind = "confirm" => calls[c].identity \in Files
  BY <1>1 DEF Shaped
<1>3. /\ calls[c].kind = "submit" =>
           /\ calls[c].identity.content \in Contents /\ calls[c].identity.attachments \subseteq Calls
           /\ calls[c].identity.previous \in Nat
  BY <1>2 DEF Submission
<1>4. Imported(calls[c]) \in Message /\ Imported(calls[c]).key = None
  BY <1>1, <1>2, <1>3 DEF Imported, Message
<1>5. /\ Binds(calls[c]) \subseteq Calls /\ (Binds(calls[c]) # {} => calls[c].kind = "submit")
      /\ Previous(calls[c]) \in Nat
  BY <1>1, <1>3 DEF Binds, Previous
<1>6. Previous(calls[c]) # 0 => calls[c].target # None
  BY <1>1 DEF Previous, Shaped
<1>7. Previous(calls[c]) # 0 => Destinations(calls[c]) = {calls[c].target}
  BY <1>6, DestinationsAre
<1>8. calls[c].by \in Users
  BY <1>1 DEF Call
<1>. QED BY <1>1, <1>2, <1>4, <1>5, <1>7, <1>8 DEF Knows

\* The imports after one more.
LEMMA OneMoreImport ==
  ASSUME IntakeInv, NEW one \in Import, imports' = Append(imports, one),
         one.identity \notin Files => \E x \in one.conversations : one.conversations = {x},
         FindCompletedByIdentity(one.identity) = {},
         one.previous # 0 =>
           /\ one.previous \in DOMAIN imports
           /\ imports[one.previous].by = one.by
           /\ imports[one.previous].conversations = one.conversations
           /\ FindContinuation(one.previous) = {}
  PROVE  ImportsInOrder'
<1>1. imports \in Seq(Import) /\ Len(imports) \in Nat /\ DOMAIN imports = 1..Len(imports)
  BY DEF IntakeInv, TablesTyped
<1> DEFINE last == Len(imports) + 1
<1>2. /\ DOMAIN imports' = DOMAIN imports \cup {last} /\ last \notin DOMAIN imports
      /\ imports'[last] = one
      /\ \A n \in DOMAIN imports : imports'[n] = imports[n] /\ n < last
  BY <1>1
<1>3. ImportsInOrder
  BY DEF IntakeInv
<1>4. /\ \A n \in DOMAIN imports : imports[n].identity # one.identity
      /\ one.previous # 0 => \A n \in DOMAIN imports : imports[n].previous # one.previous
  BY DEF FindCompletedByIdentity, FindContinuation
<1>5. one.previous < last
  <2>1. one.previous = 0 \/ one.previous \in DOMAIN imports
    OBVIOUS
  <2>. QED BY <1>1, <2>1
<1>. HIDE DEF last
<1>6. \A n \in DOMAIN imports' :
        /\ imports'[n].identity \notin Files =>
             \E x \in imports'[n].conversations : imports'[n].conversations = {x}
        /\ imports'[n].previous < n
  BY <1>2, <1>3, <1>5 DEF ImportsInOrder
<1>7. \A n, m \in DOMAIN imports' : imports'[n].identity = imports'[m].identity => n = m
  BY <1>2, <1>3, <1>4 DEF ImportsInOrder
<1>8. \A n, m \in DOMAIN imports' :
        imports'[n].previous = imports'[m].previous /\ imports'[n].previous # 0 => n = m
  BY <1>2, <1>3, <1>4 DEF ImportsInOrder
<1>9. ASSUME NEW n \in DOMAIN imports', NEW m \in DOMAIN imports', imports'[n].previous = m
       PROVE  imports'[n].by = imports'[m].by /\ imports'[n].conversations = imports'[m].conversations
  <2>1. CASE n \in DOMAIN imports
    <3>1. imports[n].previous = m /\ m < n /\ n < last
      BY <1>2, <1>3, <1>9, <2>1 DEF ImportsInOrder
    <3>2. m \in DOMAIN imports
      BY <1>1, <1>2, <1>9, <3>1
    <3>. QED BY <1>2, <1>3, <2>1, <3>1, <3>2 DEF ImportsInOrder
  <2>2. CASE n = last
    <3>1. one.previous = m /\ m # 0
      BY <1>1, <1>2, <1>9, <2>2
    <3>. QED BY <1>2, <2>2, <3>1
  <2>. QED BY <1>2, <2>1, <2>2
<1>. QED BY <1>6, <1>7, <1>8, <1>9 DEF ImportsInOrder

\* An import inserts its conversations or continues one, and binds what was staged.
LEMMA CommitImportStep ==
  ASSUME IntakeInv, NEW c \in Calls, CommitImport(c)
  PROVE  IntakeInv'
<1>1. calls[c] # None /\ calls[c].at = "commit" /\ At(c, "commit") /\ IsImport(c)
  BY DEF CommitImport, At
<1>2. CASE Fail(c)
  BY <1>1, <1>2, EndStep
<1>3. CASE ~Fail(c)
  \* What is written, in names that no step changes.
  <2>1. PICK into : into = Destinations(calls[c])
    OBVIOUS
  <2>2. PICK all : all = DOMAIN conversations \cup into
    OBVIOUS
  <2>3. PICK before : before = [x \in all |-> IF x \in DOMAIN messages THEN messages[x] ELSE <<>>]
    OBVIOUS
  <2>4. PICK m : m = Imported(calls[c])
    OBVIOUS
  <2>5. PICK user : user = calls[c].by
    OBVIOUS
  <2>6. PICK ids : ids = Binds(calls[c])
    OBVIOUS
  <2>7. PICK one : one = [by |-> user, identity |-> calls[c].identity,
                          previous |-> Previous(calls[c]), conversations |-> into]
    OBVIOUS
  <2>8. /\ StillBindable(calls[c]) /\ GoTo(c, "done") /\ Unlocked(c, all)
        /\ conversations' =
             [x \in all |-> IF x \in DOMAIN conversations THEN conversations[x] ELSE "active"]
        /\ imports' = Append(imports, one)
        /\ UNCHANGED <<role, archived, objects, uploads, previews>>
    BY <1>3, <2>1, <2>2, <2>5, <2>7 DEF CommitImport, intakeMembers
  <2>9. /\ messages' = [x \in all |-> IF x \in into THEN Append(before[x], m) ELSE messages[x]]
        /\ attachments' = attachments \cup
             {[id |-> d, by |-> user, conversation |-> x, sequence |-> Len(before[x]) + 1] :
                d \in ids, x \in into}
    BY <1>3, <2>1, <2>2, <2>3, <2>4, <2>5, <2>6 DEF CommitImport
  <2>10. /\ projectLock = c /\ into \subseteq ConversationIds
         /\ \A x \in into : x[1] <= Len(imports) + 1 /\ (x \in DOMAIN conversations => rowLock[x] = c)
         /\ ids # {} => \E x \in into : into = {x}
         /\ calls[c].identity \notin Files => \E x \in into : into = {x}
         /\ m \in Message /\ m.key = None /\ user \in Users /\ ids \subseteq Calls
    BY <1>1, <2>1, <2>4, <2>5, <2>6, DestinationsAre, ImportIs
  <2>11. one \in Import
    <3>1. calls[c].identity \in Files \cup Submission /\ Previous(calls[c]) \in Nat
      BY <1>1, ImportIs
    <3>. QED BY <2>7, <2>10, <3>1 DEF Import
  <2>12. ImportsInOrder'
    <3>1. /\ FindCompletedByIdentity(calls[c].identity) = {}
          /\ Previous(calls[c]) # 0 =>
               /\ Previous(calls[c]) \in DOMAIN imports
               /\ imports[Previous(calls[c])].by = calls[c].by
               /\ imports[Previous(calls[c])].conversations = Destinations(calls[c])
               /\ FindContinuation(Previous(calls[c])) = {}
      BY <1>1, ImportIs
    <3>2. one.by = user /\ one.identity = calls[c].identity /\ one.previous = Previous(calls[c])
          /\ one.conversations = into
      BY <2>7
    <3>. QED BY <2>1, <2>5, <2>8, <2>10, <2>11, <3>1, <3>2, OneMoreImport
  <2>13. /\ messages \in [DOMAIN conversations -> Seq(Message)]
         /\ rowLock \in [DOMAIN conversations -> Calls \cup {None}]
         /\ imports \in Seq(Import) /\ Len(imports) \in Nat
         /\ TablesTyped /\ MessagesOnce
    BY DEF IntakeInv, TablesTyped
  <2>14. /\ before \in [all -> Seq(Message)]
         /\ \A x \in DOMAIN conversations : before[x] = messages[x]
         /\ \A x \in all : x \notin DOMAIN conversations => x \in into /\ before[x] = <<>>
    BY <2>2, <2>3, <2>13
  <2>15. /\ messages' \in [all -> Seq(Message)]
         /\ \A x \in into : messages'[x] = Append(before[x], m) /\ before[x] \in Seq(Message)
         /\ \A x \in all \ into : messages'[x] = messages[x] /\ x \in DOMAIN conversations
    BY <2>2, <2>9, <2>10, <2>13, <2>14
  <2>16. TablesTyped'
    <3>1. conversations' \in [all -> {"active", "archived"}] /\ DOMAIN conversations' = all
      BY <2>2, <2>8, <2>10, <2>13 DEF TablesTyped
    <3>2. all \subseteq ConversationIds
      BY <2>2, <2>10, <2>13 DEF TablesTyped
    <3>3. all = {Home} \cup UNION {imports'[n].conversations : n \in DOMAIN imports'}
      <4>1. /\ DOMAIN imports' = DOMAIN imports \cup {Len(imports) + 1}
            /\ \A n \in DOMAIN imports : imports'[n] = imports[n]
            /\ imports'[Len(imports) + 1] = one
        BY <2>8, <2>11, <2>13
      <4>2. one.conversations = into
        BY <2>7
      <4>3. DOMAIN conversations = {Home} \cup UNION {imports[n].conversations : n \in DOMAIN imports}
        BY <2>13 DEF TablesTyped
      <4>. QED BY <2>2, <4>1, <4>2, <4>3
    <3>4. \A x \in all : x[1] <= Len(imports')
      <4>1. Len(imports') = Len(imports) + 1
        BY <2>8, <2>11, <2>13
      <4>2. \A x \in DOMAIN conversations : x[1] <= Len(imports)
        BY <2>13 DEF TablesTyped
      <4>3. \A x \in ConversationIds : x[1] \in Nat
        BY DEF ConversationIds, Home
      <4>4. \A x \in DOMAIN conversations : x \in ConversationIds
        BY <2>13 DEF TablesTyped
      <4>5. \A x \in DOMAIN conversations : x[1] <= Len(imports) + 1
        BY <2>13, <4>2, <4>3, <4>4
      <4>. QED BY <2>2, <2>10, <4>1, <4>5
    <3>5. projectLock' \in Calls \cup {None} /\ rowLock' \in [all -> Calls \cup {None}]
      BY <2>8, <2>10, <2>13 DEF Unlocked
    <3>6. attachments' \subseteq Attachment
      <4>1. ASSUME NEW d \in ids, NEW x \in into
            PROVE  [id |-> d, by |-> user, conversation |-> x, sequence |-> Len(before[x]) + 1]
                     \in Attachment
        <5>1. Len(before[x]) + 1 \in Nat \ {0}
          BY <2>15
        <5>. QED BY <2>10, <5>1 DEF Attachment
      <4>2. attachments \subseteq Attachment
        BY <2>13 DEF TablesTyped
      <4>. QED BY <2>9, <4>1, <4>2
    <3>7. calls' \in [Calls -> Call \cup {None}]
      BY <1>1, <2>8, DoneTyped
    <3>8. imports' \in Seq(Import)
      BY <2>8, <2>11, <2>13
    <3>9. UNCHANGED <<objects, uploads, previews>>
      BY <2>8
    <3>10. objects \subseteq Calls /\ uploads \subseteq Upload /\ previews \in Seq(Preview)
      BY <2>13 DEF TablesTyped
    <3>. QED BY <2>15, <3>1, <3>2, <3>3, <3>4, <3>5, <3>6, <3>7, <3>8, <3>9, <3>10 DEF TablesTyped
  <2>17. MessagesOnce'
    <3>1. ASSUME NEW x \in all
          PROVE  \A p, q \in DOMAIN messages'[x] :
                   messages'[x][p].key # None /\ messages'[x][p].key = messages'[x][q].key => p = q
      <4>1. \A p, q \in DOMAIN before[x] :
              before[x][p].key # None /\ before[x][p].key = before[x][q].key => p = q
        BY <2>13, <2>14 DEF MessagesOnce
      <4>2. CASE x \in into
        <5>1. before[x] \in Seq(Message) /\ m \in Message /\ m.key = None
          BY <2>10, <2>15, <4>2
        <5>2. \A p, q \in DOMAIN Append(before[x], m) :
                Append(before[x], m)[p].key # None
                  /\ Append(before[x], m)[p].key = Append(before[x], m)[q].key => p = q
          BY <4>1, <5>1, OnceGrows
        <5>. QED BY <2>15, <4>2, <5>2
      <4>3. CASE x \notin into
        BY <2>13, <2>15, <4>3 DEF MessagesOnce
      <4>. QED BY <4>2, <4>3
    <3>2. DOMAIN messages' = all
      BY <2>15
    <3>. QED BY <3>1, <3>2 DEF MessagesOnce
  <2>18. UploadsWhole'
    <3>1. UNCHANGED <<uploads, objects>>
      BY <2>8
    <3>. QED BY <1>1, <2>8, <3>1, UploadsStay DEF UploadsWhole
  <2>19. \A d \in ids : /\ \E s \in uploads : s.id = d /\ s.by = user
                        /\ \A a \in attachments : a.id # d
                        /\ d \in objects
    <3>1. \A d \in ids : /\ \E s \in uploads : s.id = d /\ s.by = user
                         /\ \A a \in attachments : a.id # d
      <4>1. StillBindable(calls[c])
        BY <2>8
      <4>2. Bindable(user, ids) /\ \A d \in ids : ~Bound(d)
        BY <2>5, <2>6, <4>1 DEF StillBindable
      <4>. QED BY <4>2 DEF Bindable, Bound
    <3>. QED BY <3>1 DEF IntakeInv, UploadsWhole
  <2>20. AttachmentsWhole'
    <3>1. /\ \A x \in DOMAIN messages : x \in DOMAIN messages' /\ messages[x] \in Seq(Message)
               /\ (messages'[x] = messages[x] \/ \E mm \in Message : messages'[x] = Append(messages[x], mm))
          /\ uploads \subseteq uploads' /\ UNCHANGED <<objects, uploads>>
      BY <2>2, <2>8, <2>10, <2>13, <2>14, <2>15
    <3>2. ASSUME NEW a \in attachments'
          PROVE  \/ a \in attachments
                 \/ \E d \in ids, x \in into :
                      a = [id |-> d, by |-> user, conversation |-> x, sequence |-> Len(before[x]) + 1]
      BY <2>9
    <3>3. ASSUME NEW a \in attachments'
          PROVE  /\ a.conversation \in DOMAIN messages' /\ a.sequence \in DOMAIN messages'[a.conversation]
                 /\ a.id \in objects'
                 /\ Staged(a.id)' \/ At(a.id, "done")'
                 /\ messages'[a.conversation][a.sequence].key = None =>
                      \E s \in uploads' : s.id = a.id /\ s.by = a.by
      <4>1. CASE a \in attachments
        BY <1>1, <2>8, <3>1, <4>1, AttachmentsStay
      <4>2. ASSUME NEW d \in ids, NEW x \in into,
                   a = [id |-> d, by |-> user, conversation |-> x, sequence |-> Len(before[x]) + 1]
            PROVE  /\ a.conversation \in DOMAIN messages' /\ a.sequence \in DOMAIN messages'[a.conversation]
                   /\ a.id \in objects' /\ Staged(a.id)'
                   /\ \E s \in uploads' : s.id = a.id /\ s.by = a.by
        <5>1. a.id = d /\ a.by = user /\ a.conversation = x /\ a.sequence = Len(before[x]) + 1
          BY <4>2
        <5>2. Len(before[x]) + 1 \in DOMAIN messages'[x] /\ x \in DOMAIN messages'
          BY <2>2, <2>10, <2>15
        <5>3. uploads' = uploads /\ objects' = objects
          BY <3>1
        <5>4. d \in objects' /\ \E s \in uploads' : s.id = d /\ s.by = user
          BY <2>19, <5>3
        <5>. QED BY <5>1, <5>2, <5>4 DEF Staged
      <4>. QED BY <3>2, <4>1, <4>2
    <3>4. ASSUME NEW a \in attachments', NEW b \in attachments', b.id = a.id PROVE b = a
      <4>1. CASE a \in attachments /\ b \in attachments
        BY <3>4, <4>1 DEF IntakeInv, AttachmentsWhole
      <4>2. CASE a \in attachments /\ b \notin attachments
        BY <2>19, <3>2, <3>4, <4>2
      <4>3. CASE a \notin attachments /\ b \in attachments
        BY <2>19, <3>2, <3>4, <4>3
      <4>4. CASE a \notin attachments /\ b \notin attachments
        <5>1. PICK d \in ids, x \in into :
                a = [id |-> d, by |-> user, conversation |-> x, sequence |-> Len(before[x]) + 1]
          BY <3>2, <4>4
        <5>2. PICK e \in ids, y \in into :
                b = [id |-> e, by |-> user, conversation |-> y, sequence |-> Len(before[y]) + 1]
          BY <3>2, <4>4
        <5>3. x = y
          BY <2>10
        <5>4. d = e
          BY <3>4, <5>1, <5>2
        <5>5. Len(before[x]) = Len(before[y])
          BY <5>3
        <5>. QED BY <5>1, <5>2, <5>3, <5>4, <5>5
      <4>. QED BY <4>1, <4>2, <4>3, <4>4
    <3>. QED BY <3>3, <3>4 DEF AttachmentsWhole
  <2>21. /\ projectLock' = IF projectLock = c THEN None ELSE projectLock
         /\ DOMAIN conversations \subseteq DOMAIN conversations'
         /\ \A x \in DOMAIN conversations' :
              rowLock'[x] = IF x \in DOMAIN conversations /\ rowLock[x] # c THEN rowLock[x] ELSE None
         /\ \A x \in DOMAIN conversations :
              rowLock[x] \notin {None, c} => messages'[x] = messages[x] /\ conversations'[x] = conversations[x]
    <3>1. DOMAIN conversations' = all /\ DOMAIN rowLock = DOMAIN conversations
      BY <2>8, <2>13
    <3>2. \A x \in DOMAIN conversations : x \in into => rowLock[x] = c
      BY <2>10
    <3>. QED BY <2>2, <2>8, <2>15, <3>1, <3>2 DEF Unlocked
  <2>. QED BY <1>1, <2>8, <2>10, <2>12, <2>16, <2>17, <2>18, <2>20, <2>21, CommittedStep
<1>. QED BY <1>2, <1>3

-----------------------------------------------------------------------------
(* Previews, time and members *)

\* A step in which no call takes part.
LEMMA NoCallStep ==
  ASSUME IntakeInv, projectLock = None \/ UNCHANGED intakeMembers,
         UNCHANGED <<calls, projectLock, rowLock, conversations, messages, attachments, objects, imports>>,
         uploads' \subseteq Upload, previews' \in Seq(Preview),
         \A s \in uploads : \E r \in uploads' : r.id = s.id /\ r.by = s.by,
         \A r \in uploads' : \E s \in uploads : r.id = s.id
  PROVE  IntakeInv'
<1>1. /\ DOMAIN rowLock = DOMAIN conversations /\ None \notin DOMAIN conversations
      /\ None \notin Calls
  BY IntakeAssumption DEF IntakeInv, TablesTyped
<1>2. ASSUME NEW d \in Calls PROVE CallOK(d)'
  <2>1. projectLock = d => UNCHANGED <<role, archived, imports>>
    BY <1>1 DEF intakeMembers
  <2>. QED BY <1>1, <2>1, CallKept
<1>3. TablesTyped'
  BY DEF IntakeInv, TablesTyped
<1>4. MessagesOnce' /\ ImportsInOrder'
  BY DEF IntakeInv, MessagesOnce, ImportsInOrder
<1>5. UploadsWhole'
  BY DEF IntakeInv, UploadsWhole
<1>6. AttachmentsWhole'
  <2>1. \A d \in Calls : (Staged(d) => Staged(d)') /\ (At(d, "done") => At(d, "done")')
    BY DEF Staged, At
  <2>2. \A a \in attachments : a.id \in Calls
    BY DEF IntakeInv, TablesTyped, Attachment
  <2>3. \A a \in attachments :
          (\E s \in uploads : s.id = a.id /\ s.by = a.by) => \E s \in uploads' : s.id = a.id /\ s.by = a.by
    OBVIOUS
  <2>4. AttachmentsWhole
    BY DEF IntakeInv
  <2>. QED BY <2>1, <2>2, <2>3, <2>4 DEF AttachmentsWhole
<1>. QED BY <1>2, <1>3, <1>4, <1>5, <1>6 DEF IntakeInv

\* A preview is only inserted.
LEMMA PreviewStep ==
  ASSUME IntakeInv, Previewing
  PROVE  IntakeInv'
<1>1. PICK u \in Users, content \in Contents, n \in 0..MaxImports, ids \in SUBSET Calls :
        PreviewProviderSubmission(u, [content |-> content, previous |-> n, attachments |-> ids])
  BY DEF Previewing
<1> DEFINE new == [by |-> u, submission |-> [content |-> content, previous |-> n, attachments |-> ids],
                   fresh |-> TRUE]
<1>2. new \in Preview
  <2>1. [content |-> content, previous |-> n, attachments |-> ids] \in Submission
    BY IntakeAssumption DEF Submission
  <2>. QED BY <2>1 DEF Preview
<1>3. /\ previews' = Append(previews, new)
      /\ UNCHANGED <<calls, projectLock, rowLock, conversations, messages, attachments, objects, imports,
                     uploads>>
      /\ UNCHANGED intakeMembers
  BY <1>1 DEF PreviewProviderSubmission, intakeLocks
<1>4. uploads' \subseteq Upload /\ previews' \in Seq(Preview)
  <2>. HIDE DEF new
  <2>. QED BY <1>2, <1>3 DEF IntakeInv, TablesTyped
<1>5. uploads' = uploads
  BY <1>3
<1>. HIDE DEF new
<1>. QED BY <1>3, <1>4, <1>5, NoCallStep

\* What expires is still the file or the preview it was.
LEMMA ExpireStep ==
  ASSUME IntakeInv, Expiring
  PROVE  IntakeInv'
<1>1. ASSUME NEW s \in uploads, ExpireUpload(s) PROVE IntakeInv'
  <2>1. PICK old \in Upload : old = [s EXCEPT !.fresh = FALSE] /\ old.id = s.id /\ old.by = s.by
    <3>1. s \in Upload
      BY DEF IntakeInv, TablesTyped
    <3>2. [s EXCEPT !.fresh = FALSE] \in Upload
          /\ [s EXCEPT !.fresh = FALSE].id = s.id /\ [s EXCEPT !.fresh = FALSE].by = s.by
      BY <3>1 DEF Upload
    <3>. QED BY <3>2
  <2>2. /\ uploads' = (uploads \ {s}) \cup {old}
        /\ UNCHANGED <<calls, projectLock, rowLock, conversations, messages, attachments, objects, imports,
                       previews>>
        /\ UNCHANGED intakeMembers
    BY <1>1, <2>1 DEF ExpireUpload, intakeLocks
  <2>3. uploads' \subseteq Upload /\ previews' \in Seq(Preview)
    BY <2>2 DEF IntakeInv, TablesTyped
  <2>4. \A r \in uploads : \E q \in uploads' : q.id = r.id /\ q.by = r.by
    BY <2>1, <2>2
  <2>5. \A r \in uploads' : \E q \in uploads : r.id = q.id
    BY <2>1, <2>2
  <2>. QED BY <2>2, <2>3, <2>4, <2>5, NoCallStep
<1>2. ASSUME NEW p \in DOMAIN previews, ExpirePreview(p) PROVE IntakeInv'
  <2>1. /\ previews' = [previews EXCEPT ![p].fresh = FALSE]
        /\ UNCHANGED <<calls, projectLock, rowLock, conversations, messages, attachments, objects, imports>>
        /\ uploads' = uploads
        /\ UNCHANGED intakeMembers
    BY <1>2 DEF ExpirePreview, intakeLocks
  <2>2. previews \in Seq(Preview) /\ previews[p] \in Preview /\ uploads' \subseteq Upload
    BY <2>1 DEF IntakeInv, TablesTyped
  <2>3. [previews[p] EXCEPT !.fresh = FALSE] \in Preview
    BY <2>2 DEF Preview
  <2>4. previews' \in Seq(Preview)
    BY <2>1, <2>2, <2>3
  <2>. QED BY <2>1, <2>2, <2>4, NoCallStep
<1>. QED BY <1>1, <1>2 DEF Expiring

\* Members change while nobody holds the project row.
LEMMA MembersStep ==
  ASSUME IntakeInv, MembersChange
  PROVE  IntakeInv'
<1>1. /\ projectLock = None
      /\ UNCHANGED <<calls, projectLock, rowLock, conversations, messages, attachments, objects, imports>>
      /\ uploads' = uploads /\ previews' = previews
  BY DEF MembersChange, intakeTables, intakeLocks
<1>2. uploads' \subseteq Upload /\ previews' \in Seq(Preview)
  BY <1>1 DEF IntakeInv, TablesTyped
<1>. QED BY <1>1, <1>2, NoCallStep

\* Whoever is made to fail in a deadlock was waiting.
LEMMA DeadlockStep ==
  ASSUME IntakeInv, NEW c \in Calls, DeadlockDetected(c)
  PROVE  IntakeInv'
<1>1. WaitsFor(c) # {}
  BY DEF DeadlockDetected, Circles
<1>2. calls[c] # None /\ calls[c].at # "done"
  BY <1>1 DEF WaitsFor, At
<1>. QED BY <1>2, EndStep DEF DeadlockDetected

\* A call that goes on.
LEMMA ProceedStep ==
  ASSUME IntakeInv, NEW c \in Calls, Proceed(c)
  PROVE  IntakeInv'
BY LockTargetStep, CommitMessageStep, CommitArchiveStep, StoreBytesStep, LockProjectToUploadStep,
   CommitUploadStep, CommitStageStep, LockProjectToImportStep, CommitImportStep DEF Proceed

\* A step that changes nothing.
LEMMA StutterStep ==
  ASSUME IntakeInv, UNCHANGED intakeVars
  PROVE  IntakeInv'
<1>1. /\ UNCHANGED <<calls, projectLock, rowLock, conversations, messages, attachments, objects, imports>>
      /\ uploads' = uploads /\ previews' = previews /\ UNCHANGED intakeMembers
  BY DEF intakeVars, intakeTables, intakeLocks
<1>2. uploads' \subseteq Upload /\ previews' \in Seq(Preview)
  BY <1>1 DEF IntakeInv, TablesTyped
<1>. QED BY <1>1, <1>2, NoCallStep

-----------------------------------------------------------------------------
(* The invariant *)

\* Nothing was asked for in the beginning.
LEMMA IntakeInvInit == IntakeInit => IntakeInv
<1>. SUFFICES ASSUME IntakeInit PROVE IntakeInv
  OBVIOUS
<1>1. /\ conversations = [x \in {Home} |-> "active"] /\ messages = [x \in {Home} |-> <<>>]
      /\ rowLock = [x \in {Home} |-> None] /\ calls = [c \in Calls |-> None]
      /\ attachments = {} /\ objects = {} /\ uploads = {} /\ previews = <<>> /\ imports = <<>>
      /\ projectLock = None /\ None \notin Calls
  BY IntakeAssumption DEF IntakeInit
<1>2. TablesTyped
  <2>1. Home \in ConversationIds /\ Home[1] = 0
    BY DEF Home, ConversationIds
  <2>2. Len(imports) = 0 /\ DOMAIN imports = {}
    BY <1>1
  <2>3. previews \in Seq(Preview) /\ imports \in Seq(Import)
        /\ messages \in [DOMAIN conversations -> Seq(Message)]
    BY <1>1
  <2>. QED BY <1>1, <2>1, <2>2, <2>3 DEF TablesTyped
<1>3. MessagesOnce /\ UploadsWhole /\ AttachmentsWhole /\ ImportsInOrder
  BY <1>1 DEF MessagesOnce, UploadsWhole, AttachmentsWhole, ImportsInOrder
<1>4. ASSUME NEW c \in Calls PROVE CallOK(c)
  BY <1>1 DEF CallOK, Holds, Knows, HasStored, At, IsImport
<1>. QED BY <1>2, <1>3, <1>4 DEF IntakeInv

\* Every step keeps the invariant.
THEOREM IntakeInvariant == IntakeSpec => []IntakeInv
<1>1. IntakeInv /\ [IntakeNext]_intakeVars => IntakeInv'
  BY RequestStep, ProceedStep, DeadlockStep, PreviewStep, ExpireStep, MembersStep, StutterStep
     DEF IntakeNext, BreakDeadlock
<1>. QED BY <1>1, IntakeInvInit, PTL DEF IntakeSpec

\* An import repeats no earlier one, and continues none that another continues
\* (ConversationImportService.persist).
THEOREM ImportsOnceInLine == IntakeSpec => []ImportsNeverRepeatOrFork
<1>1. IntakeInv => ImportsNeverRepeatOrFork
  <2>. SUFFICES ASSUME IntakeInv, NEW n \in DOMAIN imports, NEW m \in DOMAIN imports
                PROVE  /\ imports[n].identity = imports[m].identity => n = m
                       /\ imports[n].previous = imports[m].previous /\ imports[n].previous # 0
                            => n = m
                       /\ imports[n].previous = m =>
                            /\ m < n /\ imports[n].by = imports[m].by
                            /\ imports[n].conversations = imports[m].conversations
    BY DEF ImportsNeverRepeatOrFork
  <2>. QED BY DEF IntakeInv, ImportsInOrder
<1>. QED BY <1>1, IntakeInvariant, PTL

\* The evidence of every conversation is whole, whatever fails, is retried or meets
\* (ConversationService, AttachmentService, ConversationImportService).
THEOREM EvidenceStaysWhole == IntakeSpec => []EvidenceIsWhole
<1>1. IntakeInv => IntakeTypeOK
  <2>. SUFFICES ASSUME IntakeInv PROVE IntakeTypeOK
    OBVIOUS
  <2>1. TablesTyped
    BY DEF IntakeInv
  <2>2. ASSUME NEW c \in Holders \ {None}
        PROVE  At(c, "commit") \/ (At(c, "conversation") /\ \A x \in DOMAIN rowLock : rowLock[x] # c)
    <3>1. c \in Calls
      BY <2>1 DEF Holders, TablesTyped
    <3>2. Holds(c)
      BY <3>1 DEF IntakeInv, CallOK
    <3>. QED BY <2>2, <3>2 DEF Holders, Holds, At
  <2>3. /\ DOMAIN messages = DOMAIN conversations /\ DOMAIN rowLock = DOMAIN conversations
        /\ \A x \in DOMAIN conversations :
             /\ conversations[x] \in {"active", "archived"}
             /\ \A i \in DOMAIN messages[x] : messages[x][i] \in Message
        /\ \A p \in DOMAIN previews : previews[p] \in Preview
        /\ \A n \in DOMAIN imports : imports[n] \in Import
        /\ \A c \in Calls : calls[c] \in Call \cup {None}
    BY <2>1 DEF TablesTyped
  <2>. QED BY <2>1, <2>2, <2>3 DEF IntakeTypeOK, TablesTyped
<1>2. IntakeInv =>
        \A x \in DOMAIN messages : \A k \in Keys : Cardinality(FindMessageByClientId(x, k)) <= 1
  <2>. SUFFICES ASSUME IntakeInv, NEW x \in DOMAIN messages, NEW k \in Keys
                PROVE  Cardinality(FindMessageByClientId(x, k)) <= 1
    OBVIOUS
  <2>1. \A i, j \in FindMessageByClientId(x, k) : i = j
    BY IntakeAssumption DEF IntakeInv, MessagesOnce, FindMessageByClientId
  <2>2. CASE FindMessageByClientId(x, k) = {}
    BY <2>2, FS_EmptySet
  <2>3. CASE \E i : FindMessageByClientId(x, k) = {i}
    BY <2>3, FS_Singleton
  <2>. QED BY <2>1, <2>2, <2>3
<1>3. IntakeInv => EvidenceIsWhole
  BY <1>1, <1>2 DEF EvidenceIsWhole, IntakeInv, AttachmentsWhole, UploadsWhole
<1>. QED BY <1>3, IntakeInvariant, PTL

\* What becomes evidence does so in a conversation that is active; and by upload, only with
\* authority (AttachmentService asks again once it has locked the project).
THEOREM BindingIsAuthorized == IntakeSpec => BoundUnderAuthority
<1> DEFINE Authority ==
      \A a \in attachments' \ attachments :
        /\ a.conversation \in DOMAIN conversations => Active(a.conversation)
        /\ ~Staged(a.id) => Authorized(a.by, "conversation:write") /\ RequireActiveProject
<1>1. IntakeInv /\ [IntakeNext]_intakeVars => [Authority]_intakeVars
  <2>. SUFFICES ASSUME IntakeInv, IntakeNext PROVE Authority
    BY DEF Authority
  <2>1. ASSUME NEW c \in Calls, CommitUpload(c) PROVE Authority
    <3>1. /\ calls[c].target # None /\ calls[c].kind = "upload" /\ Knows(c) /\ projectLock = c
          /\ At(c, "commit")
      BY <2>1, AtCommit DEF CommitUpload, Shaped, Holds, OnProject, At
    <3>2. Active(calls[c].target) /\ Authorized(calls[c].by, "conversation:write") /\ RequireActiveProject
      BY <3>1 DEF Knows
    <3>3. \A a \in attachments' \ attachments :
            a.conversation = calls[c].target /\ a.by = calls[c].by
      BY <2>1 DEF CommitUpload
    <3>. QED BY <3>2, <3>3
  <2>2. ASSUME NEW c \in Calls, CommitImport(c) PROVE Authority
    <3>1. CASE Fail(c)
      BY <3>1 DEF Fail, intakeTables
    <3>2. CASE ~Fail(c)
      <4>1. At(c, "commit") /\ IsImport(c) /\ StillBindable(calls[c])
        BY <2>2, <3>2 DEF CommitImport
      <4>2. \A a \in attachments' \ attachments :
              a.conversation \in Destinations(calls[c]) /\ a.id \in Binds(calls[c])
        BY <2>2, <3>2 DEF CommitImport
      <4>3. \A d \in Binds(calls[c]) : Staged(d)
        BY <4>1 DEF StillBindable, Bindable, Staged
      <4>4. \A x \in Destinations(calls[c]) : x \in DOMAIN conversations => Active(x)
        <5>1. ASSUME NEW x \in Destinations(calls[c]), x \in DOMAIN conversations PROVE Active(x)
          <6>1. rowLock[x] = c /\ DOMAIN rowLock = DOMAIN conversations
            BY <4>1, <5>1, DestinationsAre DEF IntakeInv, TablesTyped
          <6>2. Holds(c) /\ Knows(c) /\ x # None
            BY <4>1, <5>1, AtCommit, IntakeAssumption DEF IntakeInv, TablesTyped
          <6>3. calls[c].target = x
            BY <5>1, <6>1, <6>2 DEF Holds
          <6>. QED BY <4>1, <6>2, <6>3 DEF Knows
        <5>. QED BY <5>1
      <4>. QED BY <4>2, <4>3, <4>4
    <3>. QED BY <3>1, <3>2
  <2>3. ASSUME UNCHANGED attachments PROVE Authority
    BY <2>3
  <2>4. \/ UNCHANGED attachments
        \/ \E c \in Calls : CommitUpload(c) \/ CommitImport(c)
    <3>1. ASSUME NEW c \in Calls, NEW u \in Users, Request(c, u) PROVE UNCHANGED attachments
      BY <3>1 DEF Request, AppendUserMessage, BeginUpload, ArchiveConversation, BeginStage,
                  SubmitProviderPreview, Confirm, intakeTables
    <3>2. ASSUME NEW c \in Calls, Fail(c) \/ Answer(c) PROVE UNCHANGED attachments
      BY <3>2 DEF Fail, Answer, intakeTables
    <3>3. ASSUME NEW c \in Calls, Proceed(c), ~CommitUpload(c), ~CommitImport(c)
          PROVE  UNCHANGED attachments
      <4>1. ASSUME LockTarget(c) PROVE UNCHANGED attachments
        BY <3>2, <4>1 DEF LockTarget, intakeTables
      <4>2. ASSUME LockToArchive(c) PROVE UNCHANGED attachments
        BY <3>2, <4>2 DEF LockToArchive, intakeTables
      <4>3. ASSUME CommitMessage(c) \/ CommitArchive(c) \/ StoreBytes(c) \/ StoreBytesFails(c)
            PROVE  UNCHANGED attachments
        BY <3>2, <4>3 DEF CommitMessage, CommitArchive, StoreBytes, StoreBytesFails
      <4>4. ASSUME LockProjectToUpload(c) PROVE UNCHANGED attachments
        BY <3>2, <4>4 DEF LockProjectToUpload, intakeTables
      <4>5. ASSUME CommitStage(c) PROVE UNCHANGED attachments
        BY <3>2, <4>5 DEF CommitStage
      <4>6. ASSUME LockProjectToImport(c) PROVE UNCHANGED attachments
        BY <3>2, <4>6 DEF LockProjectToImport, intakeTables
      <4>. QED BY <3>3, <4>1, <4>2, <4>3, <4>4, <4>5, <4>6 DEF Proceed
    <3>4. ASSUME BreakDeadlock \/ Previewing \/ Expiring \/ MembersChange PROVE UNCHANGED attachments
      BY <3>2, <3>4 DEF BreakDeadlock, DeadlockDetected, Previewing, PreviewProviderSubmission, Expiring,
                        ExpireUpload, ExpirePreview, MembersChange, intakeTables
    <3>. QED BY <3>1, <3>3, <3>4 DEF IntakeNext
  <2>. QED BY <2>1, <2>2, <2>3, <2>4
<1>2. [][Authority]_intakeVars => BoundUnderAuthority
  BY DEF BoundUnderAuthority
<1>. QED BY <1>1, <1>2, IntakeInvariant, PTL DEF IntakeSpec
=============================================================================
