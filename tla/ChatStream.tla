----------------------------- MODULE ChatStream -----------------------------
(***************************************************************************)
(* Chat in one conversation.  A call of ChatService.chat stores what the   *)
(* member says, opens an assistant reply and a model run, streams the      *)
(* model's answer to the client, and ends reply and run together.          *)
(*                                                                         *)
(* chat is an async generator: the HTTP handler asks it for one event      *)
(* after another, and may return it at any event (Disconnect).  What it    *)
(* awaits in between is one transaction or one event of the provider.      *)
(* Appending checks the role before it locks the conversation row; then    *)
(* nobody else appends until it commits.                                   *)
(*                                                                         *)
(* Ids of messages are their sequence numbers, which are as unique.  The   *)
(* context pack is read only and decides nothing here.                     *)
(***************************************************************************)
EXTENDS Membership, Sequences, Naturals

CONSTANTS
  ClientMessageIds,  \* chosen by clients, who repeat one to retry
  Contents,          \* what members say
  Calls              \* bound on the calls of chat ever made

VARIABLES
  conversation,  \* conversations.status; the branch is open iff it is active
  messages,      \* rows of messages, by sequence number
  modelRuns,     \* model_runs.status of each reply
  locked,        \* the call whose transaction has locked the conversation
  calls,         \* what each call holds in memory, None before it is made
  server         \* the process that serves them

tables == <<conversation, messages, modelRuns>>
members == <<role, archived>>
vars == <<members, tables, locked, calls, server>>

-----------------------------------------------------------------------------
(* Rows *)

Terminal == {"completed", "interrupted", "failed"}
DeliveryStates == {"streaming"} \cup Terminal

\* replyTo is null, here 0, exactly when a member is the author.
Message ==
  [clientId : ClientMessageIds \cup {None}, by : Users \cup {None},
   content : Contents \cup {None}, replyTo : Nat, state : DeliveryStates]

UserMessage(call) ==
  [clientId |-> call.clientId, by |-> call.by, content |-> call.content, replyTo |-> 0,
   state |-> "completed"]

AssistantMessage(i) ==
  [clientId |-> None, by |-> None, content |-> None, replyTo |-> i, state |-> "streaming"]

RunStatus(state) == IF state = "streaming" THEN "running" ELSE state

NextMessageSequence == Len(messages) + 1

\* 0 stands for null.
Found(rows) == IF rows = {} THEN 0 ELSE CHOOSE i \in rows : TRUE

FindMessageByClientId(k) == Found({i \in DOMAIN messages : messages[i].clientId = k})
FindAssistantReply(i) == Found({j \in DOMAIN messages : messages[j].replyTo = i})

-----------------------------------------------------------------------------
(* Calls *)

Stages ==
  {"append",      \* checked, about to lock the conversation
   "appending",   \* holds the lock
   "persisted",   \* user_persisted is with the client
   "reply",       \* checked again, about to lock the conversation
   "replying",    \* holds the lock
   "streaming",   \* from assistant_started on
   "completing",  \* the answer is whole
   "failing",     \* finishFailedStream is to be called
   "answered",    \* completed is with the client
   "over",        \* ended otherwise
   "lost"}        \* its process died, or could not reach the database

Ended == {"answered", "over", "lost"}

\* What consumeModelEvent has seen of the stream.
NothingRead == [sequence |-> 0, existing |-> 0]
NoStream == [started |-> FALSE, finish |-> None, text |-> FALSE]
FinishReasons == {"stop", "length"}
Stream == [started : BOOLEAN, finish : FinishReasons \cup {None}, text : BOOLEAN]

\* read is what the transaction has read since it locked the conversation; a
\* failing call has attempts left to end its reply as outcome says.
Call ==
  [by : Users, clientId : ClientMessageIds, content : Contents, at : Stages,
   read : [sequence : Nat, existing : Nat], message : Nat, reply : Nat,
   stream : Stream, outcome : Terminal \cup {None}, attempts : 0..2]

ASSUME ChatAssumption ==
  None \notin Calls \cup Call \cup FinishReasons \cup ClientMessageIds

NewCall(u, k, x) ==
  [by |-> u, clientId |-> k, content |-> x, at |-> "append", read |-> NothingRead,
   message |-> 0, reply |-> 0, stream |-> NoStream, outcome |-> None, attempts |-> 0]

At(c, stage) == calls[c] # None /\ calls[c].at = stage
Active(c) == calls[c] # None /\ calls[c].at \notin Ended

EndedCall(call, at) ==
  [call EXCEPT !.at = at, !.read = NothingRead, !.stream = NoStream, !.outcome = None,
               !.attempts = 0]

End(c, at) == calls' = [calls EXCEPT ![c] = EndedCall(@, at)]

FailingCall(call, outcome, attempts) ==
  [call EXCEPT !.at = "failing", !.stream = NoStream, !.outcome = outcome,
               !.attempts = attempts]

\* The catch clause tries to end the reply, and when that fails so does the
\* finally clause.  A generator that is returned runs the finally clause only.
Catch(c, outcome) == calls' = [calls EXCEPT ![c] = FailingCall(@, outcome, 2)]

\* Mutant: a generator that is returned cleans nothing up.
FinallyNothing(c, outcome) == End(c, "over")

Finally(c, outcome) == calls' = [calls EXCEPT ![c] = FailingCall(@, outcome, 1)]

-----------------------------------------------------------------------------
(* The member's message *)

\* The checks of appendUserMessage.
Chat(c, u, k, x) ==
  /\ calls[c] = None /\ server = "serving"
  /\ Authorized(u, "conversation:write")
  /\ RequireActiveProject
  /\ calls' = [calls EXCEPT ![c] = NewCall(u, k, x)]
  /\ UNCHANGED <<members, tables, locked, server>>

\* Mutant: the row is read without FOR UPDATE.
LockUnasked(c) == locked' = locked

Lock(c) == locked = None /\ locked' = c

Unlock == locked' = None

LockToAppend(c) ==
  /\ At(c, "append")
  /\ Lock(c)
  /\ conversation = "active"
  /\ calls' = [calls EXCEPT ![c].at = "appending", ![c].read =
       [sequence |-> NextMessageSequence, existing |-> FindMessageByClientId(calls[c].clientId)]]
  /\ UNCHANGED <<members, tables, server>>

\* A retry is answered with the message that the first attempt stored.
AppendUserMessage(c) ==
  LET call == calls[c]
      message == UserMessage(call)
      existing == call.read.existing
      answer(i) == calls' = [calls EXCEPT ![c].at = "persisted", ![c].read = NothingRead,
                                          ![c].message = i]
  IN /\ At(c, "appending")
     /\ \/ /\ existing # 0 /\ messages[existing] = message
           /\ answer(existing)
           /\ UNCHANGED messages
        \/ /\ existing = 0
           /\ call.read.sequence \notin DOMAIN messages
           /\ FindMessageByClientId(call.clientId) = 0
           /\ messages' = Append(messages, message)
           /\ answer(call.read.sequence)
     /\ Unlock
     /\ UNCHANGED <<members, conversation, modelRuns, server>>

-----------------------------------------------------------------------------
(* The assistant's reply *)

\* The pack is built and the caller's role read again, but neither the project
\* nor the conversation is asked to be active.
BeginReply(c) ==
  /\ At(c, "persisted") /\ server # "closed"
  /\ Authorized(calls[c].by, "conversation:write")
  /\ calls' = [calls EXCEPT ![c].at = "reply"]
  /\ UNCHANGED <<members, tables, locked, server>>

LockToReply(c) ==
  /\ At(c, "reply")
  /\ Lock(c)
  /\ calls' = [calls EXCEPT ![c].at = "replying", ![c].read =
       [sequence |-> NextMessageSequence, existing |-> FindAssistantReply(calls[c].message)]]
  /\ UNCHANGED <<members, tables, server>>

\* The model run of reply i has the status that belongs to the reply's state.
WithRun(i, state) ==
  modelRuns' = [j \in DOMAIN modelRuns \cup {i} |->
                  IF j = i THEN RunStatus(state) ELSE modelRuns[j]]

OpenReply(c) ==
  LET call == calls[c]
  IN /\ At(c, "replying")
     /\ call.read.existing = 0
     /\ call.read.sequence \notin DOMAIN messages
     /\ FindAssistantReply(call.message) = 0
     /\ messages' = Append(messages, AssistantMessage(call.message))
     /\ WithRun(call.read.sequence, "streaming")
     /\ calls' = [calls EXCEPT ![c].at = "streaming", ![c].read = NothingRead,
                               ![c].reply = call.read.sequence]
     /\ Unlock
     /\ UNCHANGED <<members, conversation, server>>

\* Mutant: whatever became of the first reply is replayed.
ReplaysEnded(i) == messages[i].state \in Terminal

Replays(i) == messages[i].state = "completed"

\* Only a completed reply is replayed; any other refuses the retry.
ReplayReply(c) ==
  LET existing == calls[c].read.existing
  IN /\ At(c, "replying")
     /\ existing # 0
     /\ calls' = [calls EXCEPT ![c] = IF Replays(existing)
                    THEN [EndedCall(@, "answered") EXCEPT !.reply = existing]
                    ELSE EndedCall(@, "over")]
     /\ Unlock
     /\ UNCHANGED <<members, tables, server>>

-----------------------------------------------------------------------------
(* The stream *)

\* What an event makes of the stream, if consumeModelEvent admits it now; usage
\* changes nothing that is modelled.
Consumed(stream) ==
  IF ~stream.started THEN {[stream EXCEPT !.started = TRUE]}
  ELSE IF stream.finish # None THEN {}
  ELSE {[stream EXCEPT !.text = TRUE]} \cup {[stream EXCEPT !.finish = r] : r \in FinishReasons}

ConsumeModelEvent(c) ==
  /\ At(c, "streaming")
  /\ \E next \in Consumed(calls[c].stream) :
       /\ next # calls[c].stream
       /\ calls' = [calls EXCEPT ![c].stream = next]
  /\ UNCHANGED <<members, tables, locked, server>>

\* The provider fails or times out, or an event is malformed or out of order.
StreamFails(c) ==
  /\ At(c, "streaming")
  /\ \E outcome \in {"interrupted", "failed"} : Catch(c, outcome)
  /\ UNCHANGED <<members, tables, locked, server>>

StreamEnds(c) ==
  LET stream == calls[c].stream
  IN /\ At(c, "streaming")
     /\ IF ~stream.started \/ stream.finish = None THEN Catch(c, "interrupted")
        ELSE IF stream.finish # "stop" \/ ~stream.text THEN Catch(c, "failed")
        ELSE calls' = [calls EXCEPT ![c].at = "completing", ![c].stream = NoStream]
     /\ UNCHANGED <<members, tables, locked, server>>

\* Mutant: the reply is found whatever its state.
UpdatesAnyReply(i) == i \in DOMAIN messages

\* Reply and run are found in the state that may be updated.
UpdatesStreaming(i) == messages[i].state = "streaming" /\ modelRuns[i] = "running"

\* Mutant: the model run is left running.
EndMessageOnly(i, state) ==
  messages' = [messages EXCEPT ![i].state = state] /\ UNCHANGED modelRuns

EndReply(i, state) ==
  /\ messages' = [messages EXCEPT ![i].state = state]
  /\ WithRun(i, state)

CompleteReply(c) ==
  /\ At(c, "completing") /\ server # "closed"
  /\ UpdatesStreaming(calls[c].reply)
  /\ EndReply(calls[c].reply, "completed")
  /\ End(c, "answered")
  /\ UNCHANGED <<members, conversation, locked, server>>

\* The transaction commits, but the connection is lost before that is known.
CompleteUnacknowledged(c) ==
  /\ At(c, "completing") /\ server # "closed"
  /\ UpdatesStreaming(calls[c].reply)
  /\ EndReply(calls[c].reply, "completed")
  /\ Catch(c, "failed")
  /\ UNCHANGED <<members, conversation, locked, server>>

\* An attempt that ends nothing is followed by the next.
NextAttempt(c, last) ==
  IF calls[c].attempts = 1 THEN End(c, last)
  ELSE calls' = [calls EXCEPT ![c].attempts = @ - 1]

FinishFailedStream(c) ==
  LET call == calls[c]
  IN /\ At(c, "failing") /\ server # "closed"
     /\ \/ /\ UpdatesStreaming(call.reply)
           /\ EndReply(call.reply, call.outcome)
           /\ End(c, "over")
        \/ /\ ~UpdatesStreaming(call.reply)
           /\ NextAttempt(c, "over")
           /\ UNCHANGED <<messages, modelRuns>>
     /\ UNCHANGED <<members, conversation, locked, server>>

\* The database cannot be reached, or refuses the transaction.
DatabaseFails(c) ==
  /\ \/ At(c, "completing") /\ Catch(c, "failed")
     \/ At(c, "failing") /\ NextAttempt(c, "lost")
  /\ UNCHANGED <<members, tables, locked, server>>

-----------------------------------------------------------------------------
(* What happens to calls from outside *)

\* The client goes away or the request is aborted: the generator is returned at
\* the event it has yielded.
Disconnect(c) ==
  /\ \/ At(c, "persisted") /\ End(c, "over")
     \/ At(c, "streaming") /\ Finally(c, "interrupted")
  /\ UNCHANGED <<members, tables, locked, server>>

\* Any error before the reply is opened ends the call; a transaction rolls back.
Refuse(c) ==
  /\ \E stage \in {"append", "appending", "persisted", "reply", "replying"} : At(c, stage)
  /\ End(c, "over")
  /\ locked' = IF locked = c THEN None ELSE locked
  /\ UNCHANGED <<members, tables, server>>

\* ConversationService.update archives the conversation and abandons its branch.
ArchiveConversation(u) ==
  /\ Authorized(u, "conversation:write")
  /\ RequireActiveProject
  /\ locked = None
  /\ conversation' = "archived"
  /\ UNCHANGED <<members, messages, modelRuns, locked, calls, server>>

\* SIGTERM: no more requests, and those under way are aborted.
Shutdown ==
  /\ server = "serving"
  /\ server' = "stopping"
  /\ UNCHANGED <<members, tables, locked, calls>>

\* The pool is closed when every request has been served.  A request whose
\* response is a stream has been when the stream was aborted.
ClosePool ==
  /\ server = "stopping"
  /\ \A c \in Calls : ~At(c, "append") /\ ~At(c, "appending")
  /\ server' = "closed"
  /\ UNCHANGED <<members, tables, locked, calls>>

\* The process dies, or exits at last, and another takes its place.
Restart ==
  /\ server # "serving" \/ \E c \in Calls : Active(c)
  /\ server' = "serving"
  /\ calls' = [c \in Calls |-> IF Active(c) THEN EndedCall(calls[c], "lost") ELSE calls[c]]
  /\ locked' = None
  /\ UNCHANGED <<members, tables>>

-----------------------------------------------------------------------------
Init ==
  /\ MembershipInit
  /\ conversation = "active"
  /\ messages = <<>>
  /\ modelRuns = [i \in {} |-> None]
  /\ locked = None
  /\ calls = [c \in Calls |-> None]
  /\ server = "serving"

\* What a call does by itself.
Proceed(c) ==
  \/ LockToAppend(c) \/ AppendUserMessage(c) \/ BeginReply(c)
  \/ LockToReply(c) \/ OpenReply(c) \/ ReplayReply(c)
  \/ ConsumeModelEvent(c) \/ StreamFails(c) \/ StreamEnds(c)
  \/ CompleteReply(c) \/ FinishFailedStream(c)
  \/ server = "closed" /\ DatabaseFails(c)

\* What members and operators do while the machines they use hold.
Orderly ==
  \/ \E c \in Calls, u \in Users, k \in ClientMessageIds, x \in Contents : Chat(c, u, k, x)
  \/ \E c \in Calls : Proceed(c) \/ Disconnect(c) \/ Refuse(c)
  \/ \E u \in Users : ArchiveConversation(u)
  \/ Shutdown \/ ClosePool

Next ==
  \/ Orderly
  \/ \E c \in Calls : CompleteUnacknowledged(c) \/ DatabaseFails(c)
  \/ Restart
  \/ MembershipNext /\ UNCHANGED <<tables, locked, calls, server>>

Spec == Init /\ [][Next]_vars

\* Awaits go on by themselves: queries return, and a provider has a deadline.
Progress == \A c \in Calls : WF_vars(Proceed(c))

Fair == Spec /\ Progress

Graceful == Init /\ [][Orderly]_vars

-----------------------------------------------------------------------------
(* Properties *)

RowOK(i) ==
  LET row == messages[i]
  IN /\ row \in Message
     /\ row.replyTo = 0 => row.clientId # None /\ row.state = "completed"
     /\ row.replyTo # 0 =>
          /\ row.clientId = None
          /\ row.replyTo < i /\ messages[row.replyTo].replyTo = 0

\* Rows have their shape, a reply answers an earlier message of a member, and a
\* reply's model run exists and has ended as the reply has.
TypeOK ==
  /\ role \in [Users -> Roles \cup {None}] /\ archived \in BOOLEAN
  /\ conversation \in {"active", "archived"} /\ server \in {"serving", "stopping", "closed"}
  /\ messages \in Seq(Message)
  /\ \A i \in DOMAIN messages : RowOK(i)
  /\ modelRuns = [i \in {j \in DOMAIN messages : messages[j].replyTo # 0} |->
                    RunStatus(messages[i].state)]
  /\ locked \in Calls \cup {None}
  /\ calls \in [Calls -> Call \cup {None}]

\* Concurrent appends and retries never race a unique index: a transaction that
\* is about to insert has read the state it inserts into.
LockedReadsHold ==
  \A c \in Calls :
    /\ At(c, "appending") => calls[c].read =
         [sequence |-> NextMessageSequence, existing |-> FindMessageByClientId(calls[c].clientId)]
    /\ At(c, "replying") => calls[c].read =
         [sequence |-> NextMessageSequence, existing |-> FindAssistantReply(calls[c].message)]

\* A client that was sent completed, by the stream or by a retry's replay, has an
\* answer to its own message, and that answer is stored as completed.
AnswersAreStored ==
  \A c \in Calls :
    At(c, "answered") =>
      LET reply == messages[calls[c].reply]
      IN /\ reply.state = "completed"
         /\ messages[reply.replyTo] = UserMessage(calls[c])

\* What readers are promised of a row.
Line(row) ==
  [said |-> {row.clientId} \ {None}, answers |-> row.replyTo,
   state |-> IF row.state = "streaming" THEN "open" ELSE row.state]

transcript == [i \in DOMAIN messages |-> Line(messages[i])]

Promise == INSTANCE Transcript

\* The promise of Transcript is kept.
KeepsTranscript == Promise!Spec

\* A reply does not stream for ever, whatever the client, the provider and other
\* calls do, unless the process that streams it dies or loses the database.
ReplyEnded(c) ==
  /\ At(c, "answered") \/ At(c, "over")
  /\ \E i \in DOMAIN messages : calls[c].reply = i /\ messages[i].state \in Terminal

RepliesEnd == \A c \in Calls : At(c, "streaming") ~> (ReplyEnded(c) \/ At(c, "lost"))

\* An orderly shutdown waits for the clean-up of the requests it aborts before it
\* closes the pool, so that no reply is left streaming.
ShutdownEndsReplies ==
  server = "closed" /\ (\A c \in Calls : ~Active(c)) =>
    \A i \in DOMAIN messages : messages[i].state # "streaming"
=============================================================================
