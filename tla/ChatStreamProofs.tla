-------------------------- MODULE ChatStreamProofs --------------------------
(***************************************************************************)
(* Proofs about ChatStream.  The lock makes what a transaction has read    *)
(* still true when it inserts, and each streaming reply has one call that  *)
(* may end it.                                                             *)
(***************************************************************************)
EXTENDS ChatStream, SequenceTheorems, TLAPS

-----------------------------------------------------------------------------
(* The inductive invariant.  What is said of rows is said with the rows as  *)
(* parameters, so that it can be said of those after a step too.            *)

Locking == {"appending", "replying"}
Writing == {"streaming", "completing", "failing"}

LockHolder == \A c \in Calls : (calls[c] # None /\ calls[c].at \in Locking) <=> locked = c

ByClientId(rows, k) == Found({i \in DOMAIN rows : rows[i].clientId = k})
ByReplyTo(rows, i) == Found({j \in DOMAIN rows : rows[j].replyTo = i})

ReadHolds(rows, call) ==
  /\ call.at = "appending" => call.read =
       [sequence |-> Len(rows) + 1, existing |-> ByClientId(rows, call.clientId)]
  /\ call.at = "replying" => call.read =
       [sequence |-> Len(rows) + 1, existing |-> ByReplyTo(rows, call.message)]

Owns(rows, call) ==
  call.message \in DOMAIN rows /\ rows[call.message] = UserMessage(call)

Writes(rows, call) ==
  /\ Owns(rows, call)
  /\ call.reply \in DOMAIN rows /\ rows[call.reply].replyTo = call.message

Answered(rows, call) ==
  /\ call.reply \in DOMAIN rows
  /\ rows[call.reply].replyTo \in DOMAIN rows
  /\ rows[call.reply].state = "completed"
  /\ rows[rows[call.reply].replyTo] = UserMessage(call)

\* What the stored rows say of what the call remembers.
Sound(rows, call) ==
  /\ ReadHolds(rows, call)
  /\ call.at \in {"persisted", "reply", "replying"} => Owns(rows, call)
  /\ call.at \in Writing => Writes(rows, call)
  /\ call.at \in {"streaming", "completing"} => rows[call.reply].state = "streaming"
  /\ call.at = "failing" => call.outcome \in Terminal /\ call.attempts # 0
  /\ call.at = "answered" => Answered(rows, call)

CallsSound == \A c \in Calls : calls[c] # None => Sound(messages, calls[c])

OneWriter ==
  \A c, d \in Calls :
    c # d /\ calls[c] # None /\ calls[d] # None
      /\ calls[c].at \in Writing /\ calls[d].at \in Writing
    => calls[c].reply # calls[d].reply

ChatInv == TypeOK /\ LockHolder /\ CallsSound /\ OneWriter

\* The part of TypeOK that is about the tables.
RowFits(rows, i) ==
  /\ rows[i] \in Message
  /\ rows[i].replyTo = 0 => rows[i].clientId # None /\ rows[i].state = "completed"
  /\ rows[i].replyTo # 0 =>
       /\ rows[i].clientId = None
       /\ rows[i].replyTo < i /\ rows[rows[i].replyTo].replyTo = 0

TablesFit(rows, runs) ==
  /\ rows \in Seq(Message)
  /\ \A i \in DOMAIN rows : RowFits(rows, i)
  /\ runs = [i \in {j \in DOMAIN rows : rows[j].replyTo # 0} |-> RunStatus(rows[i].state)]

Typed ==
  /\ role \in [Users -> Roles \cup {None}] /\ archived \in BOOLEAN
  /\ conversation \in {"active", "archived"} /\ server \in {"serving", "stopping", "closed"}
  /\ locked \in Calls \cup {None}
  /\ calls \in [Calls -> Call \cup {None}]

LEMMA TypeParts == TypeOK <=> Typed /\ TablesFit(messages, modelRuns)
BY DEF TypeOK, Typed, TablesFit, RowFits, RowOK

LEMMA TypePartsNext == TypeOK' <=> Typed' /\ TablesFit(messages', modelRuns')
BY DEF TypeOK, Typed, TablesFit, RowFits, RowOK

-----------------------------------------------------------------------------
(* Lookups *)

LEMMA FoundIsThere ==
  ASSUME NEW rows, Found(rows) # 0
  PROVE  Found(rows) \in rows
BY DEF Found

LEMMA FoundTyped ==
  ASSUME NEW rows \in SUBSET Nat
  PROVE  Found(rows) \in Nat
BY DEF Found

LEMMA FoundNone ==
  ASSUME NEW rows \in SUBSET (Nat \ {0}), Found(rows) = 0
  PROVE  rows = {}
BY DEF Found

LEMMA LookupsTyped ==
  ASSUME NEW rows \in Seq(Message)
  PROVE  /\ Len(rows) + 1 \in Nat
         /\ \A k : ByClientId(rows, k) \in Nat
         /\ \A i : ByReplyTo(rows, i) \in Nat
<1>1. Len(rows) \in Nat /\ DOMAIN rows = 1..Len(rows)
  OBVIOUS
<1>2. ASSUME NEW k PROVE ByClientId(rows, k) \in Nat
  <2>1. {i \in DOMAIN rows : rows[i].clientId = k} \in SUBSET Nat
    BY <1>1
  <2>. QED BY <2>1, FoundTyped DEF ByClientId
<1>3. ASSUME NEW k PROVE ByReplyTo(rows, k) \in Nat
  <2>1. {i \in DOMAIN rows : rows[i].replyTo = k} \in SUBSET Nat
    BY <1>1
  <2>. QED BY <2>1, FoundTyped DEF ByReplyTo
<1>. QED BY <1>1, <1>2, <1>3

-----------------------------------------------------------------------------
(* What a step may do to rows, and what calls keep through it *)

\* What is stored stays, and only a streaming row changes at all.
RowsKept(old, new) ==
  \A j \in DOMAIN old :
    /\ j \in DOMAIN new /\ new[j].replyTo = old[j].replyTo
    /\ old[j].state # "streaming" => new[j] = old[j]

\* What transactions look rows up by.
KeysSame(old, new) ==
  /\ Len(new) = Len(old) /\ DOMAIN new = DOMAIN old
  /\ \A j \in DOMAIN old :
       new[j].clientId = old[j].clientId /\ new[j].replyTo = old[j].replyTo

LEMMA ReadKept ==
  ASSUME NEW old, NEW new, NEW call, ReadHolds(old, call), KeysSame(old, new)
  PROVE  ReadHolds(new, call)
<1>1. ByClientId(new, call.clientId) = ByClientId(old, call.clientId)
  <2>1. {i \in DOMAIN new : new[i].clientId = call.clientId}
          = {i \in DOMAIN old : old[i].clientId = call.clientId}
    BY DEF KeysSame
  <2>. QED BY <2>1 DEF ByClientId
<1>2. ByReplyTo(new, call.message) = ByReplyTo(old, call.message)
  <2>1. {i \in DOMAIN new : new[i].replyTo = call.message}
          = {i \in DOMAIN old : old[i].replyTo = call.message}
    BY DEF KeysSame
  <2>. QED BY <2>1 DEF ByReplyTo
<1>. QED BY <1>1, <1>2 DEF KeysSame, ReadHolds

LEMMA SoundKept ==
  ASSUME NEW old, NEW new, NEW call \in Call, Sound(old, call), RowsKept(old, new),
         call.at \in Locking => KeysSame(old, new),
         call.at \in {"streaming", "completing"} => new[call.reply].state = "streaming"
  PROVE  Sound(new, call)
<1>1. Owns(old, call) => Owns(new, call) /\ new[call.message] = old[call.message]
  BY DEF Owns, UserMessage, RowsKept
<1>2. Writes(old, call) => Writes(new, call)
  BY <1>1 DEF Writes, RowsKept
<1>3. ASSUME Answered(old, call) PROVE Answered(new, call)
  <2>1. /\ call.reply \in DOMAIN old
        /\ old[call.reply].replyTo \in DOMAIN old
        /\ old[call.reply].state = "completed"
        /\ old[old[call.reply].replyTo] = UserMessage(call)
    BY <1>3 DEF Answered
  <2>2. new[call.reply] = old[call.reply] /\ call.reply \in DOMAIN new
    BY <2>1 DEF RowsKept
  <2>3. /\ old[call.reply].replyTo \in DOMAIN new
        /\ new[old[call.reply].replyTo] = old[old[call.reply].replyTo]
    BY <2>1 DEF RowsKept, UserMessage
  <2>. QED BY <2>1, <2>2, <2>3 DEF Answered
<1>4. ReadHolds(new, call)
  <2>1. CASE call.at \in Locking
    BY <2>1, ReadKept DEF Sound
  <2>2. CASE call.at \notin Locking
    BY <2>2 DEF ReadHolds, Locking
  <2>. QED BY <2>1, <2>2
<1>. QED BY <1>1, <1>2, <1>3, <1>4 DEF Sound, Writing

\* A step of one call: it keeps, takes or frees the lock, it leaves the rows that
\* others look up or holds the lock, and it ends no reply of another call.
LockMoves(c, new) ==
  \/ locked' = locked /\ locked # c /\ new.at \notin Locking
  \/ locked = None /\ locked' = c /\ new.at \in Locking
  \/ locked = c /\ locked' = None /\ new.at \notin Locking

Spares(d, new) ==
  calls[d] # None =>
    /\ calls[d].at \in {"streaming", "completing"} =>
         messages'[calls[d].reply].state = "streaming"
    /\ new.at \in Writing /\ calls[d].at \in Writing => calls[d].reply # new.reply

LEMMA CallStep ==
  ASSUME ChatInv, NEW c \in Calls, NEW new \in Call, calls' = [calls EXCEPT ![c] = new],
         LockMoves(c, new), KeysSame(messages, messages') \/ locked = c,
         RowsKept(messages, messages'), Sound(messages', new),
         \A d \in Calls \ {c} : Spares(d, new)
  PROVE  /\ LockHolder' /\ CallsSound' /\ OneWriter'
         /\ locked' \in Calls \cup {None} /\ calls' \in [Calls -> Call \cup {None}]
<1>. USE DEF ChatInv
<1>1. calls \in [Calls -> Call \cup {None}] /\ locked \in Calls \cup {None}
  BY DEF TypeOK
<1>2. calls'[c] = new /\ \A d \in Calls \ {c} : calls'[d] = calls[d]
  BY <1>1
<1>3. new # None /\ None \notin Calls
  BY ChatAssumption
<1>4. LockHolder'
  BY <1>2, <1>3 DEF LockHolder, LockMoves
<1>5. ASSUME NEW d \in Calls, calls'[d] # None PROVE Sound(messages', calls'[d])
  <2>1. CASE d = c
    BY <1>2, <2>1
  <2>2. CASE d # c
    <3>1. calls[d] \in Call /\ Sound(messages, calls[d]) /\ calls'[d] = calls[d]
      BY <1>1, <1>2, <1>5, <2>2 DEF CallsSound
    <3>2. calls[d].at \in {"streaming", "completing"} =>
            messages'[calls[d].reply].state = "streaming"
      BY <1>2, <1>5, <2>2 DEF Spares
    <3>3. calls[d].at \in Locking => KeysSame(messages, messages')
      BY <1>2, <1>5, <2>2 DEF LockHolder
    <3>. QED BY <3>1, <3>2, <3>3, SoundKept
  <2>. QED BY <2>1, <2>2
<1>6. OneWriter'
  BY <1>2 DEF OneWriter, Spares
<1>. QED BY <1>1, <1>3, <1>4, <1>5, <1>6 DEF CallsSound, LockMoves

-----------------------------------------------------------------------------
(* What each change of the tables does *)

LEMMA SameTables ==
  ASSUME messages' = messages
  PROVE  RowsKept(messages, messages') /\ KeysSame(messages, messages')
BY DEF RowsKept, KeysSame

LEMMA AppendedRow ==
  ASSUME NEW rows \in Seq(Message), NEW row \in Message
  PROVE  LET new == Append(rows, row) IN
           /\ new \in Seq(Message) /\ Len(new) = Len(rows) + 1
           /\ DOMAIN new = DOMAIN rows \cup {Len(rows) + 1}
           /\ Len(rows) + 1 \notin DOMAIN rows
           /\ DOMAIN rows \subseteq Nat \ {0}
           /\ new[Len(rows) + 1] = row
           /\ \A j \in DOMAIN rows : new[j] = rows[j] /\ rows[j] \in Message
           /\ RowsKept(rows, new)
BY DEF RowsKept

LEMMA RowsTyped ==
  ASSUME NEW call \in Call
  PROVE  /\ UserMessage(call) \in Message
         /\ \A i \in Nat : AssistantMessage(i) \in Message
BY DEF UserMessage, AssistantMessage, Message, Call, DeliveryStates, Terminal

LEMMA UserRowAppended ==
  ASSUME NEW rows, NEW runs, TablesFit(rows, runs), NEW call \in Call
  PROVE  TablesFit(Append(rows, UserMessage(call)), runs)
<1>. DEFINE new == Append(rows, UserMessage(call))
<1>1. /\ rows \in Seq(Message) /\ \A i \in DOMAIN rows : RowFits(rows, i)
      /\ runs = [i \in {j \in DOMAIN rows : rows[j].replyTo # 0} |-> RunStatus(rows[i].state)]
  BY DEF TablesFit
<1>2. /\ new \in Seq(Message)
      /\ DOMAIN new = DOMAIN rows \cup {Len(rows) + 1}
      /\ Len(rows) + 1 \notin DOMAIN rows
      /\ new[Len(rows) + 1] = UserMessage(call)
      /\ \A j \in DOMAIN rows : new[j] = rows[j]
  BY <1>1, AppendedRow, RowsTyped
<1>. HIDE DEF new
<1>3. UserMessage(call).replyTo = 0 /\ UserMessage(call).clientId # None
      /\ UserMessage(call).state = "completed" /\ UserMessage(call) \in Message
  BY ChatAssumption, RowsTyped DEF UserMessage, Call
<1>4. ASSUME NEW i \in DOMAIN rows PROVE RowFits(new, i)
  <2>1. RowFits(rows, i) /\ new[i] = rows[i]
    BY <1>1, <1>2
  <2>2. rows[i].replyTo # 0 => rows[i].replyTo \in DOMAIN rows
    BY <2>1, <1>1 DEF RowFits, Message
  <2>. QED BY <2>1, <2>2, <1>2 DEF RowFits
<1>5. RowFits(new, Len(rows) + 1)
  BY <1>2, <1>3 DEF RowFits
<1>6. {j \in DOMAIN new : new[j].replyTo # 0} = {j \in DOMAIN rows : rows[j].replyTo # 0}
  BY <1>2, <1>3
<1>7. runs = [i \in {j \in DOMAIN new : new[j].replyTo # 0} |-> RunStatus(new[i].state)]
  BY <1>1, <1>2, <1>6
<1>. QED BY <1>2, <1>4, <1>5, <1>7 DEF TablesFit, new

LEMMA ReplyRowAppended ==
  ASSUME NEW rows, NEW runs, TablesFit(rows, runs), NEW call \in Call,
         NEW i \in DOMAIN rows, rows[i].replyTo = 0
  PROVE  TablesFit(Append(rows, AssistantMessage(i)),
                   [j \in DOMAIN runs \cup {Len(rows) + 1} |->
                      IF j = Len(rows) + 1 THEN RunStatus("streaming") ELSE runs[j]])
<1>. DEFINE new == Append(rows, AssistantMessage(i))
<1>1. /\ rows \in Seq(Message) /\ \A j \in DOMAIN rows : RowFits(rows, j)
      /\ runs = [k \in {j \in DOMAIN rows : rows[j].replyTo # 0} |-> RunStatus(rows[k].state)]
  BY DEF TablesFit
<1>2. DOMAIN rows = 1..Len(rows) /\ Len(rows) \in Nat
  BY <1>1
<1>3. /\ new \in Seq(Message)
      /\ DOMAIN new = DOMAIN rows \cup {Len(rows) + 1}
      /\ Len(rows) + 1 \notin DOMAIN rows
      /\ new[Len(rows) + 1] = AssistantMessage(i)
      /\ \A j \in DOMAIN rows : new[j] = rows[j]
  BY <1>1, <1>2, AppendedRow, RowsTyped
<1>. HIDE DEF new
<1>4. /\ AssistantMessage(i).replyTo = i /\ i # 0 /\ i < Len(rows) + 1
      /\ AssistantMessage(i).clientId = None /\ AssistantMessage(i) \in Message
      /\ AssistantMessage(i).state = "streaming"
  <2>1. i \in Nat /\ i # 0 /\ i < Len(rows) + 1
    BY <1>2
  <2>. QED BY <2>1, RowsTyped DEF AssistantMessage
<1>5. ASSUME NEW j \in DOMAIN rows PROVE RowFits(new, j)
  <2>1. RowFits(rows, j) /\ new[j] = rows[j]
    BY <1>1, <1>3
  <2>2. rows[j].replyTo # 0 => rows[j].replyTo \in DOMAIN rows
    BY <2>1, <1>2 DEF RowFits, Message
  <2>. QED BY <2>1, <2>2, <1>3 DEF RowFits
<1>6. RowFits(new, Len(rows) + 1)
  BY <1>3, <1>4 DEF RowFits
<1>7. {j \in DOMAIN new : new[j].replyTo # 0}
        = {j \in DOMAIN rows : rows[j].replyTo # 0} \cup {Len(rows) + 1}
  BY <1>3, <1>4
<1>8. [j \in DOMAIN runs \cup {Len(rows) + 1} |->
         IF j = Len(rows) + 1 THEN RunStatus("streaming") ELSE runs[j]]
        = [k \in {j \in DOMAIN new : new[j].replyTo # 0} |-> RunStatus(new[k].state)]
  BY <1>1, <1>3, <1>4, <1>7
<1>. QED BY <1>3, <1>5, <1>6, <1>8 DEF TablesFit, new

EndedRow(rows, i, state) == [rows EXCEPT ![i].state = state]

EndedRun(runs, i, state) ==
  [j \in DOMAIN runs \cup {i} |-> IF j = i THEN RunStatus(state) ELSE runs[j]]

LEMMA ReplyRowEnded ==
  ASSUME NEW rows, NEW runs, TablesFit(rows, runs), NEW i \in DOMAIN rows,
         rows[i].replyTo # 0, rows[i].state = "streaming", NEW state \in Terminal,
         NEW new, new = EndedRow(rows, i, state),
         NEW newRuns, newRuns = EndedRun(runs, i, state)
  PROVE  /\ TablesFit(new, newRuns)
         /\ RowsKept(rows, new) /\ KeysSame(rows, new)
         /\ new[i].state = state /\ \A j \in DOMAIN rows \ {i} : new[j] = rows[j]
<1>. USE DEF EndedRow, EndedRun
<1>1. /\ rows \in Seq(Message) /\ \A j \in DOMAIN rows : RowFits(rows, j)
      /\ runs = [k \in {j \in DOMAIN rows : rows[j].replyTo # 0} |-> RunStatus(rows[k].state)]
  BY DEF TablesFit
<1>2. DOMAIN rows = 1..Len(rows) /\ Len(rows) \in Nat /\ rows[i] \in Message
  BY <1>1
<1>3. /\ DOMAIN new = DOMAIN rows /\ new[i] = [rows[i] EXCEPT !.state = state]
      /\ \A j \in DOMAIN rows \ {i} : new[j] = rows[j]
  OBVIOUS
<1>4. /\ new[i] \in Message /\ new[i].state = state /\ new[i].replyTo = rows[i].replyTo
      /\ new[i].clientId = rows[i].clientId
  BY <1>2, <1>3 DEF Message, DeliveryStates
<1>5. new \in Seq(Message) /\ Len(new) = Len(rows)
  BY <1>1, <1>2, <1>4
<1>6. \A j \in DOMAIN rows :
        new[j].replyTo = rows[j].replyTo /\ new[j].clientId = rows[j].clientId
  BY <1>3, <1>4
<1>7. RowsKept(rows, new) /\ KeysSame(rows, new)
  BY <1>3, <1>5, <1>6 DEF RowsKept, KeysSame
<1>8. ASSUME NEW j \in DOMAIN new PROVE RowFits(new, j)
  <2>1. RowFits(rows, j)
    BY <1>1, <1>3
  <2>2. new[j] \in Message
    BY <2>1, <1>3, <1>4 DEF RowFits
  <2>3. rows[j].replyTo # 0 => rows[j].replyTo \in DOMAIN rows
    BY <2>1, <1>2, <1>3 DEF RowFits, Message
  <2>4. j = i => rows[j].replyTo # 0
    OBVIOUS
  <2>. QED BY <2>1, <2>2, <2>3, <2>4, <1>3, <1>6 DEF RowFits
<1>9. {j \in DOMAIN new : new[j].replyTo # 0} = {j \in DOMAIN rows : rows[j].replyTo # 0}
  BY <1>3, <1>6
<1>10. newRuns = [k \in {j \in DOMAIN new : new[j].replyTo # 0} |-> RunStatus(new[k].state)]
  BY <1>1, <1>3, <1>4, <1>9
<1>. QED BY <1>3, <1>4, <1>5, <1>7, <1>8, <1>10 DEF TablesFit

-----------------------------------------------------------------------------
(* Steps of one call, by what they do to the tables *)

LEMMA TableStep ==
  ASSUME ChatInv, NEW c \in Calls, NEW new \in Call, calls' = [calls EXCEPT ![c] = new],
         LockMoves(c, new), KeysSame(messages, messages') \/ locked = c,
         RowsKept(messages, messages'), Sound(messages', new),
         \A d \in Calls \ {c} : Spares(d, new),
         TablesFit(messages', modelRuns'), UNCHANGED <<members, conversation, server>>
  PROVE  ChatInv'
<1>1. LockHolder' /\ CallsSound' /\ OneWriter'
      /\ locked' \in Calls \cup {None} /\ calls' \in [Calls -> Call \cup {None}]
  BY CallStep
<1>2. Typed'
  BY <1>1, TypeParts DEF ChatInv, Typed, members
<1>3. TypeOK'
  BY <1>2, TypePartsNext
<1>. QED BY <1>1, <1>3 DEF ChatInv

LEMMA QuietStep ==
  ASSUME ChatInv, NEW c \in Calls, NEW new \in Call, calls' = [calls EXCEPT ![c] = new],
         LockMoves(c, new), Sound(messages, new),
         new.at \in Writing =>
           calls[c] # None /\ calls[c].at \in Writing /\ new.reply = calls[c].reply,
         UNCHANGED <<members, tables, server>>
  PROVE  ChatInv'
<1>1. messages' = messages /\ modelRuns' = modelRuns /\ conversation' = conversation
  BY DEF tables
<1>2. RowsKept(messages, messages') /\ KeysSame(messages, messages')
  BY <1>1, SameTables
<1>3. \A d \in Calls \ {c} : Spares(d, new)
  BY <1>1 DEF ChatInv, CallsSound, OneWriter, Sound, Spares
<1>4. TablesFit(messages', modelRuns')
  BY <1>1, TypeParts DEF ChatInv
<1>. QED BY <1>1, <1>2, <1>3, <1>4, TableStep

\* The facts that each step on an existing call starts from.
LEMMA CallTyped ==
  ASSUME ChatInv, NEW c \in Calls, calls[c] # None
  PROVE  /\ calls[c] \in Call /\ Sound(messages, calls[c])
         /\ calls[c].at \in Locking <=> locked = c
         /\ messages \in Seq(Message) /\ calls \in [Calls -> Call \cup {None}]
         /\ TablesFit(messages, modelRuns)
BY TypeParts DEF ChatInv, TypeOK, CallsSound, LockHolder

LEMMA ResetsTyped ==
  /\ NothingRead \in [sequence : Nat, existing : Nat] /\ NoStream \in Stream
  /\ {"over", "lost", "answered", "failing"} \subseteq Stages
BY DEF NothingRead, NoStream, Stream, Stages

LEMMA EndedTyped ==
  ASSUME NEW call \in Call, NEW at \in {"over", "lost", "answered"}
  PROVE  /\ EndedCall(call, at) \in Call /\ EndedCall(call, at).at = at
         /\ EndedCall(call, at).message = call.message
         /\ EndedCall(call, at).reply = call.reply
         /\ UserMessage(EndedCall(call, at)) = UserMessage(call)
<1>1. EndedCall(call, at) \in Call
  <2>. DEFINE c1 == [call EXCEPT !.at = at]
              c2 == [c1 EXCEPT !.read = NothingRead]
              c3 == [c2 EXCEPT !.stream = NoStream]
              c4 == [c3 EXCEPT !.outcome = None]
              c5 == [c4 EXCEPT !.attempts = 0]
  <2>1. c1 \in Call
    BY ResetsTyped DEF Call
  <2>2. c2 \in Call
    <3>. HIDE DEF c1
    <3>. QED BY <2>1, ResetsTyped DEF Call
  <2>3. c3 \in Call
    <3>. HIDE DEF c2
    <3>. QED BY <2>2, ResetsTyped DEF Call
  <2>4. c4 \in Call
    <3>. HIDE DEF c3
    <3>. QED BY <2>3 DEF Call
  <2>5. c5 \in Call
    <3>. HIDE DEF c4
    <3>. QED BY <2>4 DEF Call
  <2>6. EndedCall(call, at) = c5
    BY DEF EndedCall
  <2>. QED BY <2>5, <2>6
<1>. QED BY <1>1 DEF EndedCall, Call, UserMessage

\* An ended call is bound by nothing but its answer.
LEMMA EndedSound ==
  ASSUME NEW rows, NEW call \in Call, NEW at \in {"over", "lost"}
  PROVE  Sound(rows, EndedCall(call, at))
BY EndedTyped DEF Sound, ReadHolds, Writing

LEMMA EndStep ==
  ASSUME ChatInv, NEW c \in Calls, calls[c] # None, NEW at \in {"over", "lost"}, End(c, at),
         locked' = IF locked = c THEN None ELSE locked, UNCHANGED <<members, tables, server>>
  PROVE  ChatInv'
<1>1. calls[c] \in Call
  BY CallTyped
<1>2. /\ EndedCall(calls[c], at) \in Call /\ EndedCall(calls[c], at).at = at
      /\ Sound(messages, EndedCall(calls[c], at))
  BY <1>1, EndedSound, EndedTyped
<1>3. LockMoves(c, EndedCall(calls[c], at))
  BY <1>2 DEF LockMoves, Locking
<1>4. calls' = [calls EXCEPT ![c] = EndedCall(calls[c], at)]
  BY DEF End
<1>. QED BY <1>2, <1>3, <1>4, QuietStep DEF Writing

LEMMA FailingTyped ==
  ASSUME NEW call \in Call, NEW outcome \in Terminal, NEW attempts \in 0..2
  PROVE  FailingCall(call, outcome, attempts) \in Call
<1>. DEFINE c1 == [call EXCEPT !.at = "failing"]
            c2 == [c1 EXCEPT !.stream = NoStream]
            c3 == [c2 EXCEPT !.outcome = outcome]
            c4 == [c3 EXCEPT !.attempts = attempts]
<1>1. c1 \in Call
  BY ResetsTyped DEF Call
<1>2. c2 \in Call
  <2>. HIDE DEF c1
  <2>. QED BY <1>1, ResetsTyped DEF Call
<1>3. c3 \in Call
  <2>. HIDE DEF c2
  <2>. QED BY <1>2 DEF Call
<1>4. c4 \in Call
  <2>. HIDE DEF c3
  <2>. QED BY <1>3 DEF Call
<1>5. FailingCall(call, outcome, attempts) = c4
  BY DEF FailingCall
<1>. QED BY <1>4, <1>5

LEMMA FailingStep ==
  ASSUME ChatInv, NEW c \in Calls, calls[c] # None, calls[c].at \in {"streaming", "completing"},
         NEW outcome \in Terminal, NEW attempts \in 1..2,
         calls' = [calls EXCEPT ![c] = FailingCall(calls[c], outcome, attempts)],
         UNCHANGED <<members, tables, locked, server>>
  PROVE  ChatInv'
<1>. DEFINE new == FailingCall(calls[c], outcome, attempts)
<1>1. calls[c] \in Call /\ Sound(messages, calls[c]) /\ locked # c
  BY CallTyped DEF Locking
<1>2. /\ new \in Call /\ new.at = "failing" /\ new.reply = calls[c].reply
      /\ new.message = calls[c].message /\ UserMessage(new) = UserMessage(calls[c])
      /\ new.outcome = outcome /\ new.attempts # 0
  <2>1. new \in Call
    BY <1>1, FailingTyped
  <2>. QED BY <1>1, <2>1 DEF FailingCall, Call, UserMessage
<1>3. Sound(messages, new)
  BY <1>1, <1>2 DEF Sound, ReadHolds, Writing, Writes, Owns
<1>4. LockMoves(c, new) /\ calls' = [calls EXCEPT ![c] = new]
  BY <1>1, <1>2 DEF LockMoves, Locking
<1>5. calls[c].at \in Writing
  BY DEF Writing
<1>. HIDE DEF new
<1>. QED BY <1>2, <1>3, <1>4, <1>5, QuietStep

\* A call ends the reply that it writes.
LEMMA EndsReplyStep ==
  ASSUME ChatInv, NEW c \in Calls, calls[c] # None, calls[c].at \in Writing,
         UpdatesStreaming(calls[c].reply), NEW state \in Terminal,
         EndReply(calls[c].reply, state),
         NEW new \in Call, calls' = [calls EXCEPT ![c] = new],
         new.reply = calls[c].reply, new.message = calls[c].message,
         UserMessage(new) = UserMessage(calls[c]),
         \/ new.at = "over"
         \/ new.at = "answered" /\ state = "completed"
         \/ new.at = "failing" /\ new.outcome \in Terminal /\ new.attempts # 0,
         UNCHANGED <<members, conversation, locked, server>>
  PROVE  ChatInv'
<1>. DEFINE i == calls[c].reply
<1>1. /\ calls[c] \in Call /\ Sound(messages, calls[c]) /\ locked # c
      /\ TablesFit(messages, modelRuns) /\ messages \in Seq(Message)
  BY CallTyped DEF Locking, Writing
<1>2. Writes(messages, calls[c])
  BY <1>1 DEF Sound
<1>3. /\ i \in DOMAIN messages /\ messages[i].state = "streaming"
      /\ messages[i].replyTo = calls[c].message /\ calls[c].message \in DOMAIN messages
      /\ messages[i].replyTo # 0
  BY <1>1, <1>2 DEF Writes, Owns, UpdatesStreaming
<1>4. messages' = EndedRow(messages, i, state) /\ modelRuns' = EndedRun(modelRuns, i, state)
  BY DEF EndReply, WithRun, EndedRow, EndedRun
<1>5. /\ TablesFit(messages', modelRuns')
      /\ RowsKept(messages, messages') /\ KeysSame(messages, messages')
      /\ messages'[i].state = state
      /\ \A j \in DOMAIN messages \ {i} : messages'[j] = messages[j]
  <2>. HIDE DEF i
  <2>. QED BY <1>1, <1>3, <1>4, ReplyRowEnded
<1>6. /\ i \in DOMAIN messages' /\ messages'[i].replyTo = calls[c].message
      /\ calls[c].message \in DOMAIN messages'
      /\ messages'[calls[c].message] = UserMessage(new)
  BY <1>2, <1>3, <1>5 DEF RowsKept, Writes, Owns, UserMessage
<1>7. Sound(messages', new)
  BY <1>6, <1>5 DEF Sound, ReadHolds, Writing, Writes, Owns, Answered
<1>8. LockMoves(c, new)
  BY <1>1 DEF LockMoves, Locking
<1>9. ASSUME NEW d \in Calls \ {c} PROVE Spares(d, new)
  <2>1. CASE calls[d] = None
    BY <2>1 DEF Spares
  <2>2. CASE calls[d] # None
    <3>1. calls[d].at \in Writing => calls[d].reply # i
      BY <2>2 DEF ChatInv, OneWriter
    <3>2. Sound(messages, calls[d])
      BY <2>2, CallTyped
    <3>3. calls[d].at \in {"streaming", "completing"} =>
            calls[d].reply \in DOMAIN messages \ {i} /\ messages[calls[d].reply].state = "streaming"
      BY <3>1, <3>2 DEF Sound, Writing, Writes
    <3>. QED BY <3>1, <3>3, <1>5 DEF Spares
  <2>. QED BY <2>1, <2>2
<1>. HIDE DEF i
<1>. QED BY <1>5, <1>7, <1>8, <1>9, TableStep

-----------------------------------------------------------------------------
(* Each step keeps the invariant *)

LEMMA NewCallTyped ==
  ASSUME NEW u \in Users, NEW k \in ClientMessageIds, NEW x \in Contents
  PROVE  NewCall(u, k, x) \in Call
BY ResetsTyped DEF NewCall, Call, Stages

LEMMA ChatKeeps ==
  ASSUME ChatInv, NEW c \in Calls, NEW u \in Users, NEW k \in ClientMessageIds,
         NEW x \in Contents, Chat(c, u, k, x)
  PROVE  ChatInv'
<1>. DEFINE new == NewCall(u, k, x)
<1>1. new \in Call /\ new.at = "append"
  BY NewCallTyped DEF NewCall
<1>2. calls[c] = None /\ locked # c /\ calls' = [calls EXCEPT ![c] = new]
      /\ UNCHANGED <<members, tables, locked, server>>
  BY DEF Chat, ChatInv, LockHolder
<1>. HIDE DEF new
<1>3. LockMoves(c, new) /\ Sound(messages, new)
  BY <1>1, <1>2 DEF LockMoves, Locking, Sound, ReadHolds, Writing
<1>. QED BY <1>1, <1>2, <1>3, QuietStep DEF Writing

\* A call whose remembered ids stay and that reaches another stage.
Moved(call, at, read) == [call EXCEPT !.at = at, !.read = read]

LEMMA MovedTyped ==
  ASSUME NEW call \in Call, NEW at \in Stages, NEW read \in [sequence : Nat, existing : Nat]
  PROVE  /\ Moved(call, at, read) \in Call
         /\ Moved(call, at, read).at = at /\ Moved(call, at, read).read = read
         /\ Moved(call, at, read).message = call.message
         /\ Moved(call, at, read).clientId = call.clientId
         /\ UserMessage(Moved(call, at, read)) = UserMessage(call)
<1>. DEFINE c1 == [call EXCEPT !.at = at]
<1>1. c1 \in Call
  BY DEF Call
<1>2. [c1 EXCEPT !.read = read] \in Call
  <2>. HIDE DEF c1
  <2>. QED BY <1>1 DEF Call
<1>3. Moved(call, at, read) \in Call
  BY <1>2 DEF Moved
<1>. QED BY <1>3 DEF Moved, Call, UserMessage

LEMMA LockToAppendKeeps ==
  ASSUME ChatInv, NEW c \in Calls, LockToAppend(c)
  PROVE  ChatInv'
<1>. DEFINE read == [sequence |-> Len(messages) + 1,
                     existing |-> ByClientId(messages, calls[c].clientId)]
            new == Moved(calls[c], "appending", read)
<1>1. calls[c] # None /\ locked = None /\ locked' = c
      /\ UNCHANGED <<members, tables, server>>
  BY DEF LockToAppend, At, Lock
<1>2. calls' = [calls EXCEPT ![c] = new]
  BY DEF LockToAppend, NextMessageSequence, FindMessageByClientId, ByClientId, Moved
<1>3. calls[c] \in Call /\ messages \in Seq(Message)
  BY <1>1, CallTyped
<1>4. read \in [sequence : Nat, existing : Nat] /\ "appending" \in Stages
  BY <1>3, LookupsTyped DEF Stages
<1>5. new \in Call /\ new.at = "appending" /\ new.read = read
      /\ new.clientId = calls[c].clientId
  <2>. HIDE DEF read
  <2>. QED BY <1>3, <1>4, MovedTyped
<1>6. Sound(messages, new)
  <2>. HIDE DEF new
  <2>. QED BY <1>5 DEF Sound, ReadHolds, Writing
<1>7. LockMoves(c, new)
  BY <1>1, <1>5 DEF LockMoves, Locking
<1>. HIDE DEF new
<1>. QED BY <1>1, <1>2, <1>5, <1>6, <1>7, QuietStep DEF Writing

LEMMA LockToReplyKeeps ==
  ASSUME ChatInv, NEW c \in Calls, LockToReply(c)
  PROVE  ChatInv'
<1>. DEFINE read == [sequence |-> Len(messages) + 1,
                     existing |-> ByReplyTo(messages, calls[c].message)]
            new == Moved(calls[c], "replying", read)
<1>1. calls[c] # None /\ calls[c].at = "reply" /\ locked = None /\ locked' = c
      /\ UNCHANGED <<members, tables, server>>
  BY DEF LockToReply, At, Lock
<1>2. calls' = [calls EXCEPT ![c] = new]
  BY DEF LockToReply, NextMessageSequence, FindAssistantReply, ByReplyTo, Moved
<1>3. calls[c] \in Call /\ messages \in Seq(Message) /\ Owns(messages, calls[c])
  BY <1>1, CallTyped DEF Sound
<1>4. read \in [sequence : Nat, existing : Nat] /\ "replying" \in Stages
  BY <1>3, LookupsTyped DEF Stages
<1>5. new \in Call /\ new.at = "replying" /\ new.read = read
      /\ new.message = calls[c].message /\ UserMessage(new) = UserMessage(calls[c])
  <2>. HIDE DEF read
  <2>. QED BY <1>3, <1>4, MovedTyped
<1>6. Sound(messages, new)
  <2>. HIDE DEF new
  <2>. QED BY <1>3, <1>5 DEF Sound, ReadHolds, Writing, Owns
<1>7. LockMoves(c, new)
  BY <1>1, <1>5 DEF LockMoves, Locking
<1>. HIDE DEF new
<1>. QED BY <1>1, <1>2, <1>5, <1>6, <1>7, QuietStep DEF Writing

LEMMA BeginReplyKeeps ==
  ASSUME ChatInv, NEW c \in Calls, BeginReply(c)
  PROVE  ChatInv'
<1>. DEFINE new == [calls[c] EXCEPT !.at = "reply"]
<1>1. calls[c] # None /\ calls[c].at = "persisted" /\ calls' = [calls EXCEPT ![c] = new]
      /\ UNCHANGED <<members, tables, locked, server>>
  BY DEF BeginReply, At
<1>2. calls[c] \in Call /\ Owns(messages, calls[c]) /\ locked # c
  BY <1>1, CallTyped DEF Sound, Locking
<1>3. new \in Call /\ new.at = "reply" /\ new.message = calls[c].message
      /\ UserMessage(new) = UserMessage(calls[c])
  BY <1>2 DEF Call, Stages, UserMessage
<1>. HIDE DEF new
<1>4. LockMoves(c, new)
  BY <1>1, <1>2, <1>3 DEF LockMoves, Locking
<1>5. Sound(messages, new)
  BY <1>2, <1>3 DEF Sound, ReadHolds, Writing, Owns
<1>. QED BY <1>1, <1>3, <1>4, <1>5, QuietStep DEF Writing

LEMMA AppendUserMessageKeeps ==
  ASSUME ChatInv, NEW c \in Calls, AppendUserMessage(c)
  PROVE  ChatInv'
<1>. DEFINE existing == calls[c].read.existing
            answered(i) == [calls[c] EXCEPT !.at = "persisted", !.read = NothingRead,
                                            !.message = i]
<1>1. /\ calls[c] # None /\ calls[c].at = "appending" /\ locked' = None
      /\ UNCHANGED <<members, conversation, modelRuns, server>>
  BY DEF AppendUserMessage, At, Unlock
<1>2. /\ calls[c] \in Call /\ locked = c /\ messages \in Seq(Message)
      /\ TablesFit(messages, modelRuns)
      /\ calls[c].read = [sequence |-> Len(messages) + 1,
                          existing |-> ByClientId(messages, calls[c].clientId)]
  BY <1>1, CallTyped DEF Sound, ReadHolds, Locking
<1>3. ASSUME NEW i \in Nat
      PROVE  /\ answered(i) \in Call /\ answered(i).at = "persisted"
             /\ answered(i).message = i /\ UserMessage(answered(i)) = UserMessage(calls[c])
  <2>. DEFINE c1 == Moved(calls[c], "persisted", NothingRead)
  <2>1. c1 \in Call
    BY <1>2, ResetsTyped, MovedTyped DEF Stages
  <2>2. [c1 EXCEPT !.message = i] \in Call
    <3>. HIDE DEF c1
    <3>. QED BY <2>1 DEF Call
  <2>3. answered(i) \in Call
    BY <2>2 DEF Moved
  <2>. QED BY <1>2, <2>3 DEF Call, UserMessage
<1>4. ASSUME NEW i \in Nat PROVE LockMoves(c, answered(i))
  BY <1>1, <1>2, <1>3 DEF LockMoves, Locking
<1>5. CASE /\ existing # 0 /\ messages[existing] = UserMessage(calls[c])
           /\ calls' = [calls EXCEPT ![c] = answered(existing)] /\ UNCHANGED messages
  <2>1. existing \in DOMAIN messages /\ existing \in Nat
    <3>1. existing \in {i \in DOMAIN messages : messages[i].clientId = calls[c].clientId}
      BY <1>2, <1>5, FoundIsThere DEF ByClientId
    <3>. QED BY <3>1, <1>2
  <2>2. Sound(messages, answered(existing))
    <3>. HIDE DEF answered
    <3>. QED BY <1>3, <1>5, <2>1 DEF Sound, ReadHolds, Writing, Owns
  <2>. HIDE DEF answered, existing
  <2>. QED BY <1>1, <1>3, <1>4, <1>5, <2>1, <2>2, QuietStep DEF Writing, tables
<1>6. CASE /\ messages' = Append(messages, UserMessage(calls[c]))
           /\ calls' = [calls EXCEPT ![c] = answered(Len(messages) + 1)]
  <2>. DEFINE new == answered(Len(messages) + 1)
  <2>1. /\ RowsKept(messages, messages') /\ TablesFit(messages', modelRuns')
        /\ Len(messages) + 1 \in DOMAIN messages' /\ Len(messages) + 1 \in Nat
        /\ messages'[Len(messages) + 1] = UserMessage(calls[c])
        /\ \A j \in DOMAIN messages : messages'[j] = messages[j]
    BY <1>1, <1>2, <1>6, AppendedRow, RowsTyped, UserRowAppended
  <2>2. /\ new \in Call /\ new.at = "persisted" /\ LockMoves(c, new)
        /\ new.message = Len(messages) + 1 /\ UserMessage(new) = UserMessage(calls[c])
    BY <1>3, <1>4, <2>1
  <2>. HIDE DEF answered, new
  <2>3. Sound(messages', new)
    BY <2>1, <2>2 DEF Sound, ReadHolds, Writing, Owns
  <2>4. ASSUME NEW d \in Calls \ {c} PROVE Spares(d, new)
    BY <2>1, <2>2 DEF ChatInv, CallsSound, Sound, Writes, Writing, Spares
  <2>5. calls' = [calls EXCEPT ![c] = new]
    BY <1>6 DEF new
  <2>. QED BY <1>1, <1>2, <2>1, <2>2, <2>3, <2>4, <2>5, TableStep
<1>7. \/ /\ existing # 0 /\ messages[existing] = UserMessage(calls[c])
         /\ calls' = [calls EXCEPT ![c] = answered(existing)] /\ UNCHANGED messages
      \/ /\ messages' = Append(messages, UserMessage(calls[c]))
         /\ calls' = [calls EXCEPT ![c] = answered(Len(messages) + 1)]
  <2>1. calls[c].read.sequence = Len(messages) + 1
    BY <1>2
  <2>2. ASSUME NEW i, calls' = [calls EXCEPT ![c].at = "persisted", ![c].read = NothingRead,
                                             ![c].message = i]
        PROVE  calls' = [calls EXCEPT ![c] = answered(i)]
    BY <2>2
  <2>. HIDE DEF answered
  <2>. QED BY <2>1, <2>2 DEF AppendUserMessage
<1>. QED BY <1>5, <1>6, <1>7

LEMMA OpenReplyKeeps ==
  ASSUME ChatInv, NEW c \in Calls, OpenReply(c)
  PROVE  ChatInv'
<1>. DEFINE n == Len(messages) + 1
            new == [calls[c] EXCEPT !.at = "streaming", !.read = NothingRead, !.reply = n]
<1>1. /\ calls[c] # None /\ calls[c].at = "replying" /\ locked' = None
      /\ UNCHANGED <<members, conversation, server>>
  BY DEF OpenReply, At, Unlock
<1>2. /\ calls[c] \in Call /\ locked = c /\ messages \in Seq(Message)
      /\ TablesFit(messages, modelRuns) /\ Owns(messages, calls[c])
      /\ calls[c].read.sequence = n
  <2>1. calls[c].read = [sequence |-> n, existing |-> ByReplyTo(messages, calls[c].message)]
    BY <1>1, CallTyped DEF Sound, ReadHolds
  <2>. QED BY <1>1, <2>1, CallTyped DEF Sound, Locking
<1>3. /\ messages' = Append(messages, AssistantMessage(calls[c].message))
      /\ modelRuns' = [j \in DOMAIN modelRuns \cup {n} |->
                         IF j = n THEN RunStatus("streaming") ELSE modelRuns[j]]
      /\ calls' = [calls EXCEPT ![c] = new]
  BY <1>2 DEF OpenReply, WithRun
<1>4. /\ calls[c].message \in DOMAIN messages /\ calls[c].message \in Nat
      /\ messages[calls[c].message] = UserMessage(calls[c])
      /\ messages[calls[c].message].replyTo = 0
  BY <1>2 DEF Owns, UserMessage
<1>5. TablesFit(messages', modelRuns')
  BY <1>2, <1>3, <1>4, ReplyRowAppended
<1>6. /\ RowsKept(messages, messages') /\ n \in DOMAIN messages' /\ n \in Nat
      /\ n \notin DOMAIN messages
      /\ messages'[n] = AssistantMessage(calls[c].message)
      /\ \A j \in DOMAIN messages : j \in DOMAIN messages' /\ messages'[j] = messages[j]
  BY <1>2, <1>3, <1>4, AppendedRow, RowsTyped
<1>7. /\ new \in Call /\ new.at = "streaming" /\ new.reply = n
      /\ new.message = calls[c].message /\ UserMessage(new) = UserMessage(calls[c])
  <2>. DEFINE c1 == Moved(calls[c], "streaming", NothingRead)
  <2>1. c1 \in Call
    BY <1>2, ResetsTyped, MovedTyped DEF Stages
  <2>2. [c1 EXCEPT !.reply = n] \in Call
    <3>. HIDE DEF c1, n
    <3>. QED BY <1>6, <2>1 DEF Call
  <2>3. new \in Call
    BY <2>2 DEF Moved
  <2>. HIDE DEF n
  <2>. QED BY <1>2, <2>3 DEF Call, UserMessage
<1>. HIDE DEF new, n
<1>8. Sound(messages', new)
  BY <1>4, <1>6, <1>7
     DEF Sound, ReadHolds, Writing, Writes, Owns, AssistantMessage
<1>9. ASSUME NEW d \in Calls \ {c} PROVE Spares(d, new)
  BY <1>6, <1>7 DEF ChatInv, CallsSound, Sound, Writes, Writing, Spares
<1>10. LockMoves(c, new)
  BY <1>1, <1>2, <1>7 DEF LockMoves, Locking
<1>. QED BY <1>1, <1>2, <1>3, <1>5, <1>6, <1>7, <1>8, <1>9, <1>10, TableStep

LEMMA ReplayReplyKeeps ==
  ASSUME ChatInv, NEW c \in Calls, ReplayReply(c)
  PROVE  ChatInv'
<1>. DEFINE existing == calls[c].read.existing
            over == EndedCall(calls[c], "over")
            done == EndedCall(calls[c], "answered")
            answered == [done EXCEPT !.reply = existing]
<1>1. /\ calls[c] # None /\ calls[c].at = "replying" /\ locked' = None
      /\ existing # 0 /\ UNCHANGED <<members, tables, server>>
      /\ calls' = [calls EXCEPT ![c] = IF Replays(existing) THEN answered ELSE over]
  BY DEF ReplayReply, At, Unlock
<1>2. /\ calls[c] \in Call /\ locked = c /\ messages \in Seq(Message)
      /\ Owns(messages, calls[c]) /\ existing = ByReplyTo(messages, calls[c].message)
  <2>1. calls[c].read = [sequence |-> Len(messages) + 1,
                         existing |-> ByReplyTo(messages, calls[c].message)]
    BY <1>1, CallTyped DEF Sound, ReadHolds
  <2>. QED BY <1>1, <2>1, CallTyped DEF Sound, Locking
<1>3. existing \in DOMAIN messages /\ existing \in Nat
      /\ messages[existing].replyTo = calls[c].message
  <2>1. existing \in {j \in DOMAIN messages : messages[j].replyTo = calls[c].message}
    BY <1>1, <1>2, FoundIsThere DEF ByReplyTo
  <2>. QED BY <1>2, <2>1
<1>4. CASE ~Replays(existing)
  <2>. HIDE DEF existing
  <2>. QED BY <1>1, <1>2, <1>4, EndStep DEF End
<1>5. CASE Replays(existing)
  <2>1. answered \in Call /\ answered.at = "answered" /\ answered.reply = existing
        /\ UserMessage(answered) = UserMessage(calls[c])
    <3>1. done \in Call /\ done.at = "answered" /\ UserMessage(done) = UserMessage(calls[c])
      BY <1>2, EndedTyped
    <3>. HIDE DEF done, existing
    <3>. QED BY <1>3, <3>1 DEF Call, UserMessage
  <2>. HIDE DEF answered
  <2>2. Answered(messages, answered)
    BY <1>2, <1>3, <1>5, <2>1 DEF Answered, Owns, Replays
  <2>3. Sound(messages, answered)
    BY <2>1, <2>2 DEF Sound, ReadHolds, Writing
  <2>4. LockMoves(c, answered)
    BY <1>1, <1>2, <2>1 DEF LockMoves, Locking
  <2>5. calls' = [calls EXCEPT ![c] = answered]
    BY <1>1, <1>5
  <2>. QED BY <1>1, <2>1, <2>3, <2>4, <2>5, QuietStep DEF Writing
<1>. QED BY <1>4, <1>5

\* A call that goes on writing its reply.
LEMMA WritingStep ==
  ASSUME ChatInv, NEW c \in Calls, calls[c] # None, calls[c].at = "streaming",
         NEW new \in Call, calls' = [calls EXCEPT ![c] = new],
         new.at \in {"streaming", "completing"}, new.reply = calls[c].reply,
         new.message = calls[c].message, UserMessage(new) = UserMessage(calls[c]),
         UNCHANGED <<members, tables, locked, server>>
  PROVE  ChatInv'
<1>1. Sound(messages, calls[c]) /\ locked # c
  BY CallTyped DEF Locking
<1>2. Sound(messages, new)
  BY <1>1 DEF Sound, ReadHolds, Writing, Writes, Owns
<1>3. LockMoves(c, new)
  BY <1>1 DEF LockMoves, Locking
<1>4. calls[c].at \in Writing
  BY DEF Writing
<1>. QED BY <1>2, <1>3, <1>4, QuietStep

LEMMA ConsumeModelEventKeeps ==
  ASSUME ChatInv, NEW c \in Calls, ConsumeModelEvent(c)
  PROVE  ChatInv'
<1>1. /\ calls[c] # None /\ calls[c].at = "streaming"
      /\ UNCHANGED <<members, tables, locked, server>>
  BY DEF ConsumeModelEvent, At
<1>2. PICK next \in Consumed(calls[c].stream) : calls' = [calls EXCEPT ![c].stream = next]
  BY DEF ConsumeModelEvent
<1>3. calls[c] \in Call /\ calls[c].stream \in Stream
  BY <1>1, CallTyped DEF Call
<1>4. next \in Stream
  BY <1>3 DEF Consumed, Stream
<1>. DEFINE new == [calls[c] EXCEPT !.stream = next]
<1>5. /\ new \in Call /\ new.at = "streaming" /\ new.reply = calls[c].reply
      /\ new.message = calls[c].message /\ UserMessage(new) = UserMessage(calls[c])
  BY <1>1, <1>3, <1>4 DEF Call, UserMessage
<1>6. calls' = [calls EXCEPT ![c] = new]
  BY <1>2
<1>. HIDE DEF new
<1>. QED BY <1>1, <1>5, <1>6, WritingStep

LEMMA StreamEndsKeeps ==
  ASSUME ChatInv, NEW c \in Calls, StreamEnds(c) \/ StreamFails(c)
  PROVE  ChatInv'
<1>1. /\ calls[c] # None /\ calls[c].at = "streaming"
      /\ UNCHANGED <<members, tables, locked, server>>
  BY DEF StreamEnds, StreamFails, At
<1>2. ASSUME NEW outcome \in {"interrupted", "failed"}, Catch(c, outcome)
      PROVE  ChatInv'
  <2>1. outcome \in Terminal /\ calls' = [calls EXCEPT ![c] = FailingCall(calls[c], outcome, 2)]
    BY <1>2 DEF Terminal, Catch
  <2>2. 2 \in 1..2
    OBVIOUS
  <2>. QED BY <1>1, <2>1, <2>2, FailingStep
<1>. DEFINE new == [calls[c] EXCEPT !.at = "completing", !.stream = NoStream]
<1>3. CASE calls' = [calls EXCEPT ![c] = new]
  <2>1. /\ new \in Call /\ new.at = "completing" /\ new.reply = calls[c].reply
        /\ new.message = calls[c].message /\ UserMessage(new) = UserMessage(calls[c])
    <3>. DEFINE c1 == [calls[c] EXCEPT !.at = "completing"]
    <3>1. c1 \in Call /\ calls[c] \in Call
      BY <1>1, CallTyped DEF Call, Stages
    <3>2. [c1 EXCEPT !.stream = NoStream] \in Call
      <4>. HIDE DEF c1
      <4>. QED BY <3>1, ResetsTyped DEF Call
    <3>3. new \in Call
      BY <3>2
    <3>. QED BY <3>1, <3>3 DEF Call, UserMessage
  <2>. HIDE DEF new
  <2>. QED BY <1>1, <1>3, <2>1, WritingStep
<1>4. \/ \E outcome \in {"interrupted", "failed"} : Catch(c, outcome)
      \/ calls' = [calls EXCEPT ![c] = new]
  BY DEF StreamEnds, StreamFails
<1>. QED BY <1>2, <1>3, <1>4

LEMMA CompleteReplyKeeps ==
  ASSUME ChatInv, NEW c \in Calls, CompleteReply(c)
  PROVE  ChatInv'
<1>1. /\ calls[c] # None /\ calls[c].at \in Writing /\ "completed" \in Terminal
      /\ UpdatesStreaming(calls[c].reply) /\ EndReply(calls[c].reply, "completed")
      /\ calls' = [calls EXCEPT ![c] = EndedCall(calls[c], "answered")]
      /\ UNCHANGED <<members, conversation, locked, server>>
  BY DEF CompleteReply, At, Writing, Terminal, End
<1>2. calls[c] \in Call
  BY <1>1, CallTyped
<1>. QED BY <1>1, <1>2, EndedTyped, EndsReplyStep

LEMMA CompleteUnacknowledgedKeeps ==
  ASSUME ChatInv, NEW c \in Calls, CompleteUnacknowledged(c)
  PROVE  ChatInv'
<1>. DEFINE new == FailingCall(calls[c], "failed", 2)
<1>1. /\ calls[c] # None /\ calls[c].at \in Writing
      /\ "completed" \in Terminal /\ "failed" \in Terminal
      /\ UpdatesStreaming(calls[c].reply) /\ EndReply(calls[c].reply, "completed")
      /\ calls' = [calls EXCEPT ![c] = new]
      /\ UNCHANGED <<members, conversation, locked, server>>
  BY DEF CompleteUnacknowledged, At, Writing, Terminal, Catch
<1>2. calls[c] \in Call
  BY <1>1, CallTyped
<1>3. /\ new \in Call /\ new.at = "failing" /\ new.outcome \in Terminal /\ new.attempts # 0
      /\ new.reply = calls[c].reply /\ new.message = calls[c].message
      /\ UserMessage(new) = UserMessage(calls[c])
  <2>1. new \in Call
    BY <1>1, <1>2, FailingTyped
  <2>. QED BY <1>1, <1>2, <2>1 DEF FailingCall, Call, UserMessage
<1>. HIDE DEF new
<1>. QED BY <1>1, <1>3, EndsReplyStep

LEMMA NextAttemptKeeps ==
  ASSUME ChatInv, NEW c \in Calls, calls[c] # None, calls[c].at = "failing",
         NEW last \in {"over", "lost"}, NextAttempt(c, last),
         UNCHANGED <<members, tables, locked, server>>
  PROVE  ChatInv'
<1>1. calls[c] \in Call /\ Sound(messages, calls[c]) /\ locked # c
  BY CallTyped DEF Locking
<1>2. CASE calls[c].attempts = 1
  BY <1>1, <1>2, EndStep DEF NextAttempt
<1>3. CASE calls[c].attempts # 1
  <2>. DEFINE new == [calls[c] EXCEPT !.attempts = @ - 1]
  <2>1. calls[c].attempts = 2
    BY <1>1, <1>3 DEF Sound, Call
  <2>2. /\ new \in Call /\ new.at = "failing" /\ new.attempts = 1
        /\ new.outcome = calls[c].outcome
        /\ new.reply = calls[c].reply /\ new.message = calls[c].message
        /\ UserMessage(new) = UserMessage(calls[c])
    BY <1>1, <2>1 DEF Call, UserMessage
  <2>3. calls' = [calls EXCEPT ![c] = new]
    BY <1>3 DEF NextAttempt
  <2>. HIDE DEF new
  <2>4. Sound(messages, new)
    BY <1>1, <2>2 DEF Sound, ReadHolds, Writing, Writes, Owns
  <2>5. LockMoves(c, new)
    BY <1>1, <2>2 DEF LockMoves, Locking
  <2>. QED BY <2>2, <2>3, <2>4, <2>5, QuietStep DEF Writing
<1>. QED BY <1>2, <1>3

LEMMA FinishFailedStreamKeeps ==
  ASSUME ChatInv, NEW c \in Calls, FinishFailedStream(c)
  PROVE  ChatInv'
<1>1. calls[c] # None /\ calls[c].at = "failing"
      /\ UNCHANGED <<members, conversation, locked, server>>
  BY DEF FinishFailedStream, At
<1>2. calls[c] \in Call /\ calls[c].outcome \in Terminal /\ calls[c].at \in Writing
  BY <1>1, CallTyped DEF Sound, Writing
<1>3. CASE /\ UpdatesStreaming(calls[c].reply)
           /\ EndReply(calls[c].reply, calls[c].outcome)
           /\ End(c, "over")
  <2>1. calls' = [calls EXCEPT ![c] = EndedCall(calls[c], "over")]
    BY <1>3 DEF End
  <2>. QED BY <1>1, <1>2, <1>3, <2>1, EndedTyped, EndsReplyStep
<1>4. CASE NextAttempt(c, "over") /\ UNCHANGED <<messages, modelRuns>>
  BY <1>1, <1>4, NextAttemptKeeps DEF tables
<1>. QED BY <1>3, <1>4 DEF FinishFailedStream

LEMMA DatabaseFailsKeeps ==
  ASSUME ChatInv, NEW c \in Calls, DatabaseFails(c)
  PROVE  ChatInv'
<1>1. UNCHANGED <<members, tables, locked, server>>
  BY DEF DatabaseFails
<1>2. CASE At(c, "completing") /\ Catch(c, "failed")
  <2>1. calls[c] # None /\ calls[c].at = "completing" /\ "failed" \in Terminal
        /\ calls' = [calls EXCEPT ![c] = FailingCall(calls[c], "failed", 2)]
    BY <1>2 DEF At, Terminal, Catch
  <2>2. 2 \in 1..2
    OBVIOUS
  <2>. QED BY <1>1, <2>1, <2>2, FailingStep
<1>3. CASE At(c, "failing") /\ NextAttempt(c, "lost")
  BY <1>1, <1>3, NextAttemptKeeps DEF At
<1>. QED BY <1>2, <1>3 DEF DatabaseFails

LEMMA DisconnectKeeps ==
  ASSUME ChatInv, NEW c \in Calls, Disconnect(c)
  PROVE  ChatInv'
<1>1. UNCHANGED <<members, tables, locked, server>>
  BY DEF Disconnect
<1>2. CASE At(c, "persisted") /\ End(c, "over")
  <2>1. calls[c] # None /\ calls[c].at = "persisted"
    BY <1>2 DEF At
  <2>2. locked # c
    BY <2>1, CallTyped DEF Locking
  <2>. QED BY <1>1, <1>2, <2>1, <2>2, EndStep
<1>3. CASE At(c, "streaming") /\ Finally(c, "interrupted")
  <2>1. calls[c] # None /\ calls[c].at = "streaming" /\ "interrupted" \in Terminal
        /\ calls' = [calls EXCEPT ![c] = FailingCall(calls[c], "interrupted", 1)]
    BY <1>3 DEF At, Terminal, Finally
  <2>2. 1 \in 1..2
    OBVIOUS
  <2>. QED BY <1>1, <2>1, <2>2, FailingStep
<1>. QED BY <1>2, <1>3 DEF Disconnect

LEMMA RefuseKeeps ==
  ASSUME ChatInv, NEW c \in Calls, Refuse(c)
  PROVE  ChatInv'
<1>1. calls[c] # None
  BY DEF Refuse, At
<1>. QED BY <1>1, EndStep DEF Refuse

LEMMA RestartKeeps ==
  ASSUME ChatInv, Restart
  PROVE  ChatInv'
<1>1. /\ calls' = [c \in Calls |-> IF Active(c) THEN EndedCall(calls[c], "lost") ELSE calls[c]]
      /\ locked' = None /\ server' = "serving" /\ UNCHANGED <<members, tables>>
  BY DEF Restart
<1>2. ASSUME NEW c \in Calls, calls'[c] # None
      PROVE  calls'[c] \in Call /\ Sound(messages', calls'[c]) /\ calls'[c].at \in Ended
  <2>1. calls[c] # None
    BY <1>1, <1>2 DEF Active
  <2>2. calls[c] \in Call /\ Sound(messages, calls[c]) /\ messages' = messages
    BY <1>1, <2>1, CallTyped DEF tables
  <2>3. CASE Active(c)
    BY <1>1, <2>2, <2>3, EndedSound, EndedTyped DEF Ended
  <2>4. CASE ~Active(c)
    BY <1>1, <2>1, <2>2, <2>4 DEF Active
  <2>. QED BY <2>3, <2>4
<1>3. CallsSound' /\ OneWriter' /\ calls' \in [Calls -> Call \cup {None}]
  BY <1>1, <1>2 DEF CallsSound, OneWriter, Ended, Writing
<1>4. LockHolder'
  BY <1>1, <1>2, ChatAssumption DEF LockHolder, Ended, Locking
<1>5. Typed' /\ TablesFit(messages', modelRuns')
  BY <1>1, <1>3, TypeParts DEF ChatInv, Typed, members, tables
<1>. QED BY <1>3, <1>4, <1>5, TypePartsNext DEF ChatInv

\* Calls and rows stay.
LEMMA OutsideKeeps ==
  ASSUME ChatInv, UNCHANGED <<messages, modelRuns, locked, calls>>,
         role' \in [Users -> Roles \cup {None}] /\ archived' \in BOOLEAN,
         conversation' \in {"active", "archived"},
         server' \in {"serving", "stopping", "closed"}
  PROVE  ChatInv'
<1>1. LockHolder' /\ CallsSound' /\ OneWriter'
  BY DEF ChatInv, LockHolder, CallsSound, OneWriter
<1>2. Typed' /\ TablesFit(messages', modelRuns')
  BY TypeParts DEF ChatInv, Typed
<1>. QED BY <1>1, <1>2, TypePartsNext DEF ChatInv

-----------------------------------------------------------------------------
LEMMA ChatInit == Init => ChatInv
<1>. SUFFICES ASSUME Init PROVE ChatInv
  OBVIOUS
<1>1. \A c \in Calls : calls[c] = None
  BY DEF Init
<1>2. LockHolder /\ CallsSound /\ OneWriter
  BY <1>1, ChatAssumption DEF LockHolder, CallsSound, OneWriter, Init
<1>3. Typed
  BY DEF Init, MembershipInit, Typed, Roles
<1>4. TablesFit(messages, modelRuns)
  <2>1. messages = <<>> /\ DOMAIN messages = {} /\ messages \in Seq(Message)
    BY DEF Init
  <2>. QED BY <2>1 DEF Init, TablesFit
<1>. QED BY <1>2, <1>3, <1>4, TypeParts DEF ChatInv

LEMMA ChatNext == ChatInv /\ [Next]_vars => ChatInv'
<1>. SUFFICES ASSUME ChatInv, [Next]_vars PROVE ChatInv'
  OBVIOUS
<1>1. /\ role \in [Users -> Roles \cup {None}] /\ archived \in BOOLEAN
      /\ conversation \in {"active", "archived"} /\ server \in {"serving", "stopping", "closed"}
  BY DEF ChatInv, TypeOK
<1>2. CASE UNCHANGED vars
  BY <1>1, <1>2, OutsideKeeps DEF vars, members, tables
<1>3. CASE \E c \in Calls, u \in Users, k \in ClientMessageIds, x \in Contents : Chat(c, u, k, x)
  BY <1>3, ChatKeeps
<1>4. ASSUME NEW c \in Calls, Proceed(c) \/ Disconnect(c) \/ Refuse(c) PROVE ChatInv'
  BY <1>4, LockToAppendKeeps, AppendUserMessageKeeps, BeginReplyKeeps, LockToReplyKeeps,
     OpenReplyKeeps, ReplayReplyKeeps, ConsumeModelEventKeeps, StreamEndsKeeps,
     CompleteReplyKeeps, FinishFailedStreamKeeps, DatabaseFailsKeeps, DisconnectKeeps,
     RefuseKeeps DEF Proceed
<1>5. ASSUME NEW c \in Calls, CompleteUnacknowledged(c) \/ DatabaseFails(c) PROVE ChatInv'
  BY <1>5, CompleteUnacknowledgedKeeps, DatabaseFailsKeeps
<1>6. ASSUME NEW u \in Users, ArchiveConversation(u) PROVE ChatInv'
  BY <1>1, <1>6, OutsideKeeps DEF ArchiveConversation, members
<1>7. CASE Shutdown \/ ClosePool
  BY <1>1, <1>7, OutsideKeeps DEF Shutdown, ClosePool, members, tables
<1>8. CASE Restart
  BY <1>8, RestartKeeps
<1>9. CASE MembershipNext /\ UNCHANGED <<tables, locked, calls, server>>
  <2>1. role' \in [Users -> Roles \cup {None}] /\ archived' \in BOOLEAN
    BY <1>1, <1>9 DEF MembershipNext, ChangeMemberRole, AddMember, ArchiveProject
  <2>. QED BY <1>1, <1>9, <2>1, OutsideKeeps DEF tables
<1>. QED BY <1>2, <1>3, <1>4, <1>5, <1>6, <1>7, <1>8, <1>9 DEF Next, Orderly

THEOREM ChatSafe == Spec => []ChatInv
BY ChatInit, ChatNext, PTL DEF Spec

\* Rows keep their shape and their relations, whatever calls, members, failures
\* and restarts do: a reply's model run has ended exactly as the reply has.
THEOREM ChatTypeCorrect == Spec => []TypeOK
<1>1. ChatInv => TypeOK
  BY DEF ChatInv
<1>. QED BY <1>1, ChatSafe, PTL

\* The transactions of appendUserMessage and of chat insert into the state that
\* they read, so the unique indexes are never the ones to refuse a retry.
THEOREM ChatLockedReadsHold == Spec => []LockedReadsHold
<1>1. ChatInv => LockedReadsHold
  BY DEF ChatInv, CallsSound, Sound, ReadHolds, LockedReadsHold, At, NextMessageSequence,
         FindMessageByClientId, FindAssistantReply, ByClientId, ByReplyTo
<1>. QED BY <1>1, ChatSafe, PTL

\* A client that chat has sent completed finds the answer to its message stored.
THEOREM ChatAnswersAreStored == Spec => []AnswersAreStored
<1>1. ChatInv => AnswersAreStored
  BY DEF ChatInv, CallsSound, Sound, AnswersAreStored, Answered, At
<1>. QED BY <1>1, ChatSafe, PTL

-----------------------------------------------------------------------------
(* Transcript is implemented *)

Lines == {Line(row) : row \in Message}
View(rows) == [i \in DOMAIN rows |-> Line(rows[i])]

LEMMA ViewTyped ==
  ASSUME NEW rows \in Seq(Message)
  PROVE  /\ View(rows) \in Seq(Lines) /\ Len(View(rows)) = Len(rows)
         /\ DOMAIN View(rows) = DOMAIN rows
         /\ \A i \in DOMAIN rows : View(rows)[i] = Line(rows[i])
<1>1. DOMAIN rows = 1..Len(rows) /\ Len(rows) \in Nat
  OBVIOUS
<1>2. View(rows) \in [1..Len(rows) -> Lines]
  BY <1>1 DEF View, Lines
<1>3. View(rows) \in Seq(Lines)
  BY <1>1, <1>2, SeqDef
<1>4. DOMAIN View(rows) = DOMAIN rows
  BY DEF View
<1>5. Len(View(rows)) = Len(rows)
  BY <1>1, <1>3, <1>4, LenProperties
<1>. QED BY <1>3, <1>4, <1>5 DEF View

LEMMA ViewAppended ==
  ASSUME NEW rows \in Seq(Message), NEW row \in Message
  PROVE  View(Append(rows, row)) = Append(View(rows), Line(row))
<1>. DEFINE new == Append(rows, row)
            s == View(new)
            t == Append(View(rows), Line(row))
<1>1. /\ new \in Seq(Message) /\ Len(new) = Len(rows) + 1 /\ Len(rows) \in Nat
      /\ DOMAIN new = 1..(Len(rows) + 1) /\ DOMAIN rows = 1..Len(rows)
      /\ new[Len(rows) + 1] = row /\ \A j \in DOMAIN rows : new[j] = rows[j]
  BY AppendedRow
<1>2. /\ View(rows) \in Seq(Lines) /\ Len(View(rows)) = Len(rows)
      /\ \A i \in DOMAIN rows : View(rows)[i] = Line(rows[i])
      /\ s \in Seq(Lines) /\ Len(s) = Len(new)
      /\ \A i \in DOMAIN new : s[i] = Line(new[i])
  <2>. HIDE DEF new
  <2>. QED BY <1>1, ViewTyped
<1>3. Line(row) \in Lines
  BY DEF Lines
<1>. HIDE DEF new, s
<1>4. /\ t \in Seq(Lines) /\ Len(t) = Len(rows) + 1
      /\ t[Len(rows) + 1] = Line(row)
      /\ \A i \in 1..Len(rows) : t[i] = View(rows)[i]
  BY <1>1, <1>2, <1>3
<1>5. \A i \in 1..Len(s) : s[i] = t[i]
  <2>. HIDE DEF t
  <2>1. ASSUME NEW i \in 1..Len(rows) PROVE s[i] = t[i]
    <3>1. s[i] = Line(new[i]) /\ new[i] = rows[i]
      BY <1>1, <1>2
    <3>2. t[i] = Line(rows[i])
      BY <1>1, <1>2, <1>4
    <3>. QED BY <3>1, <3>2
  <2>2. s[Len(rows) + 1] = t[Len(rows) + 1]
    <3>1. s[Len(rows) + 1] = Line(new[Len(rows) + 1])
      BY <1>1, <1>2
    <3>. QED BY <1>1, <1>4, <3>1
  <2>3. \A i \in 1..Len(s) : i \in 1..Len(rows) \/ i = Len(rows) + 1
    BY <1>1, <1>2
  <2>. QED BY <2>1, <2>2, <2>3
<1>6. s = t
  <2>. HIDE DEF t
  <2>. QED BY <1>1, <1>2, <1>4, <1>5, SeqEqual
<1>. QED BY <1>6 DEF s, new

LEMMA Views == transcript = View(messages) /\ transcript' = View(messages')
BY DEF transcript, View

LEMMA SaysOnce ==
  ASSUME ChatInv, NEW c \in Calls, AppendUserMessage(c)
  PROVE  Promise!Next \/ UNCHANGED transcript
<1>1. calls[c] # None /\ calls[c].at = "appending"
  BY DEF AppendUserMessage, At
<1>2. calls[c] \in Call /\ messages \in Seq(Message)
  BY <1>1, CallTyped
<1>3. CASE UNCHANGED messages
  BY <1>3, Views
<1>4. CASE /\ FindMessageByClientId(calls[c].clientId) = 0
           /\ messages' = Append(messages, UserMessage(calls[c]))
  <2>. DEFINE k == calls[c].clientId
  <2>1. k \in ClientMessageIds /\ k # None
    BY <1>2, ChatAssumption DEF Call
  <2>2. UserMessage(calls[c]) \in Message
        /\ Line(UserMessage(calls[c])) = Promise!Said(k)
    BY <1>2, <2>1, RowsTyped DEF Line, UserMessage, Promise!Said
  <2>3. \A i \in DOMAIN messages : messages[i].clientId # k
    <3>1. {i \in DOMAIN messages : messages[i].clientId = k} \in SUBSET (Nat \ {0})
      BY <1>2
    <3>2. {i \in DOMAIN messages : messages[i].clientId = k} = {}
      BY <1>4, <3>1, FoundNone DEF FindMessageByClientId
    <3>. QED BY <3>2
  <2>4. \A i \in DOMAIN transcript : k \notin transcript[i].said
    BY <2>1, <2>3 DEF transcript, Line
  <2>5. transcript' = Append(transcript, Promise!Said(k))
    BY <1>2, <1>4, <2>2, Views, ViewAppended
  <2>. QED BY <2>1, <2>4, <2>5 DEF Promise!Next, Promise!Say
<1>. QED BY <1>3, <1>4 DEF AppendUserMessage

LEMMA AnswersOnce ==
  ASSUME ChatInv, NEW c \in Calls, OpenReply(c)
  PROVE  Promise!Next
<1>. DEFINE i == calls[c].message
<1>1. calls[c] # None /\ calls[c].at = "replying" /\ FindAssistantReply(i) = 0
      /\ messages' = Append(messages, AssistantMessage(i))
  BY DEF OpenReply, At
<1>2. calls[c] \in Call /\ messages \in Seq(Message) /\ Owns(messages, calls[c])
  BY <1>1, CallTyped DEF Sound
<1>3. i \in DOMAIN messages /\ messages[i] = UserMessage(calls[c]) /\ i \in Nat
  BY <1>2 DEF Owns
<1>. HIDE DEF i
<1>4. AssistantMessage(i) \in Message /\ Line(AssistantMessage(i)) = Promise!Answer(i)
  <2>1. AssistantMessage(i) \in Message
    BY <1>2, <1>3, RowsTyped
  <2>2. {None} \ {None} = {}
    OBVIOUS
  <2>. QED BY <2>1, <2>2 DEF Line, AssistantMessage, Promise!Answer
<1>5. i \in DOMAIN transcript /\ transcript[i].said # {}
  <2>1. calls[c].clientId # None
    BY <1>2, ChatAssumption DEF Call
  <2>2. transcript[i].said = {calls[c].clientId} \ {None}
    BY <1>3 DEF transcript, Line, UserMessage
  <2>. QED BY <1>3, <2>1, <2>2 DEF transcript
<1>6. \A j \in DOMAIN transcript : transcript[j].answers # i
  <2>1. {j \in DOMAIN messages : messages[j].replyTo = i} \in SUBSET (Nat \ {0})
    BY <1>2
  <2>2. {j \in DOMAIN messages : messages[j].replyTo = i} = {}
    BY <1>1, <2>1, FoundNone DEF FindAssistantReply
  <2>. QED BY <2>2 DEF transcript, Line
<1>7. transcript' = Append(transcript, Promise!Answer(i))
  BY <1>1, <1>2, <1>4, Views, ViewAppended
<1>. QED BY <1>5, <1>6, <1>7 DEF Promise!Next, Promise!Begin

LEMMA EndsOnce ==
  ASSUME ChatInv, NEW c \in Calls, calls[c] # None, calls[c].at \in Writing,
         NEW state \in Terminal,
         UpdatesStreaming(calls[c].reply), EndReply(calls[c].reply, state)
  PROVE  Promise!Next
<1>. DEFINE i == calls[c].reply
<1>1. i \in DOMAIN messages /\ messages \in Seq(Message)
  BY CallTyped DEF Sound, Writes
<1>2. messages[i] \in Message
  BY <1>1
<1>3. messages' = [messages EXCEPT ![i].state = state] /\ messages[i].state = "streaming"
  BY DEF EndReply, UpdatesStreaming
<1>. HIDE DEF i
<1>4. Line(messages'[i]) = [Line(messages[i]) EXCEPT !.state = state]
  <2>1. messages'[i] = [messages[i] EXCEPT !.state = state] /\ state # "streaming"
    BY <1>1, <1>3 DEF Terminal
  <2>. QED BY <1>2, <2>1 DEF Line, Message
<1>5. transcript' = [transcript EXCEPT ![i].state = state]
  <2>1. DOMAIN messages' = DOMAIN messages /\ \A j \in DOMAIN messages \ {i} : messages'[j] = messages[j]
    BY <1>3
  <2>2. \A j \in DOMAIN messages :
          Line(messages'[j]) =
            IF j = i THEN [Line(messages[j]) EXCEPT !.state = state] ELSE Line(messages[j])
    BY <1>4, <2>1
  <2>. QED BY <1>1, <2>1, <2>2 DEF transcript
<1>6. i \in DOMAIN transcript /\ transcript[i].state = "open"
  BY <1>1, <1>3 DEF transcript, Line
<1>. QED BY <1>5, <1>6 DEF Promise!Next, Promise!End, Terminal

LEMMA TranscriptStep ==
  ASSUME ChatInv, [Next]_vars
  PROVE  Promise!Next \/ UNCHANGED transcript
<1>1. CASE UNCHANGED messages
  BY <1>1, Views
<1>2. ASSUME NEW c \in Calls, Proceed(c) \/ CompleteUnacknowledged(c)
      PROVE  UNCHANGED messages \/ Promise!Next \/ UNCHANGED transcript
  <2>1. CASE LockToAppend(c) \/ BeginReply(c) \/ LockToReply(c) \/ ReplayReply(c)
             \/ ConsumeModelEvent(c) \/ StreamFails(c) \/ StreamEnds(c) \/ DatabaseFails(c)
    BY <2>1 DEF LockToAppend, BeginReply, LockToReply, ReplayReply, ConsumeModelEvent,
                StreamFails, StreamEnds, DatabaseFails, tables
  <2>2. CASE AppendUserMessage(c)
    BY <2>2, SaysOnce
  <2>3. CASE OpenReply(c)
    BY <2>3, AnswersOnce
  <2>4. CASE CompleteReply(c) \/ CompleteUnacknowledged(c)
    BY <2>4, EndsOnce DEF CompleteReply, CompleteUnacknowledged, At, Writing, Terminal
  <2>5. CASE FinishFailedStream(c)
    <3>1. calls[c] # None /\ calls[c].at = "failing" /\ calls[c].at \in Writing
      BY <2>5 DEF FinishFailedStream, At, Writing
    <3>2. calls[c].outcome \in Terminal
      BY <3>1, CallTyped DEF Sound
    <3>. QED BY <2>5, <3>1, <3>2, EndsOnce DEF FinishFailedStream
  <2>. QED BY <1>2, <2>1, <2>2, <2>3, <2>4, <2>5 DEF Proceed
<1>3. \/ UNCHANGED messages
      \/ \E c \in Calls : Proceed(c) \/ CompleteUnacknowledged(c)
  BY DEF Next, Orderly, vars, tables, Chat, Disconnect, Refuse, ArchiveConversation,
         Shutdown, ClosePool, DatabaseFails, Restart
<1>. QED BY <1>1, <1>2, <1>3

\* Readers of a conversation are kept the promise of Transcript: a message sent
\* again is recorded once and answered once, and an ended answer never changes.
THEOREM ChatKeepsTranscript == Spec => KeepsTranscript
<1>1. Init => Promise!Init
  <2>. SUFFICES ASSUME Init PROVE transcript = <<>>
    BY DEF Promise!Init
  <2>1. messages = <<>> /\ messages \in Seq(Message) /\ Len(messages) = 0
    BY DEF Init
  <2>2. View(messages) \in Seq(Lines) /\ Len(View(messages)) = 0
    BY <2>1, ViewTyped
  <2>. QED BY <2>2, EmptySeq, Views
<1>2. ChatInv /\ [Next]_vars => [Promise!Next]_transcript
  BY TranscriptStep
<1>. QED BY <1>1, <1>2, ChatSafe, PTL DEF Spec, KeepsTranscript, Promise!Spec
=============================================================================
