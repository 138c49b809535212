--------------------------- MODULE ModelProvider ---------------------------
(***************************************************************************)
(* One request of QwenVllmModelProvider: generate, which reads one JSON    *)
(* body, or stream, an async generator over server-sent events.  Both run  *)
(* under a RequestDeadline, which aborts the fetch when its timer fires or *)
(* when the caller's signal does.                                          *)
(*                                                                         *)
(* A part of a body is a number of bytes and the event that its last byte  *)
(* completes, None if none; an event may take several parts and a read may *)
(* deliver several.  What an event says is a member of WireEvents.         *)
(***************************************************************************)
EXTENDS Null, Sequences, Integers, FiniteSets

CONSTANTS
  EventLimit,     \* maximumSseEventBytes
  StreamLimit,    \* maximumSseStreamBytes
  BodyLimit,      \* maximumCompletionBodyBytes
  ContentLimit,   \* maximumContentLength
  Identities,     \* provider, model and response id, as a response names them
  OwnIdentities,  \* those this provider accepts
  WireEvents,     \* what a server may send
  Deliveries,     \* what one read may return: sequences of parts
  Completions,    \* what the body of generate may hold
  Conforming      \* lengths at which the text is JSON of the requested schema

VARIABLES
  request,   \* what was asked, None before
  at,        \* what the request awaits
  deadline,  \* its RequestDeadline
  reader,    \* the reader of the response body: "none", "open" or "released"
  wire,      \* locals of readSseData and readBoundedResponseText
  answer,    \* locals of stream
  pending,   \* the event whose parts stream still has to yield
  heard,     \* types of the events yielded so far
  ending,    \* how the request will have ended once it has cleaned up
  outcome    \* how it ended

providerVars ==
  <<request, at, deadline, reader, wire, answer, pending, heard, ending, outcome>>

-----------------------------------------------------------------------------
(* Data *)

FinishReasons == {"stop", "length", "content_filter", "tool_call"}

\* streamChunkSchema; every other data line but [DONE] is malformed, and an event
\* without a data line is a comment.
WireEvent ==
  [kind : {"chunk"}, identity : Identities \cup {None}, choice : BOOLEAN, text : Nat,
   finish : FinishReasons \cup {None}, usage : BOOLEAN]
  \cup [kind : {"done", "malformed", "comment"}]

Part == [bytes : Nat \ {0}, event : WireEvents \cup {None}]

\* completionSchema, or what does not parse as one.
Completion ==
  [identity : Identities, text : Nat \cup {None}, finish : FinishReasons]
  \cup [malformed : {TRUE}]

Codes ==
  {"AUTHENTICATION", "RATE_LIMIT", "TIMEOUT", "CONNECTION", "SERVER", "MODEL_UNAVAILABLE",
   "MALFORMED_RESPONSE", "INTERRUPTED_STREAM", "INCOMPATIBLE_CAPABILITY"}

\* ModelProviderError
ProviderError == [code : Codes, retryable : BOOLEAN]
Error(code, retryable) == [code |-> code, retryable |-> retryable]
MalformedResponse == Error("MALFORMED_RESPONSE", FALSE)
InterruptedStream == Error("INTERRUPTED_STREAM", TRUE)

Request == [op : {"generate", "stream"}, structured : BOOLEAN]

Outcome == [how : {"finished", "failed", "returned"}, error : ProviderError \cup {None}]

ASSUME ProviderAssumption ==
  /\ EventLimit \in Nat /\ StreamLimit \in Nat /\ BodyLimit \in Nat /\ ContentLimit \in Nat
  /\ OwnIdentities \subseteq Identities
  /\ WireEvents \subseteq WireEvent
  /\ Deliveries \subseteq Seq(Part)
  /\ Completions \subseteq Completion
  /\ None \notin Identities \cup FinishReasons \cup WireEvent \cup Nat \cup Request \cup Outcome

Timers == {"unset", "armed", "fired", "cleared"}
Deadline ==
  [timer : Timers, listening : BOOLEAN, timedOut : BOOLEAN, callerAborted : BOOLEAN]

Stages ==
  {"idle",        \* not asked yet
   "connecting",  \* awaits fetch
   "rejected",    \* awaits the body of an error response
   "body",        \* generate awaits a part of the body
   "reading",     \* stream awaits a part of the body
   "framing",     \* has text in its buffer to look at
   "identity",    \* has an event, and checks whose it is
   "text",        \* is to yield its text
   "usage",       \* is to yield its usage
   "paused",      \* the consumer has the event that was yielded last
   "closing",     \* cancels the reader
   "closed"}

NoBuffer == [buffer |-> <<>>, bufferBytes |-> 0, totalBytes |-> 0]
NothingSaid == [identity |-> None, finish |-> None, length |-> 0]
NoDeadline == [timer |-> "unset", listening |-> FALSE, timedOut |-> FALSE, callerAborted |-> FALSE]
Aborted == deadline.timedOut \/ deadline.callerAborted

ProviderInit ==
  /\ request = None /\ at = "idle"
  /\ deadline = NoDeadline
  /\ reader = "none" /\ wire = NoBuffer
  /\ answer = NothingSaid /\ pending = None /\ heard = <<>>
  /\ ending = None /\ outcome = None

-----------------------------------------------------------------------------
(* Failures *)

\* What the body of an error response may tell: that the model is not there, that
\* a capability is missing, nothing known, or nothing at all.
ErrorDetails == {"unavailable", "incompatible", "none"}
Statuses == {400, 401, 403, 404, 408, 418, 422, 429, 500, 503}

NormalizeHttpError(status, details) ==
  IF status \in {401, 403} THEN Error("AUTHENTICATION", FALSE)
  ELSE IF status = 408 THEN Error("TIMEOUT", TRUE)
  ELSE IF status = 429 THEN Error("RATE_LIMIT", TRUE)
  ELSE IF details = "unavailable" THEN Error("MODEL_UNAVAILABLE", status >= 500)
  ELSE IF details = "incompatible" \/ status \in {400, 404, 405, 409, 415, 422}
       THEN Error("INCOMPATIBLE_CAPABILITY", FALSE)
  ELSE Error("SERVER", status >= 500)

\* error is None when it is no ModelProviderError: fetch or read has rejected.
NormalizeRequestFailure(error) ==
  IF deadline.timedOut THEN Error("TIMEOUT", TRUE)
  ELSE IF deadline.callerAborted
       THEN Error(IF request.op = "stream" THEN "INTERRUPTED_STREAM" ELSE "TIMEOUT", FALSE)
  ELSE IF error # None THEN error
  ELSE IF request.op = "stream" THEN InterruptedStream ELSE Error("CONNECTION", TRUE)

\* Leaves the try block: the reader is cancelled before anything else happens.
Leave(how, error) ==
  /\ at' = "closing" /\ ending' = [how |-> how, error |-> error]
  /\ pending' = None
  /\ UNCHANGED <<request, deadline, reader, wire, answer, heard, outcome>>

Throw(error) == Leave("failed", error)

\* Mutant: only a failure disposes of the deadline.
DisposedOnFailure(d) ==
  IF ending.how = "failed" THEN [d EXCEPT !.timer = "cleared", !.listening = FALSE] ELSE d

\* dispose
Disposed(d) == [d EXCEPT !.timer = IF @ = "armed" THEN "cleared" ELSE @, !.listening = FALSE]

\* The catch and finally clauses, once the reader has been cancelled; its lock is
\* released whether or not that succeeded.
Close ==
  /\ at = "closing"
  /\ outcome' = [how |-> ending.how,
                 error |-> IF ending.how = "failed" THEN NormalizeRequestFailure(ending.error)
                           ELSE None]
  /\ deadline' = Disposed(deadline)
  /\ reader' = IF reader = "open" THEN "released" ELSE reader
  /\ at' = "closed" /\ ending' = None
  /\ UNCHANGED <<request, wire, answer, pending, heard>>

-----------------------------------------------------------------------------
(* The deadline *)

TimerFires ==
  /\ deadline.timer = "armed"
  /\ deadline' = [deadline EXCEPT !.timer = "fired", !.timedOut = TRUE]
  /\ UNCHANGED <<request, at, reader, wire, answer, pending, heard, ending, outcome>>

\* The listener is called once.
CallerAborts ==
  /\ deadline.listening
  /\ deadline' = [deadline EXCEPT !.listening = FALSE, !.callerAborted = TRUE]
  /\ UNCHANGED <<request, at, reader, wire, answer, pending, heard, ending, outcome>>

\* Whatever the request awaits from the network rejects.
AbortLands ==
  /\ at \in {"connecting", "body", "reading"}
  /\ Aborted
  /\ Throw(None)

ConnectionLost ==
  /\ at \in {"connecting", "body", "reading"}
  /\ ~Aborted
  \* readJson has a name for it.
  /\ Throw(IF at = "body" THEN Error("CONNECTION", TRUE) ELSE None)

-----------------------------------------------------------------------------
(* Asking *)

\* validateRequest throws before there is anything to clean up.
Refuse(r, error) ==
  /\ request = None
  /\ request' = r /\ at' = "closed"
  /\ outcome' = [how |-> "failed", error |-> error]
  /\ UNCHANGED <<deadline, reader, wire, answer, pending, heard, ending>>

\* Mutant: nobody starts the timer.
NoTimer(aborted) == [NoDeadline EXCEPT !.listening = ~aborted, !.callerAborted = aborted]

\* A signal that has aborted already gets no listener.
RequestDeadline(aborted) ==
  [timer |-> "armed", listening |-> ~aborted, timedOut |-> FALSE, callerAborted |-> aborted]

SendRequest(r, aborted) ==
  /\ request = None
  /\ request' = r /\ at' = "connecting"
  /\ deadline' = RequestDeadline(aborted)
  /\ UNCHANGED <<reader, wire, answer, pending, heard, ending, outcome>>

\* A response that says ok and carries a body of the kind asked for.
Accept ==
  /\ at = "connecting" /\ ~Aborted
  /\ at' = IF request.op = "stream" THEN "reading" ELSE "body"
  /\ reader' = "open"
  /\ UNCHANGED <<request, deadline, wire, answer, pending, heard, ending, outcome>>

\* Another content type, or no body.
AcceptUnusable ==
  /\ at = "connecting" /\ ~Aborted
  /\ \/ Throw(MalformedResponse)
     \/ request.op = "stream" /\ Throw(Error("INCOMPATIBLE_CAPABILITY", FALSE))

Reject ==
  /\ at = "connecting" /\ ~Aborted
  /\ at' = "rejected"
  /\ UNCHANGED <<request, deadline, reader, wire, answer, pending, heard, ending, outcome>>

\* Whatever goes wrong with the body of an error, the status is left.
ReadErrorDetails(status, details) ==
  /\ at = "rejected"
  /\ Aborted => details = "none"
  /\ Throw(NormalizeHttpError(status, details))

-----------------------------------------------------------------------------
(* generate *)

ReadBody(bytes) ==
  /\ at = "body" /\ ~Aborted
  /\ IF wire.totalBytes + bytes > BodyLimit
     THEN Throw(MalformedResponse)
     ELSE /\ wire' = [wire EXCEPT !.totalBytes = @ + bytes]
          /\ UNCHANGED <<request, at, deadline, reader, answer, pending, heard, ending, outcome>>

Usable(completion) ==
  /\ "malformed" \notin DOMAIN completion
  /\ completion.text # None /\ completion.text <= ContentLimit
  /\ completion.identity \in OwnIdentities
  /\ request.structured => completion.text \in Conforming

EndBody(completion) ==
  /\ at = "body" /\ ~Aborted
  /\ IF Usable(completion) THEN Leave("finished", None) ELSE Throw(MalformedResponse)

-----------------------------------------------------------------------------
(* stream: readSseData *)

Bytes(parts) ==
  LET sum[i \in 0..Len(parts)] == IF i = 0 THEN 0 ELSE sum[i - 1] + parts[i].bytes
  IN sum[Len(parts)]

Read(parts) ==
  /\ at = "reading" /\ ~Aborted
  /\ LET total == wire.totalBytes + Bytes(parts) IN
       IF total > StreamLimit
       THEN Throw(MalformedResponse)
       ELSE /\ wire' = [buffer |-> wire.buffer \o parts,
                        bufferBytes |-> wire.bufferBytes + Bytes(parts), totalBytes |-> total]
            /\ at' = "framing"
            /\ UNCHANGED <<request, deadline, reader, answer, pending, heard, ending, outcome>>

\* The stream ends before [DONE], in the middle of an event or of a character.
EndOfStream ==
  /\ at = "reading" /\ ~Aborted
  /\ \/ Throw(InterruptedStream)
     \/ wire.buffer # <<>> /\ Throw(MalformedResponse)

\* The parts of the buffer that end an event.
Boundaries == {i \in DOMAIN wire.buffer : wire.buffer[i].event # None}

NoBoundary ==
  /\ at = "framing" /\ Boundaries = {}
  /\ IF wire.bufferBytes > EventLimit
     THEN Throw(MalformedResponse)
     ELSE /\ at' = "reading"
          /\ UNCHANGED <<request, deadline, reader, wire, answer, pending, heard, ending, outcome>>

\* Mutant: the bytes of the whole buffer are charged to its first event.
ConsumedAll(i) ==
  [wire EXCEPT !.buffer = SubSeq(@, i + 1, Len(@)), !.bufferBytes = 0]

Consumed(i) ==
  [wire EXCEPT !.buffer = SubSeq(@, i + 1, Len(@)),
               !.bufferBytes = @ - Bytes(SubSeq(wire.buffer, 1, i))]

\* Only an identified, finished and, if asked for, conforming answer is whole.
Whole ==
  /\ answer.identity # None /\ answer.finish # None
  /\ request.structured => answer.length \in Conforming

\* Mutant: whatever arrived before [DONE] is a whole answer.
DoneAnyhow ==
  /\ at' = "paused" /\ heard' = Append(heard, "finish")
  /\ UNCHANGED <<request, deadline, reader, answer, pending, ending, outcome>>

\* The server says [DONE].
Done ==
  IF Whole
  THEN /\ at' = "paused" /\ heard' = Append(heard, "finish")
       /\ UNCHANGED <<request, deadline, reader, answer, pending, ending, outcome>>
  ELSE /\ at' = "closing"
       /\ ending' = [how |-> "failed",
                     error |-> IF answer.identity = None \/ answer.finish = None
                               THEN InterruptedStream ELSE MalformedResponse]
       /\ UNCHANGED <<request, deadline, reader, answer, pending, heard, outcome>>

Frame ==
  /\ at = "framing" /\ Boundaries # {}
  /\ LET i == CHOOSE j \in Boundaries : \A k \in Boundaries : j <= k
         event == wire.buffer[i].event
         consumed == Bytes(SubSeq(wire.buffer, 1, i))
     IN IF consumed > EventLimit \/ consumed > wire.bufferBytes \/ event.kind = "malformed"
        THEN Throw(MalformedResponse)
        ELSE /\ wire' = Consumed(i)
             /\ IF event.kind = "done" THEN Done
                ELSE /\ at' = IF event.kind = "chunk" THEN "identity" ELSE "framing"
                     /\ pending' = IF event.kind = "chunk" THEN event ELSE None
                     /\ UNCHANGED <<request, deadline, reader, answer, heard, ending, outcome>>

-----------------------------------------------------------------------------
(* stream: one event of the server *)

Yield(type) == at' = "paused" /\ heard' = Append(heard, type)

CheckIdentity ==
  /\ at = "identity"
  /\ IF answer.identity = None
     THEN IF pending.identity \in OwnIdentities
          THEN /\ answer' = [answer EXCEPT !.identity = pending.identity]
               /\ Yield("start")
               /\ UNCHANGED <<request, deadline, reader, wire, pending, ending, outcome>>
          ELSE Throw(MalformedResponse)
     ELSE IF pending.identity \in {None, answer.identity}
          THEN /\ at' = "text"
               /\ UNCHANGED <<request, deadline, reader, wire, answer, pending, heard, ending,
                              outcome>>
          ELSE Throw(MalformedResponse)

Texted == pending.choice /\ pending.text > 0

TooLong == answer.length + pending.text > ContentLimit

ReadText ==
  /\ at = "text"
  /\ IF (answer.finish # None /\ pending.choice) \/ (Texted /\ TooLong)
     THEN Throw(MalformedResponse)
     ELSE /\ IF Texted
             THEN /\ answer' = [answer EXCEPT !.length = @ + pending.text]
                  /\ Yield("text")
             ELSE at' = "usage" /\ UNCHANGED <<answer, heard>>
          /\ UNCHANGED <<request, deadline, reader, wire, pending, ending, outcome>>

ReadUsage ==
  /\ at = "usage"
  /\ answer' = IF pending.choice /\ pending.finish # None
               THEN [answer EXCEPT !.finish = pending.finish] ELSE answer
  /\ IF pending.usage THEN Yield("usage") ELSE at' = "framing" /\ UNCHANGED heard
  /\ pending' = None
  /\ UNCHANGED <<request, deadline, reader, wire, ending, outcome>>

\* The consumer asks for the next event.
Resume ==
  /\ at = "paused"
  /\ LET last == heard[Len(heard)] IN
       IF last = "finish" THEN Leave("finished", None)
       ELSE /\ at' = CASE last = "start" -> "text" [] last = "text" -> "usage"
                       [] last = "usage" -> "framing"
            /\ UNCHANGED <<request, deadline, reader, wire, answer, pending, heard, ending, outcome>>

\* It returns the generator instead; one that is not at a yield cannot be.
Return == at = "paused" /\ Leave("returned", None)

-----------------------------------------------------------------------------
\* Nobody but the provider has to do something for these.
ProviderProceeds ==
  \/ TimerFires \/ AbortLands \/ Close
  \/ NoBoundary \/ Frame \/ CheckIdentity \/ ReadText \/ ReadUsage

ProviderNext ==
  \/ ProviderProceeds \/ CallerAborts \/ ConnectionLost
  \/ \E r \in Request, aborted \in BOOLEAN : SendRequest(r, aborted)
  \/ \E r \in Request : Refuse(r, None) \/ Refuse(r, Error("INCOMPATIBLE_CAPABILITY", FALSE))
  \/ Accept \/ AcceptUnusable \/ Reject
  \/ \E status \in Statuses, details \in ErrorDetails : ReadErrorDetails(status, details)
  \/ \E bytes \in 1..(BodyLimit + 1) : ReadBody(bytes)
  \/ \E completion \in Completions : EndBody(completion)
  \/ \E parts \in Deliveries : Read(parts)
  \/ EndOfStream
  \/ Resume \/ Return

\* The error body arrives or the abort cuts it off, and the consumer of a stream
\* asks for one event after another.
ProviderFairness ==
  /\ WF_providerVars(ProviderProceeds)
  /\ WF_providerVars(\E status \in Statuses : ReadErrorDetails(status, "none"))
  /\ WF_providerVars(Resume)

ProviderSpec == ProviderInit /\ [][ProviderNext]_providerVars

-----------------------------------------------------------------------------
(* Properties *)

\* What is counted as buffered is what is buffered, whichever way the reads cut the
\* events, so no event and no stream passes its limit.
BufferAccounted ==
  /\ wire.bufferBytes = Bytes(wire.buffer)
  /\ wire.bufferBytes <= wire.totalBytes
  /\ request # None =>
       wire.totalBytes <= (IF request.op = "generate" THEN BodyLimit ELSE StreamLimit)
  /\ at = "reading" => wire.bufferBytes <= EventLimit

\* What is known of a request has its shape, and its limits are kept.
ProviderTypeOK ==
  /\ BufferAccounted
  /\ request \in Request \cup {None} /\ at \in Stages
  /\ deadline \in Deadline /\ reader \in {"none", "open", "released"}
  /\ wire \in [buffer : Seq(Part), bufferBytes : Nat, totalBytes : Nat]
  /\ answer \in [identity : OwnIdentities \cup {None}, finish : FinishReasons \cup {None},
                 length : 0..ContentLimit]
  /\ pending \in {e \in WireEvents : e.kind = "chunk"} \cup {None}
  /\ heard \in Seq({"start", "text", "usage", "finish"})
  /\ {ending, outcome} \subseteq Outcome \cup {None}

\* Whichever way a request ends, and whatever aborted it on the way, its timer no
\* longer runs, the caller's signal no longer holds its listener, and the lock of
\* the body's reader is gone.
NothingLeftBehind ==
  at \in {"idle", "closed"} =>
    /\ deadline.timer # "armed" /\ ~deadline.listening
    /\ reader # "open"

\* An iterator sees what ModelStream promises.
Iterated ==
  INSTANCE ModelStream WITH
    ended <- IF outcome = None \/ request.op = "generate" THEN None ELSE outcome.how

ImplementsModelStream == Iterated!Spec

\* Every request is over at last, even if the server never answers and its caller
\* never gives up: the timer sees to it.
RequestEnds == at = "connecting" ~> at = "closed"
=============================================================================
