----------------------------- MODULE HttpServer -----------------------------
(***************************************************************************)
(* The standalone HTTP server: it finds the handler of a request, hands it *)
(* the request's body, and writes the response to the connection while the *)
(* handler still makes it.  A peer that leaves, a deadline and a shutdown  *)
(* abort what is under way.                                                *)
(*                                                                         *)
(* What handlers do is the subject of other modules.  Bodies are counted   *)
(* in pieces; headers, cookies and messages are left out.                  *)
(***************************************************************************)
EXTENDS Null, Sequences, Integers, FiniteSets

CONSTANTS
  Connections,         \* bound on the requests that are ever made
  Asked,               \* what they may ask for: paths and methods
  Errors,              \* what handlers may fail with
  MaximumRequestBody,  \* pieces a handler reads before it refuses
  MaxPieces            \* bound on the pieces of a response

VARIABLES
  requests,  \* what serve knows of each, None before it arrives
  stopping,  \* no request is served any more
  stopped    \* shutdown has resolved

serverVars == <<requests, stopping, stopped>>

-----------------------------------------------------------------------------
(* The router *)

Parameter == "[]"

R(path, methods) == [path |-> path, methods |-> methods]
Project == <<"api", "projects", Parameter>>
Conversation == Project \o <<"conversations", Parameter>>
Run == Project \o <<"agents", "runs", Parameter>>
MergeRequest == Project \o <<"merge-requests", Parameter>>
StoredFile == Project \o <<"attachments", Parameter>>

\* createApiRouter's, in its order.
Routes ==
  <<R(<<"mcp">>, {"GET", "POST", "DELETE"}),
    R(Project \o <<"imports", "attachments">>, {"POST"}),
    R(<<"api", "health">>, {"GET"}),
    R(<<"api", "projects">>, {"GET", "POST"}),
    R(<<"api", "session">>, {"GET", "POST", "DELETE"}),
    R(Project, {"GET", "PATCH"}),
    R(Project \o <<"audit">>, {"GET"}),
    R(Project \o <<"context">>, {"GET"}),
    R(Project \o <<"conversations">>, {"GET", "POST"}),
    R(Project \o <<"imports">>, {"POST"}),
    R(Project \o <<"members">>, {"GET", "POST"}),
    R(Project \o <<"merge-requests">>, {"GET", "POST"}),
    R(Project \o <<"agents", "runs">>, {"GET", "POST"}),
    R(StoredFile, {"GET"}),
    R(Project \o <<"context", "commits">>, {"GET"}),
    R(Project \o <<"context", "items">>, {"GET"}),
    R(Conversation, {"GET", "PATCH"}),
    R(Project \o <<"imports", "preview">>, {"POST"}),
    R(Project \o <<"imports", "provider-previews">>, {"POST"}),
    R(Project \o <<"imports", "provider-submissions">>, {"POST"}),
    R(Project \o <<"imports", Parameter>>, {"GET"}),
    R(Project \o <<"members", Parameter>>, {"PUT"}),
    R(MergeRequest, {"GET"}),
    R(Run, {"GET"}),
    R(StoredFile \o <<"content">>, {"GET"}),
    R(StoredFile \o <<"inspection">>, {"GET"}),
    R(Conversation \o <<"attachments">>, {"GET", "POST"}),
    R(Conversation \o <<"chat">>, {"POST"}),
    R(Conversation \o <<"deltas">>, {"POST"}),
    R(Conversation \o <<"extract">>, {"POST"}),
    R(Conversation \o <<"messages">>, {"GET", "POST"}),
    R(MergeRequest \o <<"finalize">>, {"POST"}),
    R(Run \o <<"cancel">>, {"POST"}),
    R(Run \o <<"reconcile">>, {"POST"}),
    R(Run \o <<"resume">>, {"POST"}),
    R(MergeRequest \o <<"conflicts", Parameter, "resolution">>, {"PUT"})>>

Matches(path, segments) ==
  /\ Len(path) = Len(segments)
  /\ \A i \in DOMAIN path : path[i] \in {Parameter, segments[i]}

Matching(segments) == {n \in DOMAIN Routes : Matches(Routes[n].path, segments)}

FirstRoute(segments) == CHOOSE n \in Matching(segments) : \A m \in Matching(segments) : n <= m

\* What is answered before a handler is asked.
Missing(asked) ==
  IF Matching(asked.path) = {} THEN 404
  ELSE IF asked.method \notin Routes[FirstRoute(asked.path)].methods THEN 405
  ELSE None

-----------------------------------------------------------------------------
(* Answers *)

\* mapError
StatusOf ==
  [invalid |-> 400, too_large |-> 413, schema |-> 400,
   unauthenticated |-> 401, forbidden |-> 403, not_found |-> 404, conflict |-> 409,
   validation |-> 422, dependency_unavailable |-> 503,
   stale_context_head |-> 409, domain |-> 422,
   database_unavailable |-> 503, write_conflict |-> 409, database_not_found |-> 404,
   database |-> 500, rate_limit |-> 429, provider |-> 503, unexpected |-> 500]

Statuses == {StatusOf[e] : e \in DOMAIN StatusOf} \cup {200, 405}

ASSUME ServerAssumption ==
  /\ MaximumRequestBody \in Nat /\ MaxPieces \in Nat
  /\ Errors \subseteq DOMAIN StatusOf
  /\ None \notin {"open", "done", "failed", "cancelled"}

\* Others are not read.
Bodied == {"POST", "PUT", "PATCH"}

NewRequest(asked) ==
  [asked |-> asked, at |-> IF asked.method \in Bodied THEN "reading" ELSE "handling", received |-> 0, status |-> None,
   body |-> None, made |-> 0, sent |-> 0,
   outgoing |-> "open", aborted |-> FALSE, timer |-> TRUE]

\* errorResponse and jsonSuccess: a response with a body.
Answered(req, status) ==
  [req EXCEPT !.at = "answered", !.status = status, !.body = "open"]

\* serve's finally.
Over(req) == [req EXCEPT !.at = "over", !.timer = FALSE]

\* An abort cancels the body that is being read, and there may be none yet.
Aborted(req) ==
  [req EXCEPT !.aborted = TRUE, !.outgoing = "destroyed",
              !.body = IF req.at = "streaming" /\ @ = "open" THEN "cancelled" ELSE @]

Set(r, req) == requests' = [requests EXCEPT ![r] = req]

In(r, stage) == requests[r] # None /\ requests[r].at = stage

Serving(r) == requests[r] # None /\ requests[r].at # "over"

-----------------------------------------------------------------------------
(* Requests arrive *)

Accept(r, asked) ==
  /\ requests[r] = None /\ ~stopping
  /\ Set(r, IF Missing(asked) # None
            THEN [NewRequest(asked) EXCEPT !.at = "answered", !.status = Missing(asked)]
            ELSE NewRequest(asked))
  /\ UNCHANGED <<stopping, stopped>>

\* A request on a connection that was accepted just before.
RefuseStopping(r, asked) ==
  /\ requests[r] = None /\ stopping /\ ~stopped
  /\ Set(r, [Over(NewRequest(asked)) EXCEPT !.status = 503, !.outgoing = "ended"])
  /\ UNCHANGED <<stopping, stopped>>

\* The handler refuses before it reads: who asks, from where, how much it will be.
RefuseUnread(r) ==
  /\ In(r, "reading") /\ requests[r].received = 0
  /\ \E e \in Errors \cap {"unauthenticated", "forbidden", "invalid", "too_large"} :
       Set(r, Answered(requests[r], StatusOf[e]))
  /\ UNCHANGED <<stopping, stopped>>

\* readBoundedRequestText; what exceeds the limit is cancelled, which may end the
\* connection too.
ReadPiece(r) ==
  /\ In(r, "reading") /\ requests[r].outgoing = "open"
  /\ LET req == [requests[r] EXCEPT !.received = @ + 1] IN
       IF req.received <= MaximumRequestBody THEN Set(r, req)
       ELSE \/ Set(r, Answered(req, StatusOf["too_large"]))
            \/ Set(r, Answered(Aborted(req), StatusOf["too_large"]))
  /\ UNCHANGED <<stopping, stopped>>

\* Some handlers need none.
ReadAll(r) ==
  /\ In(r, "reading")
  /\ requests[r].outgoing = "open" \/ requests[r].received = 0
  /\ Set(r, [requests[r] EXCEPT !.at = "handling"])
  /\ UNCHANGED <<stopping, stopped>>

\* What was read is no JSON, or not all of it came.
ReadBreaks(r) ==
  /\ In(r, "reading")
  /\ Set(r, Answered(requests[r], StatusOf["invalid"]))
  /\ UNCHANGED <<stopping, stopped>>

\* Whether the peer still waits for it or not.
Handle(r) ==
  /\ In(r, "handling")
  /\ \E status \in {StatusOf[e] : e \in Errors} \cup {200} :
       Set(r, Answered(requests[r], status))
  /\ UNCHANGED <<stopping, stopped>>

\* Nothing was sent, if the connection is still there.
HandlerThrows(r) ==
  /\ In(r, "handling")
  /\ Set(r, [Over(requests[r]) EXCEPT
               !.status = 500, !.outgoing = IF @ = "open" THEN "ended" ELSE @])
  /\ UNCHANGED <<stopping, stopped>>

-----------------------------------------------------------------------------
(* Responses leave *)

\* Mutant: a body that came after the abort is not cancelled.
RespondUnasked(req) == [req EXCEPT !.at = "streaming"]

Streamed(req) ==
  [req EXCEPT !.at = "streaming",
              !.body = IF req.aborted /\ @ = "open" THEN "cancelled" ELSE @]

Respond(r) ==
  /\ In(r, "answered")
  /\ IF requests[r].body = None
     THEN Set(r, [Over(requests[r]) EXCEPT !.outgoing = IF @ = "open" THEN "ended" ELSE @])
     ELSE Set(r, Streamed(requests[r]))
  /\ UNCHANGED <<stopping, stopped>>

\* The handler's generator, stream or JSON goes on, ends or fails.
Make(r) ==
  /\ In(r, "answered") \/ In(r, "streaming")
  /\ requests[r].body = "open"
  /\ \/ requests[r].made < MaxPieces /\ Set(r, [requests[r] EXCEPT !.made = @ + 1])
     \/ \E end \in {"done", "failed"} : Set(r, [requests[r] EXCEPT !.body = end])
  /\ UNCHANGED <<stopping, stopped>>

\* chunks, as fast as the peer reads.
Forward(r) ==
  /\ In(r, "streaming") /\ ~requests[r].aborted
  /\ requests[r].body \in {"open", "done"} /\ requests[r].sent < requests[r].made
  /\ Set(r, [requests[r] EXCEPT !.sent = @ + 1])
  /\ UNCHANGED <<stopping, stopped>>

Finish(r) ==
  /\ In(r, "streaming") /\ ~requests[r].aborted
  /\ requests[r].body = "done" /\ requests[r].sent = requests[r].made
  /\ Set(r, [Over(requests[r]) EXCEPT !.outgoing = "ended"])
  /\ UNCHANGED <<stopping, stopped>>

\* serve's catch, when the headers have been sent.
Destroyed(req) == [Over(req) EXCEPT !.outgoing = "destroyed"]

\* The pipeline is aborted, or what it reads from has failed.
Break(r) ==
  /\ In(r, "streaming")
  /\ requests[r].aborted \/ requests[r].body = "failed"
  /\ Set(r, Destroyed(requests[r]))
  /\ UNCHANGED <<stopping, stopped>>

-----------------------------------------------------------------------------
(* Aborts *)

PeerCloses(r) ==
  /\ Serving(r) /\ requests[r].outgoing = "open"
  /\ Set(r, Aborted(requests[r]))
  /\ UNCHANGED <<stopping, stopped>>

Timeout(r) ==
  /\ Serving(r) /\ requests[r].timer
  /\ Set(r, [Aborted(requests[r]) EXCEPT !.timer = FALSE])
  /\ UNCHANGED <<stopping, stopped>>

\* Mutant: the server is closed, and that is waited for.
CloseOnly == stopping' = TRUE /\ UNCHANGED <<requests, stopped>>

AbortAll ==
  /\ stopping' = TRUE
  /\ requests' = [r \in Connections |-> IF Serving(r) THEN Aborted(requests[r]) ELSE requests[r]]
  /\ UNCHANGED stopped

\* Asking again changes nothing.
ShutdownServer == ~stopping /\ AbortAll

\* The last connection is closed and the last request over.
Stop ==
  /\ stopping /\ ~stopped
  /\ \A r \in Connections : ~Serving(r)
  /\ stopped' = TRUE
  /\ UNCHANGED <<requests, stopping>>

-----------------------------------------------------------------------------
ServerInit ==
  /\ requests = [r \in Connections |-> None]
  /\ stopping = FALSE /\ stopped = FALSE

ServerNext ==
  \/ \E r \in Connections :
       \/ \E asked \in Asked : Accept(r, asked) \/ RefuseStopping(r, asked)
       \/ RefuseUnread(r) \/ ReadPiece(r) \/ ReadAll(r) \/ ReadBreaks(r)
       \/ Handle(r) \/ HandlerThrows(r)
       \/ Respond(r) \/ Make(r) \/ Forward(r) \/ Finish(r) \/ Break(r)
       \/ PeerCloses(r) \/ Timeout(r)
  \/ ShutdownServer \/ Stop

\* A handler answers at last, whatever its peer does: what it waits for has deadlines and
\* looks at the signal.  A body that is made or read slowly, or for ever, is not hurried,
\* and no deadline is counted on.
ServerFairness ==
  /\ \A r \in Connections :
       /\ WF_serverVars(requests[r] # None /\ requests[r].outgoing = "destroyed" /\ ReadBreaks(r))
       /\ WF_serverVars(Handle(r)) /\ WF_serverVars(Respond(r)) /\ WF_serverVars(Break(r))
  /\ WF_serverVars(Stop)

ServerSpec == ServerInit /\ [][ServerNext]_serverVars /\ ServerFairness

-----------------------------------------------------------------------------
(* Properties *)

Request ==
  [asked : Asked, at : {"reading", "handling", "answered", "streaming", "over"},
   received : 0..(MaximumRequestBody + 1), status : Statuses \cup {None},
   body : {None, "open", "done", "failed", "cancelled"}, made : 0..MaxPieces,
   sent : 0..MaxPieces, outgoing : {"open", "ended", "destroyed"},
   aborted : BOOLEAN, timer : BOOLEAN]

\* What is known of a request has its shape.
ServerTypeOK ==
  /\ requests \in [Connections -> Request \cup {None}]
  /\ {stopping, stopped} \subseteq BOOLEAN

Served == {requests[r] : r \in {r \in Connections : requests[r] # None}}

\* The route that says most about a path.
Literal(n) == Cardinality({i \in DOMAIN Routes[n].path : Routes[n].path[i] # Parameter})
Intended(path) ==
  {n \in Matching(path) : \A m \in Matching(path) : Literal(m) <= Literal(n)}

\* A response that ends is whole: the peer takes no broken-off answer, and none that was
\* aborted, for a complete one, and it is the answer of the handler that its path names,
\* though routes overlap.  And when a request is over nobody goes on making what nobody
\* reads: every body was read to its end, has failed or was cancelled, whether it came
\* before the abort or after ("cancels pending SSE reads on %s without Next").
ResponsesAreWhole ==
  /\ ServerTypeOK
  /\ \A req \in Served :
       /\ req.outgoing = "ended" => req.body \in {None, "done"} /\ req.sent = req.made
       /\ req.at = "over" =>
            /\ req.body # "open" /\ ~req.timer /\ req.outgoing # "open"
            /\ Matching(req.asked.path) # {} =>
                 Intended(req.asked.path) = {FirstRoute(req.asked.path)}

\* Shutdown comes to its end, though responses that are being streamed may have none and
\* peers may neither send nor read ("abort active requests, close connections, wait for
\* request cleanup").
ServerStops == stopping ~> stopped
=============================================================================
