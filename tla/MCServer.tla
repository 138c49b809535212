------------------------------ MODULE MCServer ------------------------------
(* Small instances of ChatStream, and of the HTTP server that carries it, for *)
(* TLC: a run is about the one or the other.                                  *)
EXTENDS MCChatStream, HttpServer

CONSTANTS q1, q2

VARIABLE subject

TwoConnections == {q1, q2}
OneError == {"unauthenticated"}

To(path, method) == [path |-> path, method |-> method]
Chatting == To(<<"api", "projects", "p", "conversations", "c", "chat">>, "POST")

\* Every route with an id in place of its parameters, and what there is no handler for.
Everything ==
  {To([i \in DOMAIN route.path |-> IF route.path[i] = Parameter THEN "id" ELSE route.path[i]], "GET") :
     route \in {Routes[n] : n \in DOMAIN Routes}}
  \cup {To(<<"api", "nothing">>, "GET"), Chatting}

\* One request for anything; or a chat, and another whose model says nothing.
Quiet ==
  requests[q2] # None =>
    /\ requests[q1] # None /\ requests[q1].asked = Chatting
    /\ requests[q2].asked = Chatting /\ requests[q2].received = 0 /\ requests[q2].made = 0
    /\ requests[q2].status \in {None, 200, 503}

SubjectInit ==
  \/ subject = "chat" /\ Init /\ ServerInit
  \/ subject = "server" /\ Init /\ ServerInit

SubjectNext ==
  /\ \/ subject = "chat" /\ Next /\ InOrder' /\ Roster /\ UNCHANGED serverVars
     \/ subject = "server" /\ ServerNext /\ Quiet' /\ UNCHANGED vars
  /\ UNCHANGED subject

Streaming ==
  /\ SubjectInit /\ [][SubjectNext]_<<subject, vars, serverVars>>
  /\ Progress /\ ServerFairness
=============================================================================
