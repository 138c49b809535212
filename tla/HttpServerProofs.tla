-------------------------- MODULE HttpServerProofs --------------------------
(***************************************************************************)
(* Proofs about HttpServer.  Of the routes, only the import that is named  *)
(* by its id overlaps others, and those come before it.  Of a request,     *)
(* what its stage says about its body and its connection is kept by every  *)
(* step, and no step touches two requests but the abort of all.            *)
(***************************************************************************)
EXTENDS HttpServer, FiniteSetTheorems, Sequences, Integers, FiniteSets, TLAPS

-----------------------------------------------------------------------------
(* The router *)

\* The places where a route names what it is about.
LiteralsOf(n) == {i \in DOMAIN Routes[n].path : Routes[n].path[i] # Parameter}

\* Routes overlap only where a stored import could be one that is to be made.
LEMMA Overlap ==
  ASSUME NEW s
  PROVE  /\ Matching(s) \subseteq 1..36
         /\ \A m, n \in Matching(s) : m < n => n = 21 /\ m \in {2, 18, 19, 20}
         /\ \A n \in 1..36 : \E k \in 1..8 : DOMAIN Routes[n].path = 1..k
<1> DEFINE Asks(n) == Matches(Routes[n].path, s)
           Long(n, k) == DOMAIN Routes[n].path = 1..k
           Under(k) == Len(s) = k /\ s[1] = "api" /\ s[2] = "projects"
<1>0. DOMAIN Routes = 1..36
  BY DEF Routes
<1>. USE DEF Routes, R, Matches, Parameter, Conversation, Project, Run, MergeRequest, StoredFile
<1>1. Long(1, 1) /\ (Asks(1) <=> Len(s) = 1 /\ s[1] = "mcp")
  OBVIOUS
<1>2. Long(2, 5) /\ (Asks(2) <=> Under(5) /\ s[4] = "imports" /\ s[5] = "attachments")
  OBVIOUS
<1>3. Long(3, 2) /\ (Asks(3) <=> Len(s) = 2 /\ s[1] = "api" /\ s[2] = "health")
  OBVIOUS
<1>4. Long(4, 2) /\ (Asks(4) <=> Under(2))
  OBVIOUS
<1>5. Long(5, 2) /\ (Asks(5) <=> Len(s) = 2 /\ s[1] = "api" /\ s[2] = "session")
  OBVIOUS
<1>6. Long(6, 3) /\ (Asks(6) <=> Under(3))
  OBVIOUS
<1>7. Long(7, 4) /\ (Asks(7) <=> Under(4) /\ s[4] = "audit")
  OBVIOUS
<1>8. Long(8, 4) /\ (Asks(8) <=> Under(4) /\ s[4] = "context")
  OBVIOUS
<1>9. Long(9, 4) /\ (Asks(9) <=> Under(4) /\ s[4] = "conversations")
  OBVIOUS
<1>10. Long(10, 4) /\ (Asks(10) <=> Under(4) /\ s[4] = "imports")
  OBVIOUS
<1>11. Long(11, 4) /\ (Asks(11) <=> Under(4) /\ s[4] = "members")
  OBVIOUS
<1>12. Long(12, 4) /\ (Asks(12) <=> Under(4) /\ s[4] = "merge-requests")
  OBVIOUS
<1>13. Long(13, 5) /\ (Asks(13) <=> Under(5) /\ s[4] = "agents" /\ s[5] = "runs")
  OBVIOUS
<1>14. Long(14, 5) /\ (Asks(14) <=> Under(5) /\ s[4] = "attachments")
  OBVIOUS
<1>15. Long(15, 5) /\ (Asks(15) <=> Under(5) /\ s[4] = "context" /\ s[5] = "commits")
  OBVIOUS
<1>16. Long(16, 5) /\ (Asks(16) <=> Under(5) /\ s[4] = "context" /\ s[5] = "items")
  OBVIOUS
<1>17. Long(17, 5) /\ (Asks(17) <=> Under(5) /\ s[4] = "conversations")
  OBVIOUS
<1>18. Long(18, 5) /\ (Asks(18) <=> Under(5) /\ s[4] = "imports" /\ s[5] = "preview")
  OBVIOUS
<1>19. Long(19, 5) /\ (Asks(19) <=> Under(5) /\ s[4] = "imports" /\ s[5] = "provider-previews")
  OBVIOUS
<1>20. Long(20, 5) /\ (Asks(20) <=> Under(5) /\ s[4] = "imports" /\ s[5] = "provider-submissions")
  OBVIOUS
<1>21. Long(21, 5) /\ (Asks(21) <=> Under(5) /\ s[4] = "imports")
  OBVIOUS
<1>22. Long(22, 5) /\ (Asks(22) <=> Under(5) /\ s[4] = "members")
  OBVIOUS
<1>23. Long(23, 5) /\ (Asks(23) <=> Under(5) /\ s[4] = "merge-requests")
  OBVIOUS
<1>24. Long(24, 6) /\ (Asks(24) <=> Under(6) /\ s[4] = "agents" /\ s[5] = "runs")
  OBVIOUS
<1>25. Long(25, 6) /\ (Asks(25) <=> Under(6) /\ s[4] = "attachments" /\ s[6] = "content")
  OBVIOUS
<1>26. Long(26, 6) /\ (Asks(26) <=> Under(6) /\ s[4] = "attachments" /\ s[6] = "inspection")
  OBVIOUS
<1>27. Long(27, 6) /\ (Asks(27) <=> Under(6) /\ s[4] = "conversations" /\ s[6] = "attachments")
  OBVIOUS
<1>28. Long(28, 6) /\ (Asks(28) <=> Under(6) /\ s[4] = "conversations" /\ s[6] = "chat")
  OBVIOUS
<1>29. Long(29, 6) /\ (Asks(29) <=> Under(6) /\ s[4] = "conversations" /\ s[6] = "deltas")
  OBVIOUS
<1>30. Long(30, 6) /\ (Asks(30) <=> Under(6) /\ s[4] = "conversations" /\ s[6] = "extract")
  OBVIOUS
<1>31. Long(31, 6) /\ (Asks(31) <=> Under(6) /\ s[4] = "conversations" /\ s[6] = "messages")
  OBVIOUS
<1>32. Long(32, 6) /\ (Asks(32) <=> Under(6) /\ s[4] = "merge-requests" /\ s[6] = "finalize")
  OBVIOUS
<1>33. Long(33, 7) /\ (Asks(33) <=> Under(7) /\ s[4] = "agents" /\ s[5] = "runs" /\ s[7] = "cancel")
  OBVIOUS
<1>34. Long(34, 7) /\ (Asks(34) <=> Under(7) /\ s[4] = "agents" /\ s[5] = "runs" /\ s[7] = "reconcile")
  OBVIOUS
<1>35. Long(35, 7) /\ (Asks(35) <=> Under(7) /\ s[4] = "agents" /\ s[5] = "runs" /\ s[7] = "resume")
  OBVIOUS
<1>36. Long(36, 8) /\ (Asks(36) <=> Under(8) /\ s[4] = "merge-requests" /\ s[6] = "conflicts" /\ s[8] = "resolution")
  OBVIOUS
<1>. HIDE DEF Asks, Long, Routes, R, Matches, Parameter, Conversation, Project, Run, MergeRequest, StoredFile
<1>37. \A m, n \in 1..36 : Asks(m) /\ Asks(n) /\ m < n => n = 21 /\ m \in {2, 18, 19, 20}
  BY <1>1, <1>2, <1>3, <1>4, <1>5, <1>6, <1>7, <1>8, <1>9, <1>10, <1>11, <1>12,
     <1>13, <1>14, <1>15, <1>16, <1>17, <1>18, <1>19, <1>20, <1>21, <1>22, <1>23, <1>24,
     <1>25, <1>26, <1>27, <1>28, <1>29, <1>30, <1>31, <1>32, <1>33, <1>34, <1>35, <1>36
<1>38. \A n \in 1..36 : \E k \in 1..8 : Long(n, k)
  BY <1>1, <1>2, <1>3, <1>4, <1>5, <1>6, <1>7, <1>8, <1>9, <1>10, <1>11, <1>12,
     <1>13, <1>14, <1>15, <1>16, <1>17, <1>18, <1>19, <1>20, <1>21, <1>22, <1>23, <1>24,
     <1>25, <1>26, <1>27, <1>28, <1>29, <1>30, <1>31, <1>32, <1>33, <1>34, <1>35, <1>36
<1>. QED BY <1>0, <1>37, <1>38 DEF Matching, Asks, Long

\* What a route names can be counted.
LEMMA LiteralsFinite ==
  ASSUME NEW n \in 1..36
  PROVE  IsFiniteSet(LiteralsOf(n)) /\ Literal(n) = Cardinality(LiteralsOf(n)) /\ Literal(n) \in Nat
<1>1. PICK k \in 1..8 : DOMAIN Routes[n].path = 1..k
  BY Overlap
<1>2. IsFiniteSet(1..k)
  BY FS_Interval
<1>3. LiteralsOf(n) \subseteq 1..k
  BY <1>1 DEF LiteralsOf
<1>4. IsFiniteSet(LiteralsOf(n))
  BY <1>2, <1>3, FS_Subset
<1>. QED BY <1>4, FS_CardinalityType DEF Literal, LiteralsOf

\* The routes that overlap with a stored import name one segment more.
LEMMA ImportsNameMore ==
  ASSUME NEW m \in {2, 18, 19, 20}
  PROVE  Literal(21) < Literal(m)
<1>1. LiteralsOf(21) = {1, 2, 4}
  <2>1. /\ DOMAIN Routes[21].path = 1..5 /\ Routes[21].path[3] = Parameter /\ Routes[21].path[5] = Parameter
        /\ Routes[21].path[1] = "api" /\ Routes[21].path[2] = "projects" /\ Routes[21].path[4] = "imports"
    BY DEF Routes, R, Project
  <2>2. 1..5 = {1, 2, 3, 4, 5}
    OBVIOUS
  <2>. QED BY <2>1, <2>2 DEF LiteralsOf, Parameter
<1>2. LiteralsOf(m) = {1, 2, 4, 5}
  <2>1. LiteralsOf(2) = {1, 2, 4, 5}
    BY DEF LiteralsOf, Routes, R, Project, Parameter
  <2>2. LiteralsOf(18) = {1, 2, 4, 5}
    BY DEF LiteralsOf, Routes, R, Project, Parameter
  <2>3. LiteralsOf(19) = {1, 2, 4, 5}
    BY DEF LiteralsOf, Routes, R, Project, Parameter
  <2>4. LiteralsOf(20) = {1, 2, 4, 5}
    BY DEF LiteralsOf, Routes, R, Project, Parameter
  <2>. QED BY <2>1, <2>2, <2>3, <2>4
<1>3. LiteralsOf(m) = LiteralsOf(21) \cup {5} /\ 5 \notin LiteralsOf(21)
  BY <1>1, <1>2
<1>4. Cardinality(LiteralsOf(m)) = Cardinality(LiteralsOf(21)) + 1
  <2>1. 21 \in 1..36
    OBVIOUS
  <2>2. IsFiniteSet(LiteralsOf(21))
    BY <2>1, LiteralsFinite
  <2>. QED BY <1>3, <2>2, FS_AddElement
<1>5. m \in 1..36 /\ 21 \in 1..36
  OBVIOUS
<1>. QED BY <1>4, <1>5, LiteralsFinite

\* The first route that matches is the one that says most about the path.
LEMMA FirstRouteIsIntended ==
  ASSUME NEW s, Matching(s) # {}
  PROVE  Intended(s) = {FirstRoute(s)}
<1>1. Matching(s) \subseteq 1..36 /\ \A m, n \in Matching(s) : m < n => n = 21 /\ m \in {2, 18, 19, 20}
  BY Overlap
<1>2. \A n \in 1..36 : Literal(n) \in Nat
  BY LiteralsFinite
<1>3. CASE \E n : Matching(s) = {n}
  <2>1. PICK n : Matching(s) = {n}
    BY <1>3
  <2>2. n \in 1..36 /\ Literal(n) \in Nat
    BY <1>1, <1>2, <2>1
  <2>3. FirstRoute(s) = n
    BY <2>1, <2>2 DEF FirstRoute
  <2>. QED BY <2>1, <2>2, <2>3 DEF Intended
<1>4. CASE ~\E n : Matching(s) = {n}
  <2>1. PICK p, q \in Matching(s) : p # q
    BY <1>4
  <2>2. PICK m, n \in Matching(s) : m < n
    <3>1. p < q \/ q < p
      BY <1>1, <2>1
    <3>. QED BY <3>1
  <2>3. n = 21 /\ m \in {2, 18, 19, 20}
    BY <1>1, <2>2
  <2>4. Matching(s) = {m, 21}
    <3>1. ASSUME NEW k \in Matching(s), k # m PROVE k = 21
      <4>1. k < m \/ m < k
        BY <1>1, <2>2, <3>1
      <4>2. ~(k < m)
        BY <1>1, <2>2, <2>3
      <4>. QED BY <1>1, <2>2, <4>1, <4>2
    <3>. QED BY <2>2, <2>3, <3>1
  <2>5. Literal(21) < Literal(m) /\ Literal(21) \in Nat /\ Literal(m) \in Nat
    BY <1>2, <2>3, ImportsNameMore
  <2>6. FirstRoute(s) = m
    BY <2>3, <2>4 DEF FirstRoute
  <2>. QED BY <2>3, <2>4, <2>5, <2>6 DEF Intended
<1>. QED BY <1>3, <1>4

-----------------------------------------------------------------------------
(* The invariant *)

\* What can be so of a request at its stage.
Whole(req) ==
  /\ req \in Request /\ req.sent <= req.made
  /\ req.at \in {"reading", "handling"} => req.body = None
  /\ req.at = "streaming" => req.body # None
  /\ req.body = None => req.made = 0
  /\ req.at # "over" => req.outgoing # "ended"
  /\ req.aborted => req.outgoing = "destroyed"
  /\ req.aborted /\ req.at = "streaming" => req.body # "open"
  /\ req.at = "over" => req.body # "open" /\ ~req.timer /\ req.outgoing # "open"
  /\ req.outgoing = "ended" => req.body \in {None, "done"} /\ req.sent = req.made

Sound(req) == Whole(req) /\ (req.at = "reading" => req.received <= MaximumRequestBody)

ServerInv ==
  /\ requests \in [Connections -> Request \cup {None}]
  /\ {stopping, stopped} \subseteq BOOLEAN
  /\ \A r \in Connections : requests[r] # None => Sound(requests[r])

\* A step of one request.
LEMMA OneRequest ==
  ASSUME ServerInv, NEW r \in Connections, NEW req, Sound(req), Set(r, req),
         UNCHANGED <<stopping, stopped>>
  PROVE  ServerInv'
<1>1. requests' = [requests EXCEPT ![r] = req] /\ req \in Request
  BY DEF Set, Sound, Whole
<1>2. requests' \in [Connections -> Request \cup {None}]
  BY <1>1 DEF ServerInv
<1>3. \A q \in Connections : requests'[q] # None => Sound(requests'[q])
  BY <1>1 DEF ServerInv
<1>. QED BY <1>2, <1>3 DEF ServerInv

\* A request that is at a stage is sound.
LEMMA InIs ==
  ASSUME ServerInv, NEW r \in Connections, NEW stage, In(r, stage)
  PROVE  requests[r] \in Request /\ Sound(requests[r]) /\ requests[r].at = stage
BY DEF ServerInv, In, Sound, Whole

\* The statuses that are answered.
LEMMA StatusesAre ==
  /\ {200, 400, 401, 403, 404, 405, 413, 500, 503} \subseteq Statuses
  /\ \A e \in DOMAIN StatusOf : StatusOf[e] \in Statuses
<1>1. \A e \in DOMAIN StatusOf : StatusOf[e] \in Statuses
  BY DEF Statuses
<1>2. /\ DOMAIN StatusOf =
           {"invalid", "too_large", "schema", "unauthenticated", "forbidden", "not_found", "conflict",
            "validation", "dependency_unavailable", "stale_context_head", "domain",
            "database_unavailable", "write_conflict", "database_not_found", "database", "rate_limit",
            "provider", "unexpected"}
      /\ StatusOf["invalid"] = 400 /\ StatusOf["unauthenticated"] = 401 /\ StatusOf["forbidden"] = 403
      /\ StatusOf["not_found"] = 404 /\ StatusOf["too_large"] = 413 /\ StatusOf["database"] = 500
      /\ StatusOf["provider"] = 503
  BY DEF StatusOf
<1>. QED BY <1>1, <1>2 DEF Statuses

\* A request that arrives has received, made and sent nothing.
LEMMA NewIsSound ==
  ASSUME NEW asked \in Asked
  PROVE  Sound(NewRequest(asked))
BY ServerAssumption DEF NewRequest, Sound, Whole, Request

\* An error or a result, before anything was sent.
LEMMA AnsweredIsSound ==
  ASSUME NEW req, Whole(req), req.at \in {"reading", "handling"}, NEW status \in Statuses
  PROVE  Sound(Answered(req, status))
<1>1. Answered(req, status) \in Request
  BY DEF Answered, Whole, Request
<1>. QED BY <1>1, ServerAssumption DEF Answered, Sound, Whole, Request

\* An abort leaves the stage alone, and no body open that is being read.
LEMMA AbortedIsWhole ==
  ASSUME NEW req, Whole(req), req.at # "over"
  PROVE  /\ Whole(Aborted(req)) /\ Aborted(req).at = req.at
         /\ Sound(req) => Sound(Aborted(req)) /\ Sound([Aborted(req) EXCEPT !.timer = FALSE])
<1>1. Aborted(req) \in Request
  BY DEF Aborted, Whole, Request
<1>2. /\ Aborted(req).at = req.at /\ Aborted(req).timer = req.timer
      /\ Aborted(req).received = req.received /\ Aborted(req).made = req.made
      /\ Aborted(req).sent = req.sent /\ Aborted(req).outgoing = "destroyed" /\ Aborted(req).aborted = TRUE
      /\ Aborted(req).body = IF req.at = "streaming" /\ req.body = "open" THEN "cancelled" ELSE req.body
  BY DEF Aborted, Whole, Request
<1>3. Whole(Aborted(req))
  BY <1>1, <1>2, ServerAssumption DEF Whole
<1>4. Sound(req) => Sound(Aborted(req))
  BY <1>2, <1>3 DEF Sound, Whole
<1>5. Sound(Aborted(req)) => Sound([Aborted(req) EXCEPT !.timer = FALSE])
  BY <1>1 DEF Sound, Whole, Request
<1>. QED BY <1>2, <1>3, <1>4, <1>5

\* What is over says how its connection was left.
LEMMA OverIsSound ==
  ASSUME NEW req, Whole(req), req.body # "open", NEW status \in Statuses \cup {None},
         NEW outgoing \in {"ended", "destroyed"},
         outgoing = "ended" => ~req.aborted /\ req.body \in {None, "done"} /\ req.sent = req.made
  PROVE  /\ Sound([Over(req) EXCEPT !.status = status, !.outgoing = outgoing])
         /\ Sound([Over(req) EXCEPT !.outgoing = outgoing])
         /\ Over(req).outgoing = req.outgoing
<1>1. Over(req) = [req EXCEPT !.at = "over", !.timer = FALSE] /\ req \in Request
  BY DEF Over, Whole
<1> DEFINE over == Over(req)
<1>2. over \in Request
  BY <1>1 DEF Request
<1>3. /\ over.at = "over" /\ over.timer = FALSE /\ over.body = req.body /\ over.made = req.made
      /\ over.sent = req.sent /\ over.aborted = req.aborted /\ over.outgoing = req.outgoing
  BY <1>1 DEF Request
<1>. HIDE DEF over
<1>4. Sound([over EXCEPT !.status = status, !.outgoing = outgoing])
  BY <1>2, <1>3 DEF Sound, Whole, Request
<1>5. Sound([over EXCEPT !.outgoing = outgoing])
  BY <1>2, <1>3 DEF Sound, Whole, Request
<1>. QED BY <1>3, <1>4, <1>5 DEF over

-----------------------------------------------------------------------------
(* Steps *)

\* The router answers, the shutdown refuses, or the request is served.
LEMMA ArriveStep ==
  ASSUME ServerInv, NEW r \in Connections, NEW asked \in Asked,
         Accept(r, asked) \/ RefuseStopping(r, asked)
  PROVE  ServerInv'
<1>1. Sound(NewRequest(asked))
  BY NewIsSound
<1>2. CASE Accept(r, asked)
  <2>1. Sound([NewRequest(asked) EXCEPT !.at = "answered", !.status = Missing(asked)])
        \/ Missing(asked) = None
    <3>1. Missing(asked) \in Statuses \cup {None}
      BY StatusesAre DEF Missing
    <3>2. ASSUME NEW status \in Statuses \cup {None}
          PROVE  Sound([NewRequest(asked) EXCEPT !.at = "answered", !.status = status])
      <4>1. NewRequest(asked) \in Request
        BY <1>1 DEF Sound, Whole
      <4>2. [NewRequest(asked) EXCEPT !.at = "answered", !.status = status] \in Request
        BY <4>1 DEF Request
      <4>3. NewRequest(asked).sent = 0 /\ NewRequest(asked).made = 0 /\ NewRequest(asked).outgoing = "open"
            /\ NewRequest(asked).aborted = FALSE /\ NewRequest(asked).body = None
        BY DEF NewRequest
      <4>. QED BY <4>1, <4>2, <4>3, ServerAssumption DEF Sound, Whole, Request
    <3>. QED BY <3>1, <3>2
  <2>. QED BY <1>1, <1>2, <2>1, OneRequest DEF Accept
<1>3. CASE RefuseStopping(r, asked)
  <2>1. Sound([Over(NewRequest(asked)) EXCEPT !.status = 503, !.outgoing = "ended"])
    <3>1. /\ NewRequest(asked).sent = 0 /\ NewRequest(asked).made = 0
          /\ NewRequest(asked).aborted = FALSE /\ NewRequest(asked).body = None
      BY DEF NewRequest
    <3>2. 503 \in Statuses /\ Whole(NewRequest(asked))
      BY <1>1, StatusesAre DEF Sound
    <3>3. 503 \in Statuses \cup {None} /\ "ended" \in {"ended", "destroyed"}
      BY <3>2
    <3>4. NewRequest(asked).body # "open"
      BY <3>1, ServerAssumption
    <3>5. /\ ~NewRequest(asked).aborted /\ NewRequest(asked).body \in {None, "done"}
          /\ NewRequest(asked).sent = NewRequest(asked).made
      BY <3>1
    <3>6. ASSUME NEW status \in Statuses \cup {None}
          PROVE  Sound([Over(NewRequest(asked)) EXCEPT !.status = status, !.outgoing = "ended"])
      BY <3>2, <3>3, <3>4, <3>5, OverIsSound
    <3>. QED BY <3>3, <3>6
  <2>. QED BY <1>3, <2>1, OneRequest DEF RefuseStopping
<1>. QED BY <1>2, <1>3

\* The bound on what is received is kept by refusing what exceeds it.
LEMMA ReadStep ==
  ASSUME ServerInv, NEW r \in Connections,
         RefuseUnread(r) \/ ReadPiece(r) \/ ReadAll(r) \/ ReadBreaks(r)
  PROVE  ServerInv'
<1> DEFINE req == requests[r]
<1>1. In(r, "reading") /\ UNCHANGED <<stopping, stopped>>
  BY DEF RefuseUnread, ReadPiece, ReadAll, ReadBreaks
<1>2. Sound(req) /\ Whole(req) /\ req.at = "reading" /\ req \in Request
  BY <1>1, InIs DEF Sound
<1>. HIDE DEF req
<1>3. CASE RefuseUnread(r)
  <2>1. PICK e \in Errors : Set(r, Answered(req, StatusOf[e]))
    BY <1>3 DEF RefuseUnread, req
  <2>2. StatusOf[e] \in Statuses
    BY ServerAssumption, StatusesAre
  <2>. QED BY <1>1, <1>2, <2>1, <2>2, AnsweredIsSound, OneRequest
<1>4. CASE ReadPiece(r)
  <2> DEFINE more == [req EXCEPT !.received = @ + 1]
  <2>1. /\ more.received <= MaximumRequestBody /\ Set(r, more)
        \/ Set(r, Answered(more, StatusOf["too_large"]))
        \/ Set(r, Answered(Aborted(more), StatusOf["too_large"]))
    BY <1>4 DEF ReadPiece, req
  <2>2. StatusOf["too_large"] \in Statuses
    BY StatusesAre DEF StatusOf
  <2>3. Whole(more) /\ more.at = "reading"
    BY <1>2, ServerAssumption DEF Sound, Whole, Request
  <2>4. Whole(Aborted(more)) /\ Aborted(more).at = "reading"
    BY <2>3, AbortedIsWhole
  <2>. HIDE DEF more
  <2>5. more.received <= MaximumRequestBody => Sound(more)
    BY <2>3 DEF Sound
  <2>. QED BY <1>1, <2>1, <2>2, <2>3, <2>4, <2>5, AnsweredIsSound, OneRequest
<1>5. CASE ReadAll(r)
  <2>1. Set(r, [req EXCEPT !.at = "handling"])
    BY <1>5 DEF ReadAll, req
  <2>2. Sound([req EXCEPT !.at = "handling"])
    BY <1>2 DEF Sound, Whole, Request
  <2>. QED BY <1>1, <2>1, <2>2, OneRequest
<1>6. CASE ReadBreaks(r)
  <2>1. Set(r, Answered(req, StatusOf["invalid"]))
    BY <1>6 DEF ReadBreaks, req
  <2>2. StatusOf["invalid"] \in Statuses
    BY StatusesAre DEF StatusOf
  <2>. QED BY <1>1, <1>2, <2>1, <2>2, AnsweredIsSound, OneRequest
<1>. QED BY <1>3, <1>4, <1>5, <1>6

\* A handler answers with a body, or its request is over with none.
LEMMA HandleStep ==
  ASSUME ServerInv, NEW r \in Connections, Handle(r) \/ HandlerThrows(r)
  PROVE  ServerInv'
<1> DEFINE req == requests[r]
<1>1. In(r, "handling") /\ UNCHANGED <<stopping, stopped>>
  BY DEF Handle, HandlerThrows
<1>2. Sound(req) /\ req.at = "handling" /\ req \in Request
  BY <1>1, InIs
<1>. HIDE DEF req
<1>3. CASE Handle(r)
  <2>1. PICK status \in {StatusOf[e] : e \in Errors} \cup {200} : Set(r, Answered(req, status))
    BY <1>3 DEF Handle, req
  <2>2. status \in Statuses
    BY ServerAssumption, StatusesAre
  <2>3. Whole(req)
    BY <1>2 DEF Sound
  <2>. QED BY <1>1, <1>2, <2>1, <2>2, <2>3, AnsweredIsSound, OneRequest
<1>4. CASE HandlerThrows(r)
  <2> DEFINE thrown == [Over(req) EXCEPT !.status = 500, !.outgoing = IF @ = "open" THEN "ended" ELSE @]
  <2>1. Set(r, thrown)
    BY <1>4 DEF HandlerThrows, req
  <2>2. Sound(thrown)
    <3>1. /\ Whole(req) /\ req.body = None /\ req.body # "open" /\ req.sent = req.made
          /\ req.outgoing # "ended" /\ req.outgoing \in {"open", "ended", "destroyed"}
          /\ (req.aborted => req.outgoing = "destroyed")
      BY <1>2, ServerAssumption DEF Sound, Whole, Request
    <3>2. 500 \in Statuses \cup {None}
      BY StatusesAre
    <3>3. Over(req).outgoing = req.outgoing
      BY <1>2 DEF Over, Request
    <3>4. CASE req.outgoing = "open"
      <4>1. thrown = [Over(req) EXCEPT !.status = 500, !.outgoing = "ended"]
        BY <3>3, <3>4 DEF thrown
      <4>2. "ended" \in {"ended", "destroyed"} /\ ~req.aborted /\ req.body \in {None, "done"}
        BY <3>1, <3>4
      <4>3. ASSUME NEW status \in Statuses \cup {None}
            PROVE  Sound([Over(req) EXCEPT !.status = status, !.outgoing = "ended"])
        BY <3>1, <4>2, OverIsSound
      <4>. QED BY <3>2, <4>1, <4>3
    <3>5. CASE req.outgoing = "destroyed"
      <4>1. thrown = [Over(req) EXCEPT !.status = 500, !.outgoing = "destroyed"]
        BY <3>3, <3>5 DEF thrown
      <4>2. ASSUME NEW status \in Statuses \cup {None}
            PROVE  Sound([Over(req) EXCEPT !.status = status, !.outgoing = "destroyed"])
        BY <3>1, OverIsSound
      <4>. QED BY <3>2, <4>1, <4>2
    <3>. QED BY <3>1, <3>4, <3>5
  <2>. HIDE DEF thrown
  <2>. QED BY <1>1, <2>1, <2>2, OneRequest
<1>. QED BY <1>3, <1>4

\* A body that came after the abort is cancelled when the response begins.
LEMMA RespondStep ==
  ASSUME ServerInv, NEW r \in Connections, Respond(r)
  PROVE  ServerInv'
<1> DEFINE req == requests[r]
           over == [Over(req) EXCEPT !.outgoing = IF @ = "open" THEN "ended" ELSE @]
<1>1. In(r, "answered") /\ UNCHANGED <<stopping, stopped>>
      /\ IF req.body = None THEN Set(r, over) ELSE Set(r, Streamed(req))
  BY DEF Respond
<1>2. Sound(req) /\ req.at = "answered" /\ req \in Request
  BY <1>1, InIs
<1>. HIDE DEF req
<1>3. ASSUME req.body = None PROVE Sound(over)
  <2>1. /\ Whole(req) /\ req.body # "open" /\ req.sent = req.made
        /\ req.outgoing # "ended" /\ req.outgoing \in {"open", "ended", "destroyed"}
        /\ (req.aborted => req.outgoing = "destroyed")
    BY <1>2, <1>3, ServerAssumption DEF Sound, Whole, Request
  <2>2. Over(req).outgoing = req.outgoing
    BY <1>2 DEF Over, Request
  <2>. QED BY <1>3, <2>1, <2>2, OverIsSound
<1>4. req.body # None => Sound(Streamed(req))
  <2>1. Streamed(req) \in Request
    BY <1>2 DEF Streamed, Request
  <2>2. /\ Streamed(req).at = "streaming" /\ Streamed(req).made = req.made /\ Streamed(req).sent = req.sent
        /\ Streamed(req).outgoing = req.outgoing /\ Streamed(req).aborted = req.aborted
        /\ Streamed(req).body = IF req.aborted /\ req.body = "open" THEN "cancelled" ELSE req.body
    BY <1>2 DEF Streamed, Request
  <2>. QED BY <1>2, <2>1, <2>2, ServerAssumption DEF Sound, Whole
<1>. HIDE DEF over
<1>. QED BY <1>1, <1>3, <1>4, OneRequest

\* Only an open body is made.
LEMMA MakeStep ==
  ASSUME ServerInv, NEW r \in Connections, Make(r)
  PROVE  ServerInv'
<1> DEFINE req == requests[r]
<1>1. /\ In(r, "answered") \/ In(r, "streaming")
      /\ req.body = "open" /\ UNCHANGED <<stopping, stopped>>
      /\ \/ req.made < MaxPieces /\ Set(r, [req EXCEPT !.made = @ + 1])
         \/ \E end \in {"done", "failed"} : Set(r, [req EXCEPT !.body = end])
  BY DEF Make
<1>2. Sound(req) /\ req.at \in {"answered", "streaming"} /\ req \in Request /\ req.body = "open"
  BY <1>1, InIs
<1>. HIDE DEF req
<1>3. req.made < MaxPieces => Sound([req EXCEPT !.made = @ + 1])
  BY <1>2, ServerAssumption DEF Sound, Whole, Request
<1>4. ASSUME NEW end \in {"done", "failed"} PROVE Sound([req EXCEPT !.body = end])
  BY <1>2, ServerAssumption DEF Sound, Whole, Request
<1>. QED BY <1>1, <1>3, <1>4, OneRequest

\* Nothing is sent that was not made, and only a whole body is ended.
LEMMA SendStep ==
  ASSUME ServerInv, NEW r \in Connections, Forward(r) \/ Finish(r) \/ Break(r)
  PROVE  ServerInv'
<1> DEFINE req == requests[r]
<1>1. In(r, "streaming") /\ UNCHANGED <<stopping, stopped>>
  BY DEF Forward, Finish, Break
<1>2. Sound(req) /\ req.at = "streaming" /\ req \in Request
  BY <1>1, InIs
<1>3. \/ req.sent < req.made /\ Set(r, [req EXCEPT !.sent = @ + 1])
      \/ ~req.aborted /\ req.body = "done" /\ req.sent = req.made /\ Set(r, [Over(req) EXCEPT !.outgoing = "ended"])
      \/ (req.aborted \/ req.body = "failed") /\ Set(r, Destroyed(req))
  BY DEF Forward, Finish, Break
<1>. HIDE DEF req
<1>4. req.sent < req.made => Sound([req EXCEPT !.sent = @ + 1])
  BY <1>2, ServerAssumption DEF Sound, Whole, Request
<1>5. ~req.aborted /\ req.body = "done" /\ req.sent = req.made => Sound([Over(req) EXCEPT !.outgoing = "ended"])
  BY <1>2, OverIsSound DEF Sound
<1>6. req.aborted \/ req.body = "failed" => Sound(Destroyed(req))
  BY <1>2, OverIsSound DEF Sound, Whole, Destroyed
<1>. QED BY <1>1, <1>3, <1>4, <1>5, <1>6, OneRequest

\* The peer and the deadline abort one request,
LEMMA AbortStep ==
  ASSUME ServerInv, NEW r \in Connections, PeerCloses(r) \/ Timeout(r)
  PROVE  ServerInv'
<1> DEFINE req == requests[r]
<1>1. Sound(req) /\ req.at # "over" /\ UNCHANGED <<stopping, stopped>>
  BY DEF PeerCloses, Timeout, Serving, ServerInv
<1>2. Set(r, Aborted(req)) \/ Set(r, [Aborted(req) EXCEPT !.timer = FALSE])
  BY DEF PeerCloses, Timeout
<1>. HIDE DEF req
<1>3. Sound(Aborted(req)) /\ Sound([Aborted(req) EXCEPT !.timer = FALSE])
  BY <1>1, AbortedIsWhole DEF Sound
<1>. QED BY <1>1, <1>2, <1>3, OneRequest

\* and the shutdown every one that is being served.
LEMMA ShutdownStep ==
  ASSUME ServerInv, ShutdownServer
  PROVE  ServerInv'
<1>1. /\ requests' = [r \in Connections |-> IF Serving(r) THEN Aborted(requests[r]) ELSE requests[r]]
      /\ stopping' = TRUE /\ stopped' = stopped
  BY DEF ShutdownServer, AbortAll
<1>2. ASSUME NEW r \in Connections, Serving(r) PROVE Sound(Aborted(requests[r])) /\ Aborted(requests[r]) \in Request
  <2>1. Sound(requests[r]) /\ requests[r].at # "over"
    BY <1>2 DEF ServerInv, Serving
  <2>. QED BY <2>1, AbortedIsWhole DEF Sound, Whole
<1>. QED BY <1>1, <1>2 DEF ServerInv

\* Every step keeps what is so of each request.
LEMMA ServerStep ==
  ASSUME ServerInv, [ServerNext]_serverVars
  PROVE  ServerInv'
<1>1. CASE Stop
  BY <1>1 DEF Stop, ServerInv
<1>2. CASE UNCHANGED serverVars
  BY <1>2 DEF serverVars, ServerInv
<1>. QED BY <1>1, <1>2, ArriveStep, ReadStep, HandleStep, RespondStep, MakeStep, SendStep, AbortStep,
            ShutdownStep DEF ServerNext

\* A response that ends is whole and is its route's, and a request that is over leaves
\* no body open, no deadline and no connection: serve aborts what it streams and
\* cancels what came too late, for every number of requests, limits and errors.
THEOREM ResponsesStayWhole == ServerSpec => []ResponsesAreWhole
<1>1. ServerInit => ServerInv
  BY DEF ServerInit, ServerInv
<1>2. ServerInv => ResponsesAreWhole
  <2>. SUFFICES ASSUME ServerInv PROVE ResponsesAreWhole
    OBVIOUS
  <2>1. ServerTypeOK
    BY DEF ServerInv, ServerTypeOK
  <2>2. \A req \in Served : Sound(req)
    BY DEF Served, ServerInv
  <2>3. \A req \in Served : Matching(req.asked.path) # {} =>
          Intended(req.asked.path) = {FirstRoute(req.asked.path)}
    BY FirstRouteIsIntended
  <2>. QED BY <2>1, <2>2, <2>3 DEF ResponsesAreWhole, Sound, Whole
<1>3. ServerInv /\ [ServerNext]_serverVars => ServerInv'
  BY ServerStep
<1>. QED BY <1>1, <1>2, <1>3, PTL DEF ServerSpec
=============================================================================
