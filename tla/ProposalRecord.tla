--------------------------- MODULE ProposalRecord ---------------------------
(***************************************************************************)
(* What is recorded of an extraction: it is opened, then closed once, with *)
(* a proposal or without one, and never changes again.                     *)
(***************************************************************************)
CONSTANT Extractions

VARIABLE record

Init == record = [e \in Extractions |-> "absent"]

Step(e, from, to) == record[e] = from /\ record' = [record EXCEPT ![e] = to]

Next ==
  \E e \in Extractions :
    \/ Step(e, "absent", "open")
    \/ \E to \in {"proposed", "failed"} : Step(e, "open", to)

Spec == Init /\ [][Next]_record
=============================================================================
