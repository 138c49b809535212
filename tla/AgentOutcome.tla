---------------------------- MODULE AgentOutcome ----------------------------
(***************************************************************************)
(* What agent runs promise whoever waits for their proposals: a run ends   *)
(* once and for good, a proposal that needs an approval is held until      *)
(* somebody decides, and only what completed is published, once.           *)
(***************************************************************************)
CONSTANT RunIds

VARIABLES
  outcome,   \* of each run: "none" before it starts
  published  \* runs whose Delta anyone may see

Outcomes == {"none", "open", "held", "completed", "dropped"}

Init ==
  /\ outcome = [r \in RunIds |-> "none"]
  /\ published = {}

Moves ==
  {<<"none", "open">>, <<"open", "held">>, <<"open", "completed">>, <<"open", "dropped">>,
   <<"held", "completed">>, <<"held", "dropped">>}

Move(r, next) ==
  /\ <<outcome[r], next>> \in Moves
  /\ outcome' = [outcome EXCEPT ![r] = next]
  /\ UNCHANGED published

Publish(r) ==
  /\ outcome[r] = "completed" /\ r \notin published
  /\ published' = published \cup {r}
  /\ UNCHANGED outcome

Next ==
  \/ \E r \in RunIds, next \in Outcomes : Move(r, next)
  \/ \E r \in RunIds : Publish(r)

Spec == Init /\ [][Next]_<<outcome, published>>
=============================================================================
