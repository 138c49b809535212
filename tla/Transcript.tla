----------------------------- MODULE Transcript -----------------------------
(***************************************************************************)
(* What a conversation promises its readers: a log that only grows, where  *)
(* what a member says is recorded once however often it is sent, gets at   *)
(* most one answer, and an answer ends once and then never changes.        *)
(***************************************************************************)
EXTENDS Sequences, Naturals

CONSTANT ClientMessageIds

VARIABLE transcript

Said(k) == [said |-> {k}, answers |-> 0, state |-> "completed"]
Answer(i) == [said |-> {}, answers |-> i, state |-> "open"]

Init == transcript = <<>>

Say(k) ==
  /\ \A i \in DOMAIN transcript : k \notin transcript[i].said
  /\ transcript' = Append(transcript, Said(k))

Begin(i) ==
  /\ transcript[i].said # {}
  /\ \A j \in DOMAIN transcript : transcript[j].answers # i
  /\ transcript' = Append(transcript, Answer(i))

End(i, state) ==
  /\ transcript[i].state = "open"
  /\ transcript' = [transcript EXCEPT ![i].state = state]

Next ==
  \/ \E k \in ClientMessageIds : Say(k)
  \/ \E i \in DOMAIN transcript :
       Begin(i) \/ \E state \in {"completed", "interrupted", "failed"} : End(i, state)

Spec == Init /\ [][Next]_transcript
=============================================================================
