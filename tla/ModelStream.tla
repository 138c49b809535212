---------------------------- MODULE ModelStream ----------------------------
(***************************************************************************)
(* What ModelProvider.stream promises to whoever iterates it: one start,   *)
(* then text and usage, then one finish; only a finished stream ends       *)
(* without an error, and a finished stream never fails.                    *)
(***************************************************************************)
EXTENDS Sequences

CONSTANT None

VARIABLES
  heard,  \* types of the events the iterator has returned
  ended   \* how the iteration ended, None while it goes on

Started == heard # <<>>
Finished == \E i \in DOMAIN heard : heard[i] = "finish"

Init == heard = <<>> /\ ended = None

Hear(type) ==
  /\ ended = None /\ ~Finished
  /\ type = "start" <=> ~Started
  /\ heard' = Append(heard, type)
  /\ UNCHANGED ended

End(how) ==
  /\ ended = None
  /\ how = "finished" => Finished
  /\ how = "failed" => ~Finished
  /\ how = "returned" => Started
  /\ ended' = how
  /\ UNCHANGED heard

Next ==
  \/ \E type \in {"start", "text", "usage", "finish"} : Hear(type)
  \/ \E how \in {"finished", "failed", "returned"} : End(how)

Spec == Init /\ [][Next]_<<heard, ended>>
=============================================================================
