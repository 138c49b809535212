---------------------------- MODULE MCChatStream ----------------------------
(* Small instances of ChatStream for TLC. *)
EXTENDS ChatStream, TLC

CONSTANTS c1, c2, ana, bo, k1, k2, hi

OneCall == {c1}
TwoCalls == {c1, c2}
OneUser == {ana}
TwoUsers == {ana, bo}

\* Calls, members and message ids are only compared.  Naming them in the order
\* they are used loses no behaviour, where a symmetry set would not be sound with
\* liveness.  A rival of another author repeats the first one's message id: with
\* an id of his own he is any other rival.
InOrder ==
  /\ calls[c1] # None => calls[c1].clientId = k1 /\ calls[c1].by = ana
  /\ calls[c2] # None => calls[c1] # None /\ (calls[c2].by = ana \/ calls[c2].clientId = k1)

\* The second member joins at any time.  That a caller is demoted is left out: it
\* refuses what Refuse refuses anyway, and AgentRun and ContextMerge demote.
Roster == role' = role \/ role' = [u \in Users |-> IF u = ana THEN "owner" ELSE "editor"]
=============================================================================
