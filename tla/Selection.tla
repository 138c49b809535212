------------------------------ MODULE Selection ------------------------------
(* What Array.prototype.filter leaves of a sequence. *)
EXTENDS Sequences, Integers

\* What s has at the places in I, in the order of s.
Filtered(s, I) ==
  LET from[n \in 0..Len(s)] ==
        IF n = 0 THEN <<>> ELSE IF n \in I THEN Append(from[n - 1], s[n]) ELSE from[n - 1]
  IN from[Len(s)]
=============================================================================
