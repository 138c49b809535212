------------------------------- MODULE Null -------------------------------
(* null, in the tables and in the code: no row, no value, no member.       *)
CONSTANT None
=============================================================================
