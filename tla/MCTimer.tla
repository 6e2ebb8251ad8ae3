------------------------------- MODULE MCTimer -------------------------------
(* Delays of 7 and 9 microseconds against handlers that take at most 2.      *)
EXTENDS Timer

MCDelays == {7, 9}
=============================================================================
