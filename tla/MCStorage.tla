------------------------------ MODULE MCStorage ------------------------------
(* Two coroutines on one partition that share a block, a third on another that *)
(* reads more than the vector has room for at first; and a writer.             *)
EXTENDS Storage, TLC

CONSTANTS r1, r2, r3, p1, p2

MCWants == (r1 :> [disk |-> p1, first |-> 0, count |-> 2])
           @@ (r2 :> [disk |-> p1, first |-> 1, count |-> 1])
           @@ (r3 :> [disk |-> p2, first |-> 0, count |-> 3])
MCBase == (p1 :> 1) @@ (p2 :> 4)
=============================================================================
