-------------------------------- MODULE MCNvme --------------------------------
(* Two tasks that use the disk: one reads one or two blocks, again and again, *)
(* and one trims it, which no code does yet.                                 *)
EXTENDS Nvme, TLC

CONSTANTS r1, r2

MCBlocks == (r1 :> 2) @@ (r2 :> 1)
MCKind == (r1 :> "read") @@ (r2 :> "trim")
MCSize == (Admin :> 6) @@ (Io :> 3)
MCOvertaken == (Admin :> 2) @@ (Io :> 2)
=============================================================================
