---------------------------- MODULE MCXhciRings ----------------------------
(* Two clients share an endpoint, and one of them sends commands too.        *)
EXTENDS XhciRings, TLC

CONSTANTS a, b, endpoint

MCUses == (a :> {endpoint, CommandRing}) @@ (b :> {endpoint})
=============================================================================
