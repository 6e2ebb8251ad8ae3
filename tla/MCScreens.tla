------------------------------ MODULE MCScreens ------------------------------
(* Both adapters, with any number of buffers.                                *)
EXTENDS Screens
=============================================================================
