---------------------------- MODULE MCMediaQueue ----------------------------
(* The frames of a call with three blocks of memory. *)
EXTENDS MediaQueue, TLC

=============================================================================
