---------------------------- MODULE MCVisualCall ----------------------------
(***************************************************************************)
(* VisualCall for TLC. Each .cfg names the phones, the events of the cloud *)
(* that may happen, and how many requests and timers are in flight.        *)
(***************************************************************************)
EXTENDS VisualCall
=============================================================================
