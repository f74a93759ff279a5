---------------------------- MODULE MCUartUpdate ----------------------------
(* UartUpdate for TLC: a file of two blocks. *)
EXTENDS UartUpdate

\* A damaged length field may say too little, or more than the buffer holds.
MCGarbled == {0, 3, 9}
=============================================================================
