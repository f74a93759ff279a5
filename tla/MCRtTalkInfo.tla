---------------------------- MODULE MCRtTalkInfo ----------------------------
(***************************************************************************)
(* RtTalkInfo for TLC: three phones against an array of two entries, with  *)
(* one word behind it that the scan for a free entry reaches.  The word    *)
(* holds anything, may look free, and may be rewritten at any moment.      *)
(***************************************************************************)
EXTENDS RtTalkInfo
=============================================================================
