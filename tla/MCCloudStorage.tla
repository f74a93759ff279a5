--------------------------- MODULE MCCloudStorage ---------------------------
(***************************************************************************)
(* The recording of an event to the cloud for TLC: an event that is        *)
(* recorded and one that is only notified, and lengths of a few frames in  *)
(* place of 52, 90 and 450.  Each .cfg says how the frames are grouped and *)
(* what may fail.                                                          *)
(***************************************************************************)
EXTENDS CloudStorage

CONSTANTS MOVT_WAKEUP, PIR_WAKEUP, INIT_WAKEUP

MCEvents == {MOVT_WAKEUP, PIR_WAKEUP}
MCCloudEvents == {MOVT_WAKEUP}
=============================================================================
