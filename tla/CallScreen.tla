----------------------------- MODULE CallScreen -----------------------------
(***************************************************************************)
(* What the user sees of a visual call: video_call_state of                *)
(* ui/style_LY/ui_action_rec.c, and which changes of it make sense.  The   *)
(* messages, timers and threads behind it are the module VisualCall.       *)
(***************************************************************************)
VARIABLE screen

State == {"IDLE", "STARTING", "TALKING", "TALKING_WITHOUT_VIDEO"}

Init == screen = "IDLE"

Dial == screen = "IDLE" /\ screen' = "STARTING"

\* A phone answers the dial, by voice only or with its picture.
Answer == /\ screen = "STARTING"
          /\ screen' \in {"TALKING", "TALKING_WITHOUT_VIDEO"}

\* A phone calls the device, or adds its picture to the voice.
ShowPicture == /\ screen \in {"IDLE", "TALKING_WITHOUT_VIDEO"}
               /\ screen' = "TALKING"

End == screen # "IDLE" /\ screen' = "IDLE"

Next == Dial \/ Answer \/ ShowPicture \/ End

Spec == Init /\ [][Next]_screen

\* Whoever answers or does not, the device stops dialling.
FairSpec == Spec /\ WF_screen(screen = "STARTING" /\ (Answer \/ End))
=============================================================================
