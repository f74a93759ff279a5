------------------------ MODULE CloudStorage_proofs ------------------------
(***************************************************************************)
(* The phases of a clip, for every set of events and every length, as long *)
(* as a clip has a length at all.  The invariant says in which phase the   *)
(* recorder can be at each of its steps, and that the timer never holds a  *)
(* decision to end a clip that is not the running one: the counter reaches *)
(* the length of the clip only while the recorder uploads, and is zero     *)
(* again before the next clip starts.  TypeInv and Gapless, further down,  *)
(* are about the list of frames: what it can hold at each step, and that   *)
(* the frames of an open clip lie in it without a gap.                     *)
(***************************************************************************)
EXTENDS CloudStorage, NumberLemmas, TLAPS, FiniteSetTheorems

Tasks == {"wait", "push", "start", "upload", "append", "end", "clear", "stop"}
         \cup Resetting

Types ==
    /\ up_state \in States /\ timer_id \in BOOLEAN /\ sem \in {0, 1}
    /\ fps_cnt \in Nat /\ task \in Tasks
    /\ timer \in {"idle", "pend", "compare", "delete"}

\* In which phase the clip is, by what cloud_storage_task does.
PhaseOfTask ==
    /\ task = "wait" => up_state \in {"IDLE", "STOP", "STARTING"}
    /\ task \in {"push", "start"} => up_state = "STARTING"
    /\ task = "append" => up_state = "START"
    /\ task \in {"upload", "end"} => up_state \in {"START", "STOPING"}
    /\ task \in {"clear", "stop"} => up_state = "STOPING"
    /\ task \in Resetting => up_state = "STOP"

\* The counter is full only while the recorder waits for the end of the clip.
CounterOfTask ==
    /\ up_state = "STARTING" => fps_cnt = 0
    /\ up_state = "START" /\ fps_cnt >= Clip => task = "upload"

\* What a running callback of the timer will do is still right when it does it.
TimerIsCurrent ==
    /\ timer # "idle" /\ fps_cnt >= Clip => up_state = "START"
    /\ timer = "delete" => fps_cnt >= Clip

Inv == /\ Types /\ PhaseOfTask /\ CounterOfTask /\ TimerIsCurrent
       /\ TimerWhileRecording /\ WakesForAStart

LEMMA InvInit == ASSUME Clip # 0 PROVE Init => Inv
<1> SUFFICES ASSUME Clip # 0, Init PROVE Inv
  OBVIOUS
<1>1. /\ up_state = "IDLE" /\ timer_id = FALSE /\ sem = 0 /\ fps_cnt = 0
      /\ timer = "idle" /\ task = "wait" /\ up = FALSE
  BY DEF Init
<1>2. Types
  BY <1>1 DEF Types, States, Tasks, Resetting
<1>3. PhaseOfTask /\ CounterOfTask /\ TimerIsCurrent /\ WakesForAStart
  BY <1>1 DEF PhaseOfTask, CounterOfTask, TimerIsCurrent, WakesForAStart, Resetting
<1>4. TimerWhileRecording
  BY <1>1 DEF TimerWhileRecording
<1> QED BY <1>2, <1>3, <1>4 DEF Inv

\* The steps that leave the phases of the clip alone.
control == <<up_state, timer_id, sem, fps_cnt, timer, task, up>>

LEMMA InvStutter == Inv /\ UNCHANGED control => Inv'
  BY DEF Inv, control, Types, PhaseOfTask, CounterOfTask, TimerIsCurrent,
         TimerWhileRecording, WakesForAStart

LEMMA OtherSteps ==
    ASSUME NEW s, NEW kind,
           \/ set_wakeup_status(s) \/ EventOnline \/ EventGivenUp \/ EventPushed
           \/ wakeup_status_backup_cb(s) \/ VideoFrame(kind) \/ VideoTrims \/ VideoAdds
           \/ cloud_storage_audio_write \/ LeaveScreen \/ EnterScreen \/ Network
    PROVE  UNCHANGED control
<1>1. CASE set_wakeup_status(s) \/ EventOnline \/ EventGivenUp \/ EventPushed
  BY <1>1 DEF set_wakeup_status, EventOnline, EventGivenUp, EventPushed, control,
              storage, upload
<1>2. CASE wakeup_status_backup_cb(s) \/ VideoFrame(kind) \/ EnterScreen \/ Network
  BY <1>2 DEF wakeup_status_backup_cb, VideoFrame, EnterScreen, Network, control,
              storage, upload
<1>3. CASE VideoTrims \/ VideoAdds \/ cloud_storage_audio_write \/ LeaveScreen
  BY <1>3 DEF VideoTrims, VideoAdds, cloud_storage_audio_write, LeaveScreen, control,
              storage, upload
<1> QED BY <1>1, <1>2, <1>3

\* One step of the phases: where it leads, and that it is the next one.
InOrder == up_state' = up_state \/ up_state' = NextState(up_state)

LEMMA StutterInOrder == UNCHANGED control => InOrder
  BY DEF control, InOrder

\* A clip is started when the last one is put away: the counter is zero.
LEMMA StartKeeps ==
    ASSUME Clip # 0, Inv, do_event_push PROVE Inv' /\ InOrder
<1>1. CASE event.status \in CloudEvents /\ StartClip
  <2>1. /\ up_state \in {"STOP", "IDLE"} /\ up_state' = "STARTING" /\ timer_id' = TRUE
        /\ fps_cnt' = IF timer_id THEN fps_cnt ELSE 0
        /\ sem' = sem /\ timer' = timer /\ task' = task /\ up' = up
        /\ task \notin Resetting
    BY <1>1 DEF do_event_push, StartClip, StorageLocked, upload
  <2>2. timer_id = FALSE
    BY <2>1 DEF Inv, Types, TimerWhileRecording
  <2>3. fps_cnt' = 0 /\ task = "wait"
    BY <2>1, <2>2 DEF Inv, Types, Tasks, PhaseOfTask
  <2>4. Types'
    BY <2>1, <2>3 DEF Inv, Types, States
  <2>5. (PhaseOfTask /\ CounterOfTask /\ WakesForAStart)'
    BY <2>1, <2>3 DEF PhaseOfTask, CounterOfTask, WakesForAStart, Resetting
  <2>6. TimerIsCurrent'
    BY <2>1, <2>3, LengthsAssumption DEF Inv, Types, TimerIsCurrent
  <2>7. TimerWhileRecording'
    BY <2>1 DEF TimerWhileRecording
  <2>8. InOrder
    BY <2>1 DEF InOrder, NextState
  <2> QED BY <2>4, <2>5, <2>6, <2>7, <2>8 DEF Inv
<1>2. CASE ~ (event.status \in CloudEvents /\ StartClip)
  <2>1. UNCHANGED control
    BY <1>2 DEF do_event_push, NotifyOnly, HoldBack, control, upload
  <2> QED BY <2>1, InvStutter, StutterInOrder
<1> QED BY <1>1, <1>2

\* The timer's three steps.
LEMMA TimerKeeps ==
    ASSUME Clip # 0, Inv,
           TimerFires \/ cloud_storage_timer \/ TimerCompares \/ TimerDeletes
    PROVE  Inv' /\ InOrder
<1>1. CASE cloud_storage_timer
  <2>1. /\ timer = "pend" /\ timer' = "compare"
        /\ sem' = IF up_state = "STARTING" /\ sem = 0 THEN 1 ELSE sem
        /\ UNCHANGED <<up_state, timer_id, fps_cnt, task, up>>
    BY <1>1 DEF cloud_storage_timer, upload
  <2>2. (Types /\ PhaseOfTask /\ CounterOfTask /\ WakesForAStart)'
    BY <2>1 DEF Inv, Types, PhaseOfTask, CounterOfTask, WakesForAStart
  <2>3. TimerIsCurrent'
    BY <2>1 DEF Inv, TimerIsCurrent
  <2>4. TimerWhileRecording' /\ InOrder
    BY <2>1 DEF Inv, TimerWhileRecording, InOrder
  <2> QED BY <2>2, <2>3, <2>4 DEF Inv
<1>2. CASE TimerFires
  <2>1. /\ timer_id /\ timer' = "pend"
        /\ UNCHANGED <<up_state, timer_id, sem, fps_cnt, task, up>>
    BY <1>2 DEF TimerFires, storage, upload
  <2>2. up_state \in {"STARTING", "START"}
    BY <2>1 DEF Inv, TimerWhileRecording
  <2>3. (Types /\ PhaseOfTask /\ CounterOfTask /\ WakesForAStart)'
    BY <2>1 DEF Inv, Types, PhaseOfTask, CounterOfTask, WakesForAStart
  <2>4. TimerIsCurrent'
    BY <2>1, <2>2, LengthsAssumption DEF Inv, Types, CounterOfTask, TimerIsCurrent
  <2>5. TimerWhileRecording' /\ InOrder
    BY <2>1 DEF Inv, TimerWhileRecording, InOrder
  <2> QED BY <2>3, <2>4, <2>5 DEF Inv
<1>3. CASE TimerCompares
  <2>1. /\ timer = "compare"
        /\ timer' = IF fps_cnt >= Clip THEN "delete" ELSE "idle"
        /\ UNCHANGED <<up_state, timer_id, sem, fps_cnt, task, up>>
    BY <1>3 DEF TimerCompares, storage, upload
  <2>2. (Types /\ PhaseOfTask /\ CounterOfTask /\ WakesForAStart)'
    BY <2>1 DEF Inv, Types, PhaseOfTask, CounterOfTask, WakesForAStart
  <2>3. TimerIsCurrent'
    BY <2>1 DEF Inv, TimerIsCurrent
  <2>4. TimerWhileRecording' /\ InOrder
    BY <2>1 DEF Inv, TimerWhileRecording, InOrder
  <2> QED BY <2>2, <2>3, <2>4 DEF Inv
<1>4. CASE TimerDeletes
  <2>1. /\ timer = "delete" /\ timer' = "idle"
        /\ up_state = "START" /\ task = "upload"
    BY <1>4 DEF TimerDeletes, Inv, TimerIsCurrent, CounterOfTask
  <2>2. timer_id = TRUE
    BY <2>1 DEF Inv, Types, TimerWhileRecording
  <2>3. /\ up_state' = "STOPING" /\ timer_id' = FALSE
        /\ UNCHANGED <<sem, fps_cnt, task, up>>
    BY <1>4, <2>1, <2>2 DEF TimerDeletes, cloud_storage_timer_del, upload
  <2>4. Types'
    BY <2>1, <2>3 DEF Inv, Types, States
  <2>5. (PhaseOfTask /\ CounterOfTask /\ WakesForAStart /\ TimerIsCurrent)'
    BY <2>1, <2>3 DEF PhaseOfTask, CounterOfTask, WakesForAStart, TimerIsCurrent, Resetting
  <2>6. TimerWhileRecording' /\ InOrder
    BY <2>1, <2>3 DEF TimerWhileRecording, InOrder, NextState
  <2> QED BY <2>4, <2>5, <2>6 DEF Inv
<1> QED BY <1>1, <1>2, <1>3, <1>4

\* The recorder up to the end of the upload.
LEMMA RecordingKeeps ==
    ASSUME Clip # 0, Inv,
           \/ TaskWakes \/ TaskPushes \/ TaskStarts \/ cloud_storage_uploading
           \/ UploadEnds \/ Append_v2 \/ AppendFails
    PROVE  Inv' /\ InOrder
<1>1. CASE TaskWakes
  <2>1. /\ task = "wait" /\ sem = 1 /\ sem' = 0 /\ task' = "push"
        /\ UNCHANGED <<up_state, timer_id, fps_cnt, timer, up>>
    BY <1>1 DEF TaskWakes
  <2>2. up_state = "STARTING"
    BY <2>1 DEF Inv, WakesForAStart
  <2>3. (Types /\ PhaseOfTask /\ CounterOfTask /\ TimerIsCurrent /\ WakesForAStart)'
    BY <2>1, <2>2 DEF Inv, Types, Tasks, PhaseOfTask, CounterOfTask, TimerIsCurrent,
                      WakesForAStart, Resetting
  <2>4. TimerWhileRecording' /\ InOrder
    BY <2>1 DEF Inv, TimerWhileRecording, InOrder
  <2> QED BY <2>3, <2>4 DEF Inv
<1>2. CASE TaskPushes
  <2>1. /\ task = "push" /\ task' = "start"
        /\ UNCHANGED <<up_state, timer_id, sem, fps_cnt, timer>>
    BY <1>2 DEF TaskPushes
  <2>2. Types'
    BY <2>1 DEF Inv, Types, Tasks
  <2>3. (PhaseOfTask /\ CounterOfTask /\ TimerIsCurrent /\ WakesForAStart)'
    BY <2>1 DEF Inv, PhaseOfTask, CounterOfTask, TimerIsCurrent, WakesForAStart, Resetting
  <2>4. TimerWhileRecording' /\ InOrder
    BY <2>1 DEF Inv, TimerWhileRecording, InOrder
  <2> QED BY <2>2, <2>3, <2>4 DEF Inv
<1>3. CASE TaskStarts
  <2>1. /\ task = "start" /\ task' = "upload" /\ up_state' = "START"
        /\ UNCHANGED <<timer_id, sem, fps_cnt, timer, up>>
    BY <1>3 DEF TaskStarts
  <2>2. up_state = "STARTING"
    BY <2>1 DEF Inv, PhaseOfTask
  <2>3. Types'
    BY <2>1 DEF Inv, Types, Tasks, States
  <2>4. (PhaseOfTask /\ CounterOfTask /\ TimerIsCurrent /\ WakesForAStart)'
    BY <2>1, <2>2 DEF Inv, PhaseOfTask, CounterOfTask, TimerIsCurrent, WakesForAStart,
                      Resetting
  <2>5. TimerWhileRecording' /\ InOrder
    BY <2>1, <2>2 DEF Inv, TimerWhileRecording, InOrder, NextState
  <2> QED BY <2>3, <2>4, <2>5 DEF Inv
<1>4. CASE cloud_storage_uploading
  <2>1. /\ task = "upload" /\ up_state = "START"
        /\ UNCHANGED <<up_state, timer_id, sem, timer, up>>
    BY <1>4 DEF cloud_storage_uploading, storage
  <2>2. \/ fps_cnt < Clip /\ fps_cnt' = fps_cnt /\ task' = "append"
        \/ fps_cnt' \in {fps_cnt, fps_cnt + 1} /\ task' = task
    BY <1>4 DEF cloud_storage_uploading, Counted, Inv, Types
  <2>3. Types'
    BY <2>1, <2>2 DEF Inv, Types, Tasks
  <2>4. (PhaseOfTask /\ CounterOfTask /\ TimerIsCurrent /\ WakesForAStart)'
    <3>1. (PhaseOfTask /\ WakesForAStart)'
      BY <2>1, <2>2 DEF PhaseOfTask, WakesForAStart, Resetting
    <3>2. (CounterOfTask /\ TimerIsCurrent)'
      BY <2>1, <2>2, LengthsAssumption
         DEF Inv, Types, CounterOfTask, TimerIsCurrent
    <3> QED BY <3>1, <3>2
  <2>5. TimerWhileRecording' /\ InOrder
    BY <2>1 DEF Inv, TimerWhileRecording, InOrder
  <2> QED BY <2>3, <2>4, <2>5 DEF Inv
<1>5. CASE UploadEnds
  <2>1. /\ task = "upload" /\ up_state # "START" /\ task' = "end"
        /\ UNCHANGED <<up_state, timer_id, sem, fps_cnt, timer, up>>
    BY <1>5 DEF UploadEnds, storage
  <2>2. (Types /\ PhaseOfTask /\ CounterOfTask /\ TimerIsCurrent /\ WakesForAStart)'
    BY <2>1 DEF Inv, Types, Tasks, PhaseOfTask, CounterOfTask, TimerIsCurrent,
                WakesForAStart, Resetting
  <2>3. TimerWhileRecording' /\ InOrder
    BY <2>1 DEF Inv, TimerWhileRecording, InOrder
  <2> QED BY <2>2, <2>3 DEF Inv
<1>6. CASE Append_v2
  <2>1. /\ task = "append" /\ up_state = "START" /\ task' = "upload"
        /\ fps_cnt' \in {fps_cnt, fps_cnt + 1}
        /\ UNCHANGED <<up_state, timer_id, sem, timer, up>>
    BY <1>6 DEF Append_v2, Counted, storage, Inv, PhaseOfTask, Types
  <2>2. Types'
    BY <2>1 DEF Inv, Types, Tasks
  <2>3. (PhaseOfTask /\ WakesForAStart)'
    BY <2>1 DEF PhaseOfTask, WakesForAStart, Resetting
  <2>4. (CounterOfTask /\ TimerIsCurrent)'
    BY <2>1, LengthsAssumption DEF Inv, Types, CounterOfTask, TimerIsCurrent
  <2>5. TimerWhileRecording' /\ InOrder
    BY <2>1 DEF Inv, TimerWhileRecording, InOrder
  <2> QED BY <2>2, <2>3, <2>4, <2>5 DEF Inv
<1>7. CASE AppendFails
  <2>1. /\ task = "append" /\ up_state = "START" /\ task' = "end"
        /\ UNCHANGED <<up_state, timer_id, sem, fps_cnt, timer, up>>
    BY <1>7 DEF AppendFails, storage
  <2>2. ~ fps_cnt >= Clip
    BY <2>1 DEF Inv, CounterOfTask
  <2>3. (Types /\ PhaseOfTask /\ CounterOfTask /\ TimerIsCurrent /\ WakesForAStart)'
    BY <2>1, <2>2 DEF Inv, Types, Tasks, PhaseOfTask, CounterOfTask, TimerIsCurrent,
                      WakesForAStart, Resetting
  <2>4. TimerWhileRecording' /\ InOrder
    BY <2>1 DEF Inv, TimerWhileRecording, InOrder
  <2> QED BY <2>3, <2>4 DEF Inv
<1> QED BY <1>1, <1>2, <1>3, <1>4, <1>5, <1>6, <1>7

\* set_cloud_storage_end.
LEMMA EndKeeps ==
    ASSUME Clip # 0, Inv,
           \/ EndDeletesTimer \/ EndClears \/ EndStops \/ EndForgetsCount
           \/ EndWaitsForKey \/ EndResets
    PROVE  Inv' /\ InOrder
<1>1. CASE EndDeletesTimer
  <2>1. /\ task = "end" /\ task' = "clear"
        /\ UNCHANGED <<sem, fps_cnt, timer, up>>
        /\ IF up_state \in {"START", "STARTING"} /\ timer_id
           THEN up_state' = "STOPING" /\ timer_id' = FALSE
           ELSE UNCHANGED <<up_state, timer_id>>
    BY <1>1 DEF EndDeletesTimer, cloud_storage_timer_del
  <2>2. up_state' = "STOPING" /\ timer_id' = FALSE /\ up_state \in {"START", "STOPING"}
    <3>1. up_state \in {"START", "STOPING"}
      BY <2>1 DEF Inv, PhaseOfTask
    <3>2. timer_id = (up_state = "START")
      BY <3>1 DEF Inv, Types, TimerWhileRecording
    <3> QED BY <2>1, <3>1, <3>2
  <2>3. ~ (timer # "idle" /\ fps_cnt >= Clip)
    BY <2>1 DEF Inv, CounterOfTask, TimerIsCurrent
  <2>4. Types'
    BY <2>1, <2>2 DEF Inv, Types, Tasks, States
  <2>5. (PhaseOfTask /\ CounterOfTask /\ TimerIsCurrent /\ WakesForAStart)'
    BY <2>1, <2>2, <2>3 DEF Inv, PhaseOfTask, CounterOfTask, TimerIsCurrent,
                            WakesForAStart, Resetting
  <2>6. TimerWhileRecording' /\ InOrder
    BY <2>2 DEF TimerWhileRecording, InOrder, NextState
  <2> QED BY <2>4, <2>5, <2>6 DEF Inv
<1>2. CASE EndClears
  <2>1. /\ task = "clear" /\ task' = "stop"
        /\ UNCHANGED <<up_state, timer_id, sem, fps_cnt, timer, up>>
    BY <1>2 DEF EndClears, storage
  <2>2. (Types /\ PhaseOfTask /\ CounterOfTask /\ TimerIsCurrent /\ WakesForAStart)'
    BY <2>1 DEF Inv, Types, Tasks, PhaseOfTask, CounterOfTask, TimerIsCurrent,
                WakesForAStart, Resetting
  <2>3. TimerWhileRecording' /\ InOrder
    BY <2>1 DEF Inv, TimerWhileRecording, InOrder
  <2> QED BY <2>2, <2>3 DEF Inv
<1>3. CASE EndStops
  <2>1. /\ task = "stop" /\ task' = "forget_count" /\ up_state' = "STOP"
        /\ UNCHANGED <<timer_id, sem, fps_cnt, timer, up>>
    BY <1>3 DEF EndStops
  <2>2. up_state = "STOPING"
    BY <2>1 DEF Inv, PhaseOfTask
  <2>3. Types'
    BY <2>1 DEF Inv, Types, Tasks, States, Resetting
  <2>4. (PhaseOfTask /\ CounterOfTask /\ TimerIsCurrent /\ WakesForAStart)'
    BY <2>1, <2>2 DEF Inv, PhaseOfTask, CounterOfTask, TimerIsCurrent, WakesForAStart,
                      Resetting
  <2>5. TimerWhileRecording' /\ InOrder
    BY <2>1, <2>2 DEF Inv, TimerWhileRecording, InOrder, NextState
  <2> QED BY <2>3, <2>4, <2>5 DEF Inv
<1>4. CASE EndForgetsCount \/ EndWaitsForKey
  <2>1. /\ task \in Resetting /\ task' \in Resetting
        /\ UNCHANGED <<up_state, timer_id, sem, fps_cnt, timer, up>>
    BY <1>4 DEF EndForgetsCount, EndWaitsForKey, storage, Resetting
  <2>2. (Types /\ PhaseOfTask /\ CounterOfTask /\ TimerIsCurrent /\ WakesForAStart)'
    BY <2>1 DEF Inv, Types, Tasks, PhaseOfTask, CounterOfTask, TimerIsCurrent,
                WakesForAStart, Resetting
  <2>3. TimerWhileRecording' /\ InOrder
    BY <2>1 DEF Inv, TimerWhileRecording, InOrder
  <2> QED BY <2>2, <2>3 DEF Inv
<1>5. CASE EndResets
  <2>1. /\ task = "reset" /\ task' = "wait" /\ fps_cnt' = 0 /\ sem' = 0
        /\ UNCHANGED <<up_state, timer_id, timer, up>>
    BY <1>5 DEF EndResets
  <2>2. up_state = "STOP" /\ timer # "delete"
    BY <2>1 DEF Inv, PhaseOfTask, TimerIsCurrent, Resetting
  <2>3. Types'
    BY <2>1 DEF Inv, Types, Tasks
  <2>4. (PhaseOfTask /\ CounterOfTask /\ WakesForAStart)'
    BY <2>1, <2>2 DEF PhaseOfTask, CounterOfTask, WakesForAStart, Resetting
  <2>5. TimerIsCurrent'
    BY <2>1, <2>2, LengthsAssumption DEF TimerIsCurrent
  <2>6. TimerWhileRecording' /\ InOrder
    BY <2>1 DEF Inv, TimerWhileRecording, InOrder
  <2> QED BY <2>3, <2>4, <2>5, <2>6 DEF Inv
<1> QED BY <1>1, <1>2, <1>3, <1>4, <1>5

LEMMA InvNext == ASSUME Clip # 0, Inv, [Next]_vars PROVE Inv' /\ InOrder
<1>1. CASE UNCHANGED vars
  <2>1. UNCHANGED control
    BY <1>1 DEF vars, control, storage, upload
  <2> QED BY <2>1, InvStutter, StutterInOrder
<1>2. CASE \/ \E s \in Events : set_wakeup_status(s)
           \/ \E s \in backups : wakeup_status_backup_cb(s)
           \/ EventOnline \/ EventGivenUp \/ EventPushed \/ Encoder
           \/ cloud_storage_audio_write \/ LeaveScreen \/ EnterScreen \/ Network
  <2>1. UNCHANGED control
    BY <1>2, OtherSteps DEF Encoder
  <2> QED BY <2>1, InvStutter, StutterInOrder
<1>3. CASE do_event_push
  BY <1>3, StartKeeps
<1>4. CASE TimerFires \/ cloud_storage_timer \/ TimerCompares \/ TimerDeletes
  BY <1>4, TimerKeeps
<1>5. CASE \/ TaskWakes \/ TaskPushes \/ TaskStarts \/ cloud_storage_uploading
           \/ UploadEnds \/ Append_v2 \/ AppendFails
  BY <1>5, RecordingKeeps
<1>6. CASE \/ EndDeletesTimer \/ EndClears \/ EndStops \/ EndForgetsCount
           \/ EndWaitsForKey \/ EndResets
  BY <1>6, EndKeeps
<1> QED BY <1>1, <1>2, <1>3, <1>4, <1>5, <1>6 DEF Next, Reporter, Recorder

LEMMA InvHolds == ASSUME Clip # 0 PROVE Spec => []Inv
<1>1. Init => Inv
  BY InvInit
<1>2. Inv /\ [Next]_vars => Inv'
  BY InvNext
<1> QED BY <1>1, <1>2, PTL DEF Spec

\* If clips have a length, the timer that ends a clip exists exactly while one
\* starts or runs: cloud_storage_timer_id never outlives its clip, and no clip
\* is left without the callback that would end it.
THEOREM TimerExistsWhileRecording ==
    ASSUME Clip # 0 PROVE Spec => []TimerWhileRecording
<1>1. Inv => TimerWhileRecording
  BY DEF Inv
<1> QED BY <1>1, InvHolds, PTL

\* If clips have a length, cloud_storage_task is only woken for a clip that is
\* starting: the token the timer posts once too often is taken back at the end.
THEOREM NoTokenIsLeft == ASSUME Clip # 0 PROVE Spec => []WakesForAStart
<1>1. Inv => WakesForAStart
  BY DEF Inv
<1> QED BY <1>1, InvHolds, PTL

\* If clips have a length, cloud_storage_up_state goes through its phases in
\* order, whatever events, failures and changes of the screen come meanwhile.
THEOREM PhasesAreInOrder == ASSUME Clip # 0 PROVE Spec => PhasesInOrder
<1>1. Inv /\ [Next]_vars => [up_state' = NextState(up_state)]_up_state
  BY InvNext DEF InOrder
<1> QED BY <1>1, InvHolds, PTL DEF Spec, PhasesInOrder

-----------------------------------------------------------------------------
(* The length of a clip: while a clip is uploaded cloud_storage_fps_cnt is *)
(* the number of its video frames, and nothing is appended at any other    *)
(* time.                                                                   *)

LengthInv ==
    /\ "videos" \in DOMAIN clip /\ clip.videos \in Nat /\ clip.videos <= Clip
    /\ task \in {"wait", "push", "start"} \cup Resetting => clip.videos = 0
    /\ ~ up => clip.videos = 0
    /\ up /\ task \in {"upload", "append"} => clip.videos = fps_cnt
    /\ task = "append" => up /\ fps_cnt < Clip

\* The counters and the place of the recorder, all that LengthInv speaks of.
counted == <<task, up, fps_cnt>>

LEMMA SameLength ==
    ASSUME LengthInv, UNCHANGED counted,
           "videos" \in DOMAIN clip', clip'.videos = clip.videos
    PROVE  LengthInv'
  BY DEF LengthInv, counted

LEMMA StoredKeepsVideos ==
    ASSUME NEW kind, LengthInv, Stored(kind)
    PROVE  "videos" \in DOMAIN clip' /\ clip'.videos = clip.videos
  BY DEF LengthInv, Stored

\* Whoever is not the recorder does not append.
LEMMA OthersKeepLength ==
    ASSUME NEW s, NEW kind, LengthInv,
           \/ set_wakeup_status(s) \/ EventOnline \/ EventGivenUp \/ EventPushed
           \/ wakeup_status_backup_cb(s) \/ VideoFrame(kind) \/ VideoTrims \/ VideoAdds
           \/ cloud_storage_audio_write \/ LeaveScreen \/ EnterScreen \/ Network
           \/ TimerFires \/ cloud_storage_timer \/ TimerCompares \/ TimerDeletes
    PROVE  LengthInv'
<1>1. CASE \/ set_wakeup_status(s) \/ EventOnline \/ EventGivenUp \/ EventPushed
           \/ wakeup_status_backup_cb(s) \/ VideoFrame(kind) \/ VideoTrims
           \/ EnterScreen \/ Network
  <2>1. UNCHANGED counted /\ clip' = clip
    BY <1>1 DEF set_wakeup_status, EventOnline, EventGivenUp, EventPushed,
                wakeup_status_backup_cb, VideoFrame, VideoTrims, EnterScreen, Network,
                counted, upload
  <2> QED BY <2>1, SameLength DEF LengthInv
<1>2. CASE VideoAdds \/ cloud_storage_audio_write
  <2>1. /\ UNCHANGED counted
        /\ Stored(writer.kind) \/ Stored("audio") \/ UNCHANGED clip
    BY <1>2 DEF VideoAdds, cloud_storage_audio_write, counted
  <2>2. "videos" \in DOMAIN clip' /\ clip'.videos = clip.videos
    BY <2>1, StoredKeepsVideos DEF LengthInv
  <2> QED BY <2>1, <2>2, SameLength
<1>3. CASE LeaveScreen
  <2>1. UNCHANGED counted
    BY <1>3 DEF LeaveScreen, counted
  <2>2. "videos" \in DOMAIN clip' /\ clip'.videos = clip.videos
    BY <1>3 DEF LeaveScreen, LengthInv
  <2> QED BY <2>1, <2>2, SameLength
<1>4. CASE TimerFires \/ cloud_storage_timer \/ TimerCompares \/ TimerDeletes
  <2>1. UNCHANGED counted /\ clip' = clip
    BY <1>4 DEF TimerFires, cloud_storage_timer, TimerCompares, TimerDeletes,
                cloud_storage_timer_del, counted, upload
  <2> QED BY <2>1, SameLength DEF LengthInv
<1> QED BY <1>1, <1>2, <1>3, <1>4

\* A clip is started while the recorder waits: the counter it resets is not
\* the counter of an open clip.
LEMMA StartKeepsLength ==
    ASSUME Inv, LengthInv, do_event_push PROVE LengthInv'
<1>1. UNCHANGED <<task, up, clip>>
  BY DEF do_event_push, upload
<1>2. fps_cnt' = fps_cnt \/ up_state \in {"STOP", "IDLE"}
  BY DEF do_event_push, StartClip, NotifyOnly, HoldBack
<1>3. up_state \in {"STOP", "IDLE"} => task \notin {"upload", "append"}
  BY DEF Inv, PhaseOfTask
<1> QED BY <1>1, <1>2, <1>3 DEF LengthInv

LEMMA RecorderKeepsLength ==
    ASSUME Inv, LengthInv, Recorder \/ AppendFails PROVE LengthInv'
<1>1. CASE TaskWakes
  BY <1>1 DEF TaskWakes, LengthInv
<1>2. CASE TaskPushes
  <2>1. task = "push" /\ task' = "start" /\ UNCHANGED <<fps_cnt, clip>>
    BY <1>2 DEF TaskPushes
  <2> QED BY <2>1 DEF LengthInv
<1>3. CASE TaskStarts
  <2>1. /\ task = "start" /\ task' = "upload" /\ UNCHANGED <<fps_cnt, up>>
        /\ clip' = clip \/ clip' = [NoClip EXCEPT !.next = Len(list)]
    BY <1>3 DEF TaskStarts
  <2>2. fps_cnt = 0
    BY <2>1 DEF Inv, PhaseOfTask, CounterOfTask
  <2>3. "videos" \in DOMAIN clip' /\ clip'.videos = 0
    BY <2>1 DEF LengthInv, NoClip
  <2> QED BY <2>1, <2>2, <2>3, LengthsAssumption DEF LengthInv
<1>4. CASE cloud_storage_uploading
  <2>1. /\ task = "upload" /\ UNCHANGED <<clip, up>>
        /\ \/ up /\ fps_cnt < Clip /\ fps_cnt' = fps_cnt /\ task' = "append"
           \/ ~ up /\ task' = task
    BY <1>4 DEF cloud_storage_uploading
  <2> QED BY <2>1 DEF LengthInv, Resetting
<1>5. CASE UploadEnds
  BY <1>5 DEF UploadEnds, LengthInv, Resetting
<1>6. CASE Append_v2
  <2>1. /\ task = "append" /\ task' = "upload" /\ UNCHANGED up
        /\ up /\ fps_cnt < Clip /\ clip.videos = fps_cnt
        /\ fps_cnt \in Nat
    BY <1>6 DEF Append_v2, LengthInv, Inv, Types
  <2>2. \/ clip' = [clip EXCEPT !.last = got.n, !.videos = @ + Counted(got)]
           /\ fps_cnt' = fps_cnt + Counted(got)
        \/ UNCHANGED <<clip, fps_cnt>>
    BY <1>6 DEF Append_v2
  <2>3. Counted(got) \in {0, 1}
    BY DEF Counted
  <2>4. "videos" \in DOMAIN clip' /\ clip'.videos = fps_cnt' /\ fps_cnt' \in Nat
        /\ fps_cnt' <= Clip
    <3>1. CASE UNCHANGED <<clip, fps_cnt>>
      BY <2>1, <3>1, LengthsAssumption DEF LengthInv
    <3>2. CASE /\ clip' = [clip EXCEPT !.last = got.n, !.videos = @ + Counted(got)]
               /\ fps_cnt' = fps_cnt + Counted(got)
      <4>1. "videos" \in DOMAIN clip' /\ clip'.videos = clip.videos + Counted(got)
        BY <3>2 DEF LengthInv
      <4> QED BY <2>1, <2>3, <3>2, <4>1, LengthsAssumption
    <3> QED BY <2>2, <3>1, <3>2
  <2> QED BY <2>1, <2>4 DEF LengthInv, Resetting
<1>7. CASE AppendFails
  BY <1>7 DEF AppendFails, LengthInv, Resetting
<1>8. CASE EndDeletesTimer
  BY <1>8 DEF EndDeletesTimer, cloud_storage_timer_del, LengthInv, Resetting
<1>9. CASE EndClears
  BY <1>9 DEF EndClears, LengthInv, Resetting
<1>10. CASE EndStops
  <2>1. task' = "forget_count" /\ clip' = NoClip /\ UNCHANGED <<fps_cnt, up>>
    BY <1>10 DEF EndStops
  <2> QED BY <2>1, LengthsAssumption DEF LengthInv, NoClip
<1>11. CASE EndForgetsCount \/ EndWaitsForKey \/ EndResets
  <2>1. /\ task \in Resetting /\ task' \in Resetting \cup {"wait"}
        /\ UNCHANGED <<clip, up>>
    BY <1>11 DEF EndForgetsCount, EndWaitsForKey, EndResets, Resetting
  <2> QED BY <2>1 DEF LengthInv, Resetting
<1> QED BY <1>1, <1>2, <1>3, <1>4, <1>5, <1>6, <1>7, <1>8, <1>9, <1>10, <1>11 DEF Recorder

LEMMA LengthNext ==
    ASSUME Inv, LengthInv, [Next]_vars PROVE LengthInv'
<1>1. CASE UNCHANGED vars
  BY <1>1, SameLength DEF vars, counted, upload, LengthInv
<1>2. CASE \/ \E s \in Events : set_wakeup_status(s)
           \/ \E s \in backups : wakeup_status_backup_cb(s)
           \/ EventOnline \/ EventGivenUp \/ EventPushed \/ Encoder
           \/ cloud_storage_audio_write \/ LeaveScreen \/ EnterScreen \/ Network
           \/ TimerFires \/ cloud_storage_timer \/ TimerCompares \/ TimerDeletes
  BY <1>2, OthersKeepLength DEF Encoder
<1>3. CASE do_event_push
  BY <1>3, StartKeepsLength
<1>4. CASE Recorder \/ AppendFails
  BY <1>4, RecorderKeepsLength
<1> QED BY <1>1, <1>2, <1>3, <1>4 DEF Next, Reporter

\* If clips have a length, no clip gets more video than
\* get_cloud_max_frame_cnt allows, for every length, every event and every
\* interleaving of the timer, the reporter and the recorder.
THEOREM ClipsAreBounded == ASSUME Clip # 0 PROVE Spec => []ClipIsBounded
<1>1. Init => LengthInv
  BY LengthsAssumption DEF Init, LengthInv, NoClip, Resetting
<1>2. Inv /\ LengthInv /\ [Next]_vars => LengthInv'
  BY LengthNext
<1>3. LengthInv => ClipIsBounded
  BY DEF LengthInv, ClipIsBounded
<1> QED BY <1>1, <1>2, <1>3, InvHolds, PTL DEF Spec

-----------------------------------------------------------------------------
(* The types, for every length of a clip.  The list stays within its bound *)
(* because who writes a frame has looked at the bound and holds the mutex. *)

ListFits ==
    /\ Len(list) <= MaxList
    /\ writer.at # "idle" => writer.kind \in {"key", "delta"} /\ Len(list) < MaxList

TypeInv == TypeOK /\ ListFits

LEMMA Lengths ==
    /\ MaxList \in Nat /\ Ring \in Nat \ {0} /\ MaxList < Ring - 1 /\ Gop \in Nat \ {0}
    /\ 0 \in 0 .. Ring - 1 /\ -1 \in -1 .. Ring - 1
  BY LengthsAssumption

LEMMA FramesOfAList ==
    ASSUME NEW s \in Seq(Frame)
    PROVE  /\ Videos(s) \in Nat
           /\ KeyFrames(s) \subseteq 1 .. Len(s) /\ IsFiniteSet(KeyFrames(s))
  <1>1. IsFiniteSet(1 .. Len(s)) /\ DOMAIN s = 1 .. Len(s)
    BY FS_Interval
  <1>2. KeyFrames(s) \subseteq 1 .. Len(s) /\ IsFiniteSet(KeyFrames(s))
    BY <1>1, FS_Subset DEF KeyFrames
  <1>3. IsFiniteSet({i \in DOMAIN s : s[i].kind # "audio"})
    BY <1>1, FS_Subset
  <1> QED BY <1>2, <1>3, FS_CardinalityType DEF Videos

\* Trimming leaves the end of the list.
LEMMA TrimmedList ==
    ASSUME NEW s \in Seq(Frame)
    PROVE  WithoutFirstGop(s) \in Seq(Frame) /\ Len(WithoutFirstGop(s)) <= Len(s)
  <1> DEFINE K == KeyFrames(s)
             k == K \ {Min(K)}
  <1>1. K \subseteq 1 .. Len(s) /\ IsFiniteSet(K)
    BY FramesOfAList
  <1>2. CASE Cardinality(K) < 2
    BY <1>2 DEF WithoutFirstGop
  <1>3. CASE ~ Cardinality(K) < 2
    <2>1. k # {}
      <3>1. SUFFICES ASSUME k = {} PROVE FALSE
        OBVIOUS
      <3>2. K \subseteq {Min(K)}
        BY <3>1
      <3>3. IsFiniteSet({Min(K)}) /\ Cardinality({Min(K)}) = 1
        BY FS_Singleton
      <3>4. Cardinality(K) <= 1
        BY <3>2, <3>3, FS_Subset
      <3> QED BY <1>1, <1>3, <3>4, FS_CardinalityType
    <2>2. Min(k) \in k
      <3>1. k \subseteq Nat
        BY <1>1
      <3> HIDE DEF k
      <3> QED BY <2>1, <3>1, FirstOf
    <2>3. Min(k) \in 1 .. Len(s)
      BY <1>1, <2>2
    <2>4. WithoutFirstGop(s) = SubSeq(s, Min(k), Len(s))
      BY <1>3 DEF WithoutFirstGop
    <2> HIDE DEF k
    <2> QED BY <2>3, <2>4
  <1> QED BY <1>2, <1>3

LEMMA TypeInit == Init => TypeInv
  <1> SUFFICES ASSUME Init PROVE TypeInv
    OBVIOUS
  <1>1. stream \in [runs : BOOLEAN, since : 1 .. Gop]
    BY Lengths DEF Init
  <1>2. clip \in [last : -1 .. Ring - 1, videos : Nat, next : 0 .. Ring - 1]
    BY Lengths DEF Init, NoClip
  <1>3. event \in [at : {"none", "armed", "online", "pushing"},
                   status : Events \cup {Init_Wakeup}]
    BY DEF Init, NoEvent
  <1>4. list \in Seq(Frame) /\ Len(list) = 0
    BY DEF Init
  <1>5. TypeOK
    <2>1. /\ up_state \in States /\ timer_id \in BOOLEAN
          /\ wait_iframe \in BOOLEAN /\ audio_start \in BOOLEAN
      BY DEF Init, States
    <2>4. sem \in 0 .. 1 /\ fps_cnt \in Nat /\ frame_count \in Int
      BY DEF Init
    <2>3. /\ cur \in Events \cup {Init_Wakeup}
          /\ reported \subseteq Events \cup {Init_Wakeup}
          /\ backups \subseteq Events \cup {Init_Wakeup}
      BY DEF Init
    <2>2. /\ timer \in {"idle", "pend", "compare", "delete"}
          /\ writer \in [at : {"idle", "trim", "add"}, kind : {"key", "delta", "none"}]
          /\ task = "wait" /\ up \in BOOLEAN /\ got \in Frame \cup {NoFrame}
          /\ connected \in BOOLEAN
      BY DEF Init
    <2> QED BY <1>1, <1>2, <1>3, <1>4, <2>1, <2>2, <2>3, <2>4 DEF TypeOK
  <1>6. ListFits
    BY <1>4, Lengths DEF Init, ListFits
  <1> QED BY <1>5, <1>6 DEF TypeInv

\* The reporter, the timer and the platform.
LEMMA ReportingKeepsTypes ==
    ASSUME TypeInv, NEW s \in Events \cup {Init_Wakeup},
           \/ set_wakeup_status(s) \/ EventOnline \/ EventGivenUp \/ do_event_push
           \/ EventPushed \/ wakeup_status_backup_cb(s)
    PROVE  TypeInv'
  <1> DEFINE E == [at : {"none", "armed", "online", "pushing"},
                   status : Events \cup {Init_Wakeup}]
  <1>1. TypeOK /\ ListFits /\ event \in E
    BY DEF TypeInv, TypeOK
  <1>2. NoEvent \in E /\ [at |-> "armed", status |-> s] \in E
    BY DEF NoEvent
  <1>3. [event EXCEPT !.at = "online"] \in E /\ [event EXCEPT !.at = "pushing"] \in E
    BY <1>1
  <1>4. event.status \in Events \cup {Init_Wakeup}
    BY <1>1
  <1> HIDE DEF E
  <1>5. ASSUME up_state' \in States, timer_id' \in BOOLEAN, fps_cnt' \in Nat,
               cur' \in Events \cup {Init_Wakeup}, event' \in E,
               reported' \subseteq Events \cup {Init_Wakeup},
               backups' \subseteq Events \cup {Init_Wakeup},
               stream' \in [runs : BOOLEAN, since : 1 .. Gop],
               UNCHANGED <<sem, media, timer, writer, upload, connected>>
        PROVE  TypeInv'
    <2>1. TypeOK'
      BY <1>1, <1>5 DEF TypeOK, E, media, upload
    <2>2. ListFits'
      BY <1>1, <1>5 DEF ListFits, media
    <2> QED BY <2>1, <2>2 DEF TypeInv
  <1>6. CASE set_wakeup_status(s)
    <2>1. cur' = s /\ event' \in E
      BY <1>1, <1>2, <1>6 DEF set_wakeup_status
    <2> QED BY <1>1, <1>5, <1>6, <2>1 DEF set_wakeup_status, TypeOK
  <1>7. CASE EventOnline \/ EventGivenUp
    <2>1. event' \in E
      BY <1>2, <1>3, <1>7 DEF EventOnline, EventGivenUp
    <2> QED BY <1>1, <1>5, <1>7, <2>1 DEF EventOnline, EventGivenUp, TypeOK, storage
  <1>8. CASE EventPushed
    <2>1. event' \in E /\ reported' = reported \cup {event.status}
      BY <1>2, <1>8 DEF EventPushed
    <2> QED BY <1>1, <1>4, <1>5, <1>8, <2>1 DEF EventPushed, TypeOK
  <1>9. CASE wakeup_status_backup_cb(s)
    <2>1. reported' = reported \cup {s} /\ backups' = backups \ {s} /\ event' = event
      BY <1>9 DEF wakeup_status_backup_cb
    <2> QED BY <1>1, <1>5, <1>9, <2>1 DEF wakeup_status_backup_cb, TypeOK
  <1>10. CASE do_event_push
    <2>1. /\ event' \in {NoEvent, [event EXCEPT !.at = "pushing"]}
          /\ UNCHANGED <<sem, cur, reported, media, timer, writer, upload, connected>>
      BY <1>10 DEF do_event_push, StartClip, NotifyOnly, HoldBack
    <2>2. /\ up_state' \in {up_state, "STARTING"} /\ timer_id' \in {timer_id, TRUE}
          /\ fps_cnt' \in {fps_cnt, 0} /\ backups' \in {backups, backups \cup {cur}}
          /\ stream' \in {stream, [stream EXCEPT !.since = Gop]}
      BY <1>10 DEF do_event_push, StartClip, NotifyOnly, HoldBack
    <2>3. [stream EXCEPT !.since = Gop] \in [runs : BOOLEAN, since : 1 .. Gop]
      BY <1>1, Lengths DEF TypeOK
    <2>4. "STARTING" \in States
      BY DEF States
    <2>5. event' \in E
      BY <1>2, <1>3, <2>1
    <2>6. /\ up_state' \in States /\ fps_cnt' \in Nat
          /\ stream' \in [runs : BOOLEAN, since : 1 .. Gop]
      BY <1>1, <2>2, <2>3, <2>4 DEF TypeOK
    <2>8. timer_id' \in BOOLEAN
      BY <1>1, <2>2 DEF TypeOK
    <2>7. /\ cur' \in Events \cup {Init_Wakeup}
          /\ reported' \subseteq Events \cup {Init_Wakeup}
          /\ backups' \subseteq Events \cup {Init_Wakeup}
      BY <1>1, <2>1, <2>2 DEF TypeOK
    <2> QED BY <1>5, <2>1, <2>5, <2>6, <2>7, <2>8
  <1> QED BY <1>6, <1>7, <1>8, <1>9, <1>10

LEMMA TimerKeepsTypes ==
    ASSUME TypeInv,
           \/ TimerFires \/ cloud_storage_timer \/ TimerCompares \/ TimerDeletes
           \/ Network
    PROVE  TypeInv'
  <1>1. TypeOK /\ ListFits
    BY DEF TypeInv
  <1>2. ListFits'
    BY <1>1 DEF ListFits, TimerFires, cloud_storage_timer, TimerCompares, TimerDeletes,
                cloud_storage_timer_del, Network, media
  <1>3. CASE TimerFires \/ cloud_storage_timer \/ TimerCompares \/ Network
    <2>1. /\ sem' \in {sem, 1} /\ timer' \in {"idle", "pend", "compare", "delete"}
          /\ connected' \in BOOLEAN
          /\ UNCHANGED <<up_state, timer_id, cur, reported, backups, fps_cnt, media,
                         event, writer, upload, stream>>
      BY <1>1, <1>3 DEF TimerFires, cloud_storage_timer, TimerCompares, Network, storage,
                        TypeOK
    <2>2. TypeOK'
      BY <1>1, <2>1 DEF TypeOK, media, upload
    <2> QED BY <1>2, <2>2 DEF TypeInv
  <1>4. CASE TimerDeletes
    <2>1. /\ up_state' \in {up_state, "STOPING"} /\ timer_id' \in BOOLEAN
          /\ cur' \in {cur, Init_Wakeup} /\ timer' = "idle"
          /\ UNCHANGED <<sem, reported, backups, fps_cnt, media, event, writer,
                         connected, stream, upload>>
      BY <1>1, <1>4 DEF TimerDeletes, cloud_storage_timer_del, TypeOK
    <2>2. TypeOK'
      BY <1>1, <2>1 DEF TypeOK, media, upload, States
    <2> QED BY <1>2, <2>2 DEF TypeInv
  <1> QED BY <1>3, <1>4

ClipType == [last : -1 .. Ring - 1, videos : Nat, next : 0 .. Ring - 1]
TaskType == {"wait", "push", "start", "upload", "append", "end", "clear", "stop"}
            \cup Resetting

LEMMA NumberedList ==
    ASSUME NEW s \in Seq(Frame), Len(s) <= MaxList
    PROVE  /\ Numbered(s) \in Seq(Frame) /\ Len(Numbered(s)) = Len(s)
           /\ \A i \in DOMAIN s : Numbered(s)[i].n = i - 1
           /\ Len(s) \in 0 .. Ring - 1
  <1>1. DOMAIN s = 1 .. Len(s) /\ Len(s) \in Nat
    OBVIOUS
  <1>2. Len(s) \in 0 .. Ring - 1
    BY <1>1, Lengths
  <1>3. ASSUME NEW i \in 1 .. Len(s)
        PROVE  [s[i] EXCEPT !.n = i - 1] \in Frame /\ [s[i] EXCEPT !.n = i - 1].n = i - 1
    <2>1. i - 1 \in 0 .. Ring - 1
      BY <1>1, Lengths
    <2>2. s[i] \in Frame
      OBVIOUS
    <2> QED BY <2>1, <2>2 DEF Frame
  <1>4. Numbered(s) = [i \in 1 .. Len(s) |-> [s[i] EXCEPT !.n = i - 1]]
    BY <1>1 DEF Numbered
  <1>5. Numbered(s) \in [1 .. Len(s) -> Frame]
    BY <1>3, <1>4
  <1>6. Numbered(s) \in Seq(Frame) /\ Len(Numbered(s)) = Len(s)
    <2> HIDE DEF Frame
    <2> QED BY <1>1, <1>5
  <1>7. \A i \in 1 .. Len(s) : Numbered(s)[i] = [s[i] EXCEPT !.n = i - 1]
    BY <1>4
  <1>8. \A i \in 1 .. Len(s) : Numbered(s)[i].n = i - 1
    BY <1>3, <1>7
  <1> QED BY <1>1, <1>2, <1>6, <1>8

LEMMA RecorderKeepsTypes ==
    ASSUME TypeInv, Recorder \/ AppendFails
    PROVE  TypeInv'
  <1>1. TypeOK /\ ListFits /\ clip \in ClipType /\ list \in Seq(Frame)
        /\ task \in TaskType /\ got \in Frame \cup {NoFrame}
    BY DEF TypeInv, TypeOK, ClipType, TaskType
  <1>2. ASSUME up_state' \in States, timer_id' \in BOOLEAN, sem' \in 0 .. 1,
               cur' \in {cur, Init_Wakeup}, reported' \subseteq reported \cup {cur},
               fps_cnt' \in Nat,
               list' \in Seq(Frame), Len(list') <= Len(list), frame_count' \in {frame_count, 0},
               wait_iframe' \in BOOLEAN, audio_start' \in BOOLEAN,
               task' \in TaskType, up' \in BOOLEAN, got' \in Frame \cup {NoFrame},
               clip' \in ClipType,
               UNCHANGED <<backups, event, timer, writer, connected, stream>>
        PROVE  TypeInv'
    <2>1. TypeOK'
      BY <1>1, <1>2 DEF TypeOK, ClipType, TaskType
    <2>2. Len(list') \in Nat /\ Len(list) \in Nat
      BY <1>1, <1>2
    <2>3. ListFits'
      BY <1>1, <1>2, <2>2, Lengths DEF ListFits
    <2> QED BY <2>1, <2>3 DEF TypeInv
  <1>3. \A t \in {"wait", "push", "start", "upload", "append", "end", "clear", "stop",
                  "forget_count", "wait_key", "reset"} : t \in TaskType
    BY DEF TaskType, Resetting
  <1>4. Len(list) <= Len(list)
    BY <1>1
  <1>5. CASE TaskWakes \/ TaskPushes \/ UploadEnds \/ AppendFails
    <2>1. /\ task' \in TaskType
          /\ sem' \in {sem, 0} /\ reported' \subseteq reported \cup {cur}
          /\ got' \in {got, NoFrame}
          /\ UNCHANGED <<up_state, timer_id, cur, backups, fps_cnt, media, event, timer,
                         writer, clip, connected, stream>>
      BY <1>3, <1>5 DEF TaskWakes, TaskPushes, UploadEnds, AppendFails, storage
    <2>2. up' \in BOOLEAN
      BY <1>1, <1>5 DEF TaskWakes, TaskPushes, UploadEnds, AppendFails, TypeOK
    <2> QED BY <1>1, <1>2, <1>4, <2>1, <2>2 DEF TypeOK, media
  <1>6. CASE TaskStarts
    <2>1. /\ up_state' = "START" /\ task' = "upload"
          /\ UNCHANGED <<timer_id, sem, cur, reported, backups, fps_cnt, frame_count,
                         wait_iframe, audio_start, event, timer, writer, up, got,
                         connected, stream>>
      BY <1>6 DEF TaskStarts
    <2>2. list' \in {list, Numbered(list)} /\ clip' \in {clip, [NoClip EXCEPT !.next = Len(list)]}
      BY <1>6 DEF TaskStarts
    <2>3. [NoClip EXCEPT !.next = Len(list)] \in ClipType
      BY <1>1, NumberedList, Lengths DEF ListFits, ClipType, NoClip
    <2>4. list' \in Seq(Frame) /\ Len(list') <= Len(list)
      BY <1>1, <1>4, <2>2, NumberedList DEF ListFits
    <2>5. up_state' \in States
      BY <2>1 DEF States
    <2> QED BY <1>1, <1>2, <1>3, <2>1, <2>2, <2>3, <2>4, <2>5 DEF TypeOK
  <1>7. CASE cloud_storage_uploading
    <2>1. /\ list # <<>> /\ list' = Tail(list)
          /\ \/ got' = Head(list) /\ task' = "append" /\ UNCHANGED fps_cnt
             \/ fps_cnt' = fps_cnt + Counted(Head(list)) /\ UNCHANGED <<got, task>>
          /\ UNCHANGED <<storage, frame_count, wait_iframe, audio_start, event, timer,
                         writer, up, clip, connected, stream>>
      BY <1>7 DEF cloud_storage_uploading
    <2>2. Head(list) \in Frame /\ Tail(list) \in Seq(Frame) /\ Len(Tail(list)) <= Len(list)
      BY <1>1, <2>1
    <2>3. fps_cnt' \in Nat
      BY <1>1, <2>1 DEF TypeOK, Counted
    <2> QED BY <1>1, <1>2, <1>3, <2>1, <2>2, <2>3 DEF TypeOK, storage
  <1>8. CASE Append_v2
    <2>1. /\ got' = NoFrame /\ task' = "upload"
          /\ \/ /\ clip' = [clip EXCEPT !.last = got.n, !.videos = @ + Counted(got)]
                /\ fps_cnt' = fps_cnt + Counted(got)
             \/ UNCHANGED <<clip, fps_cnt>>
          /\ UNCHANGED <<storage, media, event, timer, writer, up, connected, stream>>
      BY <1>8 DEF Append_v2
    <2>2. Counted(got) \in Nat
      BY DEF Counted
    <2>3. got.n \in -1 .. Ring - 1
      BY <1>1, Lengths DEF Frame, NoFrame
    <2>4. [clip EXCEPT !.last = got.n, !.videos = @ + Counted(got)] \in ClipType
      <3>1. clip.videos + Counted(got) \in Nat
        BY <1>1, <2>2 DEF ClipType
      <3> QED BY <1>1, <2>3, <3>1 DEF ClipType
    <2>5. fps_cnt' \in Nat /\ clip' \in ClipType
      BY <1>1, <2>1, <2>2, <2>4 DEF TypeOK
    <2> QED BY <1>1, <1>2, <1>3, <1>4, <2>1, <2>5 DEF TypeOK, storage, media
  <1>9. CASE EndDeletesTimer
    <2>1. /\ up_state' \in {up_state, "STOPING"} /\ timer_id' \in BOOLEAN
          /\ cur' \in {cur, Init_Wakeup} /\ task' = "clear"
          /\ UNCHANGED <<sem, reported, backups, fps_cnt, media, event, timer, writer,
                         up, got, clip, connected, stream>>
      BY <1>1, <1>9 DEF EndDeletesTimer, cloud_storage_timer_del, TypeOK
    <2>2. up_state' \in States
      BY <1>1, <2>1 DEF TypeOK, States
    <2> QED BY <1>1, <1>2, <1>3, <1>4, <2>1, <2>2 DEF TypeOK, media
  <1>10. CASE EndClears
    <2>1. /\ list' = <<>> /\ task' = "stop"
          /\ UNCHANGED <<storage, fps_cnt, frame_count, wait_iframe, audio_start, event,
                         timer, writer, up, got, clip, connected, stream>>
      BY <1>10 DEF EndClears
    <2>2. list' \in Seq(Frame) /\ Len(list') <= Len(list)
      BY <1>1, <2>1
    <2> QED BY <1>1, <1>2, <1>3, <2>1, <2>2 DEF TypeOK, storage
  <1>11. CASE EndStops
    <2>1. /\ up_state' = "STOP" /\ task' = "forget_count" /\ clip' = NoClip
          /\ UNCHANGED <<timer_id, sem, cur, reported, backups, fps_cnt, media, event,
                         timer, writer, up, got, connected, stream>>
      BY <1>11 DEF EndStops
    <2>2. up_state' \in States /\ clip' \in ClipType
      BY <2>1, Lengths DEF States, ClipType, NoClip
    <2> QED BY <1>1, <1>2, <1>3, <1>4, <2>1, <2>2 DEF TypeOK, media
  <1>12. CASE EndForgetsCount \/ EndWaitsForKey \/ EndResets
    <2>1. /\ task' \in TaskType /\ frame_count' \in {frame_count, 0}
          /\ fps_cnt' \in {fps_cnt, 0} /\ sem' \in {sem, 0} /\ reported' \subseteq reported
          /\ UNCHANGED <<up_state, timer_id, cur, backups, list, event, timer, writer,
                         up, got, clip, connected, stream>>
      BY <1>3, <1>12 DEF EndForgetsCount, EndWaitsForKey, EndResets, storage
    <2>2. wait_iframe' \in BOOLEAN /\ audio_start' \in BOOLEAN
      BY <1>1, <1>12 DEF EndForgetsCount, EndWaitsForKey, EndResets, TypeOK
    <2> QED BY <1>1, <1>2, <1>4, <2>1, <2>2 DEF TypeOK
  <1> QED BY <1>5, <1>6, <1>7, <1>8, <1>9, <1>10, <1>11, <1>12 DEF Recorder

LEMMA StoredKeepsTypes ==
    ASSUME TypeInv, NEW kind \in Kinds, Stored(kind), Len(list) < MaxList
    PROVE  /\ list' \in Seq(Frame) /\ Len(list') <= MaxList
           /\ clip' \in ClipType
  <1>1. clip \in ClipType /\ list \in Seq(Frame) /\ Len(list) \in Nat
    BY DEF TypeInv, TypeOK, ClipType
  <1>2. ASSUME NEW n \in 0 .. Ring - 1
        PROVE  LET l == Append(list, [kind |-> kind, n |-> n])
               IN  l \in Seq(Frame) /\ Len(l) <= MaxList
    <2>1. [kind |-> kind, n |-> n] \in Frame
      BY DEF Frame
    <2> QED BY <1>1, <2>1, Lengths
  <1>3. clip.next \in 0 .. Ring - 1 /\ (clip.next + 1) % Ring \in 0 .. Ring - 1
    BY <1>1, Lengths DEF ClipType
  <1>4. [clip EXCEPT !.next = (@ + 1) % Ring] \in ClipType
    BY <1>1, <1>3 DEF ClipType
  <1> QED BY <1>1, <1>2, <1>3, <1>4, Lengths DEF Stored

\* The encoder and the screen.
LEMMA EncoderKeepsTypes ==
    ASSUME TypeInv, NEW kind \in {"key", "delta"},
           \/ VideoFrame(kind) \/ VideoTrims \/ VideoAdds
           \/ cloud_storage_audio_write \/ LeaveScreen \/ EnterScreen
    PROVE  TypeInv'
  <1>1. TypeOK /\ ListFits /\ clip \in ClipType /\ list \in Seq(Frame) /\ Len(list) \in Nat
        /\ frame_count \in Int
    BY DEF TypeInv, TypeOK, ClipType
  <1> DEFINE W == [at : {"idle", "trim", "add"}, kind : {"key", "delta", "none"}]
             S == [runs : BOOLEAN, since : 1 .. Gop]
  <1>2. writer \in W /\ stream \in S
    BY <1>1 DEF TypeOK
  <1> HIDE DEF W, S
  <1>3. ASSUME list' \in Seq(Frame), frame_count' \in Int, wait_iframe' \in BOOLEAN,
               audio_start' \in BOOLEAN, writer' \in W, clip' \in ClipType, stream' \in S,
               ListFits',
               UNCHANGED <<storage, fps_cnt, event, timer, task, up, got, connected>>
        PROVE  TypeInv'
    BY <1>1, <1>3 DEF TypeInv, TypeOK, ClipType, W, S, storage
  <1>4. CASE VideoFrame(kind)
    <2>1. /\ Len(list) < MaxList /\ writer' \in {writer, [at |-> "trim", kind |-> kind]}
          /\ UNCHANGED <<storage, fps_cnt, media, event, timer, upload, connected>>
      BY <1>4 DEF VideoFrame
    <2>2. stream' \in S
      BY <1>2, <1>4, Lengths DEF VideoFrame, S
    <2>3. writer' \in W
      BY <1>2, <2>1 DEF W
    <2>4. ListFits'
      BY <1>1, <2>1 DEF ListFits, media
    <2> QED BY <1>1, <1>3, <2>1, <2>2, <2>3, <2>4 DEF TypeOK, media, upload
  <1>5. CASE VideoTrims
    <2>1. /\ writer.at = "trim" /\ writer' = [writer EXCEPT !.at = "add"]
          /\ \/ /\ list' = WithoutFirstGop(list)
                /\ frame_count' = frame_count - (Videos(list) - Videos(list'))
             \/ UNCHANGED <<list, frame_count>>
          /\ UNCHANGED <<storage, fps_cnt, wait_iframe, audio_start, event, timer, upload,
                         connected, stream>>
      BY <1>5 DEF VideoTrims
    <2>2. list' \in Seq(Frame) /\ Len(list') <= Len(list) /\ Len(list') \in Nat
      BY <1>1, <2>1, TrimmedList
    <2>3. frame_count' \in Int
      BY <1>1, <2>1, <2>2, FramesOfAList
    <2>4. writer' \in W /\ writer'.kind = writer.kind
      BY <1>2, <2>1 DEF W
    <2>5. ListFits'
      BY <1>1, <2>1, <2>2, <2>4, Lengths DEF ListFits
    <2> QED BY <1>1, <1>2, <1>3, <2>1, <2>2, <2>3, <2>4, <2>5 DEF TypeOK, upload
  <1>6. CASE VideoAdds
    <2>1. /\ writer.at = "add" /\ writer' = [at |-> "idle", kind |-> "none"]
          /\ Stored(writer.kind) \/ UNCHANGED <<list, clip>>
          /\ frame_count' = frame_count + 1 /\ wait_iframe' = FALSE /\ audio_start' = TRUE
          /\ UNCHANGED <<storage, fps_cnt, event, timer, task, up, got, connected, stream>>
      BY <1>6 DEF VideoAdds
    <2>2. Len(list) < MaxList /\ writer.kind \in Kinds
      BY <1>1, <2>1 DEF ListFits, Kinds
    <2>3. list' \in Seq(Frame) /\ Len(list') <= MaxList /\ clip' \in ClipType
      BY <1>1, <2>1, <2>2, StoredKeepsTypes DEF ListFits
    <2>4. writer' \in W /\ writer'.at = "idle"
      BY <2>1 DEF W
    <2>5. ListFits'
      BY <2>3, <2>4 DEF ListFits
    <2>6. frame_count' \in Int
      BY <1>1, <2>1
    <2>7. wait_iframe' \in BOOLEAN /\ audio_start' \in BOOLEAN
      BY <2>1
    <2> QED BY <1>2, <1>3, <2>1, <2>3, <2>4, <2>5, <2>6, <2>7
  <1>7. CASE cloud_storage_audio_write
    <2>1. /\ ~ListLocked /\ Len(list) < MaxList /\ Stored("audio")
          /\ UNCHANGED <<storage, fps_cnt, frame_count, wait_iframe, audio_start, event,
                         timer, writer, task, up, got, connected, stream>>
      BY <1>7 DEF cloud_storage_audio_write
    <2>2. list' \in Seq(Frame) /\ Len(list') <= MaxList /\ clip' \in ClipType
      BY <2>1, StoredKeepsTypes DEF Kinds
    <2>3. ListFits'
      BY <2>1, <2>2 DEF ListFits, ListLocked
    <2> QED BY <1>1, <1>2, <1>3, <2>1, <2>2, <2>3 DEF TypeOK
  <1>8. CASE LeaveScreen
    <2>1. /\ ~ListLocked /\ list' = <<>> /\ stream' = [stream EXCEPT !.runs = FALSE]
          /\ clip' \in {clip, [clip EXCEPT !.next = (@ + Ring - Len(list)) % Ring]}
          /\ UNCHANGED <<storage, fps_cnt, frame_count, wait_iframe, audio_start, event,
                         timer, writer, task, up, got, connected>>
      BY <1>8 DEF LeaveScreen
    <2>2. [clip EXCEPT !.next = (@ + Ring - Len(list)) % Ring] \in ClipType
      <3>1. (clip.next + Ring - Len(list)) % Ring \in 0 .. Ring - 1
        BY <1>1, Lengths DEF ClipType
      <3> QED BY <1>1, <3>1 DEF ClipType
    <2>3. stream' \in S
      BY <1>2, <2>1 DEF S
    <2>4. list' \in Seq(Frame) /\ Len(list') = 0
      BY <2>1
    <2>5. ListFits'
      BY <2>1, <2>4, Lengths DEF ListFits, ListLocked
    <2> QED BY <1>1, <1>2, <1>3, <2>1, <2>2, <2>3, <2>4, <2>5 DEF TypeOK
  <1>9. CASE EnterScreen
    <2>1. /\ stream' = [stream EXCEPT !.runs = TRUE, !.since = Gop]
          /\ UNCHANGED <<storage, fps_cnt, media, event, timer, writer, upload, connected>>
      BY <1>9 DEF EnterScreen
    <2>2. stream' \in S
      <3>1. Gop \in 1 .. Gop
        BY Lengths
      <3> QED BY <1>2, <2>1, <3>1 DEF S
    <2>3. ListFits'
      BY <1>1, <2>1 DEF ListFits, media
    <2> QED BY <1>1, <1>2, <1>3, <2>1, <2>2, <2>3 DEF TypeOK, media, upload
  <1> QED BY <1>4, <1>5, <1>6, <1>7, <1>8, <1>9

LEMMA TypeNext == ASSUME TypeInv, [Next]_vars PROVE TypeInv'
  <1>1. CASE UNCHANGED vars
    BY <1>1 DEF vars, storage, media, upload, TypeInv, TypeOK, ListFits
  <1>2. CASE \/ \E s \in Events : set_wakeup_status(s)
             \/ \E s \in backups : wakeup_status_backup_cb(s)
             \/ Reporter
    <2>1. backups \subseteq Events \cup {Init_Wakeup}
      BY DEF TypeInv, TypeOK
    <2> QED BY <1>2, <2>1, ReportingKeepsTypes DEF Reporter
  <1>3. CASE TimerFires \/ cloud_storage_timer \/ TimerCompares \/ TimerDeletes \/ Network
    BY <1>3, TimerKeepsTypes
  <1>4. CASE Recorder \/ AppendFails
    BY <1>4, RecorderKeepsTypes
  <1>5. CASE Encoder \/ cloud_storage_audio_write \/ LeaveScreen \/ EnterScreen
    BY <1>5, EncoderKeepsTypes DEF Encoder
  <1> QED BY <1>1, <1>2, <1>3, <1>4, <1>5 DEF Next

LEMMA TypeInvHolds == Spec => []TypeInv
  BY TypeInit, TypeNext, PTL DEF Spec

\* Every variable of the recording keeps its type: a frame is only taken from a
\* list that has one, cut out where there is a second key frame, and numbered
\* within the ring, whatever fails.
THEOREM RecordingTypes == Spec => []TypeOK
  <1>1. TypeInv => TypeOK
    BY DEF TypeInv
  <1> QED BY <1>1, TypeInvHolds, PTL

-----------------------------------------------------------------------------
(* The frames of a clip: while it is open, the frames that wait in the     *)
(* list are numbered from the one after the last that was appended, the    *)
(* frame in the hand of the recorder included, and the next to be stored   *)
(* goes on from there.                                                     *)

Run(frames, next, first) ==
    /\ \A i \in DOMAIN frames : frames[i].n = (first + i - 1) % Ring
    /\ next = (first + Len(frames)) % Ring

Gapless ==
    up =>
        /\ task = "upload" => Run(list, clip.next, clip.last + 1)
        /\ task = "append" => /\ got.n = (clip.last + 1) % Ring
                              /\ Run(list, clip.next, clip.last + 2)

\* The last frame appended is the one after the last.
NoGap == clip'.last # clip.last /\ clip.last # -1 /\ clip'.last # -1
             => clip'.last = (clip.last + 1) % Ring

LEMMA ClipTypes ==
    ASSUME TypeInv
    PROVE  /\ clip \in ClipType /\ list \in Seq(Frame) /\ Len(list) \in Nat
           /\ Len(list) <= MaxList
           /\ clip.last + 1 \in 0 .. Ring /\ clip.last + 2 \in Nat
  <1>1. clip \in ClipType /\ list \in Seq(Frame) /\ Len(list) <= MaxList
    BY DEF TypeInv, TypeOK, ListFits, ClipType
  <1>2. clip.last \in -1 .. Ring - 1
    BY <1>1 DEF ClipType
  <1> QED BY <1>1, <1>2, Lengths

LEMMA RunStarts ==
    ASSUME NEW s \in Seq(Frame), Len(s) <= MaxList
    PROVE  Run(Numbered(s), Len(s), 0)
  <1>1. /\ Numbered(s) \in Seq(Frame) /\ Len(Numbered(s)) = Len(s) /\ Len(s) \in Nat
        /\ \A i \in DOMAIN s : Numbered(s)[i].n = i - 1
    BY NumberedList
  <1>2. DOMAIN s = 1 .. Len(s) /\ DOMAIN Numbered(s) = 1 .. Len(s)
    BY <1>1
  <1>3. ASSUME NEW i \in 1 .. Len(s) PROVE Numbered(s)[i].n = (0 + i - 1) % Ring
    <2>1. i - 1 \in Nat /\ i - 1 < Ring /\ 0 + i - 1 = i - 1
      BY <1>1, Lengths
    <2>2. (i - 1) % Ring = i - 1
      BY <2>1, Lengths, ModOfSmall
    <2> QED BY <1>1, <1>2, <2>1, <2>2
  <1>4. (0 + Len(s)) % Ring = Len(s)
    <2>1. Len(s) < Ring /\ 0 + Len(s) = Len(s)
      BY <1>1, Lengths
    <2> QED BY <1>1, <2>1, Lengths, ModOfSmall
  <1> QED BY <1>1, <1>2, <1>3, <1>4 DEF Run

\* Taking the oldest frame.
LEMMA RunIsTaken ==
    ASSUME NEW s \in Seq(Frame), NEW next, NEW first \in Nat, s # <<>>, Run(s, next, first)
    PROVE  Head(s).n = first % Ring /\ Run(Tail(s), next, first + 1)
  <1>1. /\ Len(s) \in Nat \ {0} /\ DOMAIN s = 1 .. Len(s) /\ Head(s) = s[1]
        /\ Tail(s) \in Seq(Frame) /\ Len(Tail(s)) = Len(s) - 1
        /\ DOMAIN Tail(s) = 1 .. Len(s) - 1
        /\ \A i \in 1 .. Len(s) - 1 : Tail(s)[i] = s[i + 1]
    <2> HIDE DEF Frame
    <2> QED OBVIOUS
  <1>2. Head(s).n = first % Ring
    <2>1. first + 1 - 1 = first /\ 1 \in DOMAIN s
      BY <1>1
    <2> QED BY <1>1, <2>1 DEF Run
  <1>3. ASSUME NEW i \in 1 .. Len(s) - 1 PROVE Tail(s)[i].n = (first + 1 + i - 1) % Ring
    <2>1. i + 1 \in DOMAIN s /\ first + (i + 1) - 1 = first + 1 + i - 1
      BY <1>1
    <2>2. s[i + 1].n = (first + (i + 1) - 1) % Ring
      BY <2>1 DEF Run
    <2> QED BY <1>1, <2>1, <2>2
  <1>4. next = (first + 1 + Len(Tail(s))) % Ring
    <2>1. first + 1 + Len(Tail(s)) = first + Len(s)
      BY <1>1
    <2> QED BY <2>1 DEF Run
  <1> QED BY <1>1, <1>2, <1>3, <1>4 DEF Run

\* Storing a frame.
LEMMA RunIsExtended ==
    ASSUME NEW s \in Seq(Frame), NEW next, NEW first \in Nat, NEW f, f \in Frame, f.n = next,
           Run(s, next, first)
    PROVE  Run(Append(s, f), (next + 1) % Ring, first)
  <1> DEFINE r == Append(s, f)
             m == Len(s) + 1
  <1>1. /\ Len(s) \in Nat /\ DOMAIN s = 1 .. Len(s)
        /\ Len(r) = m /\ DOMAIN r = 1 .. m
        /\ \A i \in 1 .. Len(s) : r[i] = s[i]
        /\ r[m] = f
    OBVIOUS
  <1>2. next = (first + Len(s)) % Ring /\ first + Len(s) \in Nat
    BY <1>1 DEF Run
  <1>3. ASSUME NEW i \in 1 .. m PROVE r[i].n = (first + i - 1) % Ring
    <2>1. CASE i = m
      <3>1. first + i - 1 = first + Len(s)
        BY <1>1, <2>1
      <3> HIDE DEF r, m
      <3> QED BY <1>1, <1>2, <2>1, <3>1
    <2>2. CASE i # m
      <3>1. i \in 1 .. Len(s)
        BY <1>1, <2>2
      <3> QED BY <1>1, <3>1 DEF Run
    <2> QED BY <2>1, <2>2
  <1>4. (next + 1) % Ring = (first + m) % Ring
    <2>1. (first + Len(s)) % Ring \in Nat
      BY <1>2, Lengths, DivMod
    <2> DEFINE a == first + Len(s)
    <2>2. a \in Nat /\ a + 1 \in Nat /\ (a % Ring) + 1 \in Nat /\ 1 \in Int
      BY <1>2, <2>1
    <2>3. first + m = a + 1
      BY <1>1
    <2>4. next = a % Ring
      BY <1>2
    <2> HIDE DEF a
    <2>5. ((a % Ring) + 1) % Ring = (a + 1) % Ring
      BY <2>2, Lengths, ModOfSum
    <2> QED BY <2>3, <2>4, <2>5
  <1> QED BY <1>1, <1>3, <1>4 DEF Run

\* Emptying the list.
LEMMA RunIsDropped ==
    ASSUME NEW s \in Seq(Frame), NEW next, NEW first \in Nat, Len(s) <= Ring,
           Run(s, next, first)
    PROVE  Run(<<>>, (next + Ring - Len(s)) % Ring, first)
  <1>1. Len(s) \in Nat /\ next = (first + Len(s)) % Ring /\ first + Len(s) \in Nat
    BY DEF Run
  <1>2. next \in Nat
    BY <1>1, Lengths, DivMod
  <1>3. (next + (Ring - Len(s))) % Ring = (first + Ring) % Ring
    <2>1. Ring - Len(s) \in Int /\ Ring - Len(s) >= 0
      BY <1>1, Lengths
    <2>2. /\ first + Len(s) + (Ring - Len(s)) = first + Ring
          /\ first + Ring \in Nat /\ next + (Ring - Len(s)) \in Nat
      BY <1>1, <1>2, <2>1, Lengths
    <2>3. (((first + Len(s)) % Ring) + (Ring - Len(s))) % Ring
              = (first + Len(s) + (Ring - Len(s))) % Ring
      BY <1>1, <2>1, <2>2, Lengths, ModOfSum
    <2> QED BY <1>1, <2>2, <2>3
  <1>4. (first + Ring) % Ring = first % Ring
    BY Lengths, ModOfRing
  <1>5. next + Ring - Len(s) = next + (Ring - Len(s)) /\ first + Len(<<>>) = first
    BY <1>1, <1>2, Lengths
  <1> QED BY <1>3, <1>4, <1>5 DEF Run

\* The run that goes on from a remainder goes on from the number.
LEMMA RunOfRemainder ==
    ASSUME NEW s \in Seq(Frame), NEW next, NEW a \in Nat, Run(s, next, a + 1)
    PROVE  Run(s, next, (a % Ring) + 1)
  <1>1. a % Ring \in Nat
    BY Lengths, DivMod
  <1>2. ASSUME NEW c \in Nat
        PROVE  ((a % Ring) + c) % Ring = (a + c) % Ring
    <2>1. c \in Int /\ a + c \in Nat /\ (a % Ring) + c \in Nat
      BY <1>1
    <2> QED BY <2>1, Lengths, ModOfSum
  <1>3. ASSUME NEW i \in DOMAIN s PROVE s[i].n = ((a % Ring) + 1 + i - 1) % Ring
    <2>1. i \in Nat /\ (a % Ring) + 1 + i - 1 = (a % Ring) + i /\ a + 1 + i - 1 = a + i
      BY <1>1
    <2> QED BY <1>2, <2>1 DEF Run
  <1>4. next = ((a % Ring) + 1 + Len(s)) % Ring
    <2>1. /\ 1 + Len(s) \in Nat /\ (a % Ring) + 1 + Len(s) = (a % Ring) + (1 + Len(s))
          /\ a + 1 + Len(s) = a + (1 + Len(s))
      BY <1>1
    <2> QED BY <1>2, <2>1 DEF Run
  <1> QED BY <1>3, <1>4 DEF Run

\* Whoever leaves the clip and the recorder alone keeps the numbering.
LEMMA GaplessStutter ==
    ASSUME Gapless, UNCHANGED <<up, task, got, clip, list>> PROVE Gapless' /\ NoGap
  BY DEF Gapless, NoGap

LEMMA ReportingKeepsGapless ==
    ASSUME Gapless, NEW s, NEW kind,
           \/ set_wakeup_status(s) \/ EventOnline \/ EventGivenUp \/ do_event_push
           \/ EventPushed \/ wakeup_status_backup_cb(s)
           \/ TimerFires \/ cloud_storage_timer \/ TimerCompares \/ TimerDeletes
           \/ VideoFrame(kind) \/ EnterScreen \/ Network
    PROVE  Gapless' /\ NoGap
  <1>1. CASE \/ set_wakeup_status(s) \/ EventOnline \/ EventGivenUp
             \/ do_event_push \/ EventPushed \/ wakeup_status_backup_cb(s)
    <2>1. UNCHANGED <<upload, media>>
      BY <1>1 DEF set_wakeup_status, EventOnline, EventGivenUp, EventPushed,
                  do_event_push, wakeup_status_backup_cb
    <2> QED BY <2>1, GaplessStutter DEF upload, media
  <1>2. CASE TimerFires \/ cloud_storage_timer \/ TimerCompares \/ TimerDeletes
    <2>1. UNCHANGED <<upload, media>>
      BY <1>2 DEF TimerFires, cloud_storage_timer, TimerCompares, TimerDeletes,
                  cloud_storage_timer_del
    <2> QED BY <2>1, GaplessStutter DEF upload, media
  <1>3. CASE VideoFrame(kind) \/ EnterScreen \/ Network
    <2>1. UNCHANGED <<upload, media>>
      BY <1>3 DEF VideoFrame, EnterScreen, Network
    <2> QED BY <2>1, GaplessStutter DEF upload, media
  <1> QED BY <1>1, <1>2, <1>3

\* Frames are stored at the end, dropped all at once, and trimmed only while no
\* clip is open.
LEMMA StoringKeepsGapless ==
    ASSUME Inv, TypeInv, Gapless,
           VideoTrims \/ VideoAdds \/ cloud_storage_audio_write \/ LeaveScreen
    PROVE  Gapless' /\ NoGap
  <1>1. /\ clip \in ClipType /\ list \in Seq(Frame) /\ Len(list) \in Nat
        /\ Len(list) <= MaxList
        /\ clip.last + 1 \in Nat /\ clip.last + 2 \in Nat
    BY ClipTypes, Lengths
  <1>2. UNCHANGED <<up, task, got>>
    BY DEF VideoTrims, VideoAdds, cloud_storage_audio_write, LeaveScreen, upload
  <1>3. ASSUME clip'.last = clip.last,
               \A first \in Nat : ClipIsOpen /\ Run(list, clip.next, first)
                                     => Run(list', clip'.next, first)
        PROVE  Gapless' /\ NoGap
    BY <1>1, <1>2, <1>3 DEF Gapless, NoGap, ClipIsOpen
  <1>4. ASSUME NEW kind \in Kinds, Stored(kind)
        PROVE  Gapless' /\ NoGap
    <2>1. clip'.last = clip.last
      BY <1>1, <1>4 DEF Stored, ClipType
    <2>2. ASSUME NEW first \in Nat, ClipIsOpen, Run(list, clip.next, first)
          PROVE  Run(list', clip'.next, first)
      <3>1. /\ list' = Append(list, [kind |-> kind, n |-> clip.next])
            /\ clip' = [clip EXCEPT !.next = (@ + 1) % Ring]
        BY <1>4, <2>2 DEF Stored
      <3>2. [kind |-> kind, n |-> clip.next] \in Frame /\ clip'.next = (clip.next + 1) % Ring
        BY <1>1, <3>1 DEF Frame, ClipType
      <3> QED BY <1>1, <2>2, <3>1, <3>2, RunIsExtended
    <2> QED BY <1>3, <2>1, <2>2
  <1>5. CASE VideoTrims
    <2>1. clip' = clip /\ (~TrimDue => list' = list)
      BY <1>5 DEF VideoTrims, upload
    <2>2. ClipIsOpen => ~TrimDue
      BY DEF Inv, PhaseOfTask, ClipIsOpen, TrimDue
    <2> QED BY <1>3, <2>1, <2>2
  <1>6. CASE VideoAdds
    <2>1. Stored(writer.kind) \/ UNCHANGED <<list, clip>>
      BY <1>6 DEF VideoAdds
    <2>2. writer.kind \in Kinds
      BY <1>6 DEF VideoAdds, TypeInv, ListFits, Kinds
    <2> QED BY <1>2, <1>4, <2>1, <2>2, GaplessStutter
  <1>7. CASE cloud_storage_audio_write
    BY <1>4, <1>7 DEF cloud_storage_audio_write, Kinds
  <1>8. CASE LeaveScreen
    <2>1. list' = <<>> /\ clip'.last = clip.last
      BY <1>1, <1>8 DEF LeaveScreen, ClipType
    <2>2. ASSUME NEW first \in Nat, ClipIsOpen, Run(list, clip.next, first)
          PROVE  Run(list', clip'.next, first)
      <3>1. clip'.next = (clip.next + Ring - Len(list)) % Ring
        BY <1>1, <1>8, <2>2 DEF LeaveScreen, ClipType
      <3>2. Len(list) <= Ring
        BY <1>1, Lengths
      <3> QED BY <1>1, <2>1, <2>2, <3>1, <3>2, RunIsDropped
    <2> QED BY <1>3, <2>1, <2>2
  <1> QED BY <1>5, <1>6, <1>7, <1>8

LEMMA RecorderKeepsGapless ==
    ASSUME Inv, LengthInv, TypeInv, Gapless, Recorder \/ AppendFails
    PROVE  Gapless' /\ NoGap
  <1>1. /\ clip \in ClipType /\ list \in Seq(Frame) /\ Len(list) \in Nat
        /\ Len(list) <= MaxList
        /\ clip.last + 1 \in 0 .. Ring /\ clip.last + 2 \in Nat
        /\ clip.last \in -1 .. Ring - 1
    BY ClipTypes DEF ClipType
  \* Where no clip is open there is nothing to number.
  <1>2. CASE \/ TaskWakes \/ TaskPushes \/ UploadEnds \/ AppendFails \/ EndDeletesTimer
             \/ EndClears \/ EndForgetsCount \/ EndWaitsForKey \/ EndResets
    <2>1. task' \notin {"upload", "append"} /\ clip' = clip
      BY <1>2 DEF TaskWakes, TaskPushes, UploadEnds, AppendFails, EndDeletesTimer,
                  EndClears, EndForgetsCount, EndWaitsForKey, EndResets
    <2> QED BY <2>1 DEF Gapless, NoGap
  <1>3. CASE EndStops
    <2>1. task' = "forget_count" /\ clip'.last = -1
      BY <1>3 DEF EndStops, NoClip
    <2> QED BY <2>1 DEF Gapless, NoGap
  <1>4. CASE TaskStarts
    <2>1. /\ task' = "upload" /\ up' = up
          /\ IF up THEN list' = Numbered(list) /\ clip' = [NoClip EXCEPT !.next = Len(list)]
                   ELSE clip' = clip
      BY <1>4 DEF TaskStarts
    <2>2. CASE up
      <3>1. list' = Numbered(list) /\ clip'.last = -1 /\ clip'.next = Len(list)
        BY <2>1, <2>2 DEF NoClip
      <3>2. Run(list', clip'.next, clip'.last + 1)
        <4>1. clip'.last + 1 = 0
          BY <3>1
        <4> QED BY <1>1, <3>1, <4>1, RunStarts
      <3> QED BY <2>1, <3>1, <3>2 DEF Gapless, NoGap
    <2>3. CASE ~ up
      BY <2>1, <2>3 DEF Gapless, NoGap
    <2> QED BY <2>2, <2>3
  <1>5. CASE cloud_storage_uploading
    <2>1. /\ task = "upload" /\ list # <<>> /\ list' = Tail(list) /\ UNCHANGED <<up, clip>>
          /\ up => got' = Head(list) /\ task' = "append"
      BY <1>5 DEF cloud_storage_uploading
    <2>2. CASE up
      <3>1. Run(list, clip.next, clip.last + 1)
        BY <2>1, <2>2 DEF Gapless
      <3>2. /\ Head(list).n = (clip.last + 1) % Ring
            /\ Run(Tail(list), clip.next, clip.last + 1 + 1)
        BY <1>1, <2>1, <3>1, Lengths, RunIsTaken
      <3>3. clip.last + 1 + 1 = clip.last + 2
        BY <1>1
      <3> QED BY <2>1, <2>2, <3>2, <3>3 DEF Gapless, NoGap
    <2>3. CASE ~ up
      BY <2>1, <2>3 DEF Gapless, NoGap
    <2> QED BY <2>2, <2>3
  <1>6. CASE Append_v2
    <2>1. /\ task = "append" /\ up_state = "START" /\ task' = "upload"
          /\ UNCHANGED <<up, list>>
          /\ clip' = [clip EXCEPT !.last = got.n, !.videos = @ + Counted(got)]
      BY <1>6 DEF Append_v2, Inv, PhaseOfTask, media
    <2>2. clip'.last = got.n /\ clip'.next = clip.next
      BY <1>1, <2>1 DEF ClipType
    <2>3. got.n = (clip.last + 1) % Ring /\ Run(list, clip.next, clip.last + 2)
      BY <2>1 DEF LengthInv, Gapless
    <2>4. clip.last + 2 = clip.last + 1 + 1 /\ clip.last + 1 \in Nat
      BY <1>1, Lengths
    <2>5. Run(list, clip.next, ((clip.last + 1) % Ring) + 1)
      BY <1>1, <2>3, <2>4, RunOfRemainder
    <2> QED BY <2>1, <2>2, <2>3, <2>5 DEF Gapless, NoGap
  <1> QED BY <1>2, <1>3, <1>4, <1>5, <1>6 DEF Recorder

LEMMA GaplessNext ==
    ASSUME Inv, LengthInv, TypeInv, Gapless, [Next]_vars PROVE Gapless' /\ NoGap
  <1>1. CASE UNCHANGED vars
    BY <1>1, GaplessStutter DEF vars, media, upload
  <1>2. CASE \/ \E s \in Events : set_wakeup_status(s)
             \/ \E s \in backups : wakeup_status_backup_cb(s)
             \/ Reporter \/ \E kind \in {"key", "delta"} : VideoFrame(kind)
             \/ TimerFires \/ cloud_storage_timer \/ TimerCompares \/ TimerDeletes
             \/ EnterScreen \/ Network
    BY <1>2, ReportingKeepsGapless DEF Reporter
  <1>3. CASE VideoTrims \/ VideoAdds \/ cloud_storage_audio_write \/ LeaveScreen
    BY <1>3, StoringKeepsGapless
  <1>4. CASE Recorder \/ AppendFails
    BY <1>4, RecorderKeepsGapless
  <1> QED BY <1>1, <1>2, <1>3, <1>4 DEF Next, Encoder

\* If clips have a length, what is uploaded for a clip is an unbroken run of the
\* frames that were stored, whatever the encoder, the audio, the trimming, the
\* screen and the timer do between two frames of the recorder.
THEOREM ClipsAreGapless == ASSUME Clip # 0 PROVE Spec => ClipIsGapless
  <1>1. Init => LengthInv
    BY LengthsAssumption DEF Init, LengthInv, NoClip, Resetting
  <1>2. Inv /\ LengthInv /\ [Next]_vars => LengthInv'
    BY LengthNext
  <1>3. Init => Gapless
    BY DEF Init, Gapless
  <1>4. Inv /\ LengthInv /\ TypeInv /\ Gapless /\ [Next]_vars => Gapless' /\ NoGap
    BY GaplessNext
  <1>5. NoGap => [clip.last # -1 /\ clip'.last # -1
                    => clip'.last = (clip.last + 1) % Ring]_(clip.last)
    BY DEF NoGap
  <1> QED BY <1>1, <1>2, <1>3, <1>4, <1>5, InvHolds, TypeInvHolds, PTL DEF Spec, ClipIsGapless
=============================================================================
