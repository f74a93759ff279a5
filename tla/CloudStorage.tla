---------------------------- MODULE CloudStorage ----------------------------
(***************************************************************************)
(* The recording of an event to the cloud: cloud_storage.c.                *)
(*                                                                         *)
(* Five threads meet here.  The encoder writes frames into a list that     *)
(* holds the last seconds before an event; the reporter (do_event_push on  *)
(* doorbell_block_event_task) turns an event into a notification or into   *)
(* the start of a clip; a periodic timer hands the start to the recorder   *)
(* and later decides that the clip is long enough; the recorder            *)
(* (cloud_storage_task) uploads the list and then puts everything back;    *)
(* the waiting notifications (wait_completion) go out during the upload.   *)
(* cloud_storage_mutex and the mutex of the list are held across several   *)
(* steps: StorageLocked and ListLocked say when.                           *)
(***************************************************************************)
EXTENDS Integers, Sequences, FiniteSetsExt

CONSTANTS
    Events,        \* the wake-up statuses that reach set_wakeup_status
    CloudEvents,   \* those for which get_wakeup_status_isCs is 1
    Pir,           \* PIR_WAKEUP, whether or not it is one of Events
    Init_Wakeup,   \* INIT_WAKEUP: no event
    Keep,          \* 3.5 seconds of video: kept while nothing is recorded
    KeepStarting,  \* 6 seconds of video: kept while the upload starts
    Gop,           \* the encoder makes every Gop-th frame a key frame
    Clip,          \* get_cloud_max_frame_cnt: the video frames of a clip
    UploadFails,   \* whether avsdk_cs_append_video_v2 may report an error
    MemoryFails,   \* whether there may be no memory for a frame
    ScreenIsLeft,  \* whether the application may leave the video_rec screen
    MaxList,       \* bound: frames in the list
    MaxAudio,      \* bound: how many of them are audio
    MaxCount,      \* bound: video_frame_count
    Ring           \* the frames of a clip are numbered modulo Ring

ASSUME EventsAssumption ==
    /\ CloudEvents \subseteq Events
    /\ Init_Wakeup \notin Events
ASSUME LengthsAssumption ==
    /\ Gop \in Nat \ {0} /\ Keep \in Nat /\ Gop + 1 < Keep
    /\ KeepStarting \in Nat /\ Keep <= KeepStarting
    /\ Clip \in Nat
    /\ MaxList \in Nat /\ MaxAudio \in Nat /\ MaxCount \in Nat
    /\ Ring \in Nat /\ MaxList + 1 < Ring
ASSUME SwitchesAssumption ==
    UploadFails \in BOOLEAN /\ MemoryFails \in BOOLEAN /\ ScreenIsLeft \in BOOLEAN

VARIABLES
    up_state,     \* cloud_storage_up_state
    timer_id,     \* cloud_storage_timer_id # 0
    sem,          \* cloud_storage_sem
    cur,          \* cur_wakeup_info.wakeup_status
    fps_cnt,      \* cloud_storage_fps_cnt: video frames uploaded for this clip
    reported,     \* wakeup_status_list: the events notified during this clip
    backups,      \* the events that wait_completion holds back
    list,         \* cloud_media_info_list
    frame_count,  \* video_frame_count
    wait_iframe,  \* is_wait_iframe
    audio_start,  \* audio_frame_start
    event,        \* do_event_push: where it is, and the event it carries
    timer,        \* where a running cloud_storage_timer callback is
    writer,       \* where cloud_storage_video_write is, and its frame
    task,         \* where cloud_storage_task is
    up,           \* cloud_storage_uploading(1), not (0)
    got,          \* the frame taken from the list, not yet appended
    clip,         \* what avsdk_cs_append_video_v2 and its audio twin were given
                  \* for the open clip: the last frame's number, or -1, and how
                  \* many were video; and the number of the next frame stored
    connected,    \* get_avsdk_connect_flag
    stream        \* the encoder: whether it runs, frames since a key frame

storage == <<up_state, timer_id, sem, cur, reported, backups>>
media   == <<list, frame_count, wait_iframe, audio_start>>
upload  == <<task, up, got, clip>>
vars == <<storage, fps_cnt, media, event, timer, writer, upload, connected, stream>>

States == {"IDLE", "STARTING", "START", "STOPING", "STOP"}
Kinds  == {"key", "delta", "audio"}
Frame  == [kind : Kinds, n : 0 .. Ring - 1]
NoFrame == [kind |-> "none", n |-> 0]
NoClip  == [last |-> -1, videos |-> 0, next |-> 0]
NoEvent == [at |-> "none", status |-> Init_Wakeup]
Resetting == {"forget_count", "wait_key", "reset"}

TypeOK ==
    /\ up_state \in States /\ timer_id \in BOOLEAN /\ sem \in 0 .. 1
    /\ cur \in Events \cup {Init_Wakeup} /\ fps_cnt \in Nat
    /\ reported \subseteq Events \cup {Init_Wakeup}
    /\ backups \subseteq Events \cup {Init_Wakeup}
    /\ list \in Seq(Frame) /\ frame_count \in Int
    /\ wait_iframe \in BOOLEAN /\ audio_start \in BOOLEAN
    /\ event \in [at : {"none", "armed", "online", "pushing"},
                  status : Events \cup {Init_Wakeup}]
    /\ timer \in {"idle", "pend", "compare", "delete"}
    /\ writer \in [at : {"idle", "trim", "add"}, kind : {"key", "delta", "none"}]
    /\ task \in {"wait", "push", "start", "upload", "append", "end", "clear",
                 "stop"} \cup Resetting
    /\ up \in BOOLEAN /\ got \in Frame \cup {NoFrame}
    /\ clip \in [last : -1 .. Ring - 1, videos : Nat, next : 0 .. Ring - 1]
    /\ connected \in BOOLEAN
    /\ stream \in [runs : BOOLEAN, since : 1 .. Gop]

Init ==
    /\ up_state = "IDLE" /\ timer_id = FALSE /\ sem = 0
    /\ cur = Init_Wakeup /\ fps_cnt = 0 /\ reported = {} /\ backups = {}
    /\ list = <<>> /\ frame_count = 0
    /\ wait_iframe = FALSE /\ audio_start = FALSE
    /\ event = NoEvent /\ timer = "idle"
    /\ writer = [at |-> "idle", kind |-> "none"]
    /\ task = "wait" /\ up = FALSE /\ got = NoFrame /\ clip = NoClip
    /\ connected = FALSE
    /\ stream = [runs |-> TRUE, since |-> Gop]

\* cloud_storage_mutex is held by do_event_push while it notifies, and by
\* set_cloud_storage_end from the end of the session to the last reset.
StorageLocked == event.at = "pushing" \/ task \in Resetting
\* cloud_media_info_list_mutex is held by the writer of a video frame.
ListLocked == writer.at # "idle"

-----------------------------------------------------------------------------
(* Events. *)

\* set_wakeup_status, once it has the mutex.  An event that comes while an
\* earlier one is not dealt with changes cur and is otherwise lost; so is one
\* that waits 3 seconds for the mutex, which is a step that changes nothing.
set_wakeup_status(s) ==
    /\ ~StorageLocked
    /\ cur' = s
    /\ event' = IF event.at = "none" THEN [at |-> "armed", status |-> s] ELSE event
    /\ UNCHANGED <<up_state, timer_id, sem, fps_cnt, reported, backups, media,
                   timer, writer, upload, connected, stream>>

\* do_event_push waits up to 5 seconds for the platform.
EventOnline ==
    /\ event.at = "armed" /\ connected
    /\ event' = [event EXCEPT !.at = "online"]
    /\ UNCHANGED <<storage, fps_cnt, media, timer, writer, upload, connected, stream>>

EventGivenUp ==
    /\ \/ event.at = "armed" /\ ~connected       \* no platform for 5 seconds
       \/ event.at = "online" /\ StorageLocked   \* no mutex for 3 seconds
    /\ event' = NoEvent
    /\ UNCHANGED <<storage, fps_cnt, media, timer, writer, upload, connected, stream>>

\* Faulty: a clip that is being put away is taken for one that is over.
StartClipTooEarly ==
    /\ up_state \notin {"START", "STARTING"}
    /\ up_state' = "STARTING"
    /\ stream' = [stream EXCEPT !.since = Gop]
    /\ timer_id' = TRUE
    /\ fps_cnt' = IF timer_id THEN fps_cnt ELSE 0
    /\ event' = NoEvent
    /\ UNCHANGED backups

\* Faulty: the timer is not added.
StartClipWithoutTimer ==
    /\ up_state \in {"STOP", "IDLE"}
    /\ up_state' = "STARTING"
    /\ stream' = [stream EXCEPT !.since = Gop]
    /\ fps_cnt' = 0 /\ event' = NoEvent
    /\ UNCHANGED <<timer_id, backups>>

\* A new clip: the encoder is asked for a key frame, the timer is added.
StartClip ==
    /\ up_state \in {"STOP", "IDLE"}
    /\ up_state' = "STARTING"
    /\ stream' = [stream EXCEPT !.since = Gop]
    /\ timer_id' = TRUE
    /\ fps_cnt' = IF timer_id THEN fps_cnt ELSE 0
    /\ event' = NoEvent
    /\ UNCHANGED backups

\* While a clip is open or closes, an event is only notified.
NotifyOnly ==
    /\ up_state \in {"START", "STOPING"}
    /\ LET s == IF up_state = "START" THEN event.status ELSE cur
       IN  event' = IF s = Pir /\ s \in reported THEN NoEvent
                    ELSE [event EXCEPT !.at = "pushing"]
    /\ UNCHANGED <<up_state, stream, timer_id, fps_cnt, backups>>

\* While a clip starts, the notification is held back until it has started.
HoldBack ==
    /\ up_state = "STARTING"
    /\ backups' = IF cur = Pir /\ cur \in reported THEN backups
                  ELSE backups \cup {cur}
    /\ event' = NoEvent
    /\ UNCHANGED <<up_state, stream, timer_id, fps_cnt>>

\* do_event_push with the mutex.  What is not for the cloud is notified.
do_event_push ==
    /\ event.at = "online" /\ ~StorageLocked
    /\ IF event.status \in CloudEvents
       THEN StartClip \/ NotifyOnly \/ HoldBack
       ELSE /\ event' = [event EXCEPT !.at = "pushing"]
            /\ UNCHANGED <<up_state, stream, timer_id, fps_cnt, backups>>
    /\ UNCHANGED <<sem, cur, reported, media, timer, writer, upload, connected>>

\* set_avsdk_push_event returns to do_event_push: whatever the platform said,
\* the event is entered in the list, and the mutex is given back.
EventPushed ==
    /\ event.at = "pushing"
    /\ reported' = reported \cup {event.status}
    /\ event' = NoEvent
    /\ UNCHANGED <<up_state, timer_id, sem, cur, backups, fps_cnt, media, timer,
                   writer, upload, connected, stream>>

\* wait_completion: connected and uploading, so the held event is notified.
wakeup_status_backup_cb(s) ==
    /\ connected /\ up_state = "START"
    /\ backups' = backups \ {s}
    /\ reported' = reported \cup {s}
    /\ UNCHANGED <<up_state, timer_id, sem, cur, fps_cnt, media, event, timer,
                   writer, upload, connected, stream>>

-----------------------------------------------------------------------------
(* The timer, every 100 ms: four steps, between which the others run. *)

\* The callback begins when there is a connection, and waits for the mutex.
TimerFires ==
    /\ timer_id /\ timer = "idle" /\ connected
    /\ timer' = "pend"
    /\ UNCHANGED <<storage, fps_cnt, media, event, writer, upload, connected, stream>>

\* Faulty: a token is posted whether or not one is there.
TimerPostsAgain ==
    /\ timer = "pend" /\ ~StorageLocked
    /\ sem' = IF up_state = "STARTING" THEN sem + 1 ELSE sem
    /\ timer' = "compare"
    /\ UNCHANGED <<up_state, timer_id, cur, reported, backups, fps_cnt, media,
                   event, writer, upload, connected, stream>>

cloud_storage_timer ==
    /\ timer = "pend" /\ ~StorageLocked
    /\ sem' = IF up_state = "STARTING" /\ sem = 0 THEN 1 ELSE sem
    /\ timer' = "compare"
    /\ UNCHANGED <<up_state, timer_id, cur, reported, backups, fps_cnt, media,
                   event, writer, upload, connected, stream>>

\* Faulty: the clip ends one frame too late for a counter that stops before it.
TimerComparesBeyond ==
    /\ timer = "compare"
    /\ timer' = IF fps_cnt > Clip THEN "delete" ELSE "idle"
    /\ UNCHANGED <<storage, fps_cnt, media, event, writer, upload, connected, stream>>

TimerCompares ==
    /\ timer = "compare"
    /\ timer' = IF fps_cnt >= Clip THEN "delete" ELSE "idle"
    /\ UNCHANGED <<storage, fps_cnt, media, event, writer, upload, connected, stream>>

\* Faulty: the id of the deleted timer is kept.
TimerDelKeepsId ==
    /\ ~StorageLocked
    /\ IF up_state \in {"START", "STARTING"} /\ timer_id
       THEN up_state' = "STOPING" /\ cur' = Init_Wakeup
       ELSE UNCHANGED <<up_state, cur>>
    /\ UNCHANGED <<timer_id, sem, reported, backups, fps_cnt, media, event, writer,
                   connected, stream>>

cloud_storage_timer_del ==
    /\ ~StorageLocked
    /\ IF up_state \in {"START", "STARTING"} /\ timer_id
       THEN up_state' = "STOPING" /\ timer_id' = FALSE /\ cur' = Init_Wakeup
       ELSE UNCHANGED <<up_state, timer_id, cur>>
    /\ UNCHANGED <<sem, reported, backups, fps_cnt, media, event, writer,
                   connected, stream>>

TimerDeletes ==
    /\ timer = "delete"
    /\ cloud_storage_timer_del
    /\ timer' = "idle"
    /\ UNCHANGED upload

-----------------------------------------------------------------------------
(* cloud_storage_task. *)

TaskWakes ==
    /\ task = "wait" /\ sem = 1
    /\ sem' = 0 /\ task' = "push"
    /\ UNCHANGED <<up_state, timer_id, cur, reported, backups, fps_cnt, media,
                   event, timer, writer, up, got, clip, connected, stream>>

\* The event is notified.  It is uploaded if the platform gives it a place
\* and avsdk_cs_start succeeds; otherwise the clip is recorded into nothing.
TaskPushes ==
    /\ task = "push"
    /\ reported' = reported \cup {cur}
    /\ up' \in {FALSE, connected}
    /\ task' = "start"
    /\ UNCHANGED <<up_state, timer_id, sem, cur, backups, fps_cnt, media, event,
                   timer, writer, got, clip, connected, stream>>

\* The frames stored so far are numbered, so that ClipIsGapless can follow them.
Numbered(s) == [i \in DOMAIN s |-> [s[i] EXCEPT !.n = i - 1]]
ClipIsOpen == up /\ task \in {"upload", "append"}

TaskStarts ==
    /\ task = "start" /\ ~StorageLocked
    /\ up_state' = "START" /\ task' = "upload"
    /\ IF up THEN list' = Numbered(list) /\ clip' = [NoClip EXCEPT !.next = Len(list)]
             ELSE UNCHANGED <<list, clip>>
    /\ UNCHANGED <<timer_id, sem, cur, reported, backups, fps_cnt, frame_count,
                   wait_iframe, audio_start, event, timer, writer, up, got,
                   connected, stream>>

Counted(frame) == IF frame.kind = "audio" THEN 0 ELSE 1

\* Faulty: the upload does not look at the length of the clip.
UploadsOnAndOn ==
    /\ task = "upload" /\ ~ListLocked
    /\ up_state = "START" /\ list # <<>>
    /\ list' = Tail(list)
    /\ IF up THEN got' = Head(list) /\ task' = "append" /\ UNCHANGED fps_cnt
             ELSE fps_cnt' = fps_cnt + Counted(Head(list)) /\ UNCHANGED <<got, task>>
    /\ UNCHANGED <<storage, frame_count, wait_iframe, audio_start, event, timer,
                   writer, up, clip, connected, stream>>

\* cloud_storage_uploading takes the oldest frame; without an upload it only
\* counts it and throws it away.
cloud_storage_uploading ==
    /\ task = "upload" /\ ~ListLocked
    /\ up_state = "START" /\ list # <<>>
    /\ IF up THEN fps_cnt < Clip ELSE fps_cnt < MaxCount
    /\ list' = Tail(list)
    /\ IF up THEN got' = Head(list) /\ task' = "append" /\ UNCHANGED fps_cnt
             ELSE fps_cnt' = fps_cnt + Counted(Head(list)) /\ UNCHANGED <<got, task>>
    /\ UNCHANGED <<storage, frame_count, wait_iframe, audio_start, event, timer,
                   writer, up, clip, connected, stream>>

UploadEnds ==
    /\ task = "upload" /\ ~ListLocked /\ up_state # "START"
    /\ task' = "end"
    /\ UNCHANGED <<storage, fps_cnt, media, event, timer, writer, up, got, clip,
                   connected, stream>>

\* The frame is appended to the clip, unless the clip was stopped meanwhile.
Append_v2 ==
    /\ task = "append"
    /\ got' = NoFrame /\ task' = "upload"
    /\ IF up_state = "START"
       THEN /\ clip' = [clip EXCEPT !.last = got.n, !.videos = @ + Counted(got)]
            /\ fps_cnt' = fps_cnt + Counted(got)
       ELSE UNCHANGED <<clip, fps_cnt>>
    /\ UNCHANGED <<storage, media, event, timer, writer, up, connected, stream>>

AppendFails ==
    /\ UploadFails /\ task = "append" /\ up_state = "START"
    /\ got' = NoFrame /\ task' = "end"
    /\ UNCHANGED <<storage, fps_cnt, media, event, timer, writer, up, clip,
                   connected, stream>>

\* set_cloud_storage_end: the timer, the list, and then under the mutex the
\* state and one static after the other.
EndDeletesTimer ==
    /\ task = "end"
    /\ cloud_storage_timer_del
    /\ task' = "clear"
    /\ UNCHANGED <<timer, up, got, clip>>

\* The list is looked at without its mutex, and cleared with it.
EndClears ==
    /\ task = "clear" /\ (list # <<>> => ~ListLocked)
    /\ list' = <<>> /\ task' = "stop"
    /\ UNCHANGED <<storage, fps_cnt, frame_count, wait_iframe, audio_start, event,
                   timer, writer, up, got, clip, connected, stream>>

EndStops ==
    /\ task = "stop" /\ ~StorageLocked
    /\ up_state' = "STOP" /\ task' = "forget_count" /\ clip' = NoClip
    /\ UNCHANGED <<timer_id, sem, cur, reported, backups, fps_cnt, media, event,
                   timer, writer, up, got, connected, stream>>

EndForgetsCount ==
    /\ task = "forget_count"
    /\ frame_count' = 0 /\ task' = "wait_key"
    /\ UNCHANGED <<storage, fps_cnt, list, wait_iframe, audio_start, event, timer,
                   writer, up, got, clip, connected, stream>>

EndWaitsForKey ==
    /\ task = "wait_key"
    /\ wait_iframe' = TRUE /\ task' = "reset"
    /\ UNCHANGED <<storage, fps_cnt, list, frame_count, audio_start, event, timer,
                   writer, up, got, clip, connected, stream>>

\* Faulty: the semaphore keeps its token.
EndKeepsToken ==
    /\ task = "reset"
    /\ audio_start' = FALSE /\ fps_cnt' = 0 /\ reported' = {}
    /\ task' = "wait"
    /\ UNCHANGED <<up_state, timer_id, sem, cur, backups, list, frame_count,
                   wait_iframe, event, timer, writer, up, got, clip, connected, stream>>

EndResets ==
    /\ task = "reset"
    /\ audio_start' = FALSE /\ fps_cnt' = 0 /\ sem' = 0 /\ reported' = {}
    /\ task' = "wait"
    /\ UNCHANGED <<up_state, timer_id, cur, backups, list, frame_count, wait_iframe,
                   event, timer, writer, up, got, clip, connected, stream>>

-----------------------------------------------------------------------------
(* The encoder. *)

\* A frame leaves the encoder and cloud_storage_video_write is entered.
\* After a request, and after Gop frames, the frame is a key frame.
VideoFrame(kind) ==
    /\ stream.runs /\ ~ListLocked
    /\ Len(list) < MaxList /\ frame_count < MaxCount
    /\ kind = "delta" => stream.since < Gop
    /\ stream' = [stream EXCEPT !.since = IF kind = "key" THEN 1 ELSE @ + 1]
    /\ writer' = IF up_state = "STOPING" \/ (wait_iframe /\ kind = "delta")
                 THEN writer ELSE [at |-> "trim", kind |-> kind]
    /\ UNCHANGED <<storage, fps_cnt, media, event, timer, upload, connected>>

KeyFrames(s) == {i \in DOMAIN s : s[i].kind = "key"}
\* The list without its first group of pictures: everything up to the second
\* key frame, or everything.
WithoutFirstGop(s) ==
    LET k == KeyFrames(s) \ {Min(KeyFrames(s))}
    IN  IF Cardinality(KeyFrames(s)) < 2 THEN <<>>
        ELSE SubSeq(s, Min(k), Len(s))
Videos(s) == Cardinality({i \in DOMAIN s : s[i].kind # "audio"})

\* How much video is kept: the oldest group goes when the limit is reached.
Limit == IF up_state = "STARTING" THEN KeepStarting ELSE Keep
\* Faulty: the oldest group goes while it is being uploaded, too.
TrimAlways == frame_count + 1 >= Limit
TrimDue == up_state \in {"STOP", "IDLE", "STARTING"} /\ frame_count + 1 >= Limit

VideoTrims ==
    /\ writer.at = "trim"
    /\ writer' = [writer EXCEPT !.at = "add"]
    /\ IF TrimDue
       THEN /\ list' = WithoutFirstGop(list)
            /\ frame_count' = frame_count - (Videos(list) - Videos(list'))
       ELSE UNCHANGED <<list, frame_count>>
    /\ UNCHANGED <<storage, fps_cnt, wait_iframe, audio_start, event, timer, upload,
                   connected, stream>>

Stored(kind) ==
    IF ClipIsOpen
    THEN /\ list' = Append(list, [kind |-> kind, n |-> clip.next])
         /\ clip' = [clip EXCEPT !.next = (@ + 1) % Ring]
    ELSE /\ list' = Append(list, [kind |-> kind, n |-> 0])
         /\ UNCHANGED clip

\* A frame for which there is no memory is counted like the others.
VideoAdds ==
    /\ writer.at = "add"
    /\ \/ Stored(writer.kind)
       \/ MemoryFails /\ UNCHANGED <<list, clip>>
    /\ frame_count' = frame_count + 1
    /\ wait_iframe' = FALSE /\ audio_start' = TRUE
    /\ writer' = [at |-> "idle", kind |-> "none"]
    /\ UNCHANGED <<storage, fps_cnt, event, timer, task, up, got, connected, stream>>

cloud_storage_audio_write ==
    /\ stream.runs /\ ~ListLocked
    /\ Len(list) < MaxList /\ Len(list) - Videos(list) < MaxAudio
    /\ up_state # "STOPING" /\ audio_start
    /\ Stored("audio")
    /\ UNCHANGED <<storage, fps_cnt, frame_count, wait_iframe, audio_start, event,
                   timer, writer, task, up, got, connected, stream>>

\* The application leaves video_rec: the stream is closed and
\* clear_cloud_storage_list empties the list, and nothing else.  The frames
\* thrown away here are not counted as stored, so their numbers are free again.
LeaveScreen ==
    /\ ScreenIsLeft /\ stream.runs /\ ~ListLocked
    /\ stream' = [stream EXCEPT !.runs = FALSE]
    /\ list' = <<>>
    /\ clip' = IF ClipIsOpen THEN [clip EXCEPT !.next = (@ + Ring - Len(list)) % Ring]
                             ELSE clip
    /\ UNCHANGED <<storage, fps_cnt, frame_count, wait_iframe, audio_start, event,
                   timer, writer, task, up, got, connected>>

EnterScreen ==
    /\ ~stream.runs
    /\ stream' = [stream EXCEPT !.runs = TRUE, !.since = Gop]
    /\ UNCHANGED <<storage, fps_cnt, media, event, timer, writer, upload, connected>>

\* The connection to the platform comes and goes.
Network ==
    /\ connected' = ~connected
    /\ UNCHANGED <<storage, fps_cnt, media, event, timer, writer, upload, stream>>

Recorder ==
    \/ TaskWakes \/ TaskPushes \/ TaskStarts
    \/ cloud_storage_uploading \/ UploadEnds \/ Append_v2
    \/ EndDeletesTimer \/ EndClears \/ EndStops \/ EndForgetsCount
    \/ EndWaitsForKey \/ EndResets

Encoder == VideoTrims \/ VideoAdds \/ (\E kind \in {"key", "delta"} : VideoFrame(kind))

Reporter == EventOnline \/ EventGivenUp \/ do_event_push \/ EventPushed

Next ==
    \/ \E s \in Events : set_wakeup_status(s)
    \/ Reporter
    \/ \E s \in backups : wakeup_status_backup_cb(s)
    \/ TimerFires \/ cloud_storage_timer \/ TimerCompares \/ TimerDeletes
    \/ Recorder \/ AppendFails
    \/ Encoder \/ cloud_storage_audio_write
    \/ LeaveScreen \/ EnterScreen
    \/ Network

Spec == Init /\ [][Next]_vars

\* Each thread is scheduled: the timer is periodic, the tasks run when they are
\* ready, the encoder goes on making frames while the stream is open.  Who waits
\* for a mutex without a timeout is woken when it is given back, so those steps
\* are not overtaken for ever: strong fairness.
FairSpec ==
    /\ Spec
    /\ WF_vars(Encoder) /\ WF_vars(Reporter)
    /\ WF_vars(TimerFires) /\ WF_vars(TimerCompares)
    /\ SF_vars(Recorder) /\ SF_vars(cloud_storage_timer) /\ SF_vars(TimerDeletes)

-----------------------------------------------------------------------------
(* Properties. *)

\* The timer that ends a clip exists exactly while a clip starts or runs.  If
\* it did not, nobody would end the clip: cloud_storage_timer is the only
\* caller of cloud_storage_timer_del that counts frames.
TimerWhileRecording == timer_id <=> up_state \in {"STARTING", "START"}

\* A token of the semaphore that is left from one clip never starts another:
\* when cloud_storage_task wakes, a clip is starting.
WakesForAStart == task = "wait" /\ sem = 1 => up_state = "STARTING"

\* A clip is started, uploaded, stopped and put away in this order, whatever
\* events come meanwhile.
NextState(s) == CASE s \in {"IDLE", "STOP"} -> "STARTING"
                  [] s = "STARTING" -> "START"
                  [] s = "START"    -> "STOPING"
                  [] s = "STOPING"  -> "STOP"
PhasesInOrder == [][up_state' = NextState(up_state)]_up_state

\* What is uploaded for one clip is an unbroken run of the frames that were
\* stored: no frame is skipped, repeated or reordered between the encoder, the
\* trimming of the list and the upload, unless the stream itself was closed.
ClipIsGapless ==
    [][clip.last # -1 /\ clip'.last # -1 => clip'.last = (clip.last + 1) % Ring]_(clip.last)

\* No clip gets more video than get_cloud_max_frame_cnt allows, although the
\* counter is read by the timer, reset by the reporter and kept over the end of
\* one clip to the start of the next.
ClipIsBounded == clip.videos <= Clip

\* cloud_storage.c:797, "against a first frame that is audio or no I frame":
\* the first frame of a clip is a key frame.
ClipStartsWithKey == [][clip.last = -1 /\ clip'.last # -1 => got.kind = "key"]_(clip.last)

\* cloud_storage.c:327, "the timer is kept to deal with the start of cloud
\* storage without a network", and 335, "if it has not begun start it": while
\* the platform stays connected a clip that is starting does start.
ClipStarts == <>[]connected => (up_state = "STARTING" ~> up_state = "START")

\* cloud_storage.c:366, "leave cloud storage by counting frames": while the
\* stream is open and the platform stays connected every clip comes to its end.
ClipEnds == <>[](connected /\ stream.runs) => (up_state = "START" ~> up_state = "STOP")
=============================================================================
