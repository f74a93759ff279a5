# The doorbell of DV17-visual_talk in TLA+

The repository is the Jieli AC57xx/DV17 SDK with one living product in it:
`apps/ipc_doorbell`, a door station with a screen, a camera and a cloud
connection. A visitor presses a key and a phone answers with voice or picture; a
phone may call the door station on its own; movement and key presses are recorded
to the cloud; phones watch and talk through a closed peer-to-peer SDK ("avsdk").
These modules model the parts of that product where threads, callbacks, timers and
queues meet. The code is read in the configuration its project files build:
`LONG_POWER_IPC`, board `LP_CONFIG_BOARD_DEV_WIFI_5713_20240426`, the screens of
`ui/style_LY`, `CONFIG_CLOUD_STORAGE_NUM` 1.

Paths below are relative to `src/apps/ipc_doorbell/`.

## 1. Inventory

### The parts with logic of their own

| Part | Code | State it keeps | Operations |
|---|---|---|---|
| Table of talking phones | `wifi/doorbell/doorbell_app.c:31-381` | the array `rt_talk_info`, the list through its used entries | add, delete and find for each of three streams |
| Visual call | `wifi/cloud_interface/cloud_rt_talk.c:949-1115` (`net_video_dec_task`), the callbacks in `wifi/avsdk/ut_dev_ipc_cmd.c` and `ut_xciot.c`, `video_rec.c:5751-5924`, `ui/style_LY/ui_action_rec.c` | the task's queue, `video_call_state`, the dial timer and the notice timer, `video_dec_start` | seven requests, nine callbacks, two keys, two timers, network events |
| Cloud storage | `wifi/cloud_interface/cloud_storage.c` | `cloud_storage_up_state`, its timer and semaphore, the list of frames and its counters, the events under way | set an event, push it, start, upload, end a clip, write video and audio |
| Picture of the phone | `cloud_rt_talk.c:777-948, 1100-1260` | list of frames, `video_frame_count`, decoder server, semaphore | write a frame, decode it, start, stop, clear |
| Talk audio | `wifi/rt_talk_net.c`, `wifi/rt_talk_voice.c`, `video_audio.c` | AAC decoder, cyclic buffers | start, stop, write |
| Cloud playback | `cloud_playback.c`, `cloud_playback_list.c` | list of sessions with a task each, list of recorded files | start, pause, seek, stop; list, delete |
| Doorbell events | `wifi/doorbell/doorbell_app.c`, `doorbell_event.c` | wake-up reason, network state, app on the screen | event handlers, `notify_msg_to_video_rec` |
| Update over the serial line | `wifi/uart_update/*` | frame buffer, received counter, command slot, update file | receive, send, write, end |
| Motor | `mortor_control_driver.c` | step counter, direction, timer | move, stop, reset |
| Wi-Fi and modem | `wifi/wifi_app_task.c`, `hi3861L_task.c`, `lte_app_task.c` | mode, connection state | events of the stack |
| Phone over Wi-Fi | `wifi/ctp_cmd.c`, `net_video_rec.c`, `strm_video_rec.c`, `video_playback.c`, `media_file_list.c` | client list, streams, file index | the older local commands |
| Streams | `wifi/stream/*` | a session per peer | open, write, close |
| Recording, photo | `video_rec.c`, `video_dec.c`, `video_photo.c` | recorder and decoder state | calls into the closed video server |
| Settings, start-up, USB, lights | `app_database.c`, `app_main.c`, `usb_*.c`, `irled_ctrl.c` | single values, drivers | |

Other products (`apps/car_camera`, `hunting_camera`, `ipc_camera`,
`wifi_car_camera`), camera drivers, `cpu/`, the libraries and the tools are not
part of this development. `cloud_sleep.c` is compiled but never started under
`LONG_POWER_IPC`.

### How they interact

    key, screen ──────────┐ DEVICE_HANGUP        ┌── VideoCall, TalkbackPlay,
    (video_rec, UI)       ▼                      ▼   PauseAllAv, on_connect
          ▲        ┌── queue of video_dec_task ──┐        (SDK thread)
          │ start_app("video_rec",               │             │
          │  ACTION_VIDEO_REC_CHANGE_WORK)       ▼             ▼
          └───────────────────────── net_video_dec_task ── rt_talk_info
          ▲                                      ▲
          │ calling_fail                         │ APP_ANSWER_TIMEOUT
    set_avsdk_push_event ◄─ do_event_push    calling_timeout (30 s)
          ▲                     ▲
    cloud_storage_task ◄─ semaphore ─ cloud_storage_timer (100 ms)
          ▲
    list of frames ◄─ cloud_storage_video_write / _audio_write (encoder)

The pieces share memory freely. The table of phones is guarded by a mutex of its
own for each operation, but decisions are taken between operations.
`video_call_state` belongs to the screen and is read by the SDK thread, the task and
the event reporter. Cloud storage has two mutexes, one for its state and one for the
list of frames, and several statics guarded by neither.

### What is hard here

* The call: a request is decided in a callback, queued, and acted on in the task
  later; the state the task reads is told to the screen another step later; timers
  expire into the same queue; a phone may disconnect at each of these moments.
* Cloud storage: the timer's decision to end a clip is made without the mutex and
  carried out after taking it; an event may arrive while a clip is starting, running
  or being put away; the end of a clip resets the encoder's statics without the
  encoder's mutex.
* The table: the search for a free entry is bounded by the size of the array in
  bytes, not in entries.
* The picture of the phone: a linked list is appended to, moved from and cleared by
  three threads, two of which leave the mutex aside at times; one semaphore counts the
  frames and also wakes the start of a call.
* Playback: the list of files is scanned, extended and deleted from by three threads,
  in two critical sections each; a session is freed by a callback while its task may be
  in the middle of the list, which it walks without the mutex.
* The serial update: the buffer of the request that comes in is the buffer in which
  the answer is built; one slot holds the last request; the line loses bytes, the other
  side asks again and restarts, and what was counted decides when the file is deleted.

What makes each part correct: for the table, that every phone's streams are what
was added and not deleted, whoever else comes and goes; for the call, that one
phone is shown and one talks, that no dial lasts for ever, no hang-up is lost and
no phone that is gone blocks the next; for cloud storage, that clips follow each
other in order, each is started, bounded, without gaps and ended; for the picture of the
phone, that no frame is freed twice or left without a holder and every call comes to its
picture; for
playback, that the list is what is on the card, what phones are told of it is the list,
and no task outlives its session or its connection; for the serial update, that the
receiver always finds the next frame and the file is deleted only when it was
delivered. The list of
hazards, at their lines, is in `PROJECT.json`.

## 2. Plan

Done:

1. `TalkRegistry`, `RtTalkInfo`: the table, abstract and as it is, with proofs.
2. `CallScreen`, `VisualCall`: the call, with proofs. It uses `TalkRegistry`, which
   `RtTalkInfo` is shown to implement, and implements `CallScreen`.
3. `CloudStorage`: events and clips, with proofs.
4. `UartUpdate`: the update of the microcontroller over a bad line, with proofs.
5. `MediaQueue`: the phone's frames between the SDK and the decoder, with proofs.
6. `PlaybackList`, `CloudPlayback`: the list of files, and on it the sessions that play
   them, with proofs.

To come, in this order:

7. `TalkAudio`: the life of the AAC decoder against frames that still arrive.
8. `DoorbellEvents`: the network and wake-up events, and a queue that drops.
9. `MotorControl`: stop against a running step timer.

Every safety property and every action property of the runs has a theorem. What
proofs could still add: `MediaQueue` after the first unlocked access, and that the table
of `RtTalkInfo` may stand in for `TalkRegistry` inside `VisualCall`, as one theorem.
The streams and the local commands come last.

## 3. Modules

| Module | Models | Extends or uses |
|---|---|---|
| `TalkRegistry` | what callers expect of the table: streams per phone, phones in order of arrival | |
| `RtTalkInfo` | the array and its list | `TalkRegistry` by refinement |
| `CallScreen` | the changes of `video_call_state` that make sense | |
| `VisualCall` | the call | `TalkRegistry`, `CallScreen` |
| `CloudStorage` | events and clips | |
| `UartUpdate` | the update over the serial line, and the line | |
| `MediaQueue` | the frames of the phone's picture | |
| `PlaybackList` | the list of recorded files, the card, the scan and the recorder | |
| `CloudPlayback` | sessions that play recorded files, and their tasks | `PlaybackList` |
| `MC*` | instances for TLC | |
| `NumberLemmas` | nothing: first and last of a set of numbers, quotients, remainders | |
| `*_proofs` | theorems | the module they are named for, `NumberLemmas` |

Definitions that begin with a comment "Faulty:" are variants of the next definition
with a plausible bug. Nothing uses them; each stands for a mistake which one of the
properties is there to catch, and is paired with it in `PROJECT.json`.

### RtTalkInfo

`rt_talk_info` is the array with `NPast` words behind it, `rt_talk_list` the list as
a sequence of indices. The three add and the three delete functions have one body
each in the code up to the flag, and one operator here; each runs under the mutex of
the list and is one action. `find_empty_rt_talk_info` takes the first free entry of
`Scan`, which reaches past the array because the loop runs to
`sizeof(rt_talk_info)`. Behind the array stands somebody else's memory (`Behind`): read
as an entry it looks free (0) or not (`Foreign`) and has any flags, at the start and
whenever its owner writes it (`BehindChanges`), also while a phone is listed there. A
phone claimed there inherits the flags it finds, as in the code. When the owner has
written over a listed entry its links are gone, and no add or delete is followed any
further (`ListIsWhole`): what they do then is memory corruption. The abstract
`TalkRegistry` sees `TheRegistry`.

So the properties of the list are about the time it is `InsideArray`, which is not only
the time before the first overrun: phones that were listed behind the array may leave,
and then nothing of the array may have leaked. That the list leaves the array at all is
the code's fault; that it does so only with a full array is `ClaimsPastOnlyWhenFull`.

### VisualCall

| Variable | Code |
|---|---|
| `conn` | the SDK's state of a connection: not there, open, closed with its resources not yet freed |
| `reg` | the table, as `TalkRegistry` |
| `video_call_state` | `CALL_STA_*` of the screen |
| `calling_timeout_timer`, `running` | whether the id denotes a running timer; how many dial timers run |
| `rec_call_dispose_timer` | the notice on the screen will be taken down |
| `video_dec_start` | the decoder plays |
| `queue`, `task` | the queue of `video_dec_task`, and where the task is in its handler |
| `callback` | the SDK thread has entered a calling phone and not yet posted the start |
| `net`, `pushing` | Wi-Fi connected; events being pushed, and a refusal still to be told |

The task's handler is cut where it calls out or acts on what it read: `Hangup` reads
the table and `HangupPost` posts; `Refuse`, `AnswerTimeout`, `StopByPhone` and
`StopByDevice` read the state and `Tell` tells the screen; `DropPeer` clears the
table at the end. `ChangeWork(news)` is the whole branch of
`ACTION_VIDEO_REC_CHANGE_WORK` with the screen handler it runs: the next state, the
notice, the timer. A callback of the SDK is one action, except `VideoCall`, which
enters the phone and posts in two. A refusal of the cloud reads the state in one step
and tells the screen in a later one.

Abstractions: the application on the screen is `video_rec` throughout
(`notify_msg_to_video_rec` does nothing otherwise); `start_app` and the handlers it
runs are one step, since it is synchronous; whether the device records a message,
which makes it busy for `VideoCall` action 2, is left open; a stop of talkback is one
step; frames, sound, voice prompts and the phone's status light are left out. Of
several dial timers the oldest expires first. Connection ids are never 0. A request is
taken only while the queue has room: the code drops a request when its 512-word queue
is full, which is not modelled.

### CloudStorage

| Variable | Code |
|---|---|
| `up_state`, `timer_id`, `sem`, `cur` | `cloud_storage_up_state`, `cloud_storage_timer_id`, `cloud_storage_sem`, `cur_wakeup_info` |
| `fps_cnt` | `cloud_storage_fps_cnt` |
| `reported`, `backups` | the events of this clip's list; those held back by `wait_completion` |
| `list`, `frame_count`, `wait_iframe`, `audio_start` | `cloud_media_info_list` and the encoder's statics |
| `event` | `do_event_push`: waiting for the platform, for the mutex, or notifying with the mutex held |
| `timer` | a running callback of the timer: waiting for the mutex, comparing, deleting |
| `writer` | a frame between its trimming and its storing, with the mutex of the list |
| `task`, `up`, `got` | where `cloud_storage_task` is, whether it uploads, the frame in its hands |
| `clip` | no variable of the code: what the platform was given for the open clip |
| `connected`, `stream` | `get_avsdk_connect_flag`; the encoder |

The mutexes are not variables: `StorageLocked` and `ListLocked` say at which points
of their threads they are held across steps. `set_cloud_storage_end` is six steps,
because the encoder looks at the statics it resets without any mutex they share.

Abstractions: lengths are constants (in the code 3.5 s and 6 s of 15 frames per
second are 52 and 90 frames; a key frame comes every 32; a clip is 30 s per unit of
`cyc`, 450 frames by default); the five retries of a notification are one step, and
the two pools of slots are sets. The alternative end by
seconds (`#if 0`), `timeout_cnt` (which it alone reads), time stamps, thumbnails and
what the clip does to other parts of the device are left out. The platform may report
an error on any append, and memory may run out for any frame. A wait with a timeout
that expires is a step that changes nothing or gives the event up. Frames carry a
number only while a clip is open; it serves `ClipIsGapless` and nothing else.

### UartUpdate

| Variable | Code |
|---|---|
| `file`, `fd` | the update file is on the card; `fd` of `ufw_file_op_*` |
| `sta`, `progress`, `complete` | `update_sta`; `update_total_size`, `update_send_size`, `update_percent`; `upg_complete_flag` |
| `rx`, `rx_cmd`, `rx_sem` | `rx_cnt` with the length field of `protocal_frame` and the request it holds, if intact; the slot; its semaphore |
| `task` | `update_process_run`: waiting, reading a block, about to reset |
| `wire`, `back` | the request on the line and its next byte; answers on their way |
| `mcu` | external: the microcontroller, what it asked for and what it has |
| `disturbed`, `trampled`, `delivered` | history, for the properties |

`uart_data_decode` is one action per byte, with the frame's states as the code has
them; each `CMD_UPDATE_*` branch of the task is an action, and `CmdRead` and the read
that follows are two, since bytes come in between. `uart_send_packet` overwrites the
length the receiver compares with, as in the code. The length itself is taken as it
comes: with a damaged one the end of the frame lies behind the buffer, bytes are stored
there (not modelled) and the receiver never finds it; the model's receiver stays at the
end of the buffer. A read for which there is no memory is not answered, and is counted
with the answers the line loses; the other early return of `update_data_read_from_file`,
for blocks longer than `FILE_READ_UNIT`, is not taken, since the microcontroller asks
for blocks of that size. The file is announced by
`uart_update_send_update_ready`; the loop of `dev_update_check` around it and
`uart_open_file_uninit` change nothing that is modelled.

Assumed of the microcontroller, whose program is not in the repository: it understands
the commands the doorbell answers, asks for the blocks in order, waits for an answer,
asks again only while its own line is idle and fewer than `MaxPending` requests and
answers wait, and after a restart waits to be told of the file. Abstractions: a field
of four bytes counts as one; payload bytes that look like marks, and the memory behind
the buffer, are left out; the baud rates and the unused `uart_timeout_handler` and
`uart_update_wait_rev_data` too.

### MediaQueue

| Variable | Code |
|---|---|
| `allocated`, `keys` | blocks that hold a frame, those with a key frame |
| `next`, `prev` | the links of `cloud_media_info_video_list_head` and of each block |
| `count`, `wait`, `start`, `playing` | `video_frame_count`, `is_wait_iframe`, whether a first key frame was decoded, `video_dec_start` |
| `sem`, `mutex`, `queue` | `net_scr_dec_video_ctrl_sem`, the mutex of the list, the queue of `video_dec_task` |
| `sdk`, `ctrl`, `clear`, `dec` | where the writer, the mover, a caller of `dec_pro_file` and the task of the decoder are, and what they have read |
| `torn` | history: the links were inconsistent |

The list is the linked list of `list.h` and not a sequence, since the code does not
always hold its mutex: at 60 frames the writer gives it back and goes on (the `return`
is commented out), and the clear never takes it. Reading the neighbours and writing
them are separate steps. An unlocked increment of the count is two steps as well. The
count is not reduced by a clear, so in the end every append is unlocked. The mover has
taken a frame from the list and counted it when it posts it to the task with
`post_msg_doorbell_task`, which does not wait: with `MaxQueue` requests in the queue the
frame is dropped and its block never freed (`PostFrame`, `lost`), and a start or stop is
dropped likewise (`PostCall`). Once the links
are torn the model stops (`Next` has `~torn`), which is why this run alone has
`CHECK_DEADLOCK FALSE`: what the threads do with torn links is memory corruption.

Abstractions: which free block is allocated, the bytes of a frame, its pace, the idle
picture's file and the list of audio. The second post of the mutex by a thread that
does not hold it is taken to be refused by the operating system.

### PlaybackList

| Variable | Code |
|---|---|
| `card`, `files`, `events` | external: the card, the finished recordings on it, its events not yet handled |
| `info` | `cloud_playback_list_info`: in use or not, the start of its file |
| `day_list`, `day_cnt`, `total` | the list of each day, newest first, and the counters |
| `scan`, `kill` | `cloud_playback_list_task`, with the entry it holds; `cloud_playback_list_task_kill_flag` |
| `rec` | the entry the recorder holds inside `cloud_playback_list_add` |
| `budget` | bound: how often the card moves, files are recorded, deleted, played |

A file is its start time; an entry keeps what it held when it is freed. What happens
under the mutex is one step; an entry is taken in one and linked in another, as in the
code. `OfDay`, `OfAllDays`, `Page`, `Covers` and `NameFor` are the functions the phone's
requests run. `OfDay` and `OfAllDays` are the walks of `cloud_playback_list_get`, over a
day or (day 0) every day, newest or oldest first; over all days, oldest first, the files
inside a day still come newest first. `Page` is what `cloud_playback_list_set_info` makes
of a walk; its branch without a filter (`rtype` 0) counts and fills as the other one
does when all kinds are asked for. The total it reports is the count of the day or of
everything (`day_cnt`, `total`).
`Found` follows the one-way search of a request that deletes several files.
`RecorderDeletes` unlists what the comparison of names in
`cloud_playback_list_local_remove` unlists: every file of the day but the one deleted.

Abstractions: one year and one directory; the read-only attribute, the count of unread
messages, thumbnails, seconds of a file's length, the upgrade from a card and the
product mode are left out. That there is a free entry whenever one is looked for is the
assumption `Histories` on the constants; the search past the array, modelled in
`RtTalkInfo`, does not occur here (see section 5).

### CloudPlayback

| Variable | Code |
|---|---|
| `conn` | the SDK's state of a connection |
| `session`, `playing` | `CLOUD_PLAYBACK_INFO` with the place of its task; `cloud_playback_list_head` |
| `sdk` | the one thread of the SDK inside a callback: about to list a session, or waiting for its task |
| `next_flag` | the static of `find_next_file` |

A session's task finds its file, sends it frame by frame, and, from a time, walks
through the day for the next. The walk is entry by entry, with the entry it will go to
next already read, because the code does not hold the mutex; an entry that is deleted is
linked to itself. `Uninit` is the common part of a pause and of the two events by which
a connection ends; the kill waits for the task (`thread_kill(.., 0)`), which is taken to
mean what its name `KILL_WAIT` says. On a connection that is not open a frame is not
sent (the SDK's -9) and the task ends.

Abstractions: finding a name and opening it are one step, as are the end of a file and
the first step of the walk; where in its first file a playback begins is arbitrary
(`fd_time` is never set), and without a match the path is any file's name or none, since
it was never set. Without memory, or without the file, the task ends. Thumbnails and the
calendar only read and are left out.

## 4. What the runs show

Each run answers one question; their properties are in `PROJECT.json`.

| Run | Instance | Result |
|---|---|---|
| `rt_talk_info` | 3 phones, 2 entries, 1 word behind the array that holds anything and is rewritten | memory behind the array is claimed only while the array is full; while the list is inside the array no entry of it leaks and the table is the abstract registry |
| `call_two_phones` | 2 phones, 1 request queued, 1 timer in flight, fair | one picture, one talker, the screen changes as `CallScreen` allows, every dial ends, hang-ups are honoured, phones that are gone are forgotten |
| `call_events` | 1 phone that also watches, 2 timers, motion alarms, failing Wi-Fi, refused events | a dial always has something that will end it; a gone phone is always being stopped |
| `cloud_events` | two kinds of event, groups and clips of one frame, uploads and memory fail, screen left | the timer exists exactly during a clip, no leftover token starts one, phases are in order |
| `cloud_frames` | groups of two frames, audio, clips of two video frames, list of four | a clip is bounded and without gaps |
| `cloud_live` | one kind of event, uploads may fail, fair | every clip that is starting starts, every clip ends |
| `uart_update` | 2 blocks, lost byte or answer, a damaged length, repeated requests, restart, 2 announcements, fair | no answer over a request while nothing is repeated, the receiver does not miss the end of a frame it can reach, the file is deleted only when delivered, the update ends |
| `media_queue` | 3 blocks, list full at 2, decoder ready at 2, one append to a full list or one clear, 2 starts or stops, fair | list whole and frames in one place (or dropped at a full queue) until then, only starts put the picture behind, every start comes to the picture |
| `playback` | 7 entries, 2 seconds, 3 minutes, 1 hour; 4 trials, and every set of up to five files scanned; 2 sessions; fair | list, entries and counters together, at most one leftover, pages of two in either order, the right file, sessions stopped before they are freed, callbacks return, gone connections are left |
| `late_expiry` | 1 phone | violated: see below |
| `clip_first_frame` | a small instance of `CloudStorage` | violated |
| `gone_playback` | one playback and one deletion on three files, fair | violated |

### Bounds, and why they are enough

Two phones are the smallest number that can compete, and three the smallest with
which a list has a middle. One queued request beside the one being handled already
allows every pair of neighbouring requests to be reordered against a callback; the
task's own posts and the timers' are not bounded by `MaxQueue`, so the queue grows
longer than that. Two dial timers are needed for a stale id (first dial's timer
still running or just expired, second dial armed). Frames: the shortest limits that
satisfy `Gop + 1 < Keep <= KeepStarting`, which the real numbers satisfy, still trim
a whole group and leave one. A clip of one frame makes the counter reach its limit
with its first frame, a clip of two lets a trim or an event fall inside. Frames of a
clip are numbered modulo `Ring`, more than a list and the frame in hand can hold.
`MaxList`, `MaxAudio` and `MaxCount` bound what the encoder stores before it waits;
`cloud_events` stores no audio, `cloud_frames` one audio frame at a time.
A frame of the serial line with a length that was damaged may be too short (0), end
inside the next frame (3) or run past everything that is sent (9); one lost byte is
enough to make a request run into its repetition, and one restart to cut one off; two
blocks let 99 of 100 be reached late, and a block be asked for twice. Three blocks of
memory are a list of two and a frame in someone's hands, or a full list and a frame too
many. For playback, each trial combines the moves that disturb each other: removals of
the card against recordings and a deletion; two sessions of one connection; a session
against a recording and a deletion, and against the card. Files on one day and on the
next, and every set of up to five of the seven start times, reach each edge of `Covers`
and of a page of two; the theorem is about pages of any size.
Beyond the instances, the safety properties named in section 5 are proved.

### Fairness

`VisualCall`: the task runs when it has something to do, the SDK thread returns from
a callback, the two timers expire. No fairness for users, phones, the network or the
cloud. The priority of the threads is finite and none of them spins, so each is
scheduled.

`CloudStorage`: the encoder goes on storing frames while the stream is open (weak),
the reporter goes on (weak: all of its waits have timeouts), the timer is periodic
(weak). Where the code waits for a mutex without a timeout (`os_mutex_pend(.., 0)`:
recorder, timer) the fairness is strong: the mutex is given back again and again, and
the operating system wakes the waiter. `ClipStarts` and `ClipEnds` further assume
that from some time on the platform stays connected, `ClipEnds` also that the stream
stays open: without a connection the timer deliberately does nothing, without a
stream there is nothing to count.

`UartUpdate`: the receiver gets the bytes that are sent, the task serves, and the
microcontroller reads its answers and asks again; nothing is assumed of the line, of the
card or of announcements. `MediaQueue`: the task and a clear that was begun go on when
they can, and the wait of a start does time out; nothing is assumed of the writer and
the mover, no frame has to arrive. `CloudPlayback`: a callback goes
on when its task has ended, and each task is scheduled; nothing is assumed of phones, of
the card or of the recorder. All of it is weak, also where a thread waits for
a mutex: the properties need no more.

`CHECK_DEADLOCK` is on in all runs but `media_queue` (see `MediaQueue` in section 3).

### Where the code disagrees with what it says

* `late_expiry` (`cloud_rt_talk.c:973`): deleting the dial timer on an answer
  (`video_rec.c:5839`, "answered, turn off the timeout timer") does not recall the
  expiry it has queued; the answered talk is then ended as a dial nobody answered.
* `clip_first_frame` (`cloud_storage.c:892`): while the end of a clip resets its
  statics one after the other, a delta frame or audio is stored and becomes the first
  frame of the next clip, which line 797 excludes.
* `gone_playback` (`cloud_playback_list.c:499`): when a phone disconnects in the middle
  of a playback, its thread is to be closed (`ut_xciot.c:253, 289`). `find_next_file`
  walks through the day without the mutex; when the entry it goes to next is deleted by
  a request or by the recorder, that entry is linked to itself, and unless it happens to
  fit the time the walk stays there. The task never looks at `kill_flag` again, and the
  thread of the SDK waits for it for ever. `CallbackReturns` and `GoneConnectionIsLeft`
  show that this is the only way for it to happen.

Reading the code for the models showed more, which is in the list of hazards and not
stated as a property, mostly because no line of the repository says what should happen:

* the refusal of a repeated motion event is told to the screen as a failed dial
  (`cloud_storage.c:256`); a refusal by a phone that is not in the call ends the screen
  of the call; a phone that calls between a hang-up's decision and its stop is turned
  off at once, and stays entered until it disconnects;
* leaving the screen empties the list of `CloudStorage` and leaves `video_frame_count`
  (`cloud_storage.c:852`), after which making room for a frame may empty the list, which
  line 617 asserts it never does; with a cycle of 0, the first entry of the menu
  (`cloud_storage.c:318`), clips have no frames and are never ended; events that come
  while one is pushed are lost;
* a block of the serial update that is asked for twice is counted twice, so the file may
  be deleted before it was delivered (`DeletedWhenDelivered` excepts this case), and
  `upg_complete_flag` is never taken back;
* a filtered page of recordings is filled with files from behind its edge, which the next
  page shows again (`cloud_playback_list.c:852`), although the comment on line 849 says
  that a page holds the files between its two edges: of five files
  of which the third and the fifth are of the kind asked for, pages of two show these two,
  these two again, and then the fifth alone;
* a damaged length of a serial frame is not compared with the size of its buffer
  (`uart_update_master.c:151`), so the frame is stored on behind it;
* a frame of the phone that meets a full queue is never freed (`cloud_rt_talk.c:1227`);
* `next_flag` survives a walk that ends on the newest file, so the next walk, of any
  session, plays the oldest; when the recorder deletes its oldest file it unlists the
  others of that day.

## 5. What is proved

TLAPS checks the proofs from `ASSUME`s on constants only: the sets of phones, events
and lengths are arbitrary, within the named assumptions at the head of each module.

**The table** (`RtTalkInfo_proofs`). `TableInv` = type, one entry per phone, and an entry
taken exactly while it is listed, the last two for the entries of the array only: nothing
is known of the flags behind it, and the invariant has to survive a phone listed there. It
is inductive as a whole and in no smaller part: that an entry is listed once needs that a
listed entry is not free, which needs that a freed entry is unlisted. While the list is
inside the array it says the same of every listed entry. From it follow `TypeCorrect`,
`EntriesAreUnique` and `EntriesDoNotLeak` for any number of phones and entries and any
memory behind them. `ClaimsPastAFullArray` adds that the entry claimed is the first free
one. `TableImplementsRegistry` shows every operation that begins and ends with the list
inside the array to be the one of `TalkRegistry`, on which `VisualCall` is built, or the
turning away of a newcomer. With `Capacity` (at least as many entries as phones) a
counting argument shows that a new phone always finds an entry inside the array:
`ClaimsStayInside`, that no add is lost: `AddsAreKept`, and so that the exception never
occurs: `TableWithRoomIsTheRegistry`. The code has 20 entries; the number of connections
of the SDK is not in the repository, which is why `Capacity` is an assumption of these
three theorems and not of the module. The run checks the table without it.

**The call** (`VisualCall_proofs`). `TypeInv` (the table is well formed; screen,
queue, SDK and timers have their types, and the timer id agrees with the running
timers) is inductive. On it rest: `OneDevicePeerHolds` and `OneTalkerHolds`, since
only the checked callbacks add a stream; `GonePhoneIsStoppedHolds`, which follows a
stop from the closing callback through the queue and the task to the table;
`DialIsBoundedHolds`, which follows a dial through timer, queued expiry and notice;
`CallImplementsScreen`, the refinement of `CallScreen`; and `TypeCorrect`, with the
bound on timers in flight.

**Cloud storage** (`CloudStorage_proofs`), for clips of at least one frame (`Clip # 0`;
with clips of no frames the timer is deleted before the clip starts). `Inv` says for each
place of the recorder which phases are possible, that the counter is 0 while a clip starts
and full only while the recorder uploads, and that a timer callback which has decided to
delete still refers to the running clip. The last is the heart of it: the decision is
taken without the mutex, and is never stale only because a full counter stops the upload
until the timer has acted. `TimerExistsWhileRecording`, `NoTokenIsLeft` and
`PhasesAreInOrder` follow. `ClipsAreBounded` adds that the video given to the platform is
exactly what the counter says while the recorder uploads.

`RecordingTypes` needs no assumption on the clip. `TypeInv` adds to the types that a writer
who found room in the list (up to the bound `MaxList`) still has it when it stores, since
the list has one writer at a time (`ListFits`). `ClipsAreGapless` (again with `Clip # 0`)
rests on `Gapless`: while a clip is open, the list holds the frames numbered from the one
behind the last appended, without a gap and up to the number the encoder gives next (`Run`),
and the frame in the recorder's hands comes just before. `Inv` is needed as well: nothing
but the recorder takes from the list while a clip is open. Numbers go round a ring longer
than the list, so equal numbers are equal frames; the lemmas about remainders by a ring of
any size are in `NumberLemmas`.

**The serial update** (`UartUpdate_proofs`). `IInv` is the type invariant (the
percentage wraps and still fits its byte, the receiver stays within its buffer) with
what is on the wire, how long frames are, that the end of a frame is not missed, and
stop-and-wait: without a
repetition or a second announcement at most one of request, token, read and answer is
under way, so no answer is built over a request. `UpdateTypes`, `OneDirection` and
`FramesEnd` follow for files, buffers and damage of any size. `FramesEnd` has a second
part: the end of a frame is behind the buffer only after a byte was lost or the other side
restarted. For this the proof follows what is undamaged (`InStep`): until then the bytes
the receiver has are the first of the request on the wire.

`FileIsDeletedWhenDelivered` says the file goes only after 99 of 100 blocks have arrived,
which is when the doorbell takes the update for complete. It is not inductive, since the
doorbell counts what it sends and does not know what arrives. `DeleteInv` adds whose turn it
is (`OneTurn`: the request on the wire, in the slot, being read or answered is the one the
microcontroller waits for) and, for each of these places, how the count stands to the blocks
the other side has (`SentBlocks`: equal while the request travels, one more from the read
on). That the percentage shows 99 only then is arithmetic, for every number of blocks.

**The phone's picture** (`MediaQueue_proofs`). `IInv` says who may hold the mutex, what
each thread has in hand, and, while the list was neither full nor cleared, that what a
thread has read of the links is still so when it writes (`Fresh`) and that the places of
frames are apart (`Apart`). Keeping the mutex is the point: two lemmas show that
inserting and removing keep a list whole, and `Fresh` that they get the right
neighbours. `MediaTypes` holds for all behaviours, `ListStaysWhole` and
`FramesHaveOneHolder` up to the first unlocked access. A frame that was dropped at a full
queue has a place of its own (`lost`), which it never leaves.

`OnlyStartsStrandFrames` goes beyond it, to every step that leaves the links whole, with
the mutex or without. There `Fresh` is false. Instead two lemmas (`AddWhole`, `DelWhole`)
show that a write with stale pointers which leaves the links whole has either done what
it should, appended one frame or taken the first, or has changed nothing at all. So the
links stay connected: whoever follows them from the head meets every frame (`Reach`; a
set closed under `next` that has the head has them all). This is what makes a token
without a frame harmless: the list that looks empty from the head is empty. Then each
step is a sum: frames not being taken, less tokens there, to be posted, just taken.

**Playback** (`PlaybackList_proofs`, `CloudPlayback_proofs`). `SessionsAreKept`: no task
runs without its session, for any number of connections, sessions and files. The
invariant adds that the callback has a session in hand exactly between its steps; that a
session is freed only after its task has ended is `Killed`, and that none is listed twice
follows from where the callbacks take them.

The list of files keeps `ListInv`, and so `EntriesAreKept`: types; each list of a day has
no entry twice and goes back in time; and (`Handled`) the events of the card come in
turn, the scan is over whenever a card is still to be announced, and without card and
event only the recorder's entry is listed. The last part is what `NothingIsLeftOver`
says, and it holds only because the event thread waits for the scan before it clears.
From the order follow `PlaysTheRightFile`, for minutes, hours and days of any length, and
`PagesAreComplete`, with `PagesOfAnySize` for every size of a page (the run checks two).
The walk over all days is shown to be in order day by day, and as long as `total` says
because no entry is listed twice; a page without a filter has exactly its own places of
the walk (`NoneLeftOut`), so no two pages share an entry. With a filter only half of this
is so and only half is stated: no entry of the kinds is missed.

`TypesAreKept` is about types alone. `EntriesSuffice` says how many entries a history can
use, one for each file the card began with and two for each recording, since a scan may
list a file the recorder has listed already (`Counted` follows what each of the two has
taken). All of this is under the assumption `Histories`, that the array (2048 entries in
the code) is larger. With a card of more files the search runs past its array, as in
`RtTalkInfo`; nothing in the code prevents such a card, and no theorem is about one.

The lists are filtered with `Only`, a recursive function, and not with `SelectSeq`,
about which the prover has no facts; that it picks the entries in a set, in order, is
`OnlyPicks`. Where a fact about all lengths is needed it is shown without induction, by the
first number for which it would fail (`FirstOf` in `NumberLemmas`).

**Model-checked only**: liveness (`DialEnds`, `HangupIsHonoured`, `GonePeerEndsCall`,
`GonePhoneIsForgotten`, `ClipStarts`, `ClipEnds`, `UpdateEnds`, `CallStarts`,
`CallbackReturns`, `GoneConnectionIsLeft`), which is out of the prover's reach. The
three properties of section 4 that the code violates are, of course, not theorems.

## 6. What is not modelled

Of the parts of section 1, talk audio, the doorbell's own events and the motor are
planned. Settings and queries of the SDK copy values to the database. Cloud upgrade,
binding and time are sequences of calls into closed libraries, without shared state
beside them. USB, lights and start-up are hardware input and output. Within the
modelled parts, the omissions are listed with each module in section 3.

Measured against all lines of the repository the models cover little, well below one in
a hundred, and cannot cover a large share: most of it is tables of generated pictures
(`layer_data.h`, `vrec_icon_osd.h` and their copies in five products), camera register
lists, headers of closed libraries and vendored code. The models are about the few
thousand lines in which the product's threads meet.

## 7. Running

    tlc -config CallTwoPhones.cfg MCVisualCall
    tlapm VisualCall_proofs.tla

The runs take from a second to about three minutes on two cores. Runs named in
section 4 as violated end with the counterexample they describe.
