----------------------------- MODULE VisualCall -----------------------------
(***************************************************************************)
(* The visual call of the doorbell: the task "video_dec_task"              *)
(* (net_video_dec_task), the callbacks of the cloud SDK that feed its      *)
(* queue, the app "video_rec" and its screens that keep video_call_state,  *)
(* the timers of a call, the keys of the device, and the table of talking  *)
(* phones they all share.                                                  *)
(*                                                                         *)
(* The task handles one message in several steps where the code reads a    *)
(* state, calls out, and acts on what it read; a callback of the SDK, a    *)
(* key and a timer may run between them. The SDK calls back on one thread. *)
(***************************************************************************)
EXTENDS Naturals, Sequences, FiniteSets

CONSTANTS Conn,             \* connection ids of the SDK
          NoConn,           \* conn_id = 0
          Watchers,         \* the connections that also watch the device
          Wakeups,          \* events whose push may be pending: KEY, MOVT
          NetMayFail,       \* does the Wi-Fi connection come and go?
          MaxQueue,         \* requests in the queue; q_size is 512 words
          MaxTimers         \* calling_timeout timers, running or just expired

ASSUME ConnAssumption == NoConn \notin Conn /\ Watchers \subseteq Conn
ASSUME EventAssumption == Wakeups \subseteq {"KEY", "MOVT"} /\ NetMayFail \in BOOLEAN
ASSUME BoundAssumption == MaxQueue \in Nat /\ MaxTimers \in Nat \ {0}

VARIABLES
    conn,                   \* what the SDK says of each connection
    reg,                    \* who plays what (TalkRegistry)
    video_call_state,       \* CALL_STA_*: what the screen shows
    calling_timeout_timer,  \* does the id denote a running timer?
    running,                \* calling_timeout timers that run
    rec_call_dispose_timer, \* the notice on the screen is about to go
    video_dec_start,        \* the decoder plays
    queue,                  \* messages of video_dec_task
    task,                   \* where video_dec_task is
    callback,               \* the SDK thread: a VideoCall still to announce
    net,                    \* video_net_state = NET_STA_CONNECT_SUCC
    pushing                 \* wake-up events to push to the cloud; a refusal to tell

timers == <<calling_timeout_timer, running>>
screen == <<video_call_state, rec_call_dispose_timer, timers>>
sdk    == <<conn, callback>>
vars   == <<sdk, reg, screen, video_dec_start, queue, task, net, pushing>>

Talk == INSTANCE TalkRegistry

CallState == {"IDLE", "STARTING", "TALKING", "TALKING_WITHOUT_VIDEO"}
Talking   == {"TALKING", "TALKING_WITHOUT_VIDEO"}

Request == {"APP_ANSWER", "APP_REFUSE", "APP_ANSWER_TIMEOUT", "DEVICE_HANGUP",
            "APP_START_VIDEO_CALL"}

Msg == [type : Request, conn : {NoConn}]
         \cup [type : {"STOP_REFUSED", "STOP_HANGUP"}, conn : Conn \cup {NoConn}]

Do(m) == [type |-> m, conn |-> NoConn]

\* APP_STOP_VIDEO_CALL_STATE with APP_REFUSE_STATE, with DEVICE_HANGUP_STATE
StopRefused(c) == [type |-> "STOP_REFUSED", conn |-> c]
StopHangup(c)  == [type |-> "STOP_HANGUP", conn |-> c]

\* The news the task gives the app, ACTION_VIDEO_REC_CHANGE_WORK.
News == {"app_refuse_calling", "calling_timeout", "app_close_call",
         "machine_close_calling"}

\* The task waits for a message, is about to tell the app, to post a stop to
\* itself, to start the decoder, or to forget a connection.
Task == [at : {"pend", "wait"}, news : {"none"}, conn : {NoConn}]
          \cup [at : {"notify"}, news : News, conn : Conn \cup {NoConn}]
          \cup [at : {"post"}, news : {"none"}, conn : Conn \cup {NoConn}]
          \cup [at : {"drop"}, news : {"none"}, conn : Conn]

Pend         == [at |-> "pend", news |-> "none", conn |-> NoConn]
Wait         == [at |-> "wait", news |-> "none", conn |-> NoConn]
Notify(n, c) == [at |-> "notify", news |-> n, conn |-> c]
PostStop(c)  == [at |-> "post", news |-> "none", conn |-> c]
Drop(c)      == IF c = NoConn THEN Pend
                ELSE [at |-> "drop", news |-> "none", conn |-> c]

Init == /\ conn = [c \in Conn |-> "idle"]
        /\ reg = Talk!NoPeers
        /\ video_call_state = "IDLE"
        /\ calling_timeout_timer = FALSE
        /\ running = 0
        /\ rec_call_dispose_timer = FALSE
        /\ video_dec_start = FALSE
        /\ queue = <<>>
        /\ task = Pend
        /\ callback = NoConn
        /\ net \in (IF NetMayFail THEN BOOLEAN ELSE {TRUE})
        /\ pushing = {}

-----------------------------------------------------------------------------
(* The app: case ACTION_VIDEO_REC_CHANGE_WORK and the screens it drives.   *)

\* A pending rec_dispose_timer_handler runs first: the standby page is shown.
StateNow == IF rec_call_dispose_timer THEN "IDLE" ELSE video_call_state

\* Faulty: a voice answer is shown whatever the screen shows.
VoiceWheneverAnswered(news, s) ==
    CASE news = "app_accept_call"           -> "TALKING"
      [] news = "accept_call_without_video" -> "TALKING_WITHOUT_VIDEO"
      [] news = "app_refuse_calling"        -> s
      [] OTHER                              -> "IDLE"

\* The state the screen handler leaves.
StateAfter(news, s) ==
    CASE news = "app_accept_call"           -> "TALKING"
      [] news = "accept_call_without_video" ->
           IF s = "STARTING" THEN "TALKING_WITHOUT_VIDEO" ELSE s
      [] news = "app_close_call"            -> IF s \in Talking THEN "IDLE" ELSE s
      [] news = "app_refuse_calling"        -> s
      [] OTHER                              -> "IDLE"

\* A notice is put up, and taken down by a timer.
ShowsNotice(news, s) ==
    \/ news \in {"machine_close_calling", "app_refuse_calling", "calling_timeout",
                 "calling_net_connectfail", "calling_fail"}
    \/ news = "app_close_call" /\ s \in Talking

\* calling_timeout_timer is deleted.
StopsTimer(news, s) ==
    \/ news \in {"machine_close_calling", "app_refuse_calling",
                 "calling_net_connectfail", "calling_fail"}
    \/ news = "app_accept_call" /\ s \in {"STARTING", "TALKING_WITHOUT_VIDEO"}
    \/ news = "accept_call_without_video" /\ s = "STARTING"

\* Faulty: a timer is deleted without looking at its id.
DelAnyTimer == running' = running - 1 /\ calling_timeout_timer' = FALSE

DelTimer == /\ running' = IF calling_timeout_timer THEN running - 1 ELSE running
            /\ calling_timeout_timer' = FALSE

ChangeWork(news) ==
    /\ video_call_state' = StateAfter(news, StateNow)
    /\ rec_call_dispose_timer' = ShowsNotice(news, StateNow)
    /\ IF StopsTimer(news, StateNow) THEN DelTimer ELSE UNCHANGED timers

\* Faulty: the timer of the dial is not armed.
CallingWithoutTimer == /\ video_call_state' = "STARTING"
                       /\ rec_call_dispose_timer' = FALSE
                       /\ UNCHANGED timers

\* "calling": the screen dials and the 30 s timer is armed.
Calling == /\ video_call_state' = "STARTING"
           /\ rec_call_dispose_timer' = FALSE
           /\ calling_timeout_timer' = TRUE
           /\ running' = running + 1

InCall == Talk!Playing(reg, "device") \/ Talk!Playing(reg, "audio")

\* Timers that run and expiries the task has not handled.
TimersInFlight ==
    running + Cardinality({i \in DOMAIN queue : queue[i].type = "APP_ANSWER_TIMEOUT"})

\* A key press while idle: video_rec_key_event_handler, SET_CONTACT.
Dial ==
    /\ video_call_state = "IDLE"
    /\ IF InCall THEN ChangeWork("calling_fail") /\ UNCHANGED pushing
       ELSE /\ pushing' = pushing \cup ({"KEY"} \cap Wakeups)
            /\ IF net THEN TimersInFlight < MaxTimers /\ Calling
               ELSE ChangeWork("calling_net_connectfail")
    /\ UNCHANGED <<sdk, reg, video_dec_start, queue, task, net>>

\* rec_dispose_timer_handler: the notice goes, the standby page sets the state.
DisposeNotice ==
    /\ rec_call_dispose_timer
    /\ rec_call_dispose_timer' = FALSE
    /\ video_call_state' = "IDLE"
    /\ UNCHANGED <<sdk, timers, reg, video_dec_start, queue, task, net, pushing>>

\* The oldest timer expires: calling_timeout posts APP_ANSWER_TIMEOUT_STATE.
\* Its id stays in calling_timeout_timer.
CallingTimeout ==
    /\ running > 0
    /\ running' = running - 1
    /\ calling_timeout_timer' = (calling_timeout_timer /\ running > 1)
    /\ queue' = Append(queue, Do("APP_ANSWER_TIMEOUT"))
    /\ UNCHANGED <<sdk, reg, video_call_state, rec_call_dispose_timer,
                   video_dec_start, task, net, pushing>>

\* Wi-Fi: NET_EVENT_CONNECTED, NET_EVENT_CONNECTFAIL.
NetConnected ==
    /\ net' = TRUE
    /\ UNCHANGED <<sdk, reg, screen, video_dec_start, queue, task, pushing>>

NetConnectFail ==
    /\ NetMayFail /\ net
    /\ net' = FALSE
    /\ ChangeWork("calling_net_connectfail")
    /\ UNCHANGED <<sdk, reg, video_dec_start, queue, task, pushing>>

\* The camera sees a movement: start_cloud_video.
MotionAlarm ==
    /\ ~ InCall
    /\ pushing' = pushing \cup ({"MOVT"} \cap Wakeups)
    /\ UNCHANGED <<sdk, reg, screen, video_dec_start, queue, task, net>>

\* set_avsdk_push_event, one event at a time: accepted, or given up after its
\* retries ...
Serves(w) == w \in pushing /\ "calling_fail" \notin pushing

EventPushed(w) ==
    /\ Serves(w)
    /\ pushing' = pushing \ {w}
    /\ UNCHANGED <<sdk, reg, screen, video_dec_start, queue, task, net>>

\* ... or refused as a repetition of the same event within 5 s. The state is
\* read here and the app told in a later step.
EventRefused(w) ==
    /\ Serves(w)
    /\ pushing' = (pushing \ {w}) \cup
                   (IF video_call_state = "IDLE" THEN {} ELSE {"calling_fail"})
    /\ UNCHANGED <<sdk, reg, screen, video_dec_start, queue, task, net>>

CallingFail ==
    /\ "calling_fail" \in pushing
    /\ pushing' = pushing \ {"calling_fail"}
    /\ ChangeWork("calling_fail")
    /\ UNCHANGED <<sdk, reg, video_dec_start, queue, task, net>>

-----------------------------------------------------------------------------
(* The callbacks of the SDK. A request is taken while the queue has room.  *)

Post(m) == Len(queue) < MaxQueue /\ queue' = Append(queue, m)

\* layout_calling_rec_onkey, once the notice does not hide that page.
HangupKey ==
    /\ video_call_state # "IDLE" /\ ~ rec_call_dispose_timer
    /\ Post(Do("DEVICE_HANGUP"))
    /\ UNCHANGED <<sdk, reg, screen, video_dec_start, task, net, pushing>>

CallbackUnchanged == UNCHANGED <<screen, video_dec_start, task, net, pushing>>

Requests(c) == callback = NoConn /\ conn[c] = "open"

\* Faulty: the picture of the phone stays entered.
ForgetAllButPicture(r, c) == Talk!Deleted(Talk!Deleted(r, c, "video"), c, "audio")

Forget(r, c) ==
    Talk!Deleted(Talk!Deleted(Talk!Deleted(r, c, "video"), c, "audio"), c, "device")

\* Faulty: nothing is done while a call goes on.
clean_unless_in_call(c) ==
    IF InCall THEN UNCHANGED <<reg, queue>>
    ELSE reg' = Forget(reg, c) /\ UNCHANGED queue

clean_rt_talk_info(c) ==
    IF InCall THEN Post(StopRefused(c)) /\ UNCHANGED reg
    ELSE reg' = Forget(reg, c) /\ UNCHANGED queue

\* iot_dev_on_connect: opened, closed, and the resources of the SDK freed.
on_connect(c) ==
    /\ callback = NoConn
    /\ \/ /\ conn[c] = "idle" /\ conn' = [conn EXCEPT ![c] = "open"]
          /\ UNCHANGED <<reg, queue>>
       \/ /\ conn[c] = "open" /\ conn' = [conn EXCEPT ![c] = "closed"]
          /\ clean_rt_talk_info(c)
       \/ /\ conn[c] = "closed" /\ conn' = [conn EXCEPT ![c] = "idle"]
          /\ clean_rt_talk_info(c)
    /\ UNCHANGED callback /\ CallbackUnchanged

VideoPlay(c) ==
    /\ Requests(c) /\ c \in Watchers
    /\ reg' = Talk!Added(reg, c, "video")
    /\ UNCHANGED <<sdk, queue>> /\ CallbackUnchanged

VideoPause(c) ==
    /\ Requests(c) /\ c \in Watchers
    /\ reg' = Talk!Deleted(reg, c, "video")
    /\ UNCHANGED <<sdk, queue>> /\ CallbackUnchanged

\* Faulty: a second talker is not refused.
TalkbackPlayUnchecked(c) ==
    /\ Requests(c)
    /\ reg' = Talk!Added(reg, c, "audio")
    /\ UNCHANGED <<sdk, queue>> /\ CallbackUnchanged

\* Refused while another phone talks.
TalkbackPlay(c) ==
    /\ Requests(c)
    /\ ~ Talk!Playing(reg, "audio")
    /\ reg' = Talk!Added(reg, c, "audio")
    /\ UNCHANGED <<sdk, queue>> /\ CallbackUnchanged

TalkbackPause(c) ==
    /\ Requests(c)
    /\ reg' = Talk!Deleted(reg, c, "audio")
    /\ IF ~ Talk!Playing(reg', "device") /\ video_call_state # "IDLE"
       THEN Post(StopRefused(c)) ELSE UNCHANGED queue
    /\ UNCHANGED sdk /\ CallbackUnchanged

\* dev_on_StateChangeByApp, key 83: the phone answers or refuses the dial.
StateChangeByApp(c) ==
    /\ Requests(c)
    /\ \E m \in {"APP_ANSWER", "APP_REFUSE"} : Post(Do(m))
    /\ UNCHANGED <<sdk, reg>> /\ CallbackUnchanged

\* Faulty: a second picture is not refused.
VideoCallUnchecked(c) ==
    /\ Requests(c)
    /\ reg' = Talk!Added(reg, c, "device")
    /\ callback' = c
    /\ UNCHANGED <<conn, queue>> /\ CallbackUnchanged

\* dev_on_ipc_VideoCall, action 1: the phone sends its picture. It is entered
\* first, and announced to the task after that.
VideoCallStart(c) ==
    /\ Requests(c)
    /\ ~ Talk!Playing(reg, "device")
    /\ reg' = Talk!Added(reg, c, "device")
    /\ callback' = c
    /\ UNCHANGED <<conn, queue>> /\ CallbackUnchanged

VideoCallPost ==
    /\ callback # NoConn
    /\ queue' = Append(queue, Do("APP_START_VIDEO_CALL"))
    /\ callback' = NoConn
    /\ UNCHANGED <<conn, reg>> /\ CallbackUnchanged

\* dev_on_ipc_VideoCall, action 2. The device must be busy: some phone shows
\* its picture, or it records a message, which the model leaves open.
VideoCallStop(c) ==
    /\ Requests(c)
    /\ Post(StopRefused(c))
    /\ reg' = Talk!Deleted(reg, c, "device")
    /\ UNCHANGED sdk /\ CallbackUnchanged

PauseAllAv(c) ==
    /\ Requests(c)
    /\ Post(StopRefused(c))
    /\ UNCHANGED <<sdk, reg>> /\ CallbackUnchanged

-----------------------------------------------------------------------------
(* The task video_dec_task.                                                *)

TaskUnchanged == UNCHANGED <<sdk, net, pushing>>

Take(m) == /\ task = Pend /\ queue # <<>> /\ Head(queue).type = m
           /\ queue' = Tail(queue)

Answer ==
    /\ Take("APP_ANSWER")
    /\ ChangeWork("accept_call_without_video")
    /\ UNCHANGED <<task, reg, video_dec_start>> /\ TaskUnchanged

\* The state is read here and the app told in a later step.
TellUnlessIdle(news) ==
    /\ task' = IF video_call_state = "IDLE" THEN Pend ELSE Notify(news, NoConn)
    /\ UNCHANGED <<reg, screen, video_dec_start>> /\ TaskUnchanged

Refuse == Take("APP_REFUSE") /\ TellUnlessIdle("app_refuse_calling")

AnswerTimeout == Take("APP_ANSWER_TIMEOUT") /\ TellUnlessIdle("calling_timeout")

\* What find_device_video_play_info copies to tmp: the first phone that shows
\* its picture, else the last one of the list.
DevicePeers == {i \in DOMAIN reg.peers : "device" \in reg.play[reg.peers[i]]}

Visited ==
    IF DevicePeers = {} THEN {reg.peers[Len(reg.peers)]}
    ELSE {reg.peers[i] : i \in {k \in DevicePeers : \A j \in DevicePeers : k <= j}}

\* Faulty: without a picture the hang-up waits for an answer.
HangupOfPicture ==
    /\ Take("DEVICE_HANGUP")
    /\ \/ DevicePeers # {} /\ \E c \in Visited : task' = PostStop(c)
       \/ DevicePeers = {} /\ UNCHANGED task
    /\ UNCHANGED <<reg, screen, video_dec_start>> /\ TaskUnchanged

\* DEVICE_HANGUP_STATE: the phone with the picture or the talking one is to be
\* stopped; with neither the call is not answered yet.
Hangup ==
    /\ Take("DEVICE_HANGUP")
    /\ \E c \in (IF InCall THEN Visited ELSE {NoConn}) : task' = PostStop(c)
    /\ UNCHANGED <<reg, screen, video_dec_start>> /\ TaskUnchanged

HangupPost ==
    /\ task.at = "post"
    /\ queue' = Append(queue, StopHangup(task.conn))
    /\ task' = Pend
    /\ UNCHANGED <<reg, screen, video_dec_start>> /\ TaskUnchanged

\* APP_START_VIDEO_CALL_STATE: the app shows the call, the task waits up to a
\* second for the picture and starts the decoder.
Start ==
    /\ Take("APP_START_VIDEO_CALL")
    /\ ChangeWork("app_accept_call")
    /\ task' = Wait
    /\ UNCHANGED <<reg, video_dec_start>> /\ TaskUnchanged

StartDecoder ==
    /\ task = Wait
    /\ video_dec_start' = TRUE
    /\ task' = Pend
    /\ UNCHANGED <<reg, screen, queue>> /\ TaskUnchanged

\* Faulty: only a dial is told that the phone stopped.
StopOfDial ==
    /\ Take("STOP_REFUSED")
    /\ video_dec_start' = FALSE
    /\ task' = IF video_call_state = "STARTING"
               THEN Notify("app_refuse_calling", Head(queue).conn)
               ELSE Drop(Head(queue).conn)
    /\ UNCHANGED <<reg, screen>> /\ TaskUnchanged

\* APP_STOP_VIDEO_CALL_STATE, by a phone.
StopByPhone ==
    /\ Take("STOP_REFUSED")
    /\ video_dec_start' = FALSE
    /\ task' = LET c == Head(queue).conn
               IN  CASE video_call_state \in Talking -> Notify("app_close_call", c)
                     [] video_call_state = "STARTING" -> Notify("app_refuse_calling", c)
                     [] OTHER -> Drop(c)
    /\ UNCHANGED <<reg, screen>> /\ TaskUnchanged

\* APP_STOP_VIDEO_CALL_STATE, by the device.
StopByDevice ==
    /\ Take("STOP_HANGUP")
    /\ LET c == Head(queue).conn
       IN  IF video_call_state = "IDLE"
           THEN task' = Drop(c) /\ UNCHANGED video_dec_start
           ELSE task' = Notify("machine_close_calling", c) /\ video_dec_start' = FALSE
    /\ UNCHANGED <<reg, screen>> /\ TaskUnchanged

Tell ==
    /\ task.at = "notify"
    /\ ChangeWork(task.news)
    /\ task' = Drop(task.conn)
    /\ UNCHANGED <<reg, queue, video_dec_start>> /\ TaskUnchanged

\* The end of a stop: the connection plays nothing any more.
DropPeer ==
    /\ task.at = "drop"
    /\ reg' = Forget(reg, task.conn)
    /\ task' = Pend
    /\ UNCHANGED <<screen, queue, video_dec_start>> /\ TaskUnchanged

TaskStep == \/ Answer \/ Refuse \/ AnswerTimeout \/ Hangup \/ HangupPost \/ Start
            \/ StartDecoder \/ StopByPhone \/ StopByDevice \/ Tell \/ DropPeer

PhoneStep(c) == \/ on_connect(c) \/ VideoPlay(c) \/ VideoPause(c)
                \/ TalkbackPlay(c) \/ TalkbackPause(c) \/ StateChangeByApp(c)
                \/ VideoCallStart(c) \/ VideoCallStop(c) \/ PauseAllAv(c)

CloudStep == \/ MotionAlarm \/ NetConnected \/ NetConnectFail \/ CallingFail
             \/ \E w \in Wakeups : EventPushed(w) \/ EventRefused(w)

Next == \/ TaskStep \/ VideoCallPost \/ CallingTimeout \/ DisposeNotice
        \/ Dial \/ HangupKey \/ CloudStep
        \/ \E c \in Conn : PhoneStep(c)

Spec == Init /\ [][Next]_vars

\* The task runs, the timers expire, and the SDK thread returns from a
\* callback; nobody need press a key or answer.
Fairness == /\ WF_vars(TaskStep) /\ WF_vars(VideoCallPost)
            /\ WF_vars(CallingTimeout) /\ WF_vars(DisposeNotice)

FairSpec == Spec /\ Fairness

-----------------------------------------------------------------------------
TypeOK == /\ conn \in [Conn -> {"idle", "open", "closed"}]
          /\ reg \in Talk!Registry
          /\ video_call_state \in CallState
          /\ calling_timeout_timer \in BOOLEAN
          /\ running \in 0..MaxTimers
          /\ rec_call_dispose_timer \in BOOLEAN
          /\ video_dec_start \in BOOLEAN
          /\ queue \in Seq(Msg)
          /\ task \in Task
          /\ callback \in Conn \cup {NoConn}
          /\ net \in BOOLEAN
          /\ pushing \subseteq {"KEY", "MOVT", "calling_fail"}

\* One phone at a time shows its picture: the screen, the decoder and the
\* hang-up key know of one.
OneDevicePeer ==
    \A c, d \in Conn : "device" \in reg.play[c] /\ "device" \in reg.play[d] => c = d

\* One phone at a time talks to the visitor.
OneTalker ==
    \A c, d \in Conn : "audio" \in reg.play[c] /\ "audio" \in reg.play[d] => c = d

\* A stop of connection c is under way: it is queued, or being handled.
Stopping(c) == \/ \E i \in DOMAIN queue :
                     queue[i].type \in {"STOP_REFUSED", "STOP_HANGUP"} /\ queue[i].conn = c
               \/ task.at \in {"notify", "drop"} /\ task.conn = c

\* A phone that has gone keeps its place in the table only while a stop for it
\* is under way: however the closing races with the other messages, no dead
\* phone blocks the next caller for good.
GonePhoneIsStopped ==
    \A c \in Conn : conn[c] # "open" /\ reg.play[c] # {} => Stopping(c)

\* A dial is always bounded: as long as the screen shows it, a timer runs, its
\* expiry is queued or being handled, or a notice is about to end it.
DialIsBounded ==
    video_call_state = "STARTING" =>
       \/ running > 0 \/ rec_call_dispose_timer
       \/ \E i \in DOMAIN queue : queue[i].type = "APP_ANSWER_TIMEOUT"
       \/ task.at = "notify" /\ task.news = "calling_timeout"

\* The screen changes as CallScreen allows: no message that comes late moves a
\* talk back to dialling or turns a picture off, and every dial ends.
Screen == INSTANCE CallScreen WITH screen <- video_call_state

ImplementsScreen == Screen!Spec

DialEnds == Screen!FairSpec

\* A hang-up that has been queued puts the screen to idle, whoever talks and
\* whatever the phones send in the meantime.
HangupIsHonoured ==
    (\E i \in DOMAIN queue : queue[i].type = "DEVICE_HANGUP") ~> video_call_state = "IDLE"

\* When the phone whose picture is shown disconnects, the call ends.
GonePeerEndsCall ==
    \A c \in Conn : (conn[c] # "open" /\ "device" \in reg.play[c])
                       ~> video_call_state = "IDLE"

\* The place of a phone that has gone is freed.
GonePhoneIsForgotten ==
    \A c \in Conn : conn[c] # "open" ~> (reg.play[c] = {} \/ conn[c] = "open")

-----------------------------------------------------------------------------
(* What comments of the code say and the code does not keep.               *)

\* "Answered, the timeout timer is turned off" (video_rec.c): the expiry of a
\* dial never ends a talk.
AnsweredIsNotTimedOut ==
    [][~ (task.news = "calling_timeout" /\ task' # task /\ StateNow \in Talking)]_vars

=============================================================================
