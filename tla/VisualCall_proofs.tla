-------------------------- MODULE VisualCall_proofs --------------------------
(***************************************************************************)
(* Theorems about VisualCall, for any number of phones, any queue and any  *)
(* number of timers.                                                       *)
(***************************************************************************)
EXTENDS VisualCall, FiniteSetTheorems, TLAPS

-----------------------------------------------------------------------------
(* The registry: what the operators of TalkRegistry keep.                  *)

\* Nobody is listed twice, and whoever plays something is listed.
WellFormed(r) ==
    /\ r \in Talk!Registry
    /\ \A i, j \in DOMAIN r.peers : r.peers[i] = r.peers[j] => i = j
    /\ \A c \in Conn : r.play[c] # {} => Talk!Listed(r, c)

\* A phone that is added plays one stream more, no other phone changes.
LEMMA AddedWellFormed ==
    ASSUME NEW r, WellFormed(r), NEW c \in Conn, NEW f \in Talk!Flag
    PROVE  /\ WellFormed(Talk!Added(r, c, f))
           /\ \A d \in Conn : Talk!Added(r, c, f).play[d]
                                = IF d = c THEN r.play[c] \cup {f} ELSE r.play[d]
<1> DEFINE p == IF Talk!Listed(r, c) THEN r.peers ELSE Append(r.peers, c)
           q == [r.play EXCEPT ![c] = @ \cup {f}]
<1>1. r.peers \in Seq(Conn) /\ r.play \in [Conn -> SUBSET Talk!Flag]
  BY DEF WellFormed, Talk!Registry
<1>2. Talk!Added(r, c, f) = [peers |-> p, play |-> q]
  BY DEF Talk!Added
<1>3. q \in [Conn -> SUBSET Talk!Flag]
      /\ \A d \in Conn : q[d] = IF d = c THEN r.play[c] \cup {f} ELSE r.play[d]
  BY <1>1
<1>4. /\ p \in Seq(Conn)
      /\ \A i, j \in DOMAIN p : p[i] = p[j] => i = j
      /\ \A d \in Conn : d = c \/ Talk!Listed(r, d) => \E i \in DOMAIN p : p[i] = d
  <2>1. CASE Talk!Listed(r, c)
    BY <1>1, <2>1 DEF WellFormed, Talk!Listed, Talk!Elements
  <2>2. CASE ~ Talk!Listed(r, c)
    <3>1. p = Append(r.peers, c) /\ p \in Seq(Conn) /\ DOMAIN p = 1..(Len(r.peers) + 1)
      BY <1>1, <2>2
    <3>2. /\ \A i \in 1..Len(r.peers) : p[i] = r.peers[i] /\ r.peers[i] # c
          /\ p[Len(r.peers) + 1] = c
          /\ DOMAIN r.peers = 1..Len(r.peers) /\ Len(r.peers) \in Nat
      BY <1>1, <2>2 DEF Talk!Listed, Talk!Elements
    <3> HIDE DEF p
    <3>3. \A i, j \in DOMAIN p : p[i] = p[j] => i = j
      BY <3>1, <3>2 DEF WellFormed
    <3>4. \A d \in Conn : Talk!Listed(r, d) => \E i \in DOMAIN p : p[i] = d
      BY <3>1, <3>2 DEF Talk!Listed, Talk!Elements
    <3>5. \E i \in DOMAIN p : p[i] = c
      BY <3>1, <3>2
    <3> QED BY <3>1, <3>3, <3>4, <3>5
  <2> QED BY <2>1, <2>2
<1> HIDE DEF p, q
<1> QED BY <1>2, <1>3, <1>4 DEF WellFormed, Talk!Registry, Talk!Listed, Talk!Elements

\* A stream that is deleted is gone, no other phone changes.
LEMMA DeletedWellFormed ==
    ASSUME NEW r, WellFormed(r), NEW c \in Conn, NEW f \in Talk!Flag
    PROVE  /\ WellFormed(Talk!Deleted(r, c, f))
           /\ \A d \in Conn : Talk!Deleted(r, c, f).play[d]
                                = IF d = c THEN r.play[c] \ {f} ELSE r.play[d]
<1>1. r.peers \in Seq(Conn) /\ r.play \in [Conn -> SUBSET Talk!Flag]
  BY DEF WellFormed, Talk!Registry
<1>2. CASE ~ Talk!Listed(r, c)
  BY <1>1, <1>2 DEF WellFormed, Talk!Deleted
<1>3. CASE Talk!Listed(r, c)
  <2> DEFINE i == Talk!Position(r, c)
             w == Talk!Without(r.peers, i)
             p == IF r.play[c] \subseteq {f} THEN w ELSE r.peers
             q == [r.play EXCEPT ![c] = @ \ {f}]
  <2>1. Talk!Deleted(r, c, f) = [peers |-> p, play |-> q]
    BY <1>3 DEF Talk!Deleted
  <2>2. q \in [Conn -> SUBSET Talk!Flag]
        /\ \A d \in Conn : q[d] = IF d = c THEN r.play[c] \ {f} ELSE r.play[d]
    BY <1>1
  <2>3. i \in DOMAIN r.peers /\ r.peers[i] = c
    BY <1>3 DEF Talk!Listed, Talk!Elements, Talk!Position
  <2> HIDE DEF i
  <2> DEFINE old(k) == IF k < i THEN k ELSE k + 1
  <2>4. /\ DOMAIN r.peers = 1..Len(r.peers) /\ Len(r.peers) \in Nat \ {0}
        /\ i \in 1..Len(r.peers)
    BY <1>1, <2>3
  <2>5. /\ w \in Seq(Conn) /\ DOMAIN w = 1..(Len(r.peers) - 1)
        /\ \A k \in DOMAIN w : old(k) \in DOMAIN r.peers /\ w[k] = r.peers[old(k)]
    <3>1. w = [k \in 1..(Len(r.peers) - 1) |-> r.peers[old(k)]]
      BY <2>4 DEF Talk!Without
    <3>2. \A k \in 1..(Len(r.peers) - 1) : old(k) \in DOMAIN r.peers
      BY <2>4
    <3>3. \A k \in 1..(Len(r.peers) - 1) : r.peers[old(k)] \in Conn
      BY <1>1, <3>2
    <3> QED BY <2>4, <3>1, <3>2, <3>3
  <2> HIDE DEF w
  <2>6. \A j, k \in DOMAIN w : w[j] = w[k] => j = k
    BY <2>4, <2>5 DEF WellFormed
  <2>7. \A d \in Conn : d # c /\ Talk!Listed(r, d) => \E k \in DOMAIN w : w[k] = d
    <3> SUFFICES ASSUME NEW d \in Conn, d # c, Talk!Listed(r, d)
                 PROVE  \E k \in DOMAIN w : w[k] = d
      OBVIOUS
    <3>1. PICK k \in DOMAIN r.peers : r.peers[k] = d
      BY DEF Talk!Listed, Talk!Elements
    <3>2. CASE k < i
      <4>1. k \in DOMAIN w /\ old(k) = k
        BY <2>4, <2>5, <3>1, <3>2
      <4> QED BY <2>5, <3>1, <4>1
    <3>3. CASE k > i
      <4>1. k - 1 \in DOMAIN w /\ old(k - 1) = k
        BY <2>4, <2>5, <3>1, <3>3
      <4> QED BY <2>5, <3>1, <4>1
    <3>4. k # i
      BY <2>3, <3>1
    <3> QED BY <2>4, <3>1, <3>2, <3>3, <3>4
  <2>8. /\ p \in Seq(Conn)
        /\ \A j, k \in DOMAIN p : p[j] = p[k] => j = k
        /\ \A d \in Conn : q[d] # {} => \E k \in DOMAIN p : p[k] = d
    <3>1. CASE r.play[c] \subseteq {f}
      <4>1. p = w
        BY <3>1
      <4>2. ASSUME NEW d \in Conn, q[d] # {} PROVE d # c /\ Talk!Listed(r, d)
        BY <2>2, <3>1, <4>2 DEF WellFormed
      <4> HIDE DEF p, q
      <4>3. \A d \in Conn : q[d] # {} => \E k \in DOMAIN w : w[k] = d
        BY <2>7, <4>2
      <4> QED BY <2>5, <2>6, <4>1, <4>3
    <3>2. CASE ~ r.play[c] \subseteq {f}
      BY <1>1, <1>3, <2>2, <3>2 DEF WellFormed, Talk!Listed, Talk!Elements
    <3> QED BY <3>1, <3>2
  <2> HIDE DEF p, q
  <2> DEFINE d0 == [peers |-> p, play |-> q]
  <2>9. d0.peers = p /\ d0.play = q /\ d0 \in Talk!Registry
    BY <2>2, <2>8 DEF Talk!Registry
  <2> HIDE DEF d0
  <2>10. WellFormed(d0)
    BY <2>8, <2>9 DEF WellFormed, Talk!Listed, Talk!Elements
  <2> QED BY <2>1, <2>2, <2>9, <2>10 DEF d0
<1> QED BY <1>2, <1>3

\* A phone that is forgotten plays nothing, no other phone changes.
LEMMA ForgetWellFormed ==
    ASSUME NEW r, WellFormed(r), NEW c \in Conn
    PROVE  /\ WellFormed(Forget(r, c))
           /\ \A d \in Conn : Forget(r, c).play[d] = IF d = c THEN {} ELSE r.play[d]
<1> DEFINE r1 == Talk!Deleted(r, c, "video")
           r2 == Talk!Deleted(r1, c, "audio")
           r3 == Talk!Deleted(r2, c, "device")
<1>1. Talk!Flag = {"audio", "video", "device"} /\ Forget(r, c) = r3
  BY DEF Talk!Flag, Forget
<1>2. WellFormed(r1)
      /\ \A d \in Conn : r1.play[d] = IF d = c THEN r.play[c] \ {"video"} ELSE r.play[d]
  BY <1>1, DeletedWellFormed
<1> HIDE DEF r1
<1>3. WellFormed(r2)
      /\ \A d \in Conn : r2.play[d] = IF d = c THEN r1.play[c] \ {"audio"} ELSE r1.play[d]
  BY <1>1, <1>2, DeletedWellFormed
<1> HIDE DEF r2
<1>4. WellFormed(r3)
      /\ \A d \in Conn : r3.play[d] = IF d = c THEN r2.play[c] \ {"device"} ELSE r2.play[d]
  BY <1>1, <1>3, DeletedWellFormed
<1> HIDE DEF r3
<1>5. r.play[c] \subseteq {"audio", "video", "device"}
  BY <1>1 DEF WellFormed, Talk!Registry
<1> QED BY <1>1, <1>2, <1>3, <1>4, <1>5

\* Nobody plays f: no phone has it.
LEMMA NobodyPlays ==
    ASSUME NEW r, WellFormed(r), NEW f, ~ Talk!Playing(r, f)
    PROVE  \A c \in Conn : f \notin r.play[c]
  BY DEF WellFormed, Talk!Playing, Talk!Listed

-----------------------------------------------------------------------------
(* The inductive invariant: the types, a well-formed registry, and a timer *)
(* id that is only kept while a timer runs.                                *)

ScreenOK == /\ video_call_state \in CallState
            /\ calling_timeout_timer \in BOOLEAN
            /\ running \in Nat
            /\ rec_call_dispose_timer \in BOOLEAN
            /\ calling_timeout_timer => running > 0

QueueOK == queue \in Seq(Msg) /\ task \in Task

SdkOK == /\ conn \in [Conn -> {"idle", "open", "closed"}]
         /\ callback \in Conn \cup {NoConn}

RestOK == /\ video_dec_start \in BOOLEAN
          /\ net \in BOOLEAN
          /\ pushing \subseteq {"KEY", "MOVT", "calling_fail"}

TypeInv == WellFormed(reg) /\ ScreenOK /\ QueueOK /\ SdkOK /\ RestOK

\* What the app makes of a piece of news.
LEMMA ChangeWorkOK ==
    ASSUME ScreenOK, NEW news, ChangeWork(news)
    PROVE  /\ ScreenOK'
           /\ running' <= running
           /\ video_call_state' \in {StateAfter(news, StateNow)}
<1>1. StateNow \in CallState
  BY DEF StateNow, ScreenOK, CallState
<1>2. StateAfter(news, StateNow) \in CallState
  BY <1>1 DEF StateAfter, CallState
<1>3. ShowsNotice(news, StateNow) \in BOOLEAN
  BY DEF ShowsNotice
<1>4. /\ calling_timeout_timer' \in BOOLEAN
      /\ running' \in Nat /\ running' <= running
      /\ calling_timeout_timer' => running' > 0
  <2> running \in Nat
    BY DEF ScreenOK
  <2>1. CASE UNCHANGED timers
    <3>1. running' = running /\ calling_timeout_timer' = calling_timeout_timer
      BY <2>1 DEF timers
    <3>2. running' \in Nat /\ running' <= running
      BY <3>1
    <3> QED BY <3>1, <3>2 DEF ScreenOK
  <2>2. CASE DelTimer /\ calling_timeout_timer
    <3>1. running' = running - 1 /\ calling_timeout_timer' = FALSE
      BY <2>2 DEF DelTimer
    <3>2. running > 0
      BY <2>2 DEF ScreenOK
    <3>3. running' \in Nat /\ running' <= running
      BY <3>1, <3>2
    <3> QED BY <3>1, <3>3
  <2>3. CASE DelTimer /\ ~ calling_timeout_timer
    <3>1. running' = running /\ calling_timeout_timer' = FALSE
      BY <2>3 DEF DelTimer
    <3>2. running' \in Nat /\ running' <= running
      BY <3>1
    <3> QED BY <3>1, <3>2
  <2> QED BY <2>1, <2>2, <2>3 DEF ChangeWork
<1> QED BY <1>2, <1>3, <1>4 DEF ChangeWork, ScreenOK

LEMMA AppendOK ==
    ASSUME NEW m \in Msg, queue \in Seq(Msg), queue' = Append(queue, m)
    PROVE  /\ queue' \in Seq(Msg)
           /\ DOMAIN queue' = 1..(Len(queue) + 1) /\ DOMAIN queue = 1..Len(queue)
           /\ Len(queue) \in Nat
           /\ \A i \in DOMAIN queue : i \in DOMAIN queue' /\ queue'[i] = queue[i]
           /\ queue'[Len(queue) + 1] = m
  OBVIOUS

LEMMA TakeOK ==
    ASSUME NEW m, queue \in Seq(Msg), Take(m)
    PROVE  /\ queue' \in Seq(Msg)
           /\ 1 \in DOMAIN queue /\ queue[1] = Head(queue) /\ Head(queue) \in Msg
           /\ \A i \in DOMAIN queue : i # 1 => i - 1 \in DOMAIN queue' /\ queue'[i - 1] = queue[i]
           /\ \A i \in DOMAIN queue' : i + 1 \in DOMAIN queue /\ queue'[i] = queue[i + 1]
<1>1. queue # <<>> /\ queue' = Tail(queue)
  BY DEF Take
<1> QED BY <1>1

LEMMA PostOK ==
    ASSUME NEW m, Post(m)
    PROVE  queue' = Append(queue, m)
  BY DEF Post

LEMMA MessagesOK ==
    /\ \A m \in Request : Do(m) \in Msg
    /\ \A c \in Conn \cup {NoConn} : StopRefused(c) \in Msg /\ StopHangup(c) \in Msg
  BY DEF Msg, Do, StopRefused, StopHangup

LEMMA TasksOK ==
    /\ Pend \in Task /\ Wait \in Task
    /\ \A n \in News, c \in Conn \cup {NoConn} : Notify(n, c) \in Task
    /\ \A c \in Conn \cup {NoConn} : PostStop(c) \in Task /\ Drop(c) \in Task
  BY DEF Task, Pend, Wait, Notify, PostStop, Drop

\* What find_device_video_play_info returns is a connection.
LEMMA VisitedOK ==
    ASSUME WellFormed(reg), InCall
    PROVE  Visited \subseteq Conn
<1>1. reg.peers \in Seq(Conn)
  BY DEF WellFormed, Talk!Registry
<1>2. Len(reg.peers) \in DOMAIN reg.peers
  BY <1>1 DEF InCall, Talk!Playing, Talk!Elements
<1> QED BY <1>1, <1>2 DEF Visited, DevicePeers

LEMMA ScreenKept ==
    ASSUME ScreenOK, UNCHANGED screen
    PROVE  ScreenOK'
<1>1. /\ video_call_state' = video_call_state
      /\ rec_call_dispose_timer' = rec_call_dispose_timer
      /\ calling_timeout_timer' = calling_timeout_timer
      /\ running' = running
  BY DEF screen, timers
<1> QED BY <1>1 DEF ScreenOK

LEMMA InitTypeInv ==
    ASSUME Init
    PROVE  TypeInv
<1> DEFINE p == <<>>
           q == [c \in Conn |-> {}]
           r == [peers |-> p, play |-> q]
<1>1. /\ p \in Seq(Conn) /\ DOMAIN p = {}
      /\ q \in [Conn -> SUBSET Talk!Flag] /\ \A c \in Conn : q[c] = {}
      /\ reg = r
  BY DEF Init, Talk!NoPeers
<1> HIDE DEF p, q
<1>2. r.peers = p /\ r.play = q /\ r \in Talk!Registry
  BY <1>1 DEF Talk!Registry
<1> HIDE DEF r
<1>3. WellFormed(reg)
  BY <1>1, <1>2 DEF WellFormed
<1>4. ScreenOK
  BY DEF Init, ScreenOK, CallState
<1>5. SdkOK
  BY DEF Init, SdkOK
<1>6. QueueOK
  BY TasksOK DEF Init, QueueOK
<1>7. RestOK
  BY DEF Init, RestOK
<1> QED BY <1>3, <1>4, <1>5, <1>6, <1>7 DEF TypeInv

\* The streams a callback of the SDK enters and deletes.
LEMMA FlagsOK == {"audio", "video", "device"} = Talk!Flag
  BY DEF Talk!Flag

LEMMA CallbackOK ==
    ASSUME ScreenOK, RestOK, task \in Task, CallbackUnchanged
    PROVE  ScreenOK' /\ RestOK' /\ task' \in Task
<1>1. ScreenOK'
  BY ScreenKept DEF CallbackUnchanged
<1> QED BY <1>1 DEF CallbackUnchanged, RestOK

LEMMA PostedOK ==
    ASSUME queue \in Seq(Msg), NEW m \in Msg, Post(m) \/ UNCHANGED queue
    PROVE  queue' \in Seq(Msg)
  BY DEF Post

LEMMA CleanOK ==
    ASSUME TypeInv, NEW c \in Conn, clean_rt_talk_info(c)
    PROVE  WellFormed(reg)' /\ queue' \in Seq(Msg)
<1>1. CASE InCall
  <2>1. Post(StopRefused(c)) /\ reg' = reg
    BY <1>1 DEF clean_rt_talk_info
  <2>2. queue' \in Seq(Msg)
    BY <2>1, MessagesOK, PostedOK DEF TypeInv, QueueOK
  <2> QED BY <2>1, <2>2 DEF TypeInv
<1>2. CASE ~ InCall
  <2>1. reg' = Forget(reg, c) /\ queue' = queue
    BY <1>2 DEF clean_rt_talk_info
  <2> QED BY <2>1, ForgetWellFormed DEF TypeInv, QueueOK
<1> QED BY <1>1, <1>2

\* What a phone does keeps the types.
LEMMA PhoneStepTypeInv ==
    ASSUME TypeInv, NEW c \in Conn, PhoneStep(c)
    PROVE  TypeInv'
<1> USE DEF TypeInv
<1>a. conn \in [Conn -> {"idle", "open", "closed"}] /\ callback \in Conn \cup {NoConn}
      /\ queue \in Seq(Msg) /\ task \in Task
  BY DEF SdkOK, QueueOK
<1>1. CASE on_connect(c)
  <2>1. callback' = callback /\ CallbackUnchanged
    BY <1>1 DEF on_connect
  <2>2. conn' \in [Conn -> {"idle", "open", "closed"}]
    BY <1>a, <1>1 DEF on_connect
  <2>3. WellFormed(reg)' /\ queue' \in Seq(Msg)
    <3>1. CASE UNCHANGED <<reg, queue>>
      BY <1>a, <3>1
    <3>2. CASE clean_rt_talk_info(c)
      BY <3>2, CleanOK
    <3> QED BY <1>1, <3>1, <3>2 DEF on_connect
  <2> QED BY <1>a, <2>1, <2>2, <2>3, CallbackOK DEF SdkOK, QueueOK
<1>2. CASE VideoPlay(c) \/ TalkbackPlay(c)
  <2>1. /\ sdk' = sdk /\ queue' = queue /\ CallbackUnchanged
        /\ \E f \in Talk!Flag : reg' = Talk!Added(reg, c, f)
    BY <1>2, FlagsOK DEF VideoPlay, TalkbackPlay
  <2>2. WellFormed(reg)'
    <3>1. PICK f \in Talk!Flag : reg' = Talk!Added(reg, c, f)
      BY <2>1
    <3>2. WellFormed(Talk!Added(reg, c, f))
      BY AddedWellFormed
    <3> QED BY <3>1, <3>2
  <2> QED BY <1>a, <2>1, <2>2, CallbackOK DEF SdkOK, QueueOK, sdk
<1>3. CASE VideoCallStart(c)
  <2>1. /\ conn' = conn /\ callback' = c /\ queue' = queue /\ CallbackUnchanged
        /\ reg' = Talk!Added(reg, c, "device") /\ "device" \in Talk!Flag
    BY <1>3, FlagsOK DEF VideoCallStart
  <2>2. WellFormed(reg)'
    BY <2>1, AddedWellFormed
  <2> QED BY <1>a, <2>1, <2>2, CallbackOK DEF SdkOK, QueueOK
<1>4. CASE VideoPause(c) \/ TalkbackPause(c) \/ VideoCallStop(c)
  <2>1. /\ sdk' = sdk /\ CallbackUnchanged
        /\ Post(StopRefused(c)) \/ UNCHANGED queue
        /\ \E f \in Talk!Flag : reg' = Talk!Deleted(reg, c, f)
    BY <1>4, FlagsOK DEF VideoPause, TalkbackPause, VideoCallStop
  <2>2. WellFormed(reg)'
    <3>1. PICK f \in Talk!Flag : reg' = Talk!Deleted(reg, c, f)
      BY <2>1
    <3>2. WellFormed(Talk!Deleted(reg, c, f))
      BY DeletedWellFormed
    <3> QED BY <3>1, <3>2
  <2>3. queue' \in Seq(Msg)
    BY <1>a, <2>1, MessagesOK, PostedOK
  <2> QED BY <1>a, <2>1, <2>2, <2>3, CallbackOK DEF SdkOK, QueueOK, sdk
<1>5. CASE StateChangeByApp(c) \/ PauseAllAv(c)
  <2>1. /\ sdk' = sdk /\ reg' = reg /\ CallbackUnchanged
        /\ \E m \in Msg : Post(m)
    BY <1>5, MessagesOK DEF StateChangeByApp, PauseAllAv, Request
  <2>2. queue' \in Seq(Msg)
    BY <1>a, <2>1, PostedOK
  <2> QED BY <1>a, <2>1, <2>2, CallbackOK DEF SdkOK, QueueOK, sdk
<1> QED BY <1>1, <1>2, <1>3, <1>4, <1>5 DEF PhoneStep

\* What the task does keeps the types.
LEMMA TaskStepTypeInv ==
    ASSUME TypeInv, TaskStep
    PROVE  TypeInv'
<1> USE DEF TypeInv
<1>a. /\ conn' = conn /\ callback' = callback /\ net' = net /\ pushing' = pushing
      /\ queue \in Seq(Msg) /\ task \in Task
  BY DEF TaskStep, Answer, Refuse, AnswerTimeout, Hangup, HangupPost, Start, StartDecoder,
         StopByPhone, StopByDevice, Tell, DropPeer, TellUnlessIdle, TaskUnchanged, sdk, QueueOK
<1>b. SdkOK'
  BY <1>a DEF SdkOK
<1>1. CASE Answer \/ Start
  <2>1. ScreenOK'
    BY <1>1, ChangeWorkOK DEF Answer, Start
  <2>2. queue' \in Seq(Msg)
    BY <1>a, <1>1, TakeOK DEF Answer, Start
  <2>3. reg' = reg /\ video_dec_start' = video_dec_start /\ task' \in Task
    BY <1>a, <1>1, TasksOK DEF Answer, Start
  <2> QED BY <1>a, <1>b, <2>1, <2>2, <2>3 DEF QueueOK, RestOK
<1>2. CASE Refuse \/ AnswerTimeout
  <2>1. screen' = screen /\ reg' = reg /\ video_dec_start' = video_dec_start
    BY <1>2 DEF Refuse, AnswerTimeout, TellUnlessIdle
  <2>2. queue' \in Seq(Msg)
    BY <1>a, <1>2, TakeOK DEF Refuse, AnswerTimeout
  <2>3. task' \in Task
    BY <1>2, TasksOK DEF Refuse, AnswerTimeout, TellUnlessIdle, News
  <2> QED BY <1>a, <1>b, <2>1, <2>2, <2>3, ScreenKept DEF QueueOK, RestOK
<1>3. CASE Hangup
  <2>1. screen' = screen /\ reg' = reg /\ video_dec_start' = video_dec_start
    BY <1>3 DEF Hangup
  <2>2. queue' \in Seq(Msg)
    BY <1>a, <1>3, TakeOK DEF Hangup
  <2>3. task' \in Task
    BY <1>3, TasksOK, VisitedOK DEF Hangup
  <2> QED BY <1>a, <1>b, <2>1, <2>2, <2>3, ScreenKept DEF QueueOK, RestOK
<1>4. CASE HangupPost
  <2>1. /\ screen' = screen /\ reg' = reg /\ video_dec_start' = video_dec_start
        /\ task' = Pend /\ queue' = Append(queue, StopHangup(task.conn))
    BY <1>4 DEF HangupPost
  <2>2. task.conn \in Conn \cup {NoConn}
    BY <1>a DEF Task
  <2>3. queue' \in Seq(Msg)
    BY <1>a, <2>1, <2>2, MessagesOK, AppendOK
  <2> QED BY <1>a, <1>b, <2>1, <2>3, ScreenKept, TasksOK DEF QueueOK, RestOK
<1>5. CASE StartDecoder
  <2>1. /\ screen' = screen /\ reg' = reg /\ video_dec_start' = TRUE
        /\ task' = Pend /\ queue' = queue
    BY <1>5 DEF StartDecoder
  <2> QED BY <1>a, <1>b, <2>1, ScreenKept, TasksOK DEF QueueOK, RestOK
<1>6. CASE StopByPhone \/ StopByDevice
  <2>1. screen' = screen /\ reg' = reg
    BY <1>6 DEF StopByPhone, StopByDevice
  <2>2. queue' \in Seq(Msg) /\ Head(queue).conn \in Conn \cup {NoConn}
    <3>1. queue' \in Seq(Msg) /\ Head(queue) \in Msg
      BY <1>a, <1>6, TakeOK DEF StopByPhone, StopByDevice
    <3> QED BY <3>1 DEF Msg
  <2>3. task' \in Task
    BY <1>6, <2>2, TasksOK DEF StopByPhone, StopByDevice, News
  <2>4. video_dec_start' \in BOOLEAN
    BY <1>6 DEF StopByPhone, StopByDevice, RestOK
  <2> QED BY <1>a, <1>b, <2>1, <2>2, <2>3, <2>4, ScreenKept DEF QueueOK, RestOK
<1>7. CASE Tell
  <2>1. ScreenOK'
    BY <1>7, ChangeWorkOK DEF Tell
  <2>2. /\ reg' = reg /\ video_dec_start' = video_dec_start /\ queue' = queue
        /\ task' = Drop(task.conn)
    BY <1>7 DEF Tell
  <2>3. task.conn \in Conn \cup {NoConn}
    BY <1>a DEF Task
  <2>4. task' \in Task
    BY <2>2, <2>3, TasksOK
  <2> QED BY <1>a, <1>b, <2>1, <2>2, <2>4 DEF QueueOK, RestOK
<1>8. CASE DropPeer
  <2>1. /\ screen' = screen /\ video_dec_start' = video_dec_start /\ queue' = queue
        /\ task' = Pend /\ reg' = Forget(reg, task.conn)
    BY <1>8 DEF DropPeer
  <2>2. task.conn \in Conn
    BY <1>a, <1>8 DEF Task, DropPeer
  <2>3. WellFormed(reg)'
    <3>1. WellFormed(Forget(reg, task.conn))
      BY <2>2, ForgetWellFormed
    <3> QED BY <2>1, <3>1
  <2> QED BY <1>a, <1>b, <2>1, <2>3, ScreenKept, TasksOK DEF QueueOK, RestOK
<1> QED BY <1>1, <1>2, <1>3, <1>4, <1>5, <1>6, <1>7, <1>8 DEF TaskStep

\* What the keys, the timers, the Wi-Fi and the cloud do keeps the types.
LEMMA OtherStepTypeInv ==
    ASSUME TypeInv,
           VideoCallPost \/ CallingTimeout \/ DisposeNotice \/ Dial \/ HangupKey \/ CloudStep
    PROVE  TypeInv'
<1> USE DEF TypeInv
<1>a. /\ queue \in Seq(Msg) /\ task \in Task /\ net \in BOOLEAN
      /\ pushing \subseteq {"KEY", "MOVT", "calling_fail"} /\ video_dec_start \in BOOLEAN
  BY DEF QueueOK, RestOK
<1>1. CASE VideoCallPost
  <2>1. /\ conn' = conn /\ callback' = NoConn /\ reg' = reg /\ CallbackUnchanged
        /\ queue' = Append(queue, Do("APP_START_VIDEO_CALL"))
    BY <1>1 DEF VideoCallPost
  <2>2. queue' \in Seq(Msg)
    BY <1>a, <2>1, MessagesOK, AppendOK DEF Request
  <2> QED BY <1>a, <2>1, <2>2, CallbackOK DEF SdkOK, QueueOK
<1>2. CASE CallingTimeout
  <2>1. /\ sdk' = sdk /\ reg' = reg /\ task' = task /\ net' = net /\ pushing' = pushing
        /\ video_dec_start' = video_dec_start
        /\ queue' = Append(queue, Do("APP_ANSWER_TIMEOUT"))
    BY <1>2 DEF CallingTimeout
  <2>2. queue' \in Seq(Msg)
    BY <1>a, <2>1, MessagesOK, AppendOK DEF Request
  <2>3. /\ video_call_state' = video_call_state
        /\ rec_call_dispose_timer' = rec_call_dispose_timer
        /\ calling_timeout_timer' = (calling_timeout_timer /\ running > 1)
        /\ running' = running - 1 /\ running > 0 /\ running \in Nat
    BY <1>2 DEF CallingTimeout, ScreenOK
  <2>4. running' \in Nat /\ (running > 1 => running' > 0)
    BY <2>3
  <2>5. ScreenOK'
    BY <2>3, <2>4 DEF ScreenOK
  <2> QED BY <1>a, <2>1, <2>2, <2>5 DEF SdkOK, QueueOK, RestOK, sdk
<1>3. CASE DisposeNotice
  <2>1. /\ sdk' = sdk /\ reg' = reg /\ task' = task /\ net' = net /\ pushing' = pushing
        /\ video_dec_start' = video_dec_start /\ queue' = queue
    BY <1>3 DEF DisposeNotice
  <2>2. ScreenOK'
    BY <1>3 DEF DisposeNotice, ScreenOK, CallState, timers
  <2> QED BY <1>a, <2>1, <2>2 DEF SdkOK, QueueOK, RestOK, sdk
<1>4. CASE Dial
  <2>1. /\ sdk' = sdk /\ reg' = reg /\ task' = task /\ net' = net
        /\ video_dec_start' = video_dec_start /\ queue' = queue
    BY <1>4 DEF Dial
  <2>2. pushing' \subseteq {"KEY", "MOVT", "calling_fail"}
    BY <1>a, <1>4 DEF Dial
  <2>3. ScreenOK'
    <3>1. CASE Calling
      <4>1. running' \in Nat /\ running' > 0
        <5>1. running \in Nat /\ running' = running + 1
          BY <3>1 DEF Calling, ScreenOK
        <5> QED BY <5>1
      <4> QED BY <3>1, <4>1 DEF Calling, ScreenOK, CallState
    <3>2. CASE \E news : ChangeWork(news)
      BY <3>2, ChangeWorkOK
    <3> QED BY <1>4, <3>1, <3>2 DEF Dial
  <2> QED BY <1>a, <2>1, <2>2, <2>3 DEF SdkOK, QueueOK, RestOK, sdk
<1>5. CASE HangupKey
  <2>1. /\ sdk' = sdk /\ reg' = reg /\ screen' = screen /\ task' = task /\ net' = net
        /\ pushing' = pushing /\ video_dec_start' = video_dec_start
        /\ Post(Do("DEVICE_HANGUP"))
    BY <1>5 DEF HangupKey
  <2>2. queue' \in Seq(Msg)
    BY <1>a, <2>1, MessagesOK, PostedOK DEF Request
  <2> QED BY <1>a, <2>1, <2>2, ScreenKept DEF SdkOK, QueueOK, RestOK, sdk
<1>6. CASE CloudStep
  <2> USE EventAssumption
  <2>1. /\ sdk' = sdk /\ reg' = reg /\ task' = task /\ queue' = queue
        /\ video_dec_start' = video_dec_start
    BY <1>6 DEF CloudStep, NetConnected, NetConnectFail, MotionAlarm, EventPushed,
                EventRefused, CallingFail, Serves
  <2>2. net' \in BOOLEAN
    BY <1>a, <1>6 DEF CloudStep, NetConnected, NetConnectFail, MotionAlarm, EventPushed,
                      EventRefused, CallingFail, Serves
  <2>3. pushing' \subseteq {"KEY", "MOVT", "calling_fail"}
    BY <1>a, <1>6 DEF CloudStep, NetConnected, NetConnectFail, MotionAlarm, EventPushed,
                      EventRefused, CallingFail, Serves
  <2>4. (\E news : ChangeWork(news)) \/ UNCHANGED screen
    BY <1>6 DEF CloudStep, NetConnected, NetConnectFail, MotionAlarm, EventPushed,
                EventRefused, CallingFail, Serves
  <2>5. ScreenOK'
    BY <2>4, ChangeWorkOK, ScreenKept
  <2> QED BY <1>a, <2>1, <2>2, <2>3, <2>5 DEF SdkOK, QueueOK, RestOK, sdk
<1> QED BY <1>1, <1>2, <1>3, <1>4, <1>5, <1>6

LEMMA StutterTypeInv ==
    ASSUME TypeInv, UNCHANGED vars
    PROVE  TypeInv'
  BY ScreenKept DEF TypeInv, vars, sdk, screen, timers, SdkOK, QueueOK, RestOK

LEMMA NextTypeInv == TypeInv /\ [Next]_vars => TypeInv'
  BY PhoneStepTypeInv, TaskStepTypeInv, OtherStepTypeInv, StutterTypeInv DEF Next

LEMMA AlwaysTypeInv == Spec => []TypeInv
<1>1. Init => TypeInv
  BY InitTypeInv
<1> QED BY <1>1, NextTypeInv, PTL DEF Spec

-----------------------------------------------------------------------------
(* The streams of the phones.                                              *)

\* Every step of the module, as the cases below take it apart.
OtherStep == VideoCallPost \/ CallingTimeout \/ DisposeNotice \/ Dial \/ HangupKey \/ CloudStep

LEMMA StepCases ==
    ASSUME [Next]_vars
    PROVE  TaskStep \/ OtherStep \/ (\E c \in Conn : PhoneStep(c)) \/ UNCHANGED vars
  BY DEF Next, OtherStep

\* Only a phone and the end of a stop change who plays what.
LEMMA RegKept ==
    ASSUME (TaskStep /\ ~ DropPeer) \/ OtherStep \/ UNCHANGED vars
    PROVE  reg' = reg
  BY DEF TaskStep, Answer, Refuse, AnswerTimeout, Hangup, HangupPost, Start, StartDecoder,
         StopByPhone, StopByDevice, Tell, TellUnlessIdle, OtherStep, VideoCallPost,
         CallingTimeout, DisposeNotice, Dial, HangupKey, CloudStep, NetConnected,
         NetConnectFail, MotionAlarm, EventPushed,
         EventRefused, CallingFail, Serves, vars

LEMMA DropPeerForgets ==
    ASSUME TypeInv, DropPeer
    PROVE  \A d \in Conn : reg'.play[d] = IF d = task.conn THEN {} ELSE reg.play[d]
<1>1. task.conn \in Conn
  BY DEF TypeInv, QueueOK, Task, DropPeer
<1> QED BY <1>1, ForgetWellFormed DEF TypeInv, DropPeer

\* A phone adds at most one stream, its own, over an open connection; a
\* picture and a voice only when no phone has one.
Grows(c, f) ==
    /\ conn[c] = "open" /\ conn' = conn
    /\ f \in {"audio", "device"} => \A d \in Conn : f \notin reg.play[d]
    /\ \A d \in Conn : reg'.play[d] = IF d = c THEN reg.play[c] \cup {f} ELSE reg.play[d]

Shrinks == \A d \in Conn : reg'.play[d] \subseteq reg.play[d]

LEMMA CleanShrinks ==
    ASSUME TypeInv, NEW c \in Conn, clean_rt_talk_info(c)
    PROVE  Shrinks
  BY ForgetWellFormed DEF TypeInv, clean_rt_talk_info, Shrinks

LEMMA PhoneStepPlays ==
    ASSUME TypeInv, NEW c \in Conn, PhoneStep(c)
    PROVE  Shrinks \/ \E f \in Talk!Flag : Grows(c, f)
<1> USE DEF TypeInv
<1>1. CASE on_connect(c)
  BY <1>1, CleanShrinks DEF on_connect, Shrinks
<1>2. CASE VideoPlay(c)
  <2>1. Grows(c, "video")
    BY <1>2, AddedWellFormed, FlagsOK DEF VideoPlay, Requests, Grows, sdk
  <2> QED BY <2>1, FlagsOK
<1>3. CASE TalkbackPlay(c)
  <2>1. Grows(c, "audio")
    BY <1>3, AddedWellFormed, NobodyPlays, FlagsOK DEF TalkbackPlay, Requests, Grows, sdk
  <2> QED BY <2>1, FlagsOK
<1>4. CASE VideoCallStart(c)
  <2>1. Grows(c, "device")
    BY <1>4, AddedWellFormed, NobodyPlays, FlagsOK DEF VideoCallStart, Requests, Grows
  <2> QED BY <2>1, FlagsOK
<1>5. CASE VideoPause(c) \/ TalkbackPause(c) \/ VideoCallStop(c)
  <2>1. PICK f \in Talk!Flag : reg' = Talk!Deleted(reg, c, f)
    BY <1>5, FlagsOK DEF VideoPause, TalkbackPause, VideoCallStop
  <2>2. \A d \in Conn : Talk!Deleted(reg, c, f).play[d]
                          = IF d = c THEN reg.play[c] \ {f} ELSE reg.play[d]
    BY DeletedWellFormed
  <2> QED BY <2>1, <2>2 DEF Shrinks
<1>6. CASE StateChangeByApp(c) \/ PauseAllAv(c)
  BY <1>6 DEF StateChangeByApp, PauseAllAv, Shrinks
<1> QED BY <1>1, <1>2, <1>3, <1>4, <1>5, <1>6 DEF PhoneStep

LEMMA StepPlays ==
    ASSUME TypeInv, [Next]_vars
    PROVE  Shrinks \/ \E c \in Conn, f \in Talk!Flag : Grows(c, f)
<1>1. CASE \E c \in Conn : PhoneStep(c)
  BY <1>1, PhoneStepPlays
<1>2. CASE DropPeer
  BY <1>2, DropPeerForgets DEF Shrinks
<1>3. CASE reg' = reg
  BY <1>3 DEF Shrinks
<1> QED BY <1>1, <1>2, <1>3, StepCases, RegKept

LEMMA NextOnePeer ==
    ASSUME TypeInv, OneDevicePeer, OneTalker, [Next]_vars
    PROVE  OneDevicePeer' /\ OneTalker'
<1>1. CASE Shrinks
  BY <1>1 DEF Shrinks, OneDevicePeer, OneTalker
<1>2. CASE \E c \in Conn, f \in Talk!Flag : Grows(c, f)
  BY <1>2 DEF Grows, OneDevicePeer, OneTalker
<1> QED BY <1>1, <1>2, StepPlays

LEMMA InitNobody ==
    ASSUME Init
    PROVE  \A c \in Conn : reg.play[c] = {}
  BY DEF Init, Talk!NoPeers

\* At most one phone shows its picture, whatever the order of the requests,
\* the stops and the disconnections (dev_on_ipc_VideoCall).
THEOREM OneDevicePeerHolds == Spec => []OneDevicePeer
<1>1. Init => OneDevicePeer /\ OneTalker
  BY InitNobody DEF OneDevicePeer, OneTalker
<1>2. TypeInv /\ OneDevicePeer /\ OneTalker /\ [Next]_vars => (OneDevicePeer /\ OneTalker)'
  BY NextOnePeer
<1> QED BY <1>1, <1>2, AlwaysTypeInv, PTL DEF Spec

\* At most one phone talks to the visitor (dev_on_ipc_TalkbackPlay).
THEOREM OneTalkerHolds == Spec => []OneTalker
<1>1. Init => OneDevicePeer /\ OneTalker
  BY InitNobody DEF OneDevicePeer, OneTalker
<1>2. TypeInv /\ OneDevicePeer /\ OneTalker /\ [Next]_vars => (OneDevicePeer /\ OneTalker)'
  BY NextOnePeer
<1> QED BY <1>1, <1>2, AlwaysTypeInv, PTL DEF Spec

-----------------------------------------------------------------------------
(* The queue: what stays in it, and what the task takes from it.           *)

\* A message of M is queued.
Queued(M) == \E i \in DOMAIN queue : queue[i] \in M

\* Whoever is not the task leaves the task alone and at most adds a message.
LEMMA OthersAppend ==
    ASSUME TypeInv, OtherStep \/ (\E c \in Conn : PhoneStep(c)) \/ UNCHANGED vars
    PROVE  /\ task' = task
           /\ queue' = queue \/ \E m \in Msg : queue' = Append(queue, m)
<1>1. CASE OtherStep
  <2>1. task' = task
    BY <1>1 DEF OtherStep, VideoCallPost, CallingTimeout, DisposeNotice, Dial, HangupKey,
                CloudStep, NetConnected, NetConnectFail, MotionAlarm, EventPushed,
                EventRefused, CallingFail, Serves, CallbackUnchanged
  <2>2. \/ queue' = queue
        \/ \E m \in Request : queue' = Append(queue, Do(m))
    BY <1>1 DEF OtherStep, VideoCallPost, CallingTimeout, DisposeNotice, Dial, HangupKey, Post,
                CloudStep, NetConnected, NetConnectFail, MotionAlarm, EventPushed,
                EventRefused, CallingFail, Serves, Request
  <2> QED BY <2>1, <2>2, MessagesOK
<1>2. CASE \E c \in Conn : PhoneStep(c)
  <2>1. PICK c \in Conn : PhoneStep(c)
    BY <1>2
  <2>2. task' = task
    BY <2>1 DEF PhoneStep, on_connect, VideoPlay, VideoPause, TalkbackPlay, TalkbackPause,
                StateChangeByApp, VideoCallStart, VideoCallStop, PauseAllAv, CallbackUnchanged
  <2>3. \/ queue' = queue
        \/ queue' = Append(queue, StopRefused(c))
        \/ \E m \in Request : queue' = Append(queue, Do(m))
    BY <2>1 DEF PhoneStep, on_connect, VideoPlay, VideoPause, TalkbackPlay, TalkbackPause,
                StateChangeByApp, VideoCallStart, VideoCallStop, PauseAllAv, Post, Request,
                clean_rt_talk_info
  <2> QED BY <2>2, <2>3, MessagesOK
<1>3. CASE UNCHANGED vars
  BY <1>3 DEF vars
<1> QED BY <1>1, <1>2, <1>3

LEMMA QueuedKept ==
    ASSUME TypeInv, queue' = queue \/ (\E m \in Msg : queue' = Append(queue, m)),
           NEW M, Queued(M)
    PROVE  Queued(M)'
<1>1. PICK i \in DOMAIN queue : queue[i] \in M
  BY DEF Queued
<1>2. CASE queue' = queue
  BY <1>2 DEF Queued
<1>3. CASE \E m \in Msg : queue' = Append(queue, m)
  <2>1. i \in DOMAIN queue' /\ queue'[i] = queue[i]
    BY <1>1, <1>3, AppendOK DEF TypeInv, QueueOK
  <2> QED BY <1>1, <2>1 DEF Queued
<1> QED BY <1>2, <1>3

LEMMA QueuedTaken ==
    ASSUME TypeInv, NEW t, Take(t), NEW M, Queued(M)
    PROVE  Queued(M)' \/ (Head(queue) \in M /\ Head(queue).type = t)
<1>1. PICK i \in DOMAIN queue : queue[i] \in M
  BY DEF Queued
<1>2. queue \in Seq(Msg)
  BY DEF TypeInv, QueueOK
<1>3. CASE i = 1
  BY <1>1, <1>2, <1>3, TakeOK DEF Take
<1>4. CASE i # 1
  <2>1. i - 1 \in DOMAIN queue' /\ queue'[i - 1] = queue[i]
    BY <1>1, <1>2, <1>4, TakeOK
  <2> QED BY <1>1, <2>1 DEF Queued
<1> QED BY <1>3, <1>4

-----------------------------------------------------------------------------
(* A phone that has gone is stopped.                                       *)

StopType == {"STOP_REFUSED", "STOP_HANGUP"}

Stops(c) == {m \in Msg : m.type \in StopType /\ m.conn = c}

LEMMA StoppingQueued ==
    ASSUME queue \in Seq(Msg), NEW c
    PROVE  Stopping(c) <=> Queued(Stops(c)) \/ (task.at \in {"notify", "drop"} /\ task.conn = c)
<1>1. \A i \in DOMAIN queue : queue[i] \in Msg
  OBVIOUS
<1> QED BY <1>1 DEF Stopping, Queued, Stops, StopType

\* A stop that is under way stays so until its connection is forgotten.
LEMMA StoppingKept ==
    ASSUME TypeInv, TypeInv', [Next]_vars, NEW c \in Conn, Stopping(c)
    PROVE  Stopping(c)' \/ reg'.play[c] = {}
<1> DEFINE Handled == task.at \in {"notify", "drop"} /\ task.conn = c
<1>a. queue \in Seq(Msg) /\ queue' \in Seq(Msg)
  BY DEF TypeInv, QueueOK
<1>b. c # NoConn
  BY ConnAssumption
<1>c. Queued(Stops(c)) \/ Handled
  BY <1>a, StoppingQueued
<1>d. Queued(Stops(c))' => Stopping(c)'
  BY <1>a DEF Queued, Stops, StopType, Stopping
<1>1. CASE OtherStep \/ (\E d \in Conn : PhoneStep(d)) \/ UNCHANGED vars
  <2>1. task' = task /\ (Queued(Stops(c)) => Queued(Stops(c))')
    BY <1>1, OthersAppend, QueuedKept
  <2> QED BY <1>c, <1>d, <2>1 DEF Stopping
<1>2. CASE Answer \/ Refuse \/ AnswerTimeout \/ Hangup \/ Start
  <2>1. PICK t \in {"APP_ANSWER", "APP_REFUSE", "APP_ANSWER_TIMEOUT", "DEVICE_HANGUP",
                    "APP_START_VIDEO_CALL"} : Take(t)
    BY <1>2 DEF Answer, Refuse, AnswerTimeout, Hangup, Start
  <2>2. Queued(Stops(c))
    BY <1>c, <2>1 DEF Take, Pend
  <2>3. ~ (Head(queue) \in Stops(c) /\ Head(queue).type = t)
    BY <2>1 DEF Stops, StopType
  <2> QED BY <1>d, <2>1, <2>2, <2>3, QueuedTaken
<1>3. CASE StopByPhone \/ StopByDevice
  <2>1. PICK t \in StopType : Take(t)
    BY <1>3 DEF StopByPhone, StopByDevice, StopType
  <2>2. Queued(Stops(c))
    BY <1>c, <2>1 DEF Take, Pend
  <2>3. CASE Queued(Stops(c))'
    BY <1>d, <2>3
  <2>4. CASE Head(queue) \in Stops(c)
    <3>1. Head(queue).conn = c
      BY <2>4 DEF Stops
    <3>2. task' = Drop(c) \/ \E n \in News : task' = Notify(n, c)
      BY <1>3, <3>1 DEF StopByPhone, StopByDevice, News
    <3>3. task'.at \in {"notify", "drop"} /\ task'.conn = c
      BY <1>b, <3>2 DEF Drop, Notify
    <3> QED BY <3>3 DEF Stopping
  <2> QED BY <2>1, <2>2, <2>3, <2>4, QueuedTaken
<1>4. CASE HangupPost
  <2>1. queue' = Append(queue, StopHangup(task.conn)) /\ StopHangup(task.conn) \in Msg
        /\ task.at = "post"
    <3>1. task.conn \in Conn \cup {NoConn}
      BY DEF TypeInv, QueueOK, Task
    <3> QED BY <1>4, <3>1, MessagesOK DEF HangupPost
  <2> QED BY <1>c, <1>d, <2>1, QueuedKept
<1>5. CASE StartDecoder
  <2>1. queue' = queue /\ task.at = "wait"
    BY <1>5 DEF StartDecoder, Wait
  <2> QED BY <1>c, <1>d, <2>1, QueuedKept
<1>6. CASE Tell
  <2>1. queue' = queue /\ task' = Drop(task.conn)
    BY <1>6 DEF Tell
  <2>2. CASE Queued(Stops(c))
    BY <1>d, <2>1, <2>2, QueuedKept
  <2>3. CASE task.conn = c
    <3>1. task'.at = "drop" /\ task'.conn = c
      BY <1>b, <2>1, <2>3 DEF Drop
    <3> QED BY <3>1 DEF Stopping
  <2> QED BY <1>c, <2>2, <2>3
<1>7. CASE DropPeer
  <2>1. queue' = queue
    BY <1>7 DEF DropPeer
  <2>2. CASE Queued(Stops(c))
    BY <1>d, <2>1, <2>2, QueuedKept
  <2>3. CASE task.conn = c
    BY <1>7, <2>3, DropPeerForgets
  <2> QED BY <1>c, <2>2, <2>3
<1> QED BY <1>1, <1>2, <1>3, <1>4, <1>5, <1>6, <1>7, StepCases DEF TaskStep

\* A connection is closed, or its resources freed, with a stop or a clean table.
LEMMA ClosingStops ==
    ASSUME TypeInv, TypeInv', NEW c \in Conn, on_connect(c), conn'[c] # "open"
    PROVE  Stopping(c)' \/ reg'.play[c] = {}
<1>1. clean_rt_talk_info(c)
  BY DEF on_connect, TypeInv, SdkOK
<1>2. CASE InCall
  <2>1. queue' = Append(queue, StopRefused(c)) /\ queue \in Seq(Msg) /\ StopRefused(c) \in Msg
    BY <1>1, <1>2, MessagesOK DEF clean_rt_talk_info, Post, TypeInv, QueueOK
  <2>2. Len(queue) + 1 \in DOMAIN queue' /\ queue'[Len(queue) + 1] = StopRefused(c)
    BY <2>1, AppendOK
  <2> QED BY <2>2 DEF Stopping, StopRefused
<1>3. CASE ~ InCall
  BY <1>1, <1>3, ForgetWellFormed DEF clean_rt_talk_info, TypeInv
<1> QED BY <1>2, <1>3

\* Only the callback iot_dev_on_connect changes the state of a connection.
LEMMA ConnChanges ==
    ASSUME TypeInv, [Next]_vars, NEW c \in Conn, conn'[c] # conn[c]
    PROVE  on_connect(c)
<1>1. CASE TaskStep \/ OtherStep \/ UNCHANGED vars
  BY <1>1 DEF TaskStep, Answer, Refuse, AnswerTimeout, Hangup, HangupPost, Start,
         StartDecoder, StopByPhone, StopByDevice, Tell, DropPeer, TellUnlessIdle,
         TaskUnchanged, OtherStep, VideoCallPost, CallingTimeout, DisposeNotice, Dial,
         HangupKey, CloudStep, NetConnected, NetConnectFail, MotionAlarm, EventPushed,
         EventRefused, CallingFail, Serves, vars, sdk
<1>2. CASE \E d \in Conn : PhoneStep(d)
  <2>1. PICK d \in Conn : on_connect(d)
    BY <1>2 DEF PhoneStep, VideoPlay, VideoPause, TalkbackPlay, TalkbackPause,
         StateChangeByApp, VideoCallStart, VideoCallStop, PauseAllAv, sdk
  <2>2. d = c
    BY <2>1 DEF on_connect, TypeInv, SdkOK
  <2> QED BY <2>1, <2>2
<1> QED BY <1>1, <1>2, StepCases

LEMMA NextGonePhoneIsStopped ==
    ASSUME TypeInv, TypeInv', GonePhoneIsStopped, [Next]_vars
    PROVE  GonePhoneIsStopped'
<1> SUFFICES ASSUME NEW c \in Conn, conn'[c] # "open", reg'.play[c] # {}
             PROVE  Stopping(c)'
  BY DEF GonePhoneIsStopped
<1>1. CASE on_connect(c)
  BY <1>1, ClosingStops
<1>2. CASE ~ on_connect(c)
  <2>1. conn[c] # "open"
    BY <1>2, ConnChanges
  <2>2. reg'.play[c] \subseteq reg.play[c]
    BY <2>1, StepPlays DEF Grows, Shrinks
  <2>3. Stopping(c)
    BY <2>1, <2>2 DEF GonePhoneIsStopped
  <2> QED BY <2>3, StoppingKept
<1> QED BY <1>1, <1>2

\* A phone that has gone keeps its place in the table only while a stop for it
\* is queued or handled (clean_rt_talk_info, net_video_dec_task).
THEOREM GonePhoneIsStoppedHolds == Spec => []GonePhoneIsStopped
<1>1. Init => GonePhoneIsStopped
  BY InitNobody DEF GonePhoneIsStopped
<1>2. TypeInv /\ TypeInv' /\ GonePhoneIsStopped /\ [Next]_vars => GonePhoneIsStopped'
  BY NextGonePhoneIsStopped
<1> QED BY <1>1, <1>2, AlwaysTypeInv, PTL DEF Spec

-----------------------------------------------------------------------------
(* The dial is bounded.                                                    *)

Expiry == {m \in Msg : m.type = "APP_ANSWER_TIMEOUT"}

\* What bounds a dial, apart from the timer that runs and the notice.
Expiring == Queued(Expiry) \/ (task.at = "notify" /\ task.news = "calling_timeout")

LEMMA DialBounds ==
    ASSUME queue \in Seq(Msg)
    PROVE  DialIsBounded <=> (video_call_state = "STARTING" =>
                                 running > 0 \/ rec_call_dispose_timer \/ Expiring)
<1>1. \A i \in DOMAIN queue : queue[i] \in Msg
  OBVIOUS
<1>2. Queued(Expiry) <=> \E i \in DOMAIN queue : queue[i].type = "APP_ANSWER_TIMEOUT"
  BY <1>1 DEF Queued, Expiry
<1> QED BY <1>2 DEF DialIsBounded, Expiring

\* News after which the screen dials were no news: the dial went on before, and
\* its timer is only stopped with a notice.
LEMMA NewsKeepsDial ==
    ASSUME ScreenOK, NEW news, ChangeWork(news), video_call_state' = "STARTING"
    PROVE  /\ video_call_state = "STARTING" /\ ~ rec_call_dispose_timer
           /\ news # "calling_timeout"
           /\ rec_call_dispose_timer' \/ running' = running
<1>1. StateAfter(news, StateNow) = "STARTING"
  BY DEF ChangeWork
<1>2. /\ news \in {"app_close_call", "app_refuse_calling", "accept_call_without_video"}
      /\ StateNow = "STARTING" /\ news # "accept_call_without_video"
  BY <1>1 DEF StateAfter, Talking
<1>3. video_call_state = "STARTING" /\ ~ rec_call_dispose_timer
  BY <1>2 DEF StateNow, ScreenOK
<1>4. CASE news = "app_refuse_calling"
  BY <1>3, <1>4 DEF ChangeWork, ShowsNotice
<1>5. CASE news = "app_close_call"
  <2>1. ~ StopsTimer(news, StateNow)
    BY <1>5 DEF StopsTimer
  <2>2. running' = running
    BY <2>1 DEF ChangeWork, timers
  <2> QED BY <1>3, <1>5, <2>2
<1> QED BY <1>2, <1>4, <1>5

\* A step that leaves the screen alone, or only tells it some news, keeps the
\* dial bounded as long as it keeps its expiry.
LEMMA DialKept ==
    ASSUME TypeInv, TypeInv', DialIsBounded, Expiring => Expiring',
           UNCHANGED screen \/ \E news : ChangeWork(news)
    PROVE  DialIsBounded'
<1>a. queue \in Seq(Msg) /\ queue' \in Seq(Msg) /\ ScreenOK
  BY DEF TypeInv, QueueOK
<1>b. video_call_state = "STARTING" => running > 0 \/ rec_call_dispose_timer \/ Expiring
  BY <1>a, DialBounds
<1>c. Queued(Expiry)' => \E i \in DOMAIN queue' : queue'[i].type = "APP_ANSWER_TIMEOUT"
  BY DEF Queued, Expiry
<1>1. SUFFICES ASSUME video_call_state' = "STARTING"
               PROVE  running' > 0 \/ rec_call_dispose_timer' \/ Expiring'
  BY <1>c DEF DialIsBounded, Expiring
<1>2. CASE UNCHANGED screen
  <2>1. /\ video_call_state = "STARTING" /\ running' = running
        /\ rec_call_dispose_timer' = rec_call_dispose_timer
    BY <1>1, <1>2 DEF screen, timers
  <2> QED BY <1>b, <2>1
<1>3. CASE \E news : ChangeWork(news)
  <2>1. /\ video_call_state = "STARTING" /\ ~ rec_call_dispose_timer
        /\ rec_call_dispose_timer' \/ running' = running
    BY <1>a, <1>1, <1>3, NewsKeepsDial
  <2> QED BY <1>b, <2>1
<1> QED BY <1>2, <1>3

LEMMA NextDialIsBounded ==
    ASSUME TypeInv, TypeInv', DialIsBounded, [Next]_vars
    PROVE  DialIsBounded'
<1>a. queue \in Seq(Msg) /\ queue' \in Seq(Msg) /\ ScreenOK
  BY DEF TypeInv, QueueOK
<1>b. Queued(Expiry)' => DialIsBounded'
  BY <1>a DEF Queued, Expiry, DialIsBounded
<1>1. CASE Dial
  <2>1. CASE Calling
    <3>1. running' > 0
      BY <1>a, <2>1 DEF Calling, ScreenOK
    <3> QED BY <3>1 DEF DialIsBounded
  <2>2. CASE \E news : ChangeWork(news)
    <3>1. Expiring => Expiring'
      BY <1>1 DEF Dial, Expiring, Queued
    <3> QED BY <2>2, <3>1, DialKept
  <2> QED BY <1>1, <2>1, <2>2 DEF Dial
<1>2. CASE CallingTimeout
  <2>1. queue' = Append(queue, Do("APP_ANSWER_TIMEOUT")) /\ Do("APP_ANSWER_TIMEOUT") \in Msg
    BY <1>2, MessagesOK DEF CallingTimeout, Request
  <2>2. Len(queue) + 1 \in DOMAIN queue' /\ queue'[Len(queue) + 1] = Do("APP_ANSWER_TIMEOUT")
    BY <1>a, <2>1, AppendOK
  <2> QED BY <1>b, <2>1, <2>2 DEF Queued, Expiry, Do
<1>3. CASE DisposeNotice
  BY <1>3 DEF DisposeNotice, DialIsBounded
<1>4. CASE \/ VideoCallPost \/ HangupKey \/ CloudStep \/ UNCHANGED vars
           \/ \E c \in Conn : PhoneStep(c)
  <2>1. Expiring => Expiring'
    BY <1>4, OthersAppend, QueuedKept DEF OtherStep, Expiring
  <2>2. UNCHANGED screen \/ \E news : ChangeWork(news)
    BY <1>4 DEF VideoCallPost, HangupKey, CloudStep, NetConnected, NetConnectFail,
       MotionAlarm, EventPushed,
       EventRefused, CallingFail, Serves, CallbackUnchanged, PhoneStep, on_connect,
       VideoPlay, VideoPause, TalkbackPlay, TalkbackPause, StateChangeByApp,
       VideoCallStart, VideoCallStop, PauseAllAv, vars
  <2> QED BY <2>1, <2>2, DialKept
<1>5. CASE Answer \/ Start
  <2>1. video_call_state' # "STARTING"
    BY <1>5 DEF Answer, Start, ChangeWork, StateAfter
  <2> QED BY <2>1 DEF DialIsBounded
<1>6. CASE AnswerTimeout
  <2>1. UNCHANGED screen
    BY <1>6 DEF AnswerTimeout, TellUnlessIdle
  <2>2. CASE video_call_state = "STARTING"
    <3>1. task' = Notify("calling_timeout", NoConn)
      BY <1>6, <2>2 DEF AnswerTimeout, TellUnlessIdle
    <3> QED BY <3>1 DEF DialIsBounded, Notify
  <2>3. CASE video_call_state # "STARTING"
    BY <2>1, <2>3 DEF DialIsBounded, screen
  <2> QED BY <2>2, <2>3
<1>7. CASE Refuse \/ Hangup \/ StopByPhone \/ StopByDevice
  <2>1. UNCHANGED screen
    BY <1>7 DEF Refuse, Hangup, StopByPhone, StopByDevice, TellUnlessIdle
  <2>2. PICK t \in {"APP_REFUSE", "DEVICE_HANGUP", "STOP_REFUSED", "STOP_HANGUP"} : Take(t)
    BY <1>7 DEF Refuse, Hangup, StopByPhone, StopByDevice
  <2>3. ~ (Head(queue) \in Expiry /\ Head(queue).type = t)
    BY <2>2 DEF Expiry
  <2>4. Expiring => Expiring'
    BY <2>2, <2>3, QueuedTaken DEF Expiring, Take, Pend
  <2> QED BY <2>1, <2>4, DialKept
<1>8. CASE HangupPost \/ StartDecoder \/ DropPeer
  <2>1. UNCHANGED screen /\ task.at # "notify"
    BY <1>8 DEF HangupPost, StartDecoder, DropPeer, Wait
  <2>2. queue' = queue \/ \E m \in Msg : queue' = Append(queue, m)
    <3>1. task.conn \in Conn \cup {NoConn}
      BY DEF TypeInv, QueueOK, Task
    <3> QED BY <1>8, <3>1, MessagesOK DEF HangupPost, StartDecoder, DropPeer
  <2>3. Expiring => Expiring'
    BY <2>1, <2>2, QueuedKept DEF Expiring
  <2> QED BY <2>1, <2>3, DialKept
<1>9. CASE Tell
  <2>1. ChangeWork(task.news) /\ queue' = queue
    BY <1>9 DEF Tell
  <2>2. CASE task.news = "calling_timeout"
    <3>1. video_call_state' # "STARTING"
      BY <1>a, <2>1, <2>2, NewsKeepsDial
    <3> QED BY <3>1 DEF DialIsBounded
  <2>3. CASE task.news # "calling_timeout"
    <3>1. Expiring => Expiring'
      BY <2>1, <2>3, QueuedKept DEF Expiring
    <3> QED BY <2>1, <3>1, DialKept
  <2> QED BY <2>2, <2>3
<1> QED BY <1>1, <1>2, <1>3, <1>4, <1>5, <1>6, <1>7, <1>8, <1>9, StepCases
        DEF TaskStep, OtherStep

\* A dial always has its end under way: a timer that runs, an expiry, or a
\* notice (video_rec.c calling_timeout_timer, net_video_dec_task).
THEOREM DialIsBoundedHolds == Spec => []DialIsBounded
<1>1. Init => DialIsBounded
  BY DEF Init, DialIsBounded
<1>2. TypeInv /\ TypeInv' /\ DialIsBounded /\ [Next]_vars => DialIsBounded'
  BY NextDialIsBounded
<1> QED BY <1>1, <1>2, AlwaysTypeInv, PTL DEF Spec

-----------------------------------------------------------------------------
(* The screen.                                                             *)

\* Whatever news the app is told, the screen changes as CallScreen allows.
LEMMA NewsChangesScreen ==
    ASSUME ScreenOK, NEW news, ChangeWork(news)
    PROVE  [Screen!Next]_video_call_state
<1>1. /\ video_call_state' = StateAfter(news, StateNow)
      /\ video_call_state \in CallState
      /\ StateNow \in {"IDLE", video_call_state}
  BY DEF ChangeWork, StateNow, ScreenOK
<1>2. CASE video_call_state' = "IDLE"
  BY <1>2 DEF Screen!Next, Screen!End
<1>3. CASE video_call_state' = StateNow
  BY <1>1, <1>3 DEF Screen!Next, Screen!End
<1>4. CASE video_call_state' = "TALKING"
  BY <1>1, <1>4 DEF CallState, Screen!Next, Screen!Answer, Screen!ShowPicture
<1>5. CASE video_call_state' = "TALKING_WITHOUT_VIDEO" /\ StateNow = "STARTING"
  BY <1>1, <1>5 DEF Screen!Next, Screen!Answer
<1> QED BY <1>1, <1>2, <1>3, <1>4, <1>5 DEF StateAfter

LEMMA NextScreen ==
    ASSUME TypeInv, [Next]_vars
    PROVE  [Screen!Next]_video_call_state
<1>a. ScreenOK
  BY DEF TypeInv
<1>1. CASE Dial
  <2>1. CASE Calling
    BY <1>1, <2>1 DEF Dial, Calling, Screen!Next, Screen!Dial
  <2>2. CASE \E news : ChangeWork(news)
    BY <1>a, <2>2, NewsChangesScreen
  <2> QED BY <1>1, <2>1, <2>2 DEF Dial
<1>2. CASE DisposeNotice
  BY <1>2 DEF DisposeNotice, Screen!Next, Screen!End
<1>3. CASE OtherStep /\ ~ Dial /\ ~ DisposeNotice
  <2>1. video_call_state' = video_call_state \/ \E news : ChangeWork(news)
    BY <1>3 DEF OtherStep, VideoCallPost, CallingTimeout, HangupKey, CloudStep,
       NetConnected, NetConnectFail, MotionAlarm, EventPushed,
       EventRefused, CallingFail, Serves,
       CallbackUnchanged, screen
  <2> QED BY <1>a, <2>1, NewsChangesScreen
<1>4. CASE TaskStep
  <2>1. video_call_state' = video_call_state \/ \E news : ChangeWork(news)
    BY <1>4 DEF TaskStep, Answer, Refuse, AnswerTimeout, Hangup, HangupPost, Start,
       StartDecoder, StopByPhone, StopByDevice, Tell, DropPeer, TellUnlessIdle, screen
  <2> QED BY <1>a, <2>1, NewsChangesScreen
<1>5. CASE (\E c \in Conn : PhoneStep(c)) \/ UNCHANGED vars
  BY <1>5 DEF PhoneStep, on_connect, VideoPlay, VideoPause, TalkbackPlay, TalkbackPause,
     StateChangeByApp, VideoCallStart, VideoCallStop, PauseAllAv, CallbackUnchanged, vars,
     screen
<1> QED BY <1>1, <1>2, <1>3, <1>4, <1>5, StepCases DEF OtherStep

\* Seen from the user, the call with all its threads, timers and messages is
\* the machine of CallScreen (video_call_state of ui_action_rec.c).
THEOREM CallImplementsScreen == Spec => ImplementsScreen
<1>1. Init => Screen!Init
  BY DEF Init, Screen!Init
<1>2. TypeInv /\ [Next]_vars => [Screen!Next]_video_call_state
  BY NextScreen
<1> QED BY <1>1, <1>2, AlwaysTypeInv, PTL DEF Spec, ImplementsScreen, Screen!Spec

-----------------------------------------------------------------------------
(* The number of timers.                                                   *)

Expiries == {i \in DOMAIN queue : queue[i].type = "APP_ANSWER_TIMEOUT"}

TimersBounded == TimersInFlight <= MaxTimers

LEMMA InFlight ==
    ASSUME queue \in Seq(Msg)
    PROVE  /\ TimersInFlight = running + Cardinality(Expiries)
           /\ IsFiniteSet(Expiries) /\ Cardinality(Expiries) \in Nat
           /\ DOMAIN queue = 1..Len(queue) /\ Len(queue) \in Nat
<1>1. DOMAIN queue = 1..Len(queue) /\ Len(queue) \in Nat
  OBVIOUS
<1>2. IsFiniteSet(1..Len(queue))
  BY <1>1, FS_Interval
<1>3. IsFiniteSet(Expiries)
  BY <1>1, <1>2, FS_Subset DEF Expiries
<1> QED BY <1>1, <1>3, FS_CardinalityType DEF TimersInFlight, Expiries

\* A message that is added is an expiry more, or none.
LEMMA AppendExpiries ==
    ASSUME queue \in Seq(Msg), queue' \in Seq(Msg), NEW m \in Msg, queue' = Append(queue, m)
    PROVE  Cardinality(Expiries') = IF m.type = "APP_ANSWER_TIMEOUT"
                                    THEN Cardinality(Expiries) + 1 ELSE Cardinality(Expiries)
<1>1. /\ DOMAIN queue' = 1..(Len(queue) + 1) /\ DOMAIN queue = 1..Len(queue)
      /\ Len(queue) \in Nat
      /\ \A i \in DOMAIN queue : queue'[i] = queue[i]
      /\ queue'[Len(queue) + 1] = m
  BY AppendOK
<1>2. CASE m.type = "APP_ANSWER_TIMEOUT"
  <2>1. Expiries' = Expiries \cup {Len(queue) + 1} /\ Len(queue) + 1 \notin Expiries
    BY <1>1, <1>2 DEF Expiries
  <2> QED BY <1>2, <2>1, InFlight, FS_AddElement
<1>3. CASE m.type # "APP_ANSWER_TIMEOUT"
  <2>1. Expiries' = Expiries
    BY <1>1, <1>3 DEF Expiries
  <2> QED BY <1>3, <2>1
<1> QED BY <1>2, <1>3

\* A message that is taken adds none.
LEMMA TakeExpiries ==
    ASSUME queue \in Seq(Msg), queue' \in Seq(Msg), NEW t, Take(t)
    PROVE  Cardinality(Expiries') <= Cardinality(Expiries)
<1> DEFINE f == [i \in Expiries' |-> i + 1]
<1>1. \A i \in DOMAIN queue' : i + 1 \in DOMAIN queue /\ queue'[i] = queue[i + 1]
  BY TakeOK
<1>2. f \in [Expiries' -> Expiries]
  BY <1>1 DEF Expiries
<1>3. \A i, j \in Expiries' : f[i] = f[j] => i = j
  BY DEF Expiries
<1>4. f \in Injection(Expiries', Expiries)
  BY <1>2, <1>3 DEF Injection, IsInjective
<1> QED BY <1>4, InFlight, FS_Injection

LEMMA InFlightNext ==
    (queue \in Seq(Msg))' => /\ (TimersInFlight = running + Cardinality(Expiries))'
                            /\ (Cardinality(Expiries) \in Nat)'
<1>1. queue \in Seq(Msg) => /\ TimersInFlight = running + Cardinality(Expiries)
                           /\ Cardinality(Expiries) \in Nat
  BY InFlight
<1> QED BY <1>1, PTL

\* A step that starts no timer and adds no expiry adds nothing in flight.
LEMMA TimersKept ==
    ASSUME TypeInv, TypeInv', TimersBounded, running' <= running,
           Cardinality(Expiries') <= Cardinality(Expiries)
    PROVE  TimersBounded'
<1>1. queue \in Seq(Msg) /\ queue' \in Seq(Msg) /\ running \in Nat /\ running' \in Nat
  BY DEF TypeInv, QueueOK, ScreenOK
<1>2. /\ TimersInFlight = running + Cardinality(Expiries) /\ Cardinality(Expiries) \in Nat
      /\ TimersInFlight' = running' + Cardinality(Expiries')
      /\ Cardinality(Expiries') \in Nat
  BY <1>1, InFlight, InFlightNext
<1> QED BY <1>1, <1>2, BoundAssumption DEF TimersBounded

LEMMA NextTimersBounded ==
    ASSUME TypeInv, TypeInv', TimersBounded, [Next]_vars
    PROVE  TimersBounded'
<1>a. /\ queue \in Seq(Msg) /\ queue' \in Seq(Msg) /\ ScreenOK
      /\ running \in Nat /\ running' \in Nat
  BY DEF TypeInv, QueueOK, ScreenOK
<1>b. /\ TimersInFlight = running + Cardinality(Expiries) /\ Cardinality(Expiries) \in Nat
      /\ TimersInFlight' = running' + Cardinality(Expiries')
      /\ Cardinality(Expiries') \in Nat
  BY <1>a, InFlight, InFlightNext
<1>1. CASE Dial /\ Calling
  <2>1. CASE TimersInFlight < MaxTimers
    <3>1. queue' = queue /\ running' = running + 1
      BY <1>1 DEF Dial, Calling
    <3>2. Expiries' = Expiries
      BY <3>1 DEF Expiries
    <3> QED BY <1>a, <1>b, <2>1, <3>1, <3>2, BoundAssumption DEF TimersBounded
  <2>2. CASE ~ (TimersInFlight < MaxTimers)
    <3>1. \E news : ChangeWork(news)
      BY <1>1, <2>2 DEF Dial
    <3>2. running' <= running /\ queue' = queue
      BY <1>1, <1>a, <3>1, ChangeWorkOK DEF Dial
    <3>3. Expiries' = Expiries
      BY <3>2 DEF Expiries
    <3> QED BY <1>b, <3>2, <3>3, TimersKept
  <2> QED BY <2>1, <2>2
<1>2. CASE CallingTimeout
  <2>1. /\ queue' = Append(queue, Do("APP_ANSWER_TIMEOUT")) /\ Do("APP_ANSWER_TIMEOUT") \in Msg
        /\ running' = running - 1
    BY <1>2, MessagesOK DEF CallingTimeout, Request
  <2>2. Cardinality(Expiries') = Cardinality(Expiries) + 1
    BY <1>a, <2>1, AppendExpiries DEF Do
  <2> QED BY <1>a, <1>b, <2>1, <2>2, BoundAssumption DEF TimersBounded
<1>3. CASE \/ Dial /\ ~ Calling
           \/ OtherStep /\ ~ Dial /\ ~ CallingTimeout
           \/ TaskStep \/ UNCHANGED vars \/ \E c \in Conn : PhoneStep(c)
  <2>1. running' <= running
    <3>1. running' = running \/ \E news : ChangeWork(news)
      <4>1. CASE TaskStep \/ UNCHANGED vars
        BY <4>1 DEF TaskStep, Answer, Refuse, AnswerTimeout, Hangup, HangupPost, Start,
           StartDecoder, StopByPhone, StopByDevice, Tell, DropPeer, TellUnlessIdle, screen,
           timers, vars
      <4>2. CASE \E c \in Conn : PhoneStep(c)
        BY <4>2 DEF PhoneStep, on_connect, VideoPlay, VideoPause, TalkbackPlay,
           TalkbackPause, StateChangeByApp, VideoCallStart, VideoCallStop, PauseAllAv,
           CallbackUnchanged, screen, timers
      <4>3. CASE Dial /\ ~ Calling
        BY <4>3 DEF Dial
      <4>4. CASE OtherStep /\ ~ Dial /\ ~ CallingTimeout
        BY <4>4 DEF OtherStep, VideoCallPost, DisposeNotice, HangupKey, CloudStep,
           NetConnected, NetConnectFail, MotionAlarm, EventPushed,
           EventRefused, CallingFail, Serves,
           CallbackUnchanged, screen, timers
      <4> QED BY <1>3, <4>1, <4>2, <4>3, <4>4
    <3>2. CASE running' = running
      BY <1>a, <3>2
    <3>3. CASE \E news : ChangeWork(news)
      BY <1>a, <3>3, ChangeWorkOK
    <3> QED BY <3>1, <3>2, <3>3
  <2>2. \/ queue' = queue
        \/ \E m \in Msg : queue' = Append(queue, m) /\ m.type # "APP_ANSWER_TIMEOUT"
        \/ \E t : Take(t)
    <3>1. CASE TaskStep
      <4>1. task.conn \in Conn \cup {NoConn}
        BY DEF TypeInv, QueueOK, Task
      <4> QED BY <3>1, <4>1, MessagesOK DEF TaskStep, Answer, Refuse, AnswerTimeout, Hangup,
              HangupPost, Start, StartDecoder, StopByPhone, StopByDevice, Tell, DropPeer,
              StopHangup
    <3>2. CASE \E c \in Conn : PhoneStep(c)
      <4>1. PICK c \in Conn : PhoneStep(c)
        BY <3>2
      <4>2. \/ queue' = queue
            \/ queue' = Append(queue, StopRefused(c))
            \/ \E m \in {"APP_ANSWER", "APP_REFUSE"} : queue' = Append(queue, Do(m))
        BY <4>1 DEF PhoneStep, on_connect, VideoPlay, VideoPause, TalkbackPlay, TalkbackPause,
           StateChangeByApp, VideoCallStart, VideoCallStop, PauseAllAv, Post,
           clean_rt_talk_info
      <4> QED BY <4>2, MessagesOK DEF Request, Do, StopRefused
    <3>3. CASE UNCHANGED vars
      BY <3>3 DEF vars
    <3>4. CASE Dial
      BY <3>4 DEF Dial
    <3>5. CASE OtherStep /\ ~ Dial /\ ~ CallingTimeout
      <4>1. \/ queue' = queue
            \/ \E m \in {"APP_START_VIDEO_CALL", "DEVICE_HANGUP"} : queue' = Append(queue, Do(m))
        BY <3>5 DEF OtherStep, VideoCallPost, DisposeNotice, HangupKey, Post, CloudStep,
           NetConnected, NetConnectFail, MotionAlarm, EventPushed,
           EventRefused, CallingFail, Serves
      <4> QED BY <4>1, MessagesOK DEF Request, Do
    <3> QED BY <1>3, <3>1, <3>2, <3>3, <3>4, <3>5
  <2>3. Cardinality(Expiries') <= Cardinality(Expiries)
    <3>1. CASE queue' = queue
      <4>1. Expiries' = Expiries
        BY <3>1 DEF Expiries
      <4> QED BY <1>b, <4>1
    <3>2. CASE \E m \in Msg : queue' = Append(queue, m) /\ m.type # "APP_ANSWER_TIMEOUT"
      <4>1. Cardinality(Expiries') = Cardinality(Expiries)
        BY <1>a, <3>2, AppendExpiries
      <4> QED BY <1>b, <4>1
    <3>3. CASE \E t : Take(t)
      BY <1>a, <3>3, TakeExpiries
    <3> QED BY <2>2, <3>1, <3>2, <3>3
  <2> QED BY <2>1, <2>3, TimersKept
<1> QED BY <1>1, <1>2, <1>3, StepCases DEF OtherStep

LEMMA InitTimersBounded ==
    ASSUME Init
    PROVE  TimersBounded
<1>1. running = 0 /\ DOMAIN queue = {} /\ queue \in Seq(Msg)
  BY DEF Init
<1>2. Expiries = {}
  BY <1>1 DEF Expiries
<1>3. Cardinality(Expiries) = 0
  BY <1>2, FS_EmptySet
<1> QED BY <1>1, <1>3, InFlight, BoundAssumption DEF TimersBounded

\* Every variable keeps its type; in particular no timer is deleted twice, and
\* no more of them run than were started (video_rec.c calling_timeout_timer).
THEOREM TypeCorrect == Spec => []TypeOK
<1>1. Init => TimersBounded
  BY InitTimersBounded
<1>2. TypeInv /\ TypeInv' /\ TimersBounded /\ [Next]_vars => TimersBounded'
  BY NextTimersBounded
<1>3. TypeInv /\ TimersBounded => TypeOK
  <2> SUFFICES ASSUME TypeInv, TimersBounded PROVE TypeOK
    OBVIOUS
  <2>1. queue \in Seq(Msg) /\ running \in Nat
    BY DEF TypeInv, QueueOK, ScreenOK
  <2>2. running \in 0..MaxTimers
    BY <2>1, InFlight, BoundAssumption DEF TimersBounded
  <2> QED BY <2>2 DEF TypeOK, TypeInv, WellFormed, ScreenOK, QueueOK, SdkOK, RestOK
<1> QED BY <1>1, <1>2, <1>3, AlwaysTypeInv, PTL DEF Spec
=============================================================================
