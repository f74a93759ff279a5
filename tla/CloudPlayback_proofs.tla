------------------------ MODULE CloudPlayback_proofs ------------------------
(***************************************************************************)
(* What holds of playback for every number of connections, sessions, files *)
(* and frames: no task outlives its session, and the list of files, on     *)
(* which the sessions work, keeps the invariant of PlaybackList_proofs.    *)
(***************************************************************************)
EXTENDS CloudPlayback, PlaybackList_proofs

\* The list names sessions, and the thread of the SDK has one exactly while it is
\* inside a callback.
Owned ==
    /\ session = [n \in Sessions |-> session[n]]
    /\ playing \in Seq(Sessions)
    /\ sdk.at = "idle" => sdk.of = 0
    /\ sdk.at # "idle" => sdk.of \in Sessions

IInv == Owned /\ TaskHasItsSession

-----------------------------------------------------------------------------
(* The steps. *)

LEMMA InitHolds == Init => IInv
  <1> SUFFICES ASSUME Init PROVE IInv
    OBVIOUS
  <1>1. Owned
    <2>1. session = [n \in Sessions |-> session[n]]
      BY DEF Init
    <2>2. playing \in Seq(Sessions) /\ sdk.at = "idle" /\ sdk.of = 0
      BY DEF Init, Idle
    <2> QED  BY <2>1, <2>2 DEF Owned
  <1>2. TaskHasItsSession
    <2>1. \A n \in Sessions : session[n].at \in NoTask
      BY DEF Init, Free, NoTask
    <2>2. IsInjective(playing) /\ ToSet(playing) = {}
      BY DEF Init, IsInjective, ToSet
    <2> QED  BY <2>1, <2>2 DEF TaskHasItsSession
  <1> QED  BY <1>1, <1>2 DEF IInv

\* What a kill takes from the list it keeps for the thread of the SDK.
LEMMA UninitStep ==
    ASSUME IInv, NEW c, sdk.at = "idle", Uninit(c)
    PROVE  IInv'
  <1> DEFINE of_c == {i \in DOMAIN playing : session[playing[i]].conn = c}
             i == Min(of_c)
             n == playing[i]
  <1>1. CASE of_c = {} /\ UNCHANGED <<session, playing, sdk>>
    BY <1>1 DEF IInv, Owned, TaskHasItsSession, Allocated, Sessions, NoTask
  <1>2. CASE of_c # {} /\ ~ UNCHANGED <<session, playing, sdk>>
    <2>1. /\ session' = [session EXCEPT ![n].kill = TRUE]
          /\ playing' = RemoveAt(playing, i)
          /\ sdk' = [at |-> "kill", conn |-> c, of |-> n]
      BY <1>2 DEF Uninit
    <2>2. i \in DOMAIN playing
      <3>1. of_c \subseteq Nat
        BY DEF IInv, Owned
      <3>2. i \in of_c
        BY <1>2, <3>1, FirstOf
      <3> QED  BY <3>2
    <2> HIDE DEF i
    <2>3. n \in Sessions /\ n \in ToSet(playing)
      BY <2>2 DEF IInv, Owned, ToSet
    <2>4. /\ playing' \in Seq(Sessions) /\ IsInjective(playing')
          /\ ToSet(playing') = ToSet(playing) \ {n}
      BY <2>1, <2>2, RemoveAtElements, RemoveAtOthers DEF IInv, Owned, TaskHasItsSession
    <2> HIDE DEF n
    <2>5. sdk'.at = "kill" /\ sdk'.of = n
      BY <2>1
    <2>6. Owned'
      <3>1. session' = [m \in Sessions |-> session'[m]]
        BY <2>1, <2>3 DEF IInv, Owned, Sessions
      <3> QED  BY <3>1, <2>3, <2>4, <2>5 DEF Owned, Sessions
    <2>7. Allocated' = ToSet(playing)
      BY <2>3, <2>4, <2>5 DEF Allocated, Sessions
    <2>8. sdk.of = 0 /\ Allocated = ToSet(playing)
      BY DEF IInv, Owned, Allocated
    <2>9. ASSUME NEW m \in Sessions, session'[m].at \notin NoTask PROVE m \in ToSet(playing)
      <3>1. CASE m = n
        BY <3>1, <2>3
      <3>2. CASE m # n
        BY <3>2, <2>1, <2>8, <2>9 DEF IInv, Owned, TaskHasItsSession
      <3> QED  BY <3>1, <3>2
    <2> QED  BY <2>4, <2>5, <2>6, <2>7, <2>9 DEF IInv, TaskHasItsSession, Sessions, NoTask
  <1> QED  BY <1>1, <1>2 DEF Uninit

\* A task that has a session goes on or ends.
LEMMA TaskStep ==
    ASSUME IInv, NEW n \in Sessions, session[n].at \notin NoTask, NEW p, Task(n, p)
    PROVE  IInv'
  <1>1. /\ session' = [session EXCEPT ![n] = p]
        /\ playing' = playing /\ sdk' = sdk
    BY DEF Task
  <1>2. n \in Allocated
    BY DEF IInv, TaskHasItsSession
  <1>3. Owned'
    <2>1. session' = [m \in Sessions |-> session'[m]]
      BY <1>1 DEF IInv, Owned, Sessions
    <2> QED  BY <2>1, <1>1 DEF IInv, Owned, Sessions
  <1>4. Allocated' = Allocated
    BY <1>1 DEF Allocated
  <1>5. ASSUME NEW m \in Sessions, session'[m].at \notin NoTask PROVE m \in Allocated
    <2>1. CASE m = n
      BY <2>1, <1>2
    <2>2. CASE m # n
      BY <2>2, <1>1, <1>5 DEF IInv, Owned, TaskHasItsSession
    <2> QED  BY <2>1, <2>2
  <1> QED  BY <1>1, <1>3, <1>4, <1>5 DEF IInv, TaskHasItsSession, Sessions, NoTask

LEMMA CallbackStep ==
    ASSUME IInv,
           \/ SdkNext
           \/ \E c \in Conns, t \in Times, by_file \in BOOLEAN : HistoryPlay(c, t, by_file)
           \/ \E c \in Conns : HistoryPause(c) \/ ConnClosed(c) \/ ConnIdle(c) \/ ConnOpened(c)
    PROVE  IInv'
  <1>1. ASSUME NEW c \in Conns, NEW t \in Times, NEW by_file \in BOOLEAN, HistoryPlay(c, t, by_file)
        PROVE  IInv'
    <2>1. PICK n \in Sessions \ Allocated :
              /\ session' = [session EXCEPT ![n] =
                    [Free EXCEPT !.at = "name", !.conn = c, !.by_file = by_file, !.time = t]]
              /\ sdk' = [at |-> "list", conn |-> c, of |-> n]
      BY <1>1 DEF HistoryPlay
    <2>2. sdk.at = "idle" /\ playing' = playing
      BY <1>1 DEF HistoryPlay
    <2>3. sdk'.at = "list" /\ sdk'.of = n /\ n \in Sessions
      BY <2>1
    <2>4. Owned'
      <3>1. session' = [m \in Sessions |-> session'[m]]
        BY <2>1 DEF IInv, Owned, Sessions
      <3> QED  BY <3>1, <2>2, <2>3 DEF IInv, Owned, Sessions
    <2>5. sdk.of = 0 /\ Allocated = ToSet(playing) /\ Allocated' = ToSet(playing) \cup {n}
      BY <2>2, <2>3 DEF IInv, Owned, Allocated, Sessions
    <2>6. ASSUME NEW m \in Sessions, session'[m].at \notin NoTask PROVE m \in Allocated'
      <3>1. CASE m = n
        BY <3>1, <2>5
      <3>2. CASE m # n
        BY <3>2, <2>1, <2>5, <2>6 DEF IInv, Owned, TaskHasItsSession
      <3> QED  BY <3>1, <3>2
    <2>7. IsInjective(playing)' /\ (sdk.of \notin ToSet(playing))'
      BY <2>1, <2>2, <2>3, <2>5 DEF IInv, TaskHasItsSession
    <2> QED  BY <2>4, <2>6, <2>7 DEF IInv, TaskHasItsSession, Sessions, NoTask
  <1>2. CASE PlayListed
    <2>1. /\ playing' = Append(playing, sdk.of) /\ session' = session
          /\ sdk'.of = 0 /\ sdk'.at = "idle" /\ sdk.of \in Sessions
      BY <1>2 DEF PlayListed, Idle, IInv, Owned
    <2>2. /\ playing' \in Seq(Sessions) /\ IsInjective(playing')
          /\ ToSet(playing') = ToSet(playing) \cup {sdk.of}
      BY <2>1, AppendOthers DEF IInv, Owned, TaskHasItsSession
    <2>3. Owned'
      BY <2>1, <2>2 DEF IInv, Owned, Sessions
    <2>4. Allocated' = Allocated
      BY <2>1, <2>2 DEF Allocated, Sessions
    <2>5. 0 \notin ToSet(playing')
      <3>1. 0 \notin ToSet(playing)
        BY DEF IInv, Owned, ToSet, Sessions
      <3> QED  BY <3>1, <2>1, <2>2 DEF Sessions
    <2> QED  BY <2>1, <2>2, <2>3, <2>4, <2>5 DEF IInv, TaskHasItsSession, Sessions, NoTask
  <1>3. CASE Killed
    <2>1. /\ playing' = playing /\ session' = [session EXCEPT ![sdk.of] = Free]
          /\ sdk'.of = 0 /\ sdk'.at = "idle" /\ sdk.of \in Sessions
      BY <1>3 DEF Killed, Idle, IInv, Owned
    <2>2. Owned'
      <3>1. session' = [m \in Sessions |-> session'[m]]
        BY <2>1 DEF IInv, Owned, Sessions
      <3> QED  BY <3>1, <2>1 DEF IInv, Owned, Sessions
    <2>3. Allocated = ToSet(playing) \cup {sdk.of} /\ Allocated' = ToSet(playing)
      BY <2>1 DEF Allocated, Sessions
    <2>4. ASSUME NEW m \in Sessions, session'[m].at \notin NoTask PROVE m \in Allocated'
      <3>1. session'[sdk.of].at = "none"
        BY <2>1 DEF IInv, Owned, Free
      <3>2. m # sdk.of
        BY <3>1, <2>4 DEF NoTask
      <3> QED  BY <3>2, <2>1, <2>3, <2>4 DEF IInv, Owned, TaskHasItsSession
    <2>5. 0 \notin ToSet(playing)
      BY DEF IInv, Owned, ToSet, Sessions
    <2> QED  BY <2>1, <2>2, <2>4, <2>5 DEF IInv, TaskHasItsSession, Sessions, NoTask
  <1>4. ASSUME NEW c \in Conns, HistoryPause(c) \/ ConnClosed(c) \/ ConnIdle(c) PROVE IInv'
    <2>1. sdk.at = "idle" /\ Uninit(c)
      BY <1>4 DEF HistoryPause, ConnClosed, ConnIdle
    <2> QED  BY <2>1, UninitStep
  <1>5. ASSUME NEW c \in Conns, ConnOpened(c) PROVE IInv'
    BY <1>5 DEF ConnOpened, IInv, Owned, TaskHasItsSession, Allocated, Sessions, NoTask
  <1> QED  BY <1>1, <1>2, <1>3, <1>4, <1>5 DEF SdkNext

LEMMA TaskNextStep == ASSUME IInv, NEW n \in Sessions, TaskNext(n) PROVE IInv'
  <1>1. session[n].at \in {"name", "send", "walk"}
    BY DEF TaskNext, TaskBegins, TaskSends, WalkLooks, WalkEnds
  <1>2. \E p : Task(n, p)
    <2>1. ASSUME NEW q, NEW f, NEW frames, Opens(n, q, f, frames) PROVE \E p : Task(n, p)
      BY <2>1 DEF Opens
    <2>2. CASE TaskBegins(n)
      BY <2>1, <2>2 DEF TaskBegins
    <2>3. CASE TaskSends(n)
      BY <2>3 DEF TaskSends
    <2>4. CASE WalkLooks(n)
      BY <2>1, <2>4 DEF WalkLooks, PlaysNext
    <2>5. CASE WalkEnds(n)
      BY <2>1, <2>5 DEF WalkEnds, PlaysNext
    <2> QED  BY <2>2, <2>3, <2>4, <2>5 DEF TaskNext
  <1> QED  BY <1>1, <1>2, TaskStep DEF NoTask

LEMMA StepHolds == IInv /\ [Next]_vars => IInv'
  <1> SUFFICES ASSUME IInv, [Next]_vars PROVE IInv'
    OBVIOUS
  <1>1. ASSUME UNCHANGED playVars PROVE IInv'
    BY <1>1 DEF playVars, IInv, Owned, TaskHasItsSession, Allocated, Sessions, NoTask
  <1>2. ASSUME NEW req, HistoryDel(req) PROVE IInv'
    BY <1>1, <1>2 DEF HistoryDel
  <1>3. UNCHANGED vars => UNCHANGED playVars
    BY DEF vars
  <1> QED  BY <1>1, <1>2, <1>3, CallbackStep, TaskNextStep DEF Next

\* The requests of a phone leave the list of files to its own steps, but for what
\* they delete and the bound on the playbacks.
LEMMA ListStepHolds == ListInv /\ [Next]_vars => ListInv'
  <1> SUFFICES ASSUME ListInv, [Next]_vars PROVE ListInv'
    OBVIOUS
  <1>1. ASSUME UNCHANGED listVars PROVE ListInv'
    <2>1. budget' \in [Counts -> Nat]
      BY <1>1 DEF listVars, ListInv, Typed
    <2> QED  BY <1>1, <2>1, ListStays DEF listVars
  <1>2. ASSUME NEW c \in Conns, NEW t \in Times, NEW by_file \in BOOLEAN, HistoryPlay(c, t, by_file)
        PROVE  ListInv'
    <2>1. budget' \in [Counts -> Nat]
      BY <1>2 DEF HistoryPlay, ListInv, Typed, Counts
    <2> QED  BY <1>2, <2>1, ListStays DEF HistoryPlay
  <1>3. ASSUME NEW c \in Conns, HistoryPause(c) \/ ConnClosed(c) \/ ConnIdle(c) \/ ConnOpened(c)
        PROVE  ListInv'
    BY <1>1, <1>3 DEF HistoryPause, ConnClosed, ConnIdle, ConnOpened
  <1>4. ASSUME NEW f \in Times, HistoryDel(<<f>>) PROVE ListInv'
    <2>1. <<f>>[1] \in Times
      OBVIOUS
    <2> QED  BY <1>4, <2>1, RemoveStep DEF HistoryDel
  <1>5. ASSUME NEW f \in Times, NEW g \in Times, HistoryDel(<<f, g>>) PROVE ListInv'
    <2>1. <<f, g>>[1] \in Times
      OBVIOUS
    <2> QED  BY <1>5, <2>1, RemoveStep DEF HistoryDel
  <1>6. CASE SdkNext
    BY <1>1, <1>6 DEF SdkNext, PlayListed, Killed
  <1>7. ASSUME NEW n \in Sessions, TaskNext(n) PROVE ListInv'
    <2>1. ASSUME NEW q, NEW f, NEW frames, Opens(n, q, f, frames) PROVE UNCHANGED listVars
      BY <2>1 DEF Opens, Task
    <2>2. UNCHANGED listVars
      BY <1>7, <2>1 DEF TaskNext, TaskBegins, TaskSends, WalkLooks, WalkEnds, PlaysNext, Task
    <2> QED  BY <2>2, <1>1
  <1>8. CASE UNCHANGED vars
    BY <1>1, <1>8 DEF vars
  <1> QED  BY <1>2, <1>3, <1>4, <1>5, <1>6, <1>7, <1>8, ListNextStep DEF Next

LEMMA ListIsKept == Spec => []ListInv
  <1>1. Init => ListInv
    BY ListInitHolds DEF Init
  <1> QED  BY <1>1, ListStepHolds, PTL DEF Spec

-----------------------------------------------------------------------------
\* cloud_playback_uninit frees a session only when its task has ended: a task never
\* runs on freed memory, and no session is listed twice or both listed and in the
\* hands of a callback.
THEOREM SessionsAreKept == Spec => []TaskHasItsSession
  <1>1. IInv => TaskHasItsSession
    BY DEF IInv
  <1> QED  BY <1>1, InitHolds, StepHolds, PTL DEF Spec

-----------------------------------------------------------------------------
(* Types. *)

\* What find_next_file may stand on.
Nodes == Slots \cup {DayHead(d) : d \in Days}

SessionType ==
    [at : {"none", "name", "send", "walk", "ended"}, conn : Conns, by_file : BOOLEAN,
     kill : BOOLEAN, time : Times, path : Times \cup {NoTime}, next_path : Times \cup {NoTime},
     left : 0..Frames, pos : Nodes \cup {0}, ahead : Nodes \cup {0}]

PlayTyped ==
    /\ conn \in [Conns -> {"open", "closed", "none"}]
    /\ session \in [Sessions -> SessionType]
    /\ \A n \in Sessions : session[n].at = "walk" => {session[n].pos, session[n].ahead} \subseteq Nodes
    /\ sdk \in [at : {"idle", "list", "kill"}, conn : Conns, of : 0..NSessions]
    /\ next_flag \in BOOLEAN

LEMMA DaysAreNumbers == Days \subseteq 0..LastTime /\ Days # {}
  <1> DEFINE day == PerMinute * PerHour * PerDay
  <1>1. day \in Nat \ {0}
    BY Clock
  <1> HIDE DEF day
  <1>2. ASSUME NEW t \in Times PROVE t \div day \in 0..LastTime
    <2>1. t \in Nat /\ t <= LastTime /\ LastTime \in Nat
      BY Bounds DEF Times
    <2>2. t \div day \in Nat /\ t % day \in Nat /\ t = day * (t \div day) + (t % day)
      BY <1>1, <2>1, DivMod
    <2>3. t \div day <= t
      <3> DEFINE q == t \div day
                 x == t % day
      <3>1. q \in Nat /\ x \in Nat /\ t = day * q + x
        BY <2>2
      <3> HIDE DEF q, x
      <3>2. day * q >= q
        <4>1. (day - 1) * q >= 0
          BY <1>1, <3>1
        <4>2. (day - 1) * q = day * q - q
          BY <1>1, <3>1
        <4>3. day * q \in Int
          BY <1>1, <3>1
        <4> QED  BY <4>1, <4>2, <4>3, <3>1
      <3>3. day * q \in Int
        BY <1>1, <3>1
      <3> QED  BY <3>1, <3>2, <3>3, <2>1 DEF q
    <2> QED  BY <2>1, <2>2, <2>3
  <1>3. 0 \in Times
    BY Bounds DEF Times
  <1> QED  BY <1>2, <1>3 DEF Days, Day, day

LEMMA NodesAreNumbers ==
    /\ Nodes \cup {0} \subseteq 0..DayHead(Max(Days))
    /\ \A d \in Days : DayHead(d) \in Nodes
    /\ \A x \in Nodes : x <= NSlots => x \in Slots
    /\ \A x \in Nodes : x > NSlots => x - NSlots - 1 \in Days
  <1>1. NSlots \in Nat \ {0} /\ Slots = 1..NSlots /\ Days \subseteq Nat
    BY Clock, DaysAreNumbers DEF Slots
  <1> DEFINE top == Max(Days)
  <1>2. top \in Nat /\ \A d \in Days : d <= top
    BY <1>1, DaysAreNumbers, LastOf, Bounds
  <1> HIDE DEF top
  <1>3. ASSUME NEW x \in Nodes PROVE x \in Slots \/ \E d \in Days : x = NSlots + 1 + d
    BY DEF Nodes, DayHead
  <1>4. \A d \in Days : NSlots + 1 + d \in 0..(NSlots + 1 + top)
    BY <1>1, <1>2
  <1>5. Nodes \cup {0} \subseteq 0..DayHead(Max(Days))
    <2>1. Slots \subseteq 0..(NSlots + 1 + top) /\ 0 \in 0..(NSlots + 1 + top)
      BY <1>1, <1>2
    <2>2. DayHead(Max(Days)) = NSlots + 1 + top
      BY DEF DayHead, top
    <2> QED  BY <2>1, <2>2, <1>3, <1>4
  <1>6. \A x \in Nodes : x <= NSlots => x \in Slots
    BY <1>1, <1>3
  <1>7. \A x \in Nodes : x > NSlots => x - NSlots - 1 \in Days
    BY <1>1, <1>3
  <1> QED  BY <1>5, <1>6, <1>7 DEF Nodes

\* The walk goes from entry to entry or to the head of a day.
LEMMA BeforeIsNode == ASSUME ListInv, NEW x \in Nodes PROVE Before(x) \in Nodes
  <1>1. \A d \in Days : day_list[d] \in Seq(Slots)
    BY DEF ListInv, Linked
  <1>2. Slots \subseteq Nodes
    BY DEF Nodes
  <1>3. CASE x > NSlots
    <2> DEFINE list == day_list[x - NSlots - 1]
    <2>1. list \in Seq(Slots)
      BY <1>1, <1>3, NodesAreNumbers
    <2>2. list # <<>> => list[Len(list)] \in Slots
      BY <2>1
    <2> QED  BY <2>2, <1>2, <1>3 DEF Before
  <1>4. CASE ~ x > NSlots /\ x \notin Listed
    BY <1>4 DEF Before
  <1>5. CASE ~ x > NSlots /\ x \in Listed
    <2> DEFINE d == CHOOSE d \in Days : x \in ToSet(day_list[d])
               i == CHOOSE i \in DOMAIN day_list[d] : day_list[d][i] = x
    <2>1. d \in Days /\ x \in ToSet(day_list[d])
      BY <1>5 DEF Listed
    <2> HIDE DEF d
    <2>2. i \in DOMAIN day_list[d]
      BY <2>1 DEF ToSet
    <2> HIDE DEF i
    <2>3. DayHead(d) \in Nodes
      BY <2>1, NodesAreNumbers
    <2>4. i # 1 => day_list[d][i - 1] \in Slots
      <3>1. day_list[d] \in Seq(Slots)
        BY <1>1, <2>1
      <3> QED  BY <2>2, <3>1
    <2>5. Before(x) = IF i = 1 THEN DayHead(d) ELSE day_list[d][i - 1]
      BY <1>5 DEF Before, i, d
    <2> QED  BY <2>3, <2>4, <2>5, <1>2
  <1> QED  BY <1>3, <1>4, <1>5

LEMMA FreeIsTyped == Free \in SessionType /\ Idle \in [at : {"idle", "list", "kill"}, conn : Conns, of : 0..NSessions]
  <1>1. (CHOOSE c \in Conns : TRUE) \in Conns
    BY SessionBounds
  <1>2. 0 \in Times /\ 0 \in 0..Frames /\ 0 \in 0..NSessions
    BY Bounds, SessionBounds DEF Times
  <1> QED  BY <1>1, <1>2 DEF Free, Idle, SessionType

LEMMA TaskTyped ==
    ASSUME PlayTyped, NEW n \in Sessions, NEW p \in SessionType, Task(n, p),
           p.at = "walk" => {p.pos, p.ahead} \subseteq Nodes, next_flag' \in BOOLEAN
    PROVE  PlayTyped'
  <1>1. session' = [session EXCEPT ![n] = p] /\ UNCHANGED <<conn, playing, sdk>>
    BY DEF Task
  <1>2. session' \in [Sessions -> SessionType] /\ \A m \in Sessions : session'[m] = IF m = n THEN p ELSE session[m]
    BY <1>1 DEF PlayTyped
  <1> QED  BY <1>1, <1>2 DEF PlayTyped, Nodes, DayHead, Sessions

LEMMA OpensTyped ==
    ASSUME PlayTyped, ListInv, NEW n \in Sessions, NEW p \in SessionType, NEW f, NEW frames,
           frames \subseteq 0..Frames, Opens(n, p, f, frames), next_flag' \in BOOLEAN
    PROVE  PlayTyped'
  <1>1. ASSUME Task(n, Ended(p)) PROVE PlayTyped'
    <2>1. Ended(p) \in SessionType /\ Ended(p).at = "ended"
      BY FreeIsTyped DEF Ended, SessionType
    <2> QED  BY <1>1, <2>1, TaskTyped
  <1>2. ASSUME f \in files, NEW k \in frames,
               Task(n, [p EXCEPT !.at = "send", !.path = f, !.left = k, !.pos = 0, !.ahead = 0])
        PROVE  PlayTyped'
    <2> DEFINE q == [p EXCEPT !.at = "send", !.path = f, !.left = k, !.pos = 0, !.ahead = 0]
    <2>1. f \in Times
      BY <1>2, Bounds DEF ListInv, Typed, Times
    <2>2. q \in SessionType /\ q.at = "send"
      BY <2>1 DEF SessionType
    <2> QED  BY <1>2, <2>2, TaskTyped
  <1> QED  BY <1>1, <1>2 DEF Opens

LEMMA TypedTaskStep == ASSUME ListInv, PlayTyped, NEW n \in Sessions, TaskNext(n) PROVE PlayTyped'
  <1> DEFINE p == session[n]
  <1>1. p \in SessionType /\ next_flag \in BOOLEAN
    BY DEF PlayTyped
  <1>2. /\ p.time \in Times /\ p.left \in 0..Frames /\ p.next_path \in Times \cup {NoTime}
        /\ p.pos \in Nodes \cup {0} /\ p.ahead \in Nodes \cup {0}
    BY <1>1 DEF SessionType
  <1>3. p.at = "walk" => {p.pos, p.ahead} \subseteq Nodes
    BY DEF PlayTyped
  <1>4. Frames \in Nat \ {0}
    BY SessionBounds
  <1> HIDE DEF p
  <1>5. CASE TaskBegins(n)
    <2>1. PICK g : Opens(n, p, g, 1..Frames) /\ next_flag' = next_flag
      BY <1>5 DEF TaskBegins, p
    <2>2. 1..Frames \subseteq 0..Frames
      BY <1>4
    <2> QED  BY <2>1, <2>2, <1>1, OpensTyped
  <1>6. CASE TaskSends(n)
    <2>1. next_flag' \in BOOLEAN
      BY <1>1, <1>6 DEF TaskSends
    <2>2. ASSUME Task(n, Ended(p)) PROVE PlayTyped'
      <3>1. Ended(p) \in SessionType /\ Ended(p).at = "ended"
        BY <1>1, FreeIsTyped DEF Ended, SessionType
      <3> QED  BY <2>1, <2>2, <3>1, TaskTyped
    <2>3. ASSUME p.at = "send", p.left > 1, Task(n, [p EXCEPT !.left = @ - 1]) PROVE PlayTyped'
      <3>1. p.left - 1 \in 0..Frames
        BY <2>3, <1>2, <1>4
      <3>2. [p EXCEPT !.left = @ - 1] \in SessionType /\ [p EXCEPT !.left = @ - 1].at = "send"
        BY <2>3, <3>1, <1>1 DEF SessionType
      <3> QED  BY <2>1, <2>3, <3>2, TaskTyped
    <2>4. ASSUME Task(n, Walk(p)) PROVE PlayTyped'
      <3> DEFINE first == Before(DayHead(Day(p.time)))
                 q == [p EXCEPT !.at = "walk", !.path = NoTime, !.left = 0,
                         !.pos = first, !.ahead = Before(first)]
      <3>1. first \in Nodes
        BY <1>2, NodesAreNumbers, BeforeIsNode DEF Days
      <3>2. Before(first) \in Nodes
        BY <3>1, BeforeIsNode
      <3> HIDE DEF first
      <3> DEFINE second == Before(first)
      <3>3. Walk(p) = q
        BY DEF Walk, first
      <3> HIDE DEF second
      <3>4. 0 \in 0..Frames /\ second \in Nodes
        BY <3>2, <1>4 DEF second
      <3>5. q \in SessionType /\ q.pos = first /\ q.ahead = second
        BY <3>1, <3>4, <1>1 DEF SessionType, second
      <3> HIDE DEF q
      <3> QED  BY <2>1, <2>4, <3>1, <3>3, <3>4, <3>5, TaskTyped
    <2> QED  BY <1>6, <2>2, <2>3, <2>4 DEF TaskSends, p
  <1>7. ASSUME NEW f \in Times \cup {NoTime}, PlaysNext(n, f), next_flag' \in BOOLEAN PROVE PlayTyped'
    <2> DEFINE q == [p EXCEPT !.next_path = f, !.time = IF f = NoTime THEN @ ELSE f]
    <2>1. q \in SessionType
      BY <1>1, <1>2 DEF SessionType
    <2>2. Opens(n, q, f, {Frames})
      BY <1>7 DEF PlaysNext, p
    <2>3. {Frames} \subseteq 0..Frames
      BY <1>4
    <2> HIDE DEF q
    <2> QED  BY <1>7, <2>1, <2>2, <2>3, OpensTyped
  <1>8. CASE WalkLooks(n)
    <2> DEFINE f == IF p.pos > NSlots THEN NoTime ELSE Time(p.pos)
    <2>1. p.at = "walk" /\ p.pos \in Nodes /\ p.ahead \in Nodes
      BY <1>3, <1>8 DEF WalkLooks, p
    <2>2. f \in Times \cup {NoTime}
      <3>1. CASE p.pos > NSlots
        BY <3>1
      <3>2. CASE ~ p.pos > NSlots
        <4>1. p.pos \in Slots
          <5>1. p.pos \in Int /\ NSlots \in Int
            BY <2>1, NodesAreNumbers, Clock
          <5> QED  BY <3>2, <5>1, <2>1, NodesAreNumbers
        <4> QED  BY <3>2, <4>1 DEF ListInv, Linked, Time
      <3> QED  BY <3>1, <3>2
    <2>3. \/ next_flag' = FALSE /\ PlaysNext(n, f)
          \/ /\ next_flag' = (f # NoTime /\ Covers(f, p.time))
             /\ Task(n, [p EXCEPT !.pos = p.ahead, !.ahead = Before(p.ahead)])
      BY <1>8 DEF WalkLooks, p
    <2> HIDE DEF f
    <2>4. ASSUME next_flag' = FALSE, PlaysNext(n, f) PROVE PlayTyped'
      BY <2>2, <2>4, <1>7
    <2>5. ASSUME next_flag' \in BOOLEAN,
                 Task(n, [p EXCEPT !.pos = p.ahead, !.ahead = Before(p.ahead)])
          PROVE  PlayTyped'
      <3> DEFINE q == [p EXCEPT !.pos = p.ahead, !.ahead = Before(p.ahead)]
      <3>1. Before(p.ahead) \in Nodes
        BY <2>1, BeforeIsNode
      <3>2. q \in SessionType /\ q.pos = p.ahead /\ q.ahead = Before(p.ahead)
        BY <3>1, <2>1, <1>1 DEF SessionType
      <3> HIDE DEF q
      <3> QED  BY <2>1, <2>5, <3>1, <3>2, TaskTyped DEF q
    <2>6. (f # NoTime /\ Covers(f, p.time)) \in BOOLEAN
      OBVIOUS
    <2> QED  BY <2>3, <2>4, <2>5, <2>6
  <1>9. CASE WalkEnds(n)
    BY <1>1, <1>2, <1>7, <1>9 DEF WalkEnds, p
  <1> QED  BY <1>5, <1>6, <1>8, <1>9 DEF TaskNext

LEMMA TypedInit == Init => PlayTyped
  <1> SUFFICES ASSUME Init PROVE PlayTyped
    OBVIOUS
  <1>1. \A n \in Sessions : session[n].at # "walk"
    BY DEF Init, Free
  <1> QED  BY <1>1, FreeIsTyped DEF Init, PlayTyped

\* A session that is given to a phone, told to stop or freed.
LEMMA SessionTyped ==
    ASSUME PlayTyped, NEW n \in Sessions, NEW p \in SessionType,
           session' = [session EXCEPT ![n] = p],
           p.at = "walk" => {p.pos, p.ahead} \subseteq Nodes,
           sdk' \in [at : {"idle", "list", "kill"}, conn : Conns, of : 0..NSessions],
           conn' \in [Conns -> {"open", "closed", "none"}], UNCHANGED next_flag
    PROVE  PlayTyped'
  <1>1. session' \in [Sessions -> SessionType] /\ \A m \in Sessions : session'[m] = IF m = n THEN p ELSE session[m]
    BY DEF PlayTyped
  <1> QED  BY <1>1 DEF PlayTyped, Nodes, DayHead, Sessions

LEMMA UninitTyped ==
    ASSUME PlayTyped, IInv, NEW c \in Conns, sdk.at = "idle", Uninit(c),
           conn' \in [Conns -> {"open", "closed", "none"}], UNCHANGED next_flag
    PROVE  PlayTyped'
  <1> DEFINE of_c == {i \in DOMAIN playing : session[playing[i]].conn = c}
             n == playing[Min(of_c)]
             p == [session[n] EXCEPT !.kill = TRUE]
  <1>1. CASE of_c = {} /\ UNCHANGED <<session, playing, sdk>>
    BY <1>1 DEF PlayTyped, Nodes, DayHead, Sessions
  <1>2. CASE of_c # {} /\ ~ UNCHANGED <<session, playing, sdk>>
    <2>1. /\ session' = [session EXCEPT ![n].kill = TRUE]
          /\ sdk' = [at |-> "kill", conn |-> c, of |-> n]
      BY <1>2 DEF Uninit
    <2>2. Min(of_c) \in DOMAIN playing
      <3>1. of_c \subseteq Nat
        BY DEF IInv, Owned
      <3> QED  BY <1>2, <3>1, FirstOf
    <2>3. n \in Sessions
      BY <2>2 DEF IInv, Owned
    <2> HIDE DEF n
    <2>4. session[n] \in SessionType
      BY <2>3 DEF PlayTyped
    <2>5. p \in SessionType /\ p.at = session[n].at /\ p.pos = session[n].pos /\ p.ahead = session[n].ahead
      BY <2>4 DEF SessionType
    <2>6. session' = [session EXCEPT ![n] = p]
      BY <2>1
    <2>7. sdk' \in [at : {"idle", "list", "kill"}, conn : Conns, of : 0..NSessions]
      BY <2>1, <2>3, SessionBounds DEF Sessions
    <2>8. p.at = "walk" => {p.pos, p.ahead} \subseteq Nodes
      BY <2>3, <2>5 DEF PlayTyped
    <2> HIDE DEF p
    <2> QED  BY <2>3, <2>5, <2>6, <2>7, <2>8, SessionTyped
  <1> QED  BY <1>1, <1>2 DEF Uninit

LEMMA TypedCallbackStep ==
    ASSUME PlayTyped, IInv,
           \/ SdkNext
           \/ \E c \in Conns, t \in Times, by_file \in BOOLEAN : HistoryPlay(c, t, by_file)
           \/ \E c \in Conns : HistoryPause(c) \/ ConnClosed(c) \/ ConnIdle(c) \/ ConnOpened(c)
    PROVE  PlayTyped'
  <1> DEFINE Sdk == [at : {"idle", "list", "kill"}, conn : Conns, of : 0..NSessions]
  <1>1. ASSUME NEW c \in Conns, NEW t \in Times, NEW by_file \in BOOLEAN, HistoryPlay(c, t, by_file)
        PROVE  PlayTyped'
    <2> DEFINE p == [Free EXCEPT !.at = "name", !.conn = c, !.by_file = by_file, !.time = t]
    <2>1. PICK n \in Sessions : /\ session' = [session EXCEPT ![n] = p]
                                /\ sdk' = [at |-> "list", conn |-> c, of |-> n]
      BY <1>1 DEF HistoryPlay
    <2>2. p \in SessionType /\ p.at = "name"
      BY FreeIsTyped DEF SessionType
    <2>3. sdk' \in Sdk
      BY <2>1, SessionBounds DEF Sessions
    <2>4. UNCHANGED <<conn, next_flag>> /\ conn \in [Conns -> {"open", "closed", "none"}]
      BY <1>1 DEF HistoryPlay, PlayTyped
    <2> HIDE DEF p
    <2> QED  BY <2>1, <2>2, <2>3, <2>4, SessionTyped
  <1>2. CASE PlayListed
    <2>1. sdk' \in Sdk /\ UNCHANGED <<session, conn, next_flag>>
      BY <1>2, FreeIsTyped DEF PlayListed
    <2> QED  BY <2>1 DEF PlayTyped, Nodes, DayHead, Sessions
  <1>3. CASE Killed
    <2>1. /\ session' = [session EXCEPT ![sdk.of] = Free] /\ sdk.of \in Sessions
          /\ sdk' \in Sdk /\ UNCHANGED <<conn, next_flag>>
      BY <1>3, FreeIsTyped DEF Killed, IInv, Owned
    <2>2. Free \in SessionType /\ Free.at = "none"
      BY FreeIsTyped DEF Free
    <2>3. conn \in [Conns -> {"open", "closed", "none"}]
      BY DEF PlayTyped
    <2> QED  BY <2>1, <2>2, <2>3, SessionTyped
  <1>4. ASSUME NEW c \in Conns, HistoryPause(c) \/ ConnClosed(c) \/ ConnIdle(c) PROVE PlayTyped'
    <2>1. sdk.at = "idle" /\ Uninit(c) /\ UNCHANGED next_flag
      BY <1>4 DEF HistoryPause, ConnClosed, ConnIdle
    <2>2. conn' \in [Conns -> {"open", "closed", "none"}]
      BY <1>4 DEF HistoryPause, ConnClosed, ConnIdle, PlayTyped
    <2> QED  BY <2>1, <2>2, UninitTyped
  <1>5. ASSUME NEW c \in Conns, ConnOpened(c) PROVE PlayTyped'
    <2>1. conn' \in [Conns -> {"open", "closed", "none"}] /\ UNCHANGED <<session, sdk, next_flag>>
      BY <1>5 DEF ConnOpened, PlayTyped
    <2> QED  BY <2>1 DEF PlayTyped, Nodes, DayHead, Sessions
  <1> QED  BY <1>1, <1>2, <1>3, <1>4, <1>5 DEF SdkNext

TypeInv == ListInv /\ RoomIsLeft /\ IInv /\ PlayTyped

LEMMA TypeStep == TypeInv /\ [Next]_vars => TypeInv'
  <1> SUFFICES ASSUME TypeInv, [Next]_vars PROVE TypeInv'
    OBVIOUS
  <1>1. ListInv' /\ IInv'
    BY ListStepHolds, StepHolds DEF TypeInv
  <1>2. ASSUME UNCHANGED playVars PROVE PlayTyped'
    BY <1>2 DEF playVars, TypeInv, PlayTyped, Nodes, DayHead, Sessions
  <1>3. ASSUME UNCHANGED listVars PROVE RoomIsLeft'
    BY <1>3, RoomUnchanged DEF listVars, TypeInv
  <1>4. CASE ListNext /\ UNCHANGED playVars
    BY <1>1, <1>2, <1>4, RoomStep DEF TypeInv
  <1>5. ASSUME NEW c \in Conns, NEW t \in Times, NEW by_file \in BOOLEAN, HistoryPlay(c, t, by_file)
        PROVE  TypeInv'
    <2>1. RoomIsLeft'
      <3>1. budget'.records = budget.records
        BY <1>5 DEF HistoryPlay, TypeInv, ListInv, Typed, Counts
      <3> QED  BY <1>5, <3>1, RoomUnchanged DEF HistoryPlay, TypeInv
    <2> QED  BY <1>1, <1>5, <2>1, TypedCallbackStep DEF TypeInv
  <1>6. ASSUME NEW c \in Conns, HistoryPause(c) \/ ConnClosed(c) \/ ConnIdle(c) \/ ConnOpened(c)
        PROVE  TypeInv'
    <2>1. UNCHANGED listVars
      BY <1>6 DEF HistoryPause, ConnClosed, ConnIdle, ConnOpened
    <2> QED  BY <1>1, <1>3, <1>6, <2>1, TypedCallbackStep DEF TypeInv
  <1>7. ASSUME NEW req, req[1] \in Times, HistoryDel(req) PROVE TypeInv'
    BY <1>1, <1>2, <1>7, RoomRemoveStep DEF HistoryDel, TypeInv
  <1>8. ASSUME NEW f \in Times, HistoryDel(<<f>>) PROVE TypeInv'
    <2>1. <<f>>[1] \in Times
      OBVIOUS
    <2> QED  BY <1>7, <1>8, <2>1
  <1>9. ASSUME NEW f \in Times, NEW g \in Times, HistoryDel(<<f, g>>) PROVE TypeInv'
    <2>1. <<f, g>>[1] \in Times
      OBVIOUS
    <2> QED  BY <1>7, <1>9, <2>1
  <1>10. CASE SdkNext
    <2>1. UNCHANGED listVars
      BY <1>10 DEF SdkNext, PlayListed, Killed
    <2> QED  BY <1>1, <1>3, <1>10, <2>1, TypedCallbackStep DEF TypeInv
  <1>11. ASSUME NEW n \in Sessions, TaskNext(n) PROVE TypeInv'
    <2>1. ASSUME NEW q, NEW f, NEW frames, Opens(n, q, f, frames) PROVE UNCHANGED listVars
      BY <2>1 DEF Opens, Task
    <2>2. UNCHANGED listVars
      BY <1>11, <2>1 DEF TaskNext, TaskBegins, TaskSends, WalkLooks, WalkEnds, PlaysNext, Task
    <2> QED  BY <1>1, <1>3, <1>11, <2>2, TypedTaskStep DEF TypeInv
  <1>12. CASE UNCHANGED vars
    BY <1>1, <1>2, <1>3, <1>12 DEF vars, TypeInv
  <1> QED  BY <1>4, <1>5, <1>6, <1>8, <1>9, <1>10, <1>11, <1>12 DEF Next

LEMMA TypesHold == TypeInv => TypeOK
  <1> SUFFICES ASSUME TypeInv PROVE TypeOK
    OBVIOUS
  <1>1. ListTypeOK
    BY ListTypesHold DEF TypeInv
  <1>2. ASSUME NEW n \in Sessions
        PROVE  /\ session[n].at \in {"none", "name", "send", "walk", "ended"}
               /\ session[n].conn \in Conns
               /\ {session[n].kill, session[n].by_file} \subseteq BOOLEAN
               /\ session[n].time \in Times
               /\ {session[n].path, session[n].next_path} \subseteq Times \cup {NoTime}
               /\ session[n].left \in 0..Frames
               /\ {session[n].pos, session[n].ahead} \subseteq 0..DayHead(Max(Days))
    <2>1. session[n] \in SessionType
      BY DEF TypeInv, PlayTyped
    <2> QED  BY <2>1, NodesAreNumbers DEF SessionType
  <1>3. playing \in BoundedSeq(Sessions, NSessions)
    <2>1. playing \in Seq(Sessions) /\ IsInjective(playing)
      BY DEF TypeInv, IInv, Owned, TaskHasItsSession
    <2>2. Cardinality(ToSet(playing)) = Len(playing)
      BY <2>1, LenIsCardinality
    <2>3. NSessions \in Nat /\ IsFiniteSet(Sessions) /\ Cardinality(Sessions) = NSessions
      BY SessionBounds, FS_Interval DEF Sessions
    <2>4. ToSet(playing) \subseteq Sessions
      BY <2>1 DEF ToSet
    <2>5. Len(playing) <= NSessions
      BY <2>2, <2>3, <2>4, FS_Subset
    <2>6. Len(playing) \in 0..NSessions /\ playing \in [1..Len(playing) -> Sessions]
      BY <2>1, <2>3, <2>5
    <2> QED  BY <2>6 DEF BoundedSeq, SeqOf
  <1>4. /\ conn \in [Conns -> {"open", "closed", "none"}]
        /\ sdk \in [at : {"idle", "list", "kill"}, conn : Conns, of : 0..NSessions]
        /\ next_flag \in BOOLEAN
    BY DEF TypeInv, PlayTyped
  <1> QED  BY <1>1, <1>2, <1>3, <1>4 DEF TypeOK, PlayTypeOK

-----------------------------------------------------------------------------
(* What holds always. *)

\* Every entry, session and position is what it should be.
THEOREM TypesAreKept == Spec => []TypeOK
  <1>1. Init => TypeInv
    BY ListInitHolds, RoomInit, InitHolds, TypedInit DEF Init, TypeInv
  <1> QED  BY <1>1, TypeStep, TypesHold, PTL DEF Spec

\* How many entries a history of the card takes: one for each of its files and at most
\* two for each recording, since the scan may list again what the recorder has listed.
\* An array that is larger, as the assumption Histories says it is, always has a free
\* entry.  Nothing in the code says so: without it find_empty_cloud_playback_list_info
\* looks on behind the array, which is not modelled.
THEOREM EntriesSuffice ==
    Spec => [](/\ \E t \in Trials : Cardinality({s \in Slots : info[s].used})
                                       <= Cardinality(t.files) + 2 * t.records
               /\ Unused # {})
  <1>1. Init => TypeInv
    BY ListInitHolds, RoomInit, InitHolds, TypedInit DEF Init, TypeInv
  <1>2. TypeInv => /\ \E t \in Trials : Cardinality({s \in Slots : info[s].used})
                                           <= Cardinality(t.files) + 2 * t.records
                   /\ Unused # {}
    BY RoomHolds DEF TypeInv, Used
  <1> QED  BY <1>1, <1>2, TypeStep, PTL DEF Spec

\* The list of recorded files loses no entry, lists none twice and counts them
\* right, through scans that are stopped, cards that are pulled out, recordings that
\* end meanwhile and files that are deleted.
THEOREM EntriesAreKept == Spec => []SlotsAreKept
  <1>1. ListInv => SlotsAreKept
    BY DEF ListInv, Linked
  <1> QED  BY <1>1, ListIsKept, PTL

\* cloud_playback_list_clear, after the scan has ended, leaves nothing of a card that
\* is gone but the file the recorder was about to list.
THEOREM NothingIsLeftOver == Spec => []LeftoverIsOne
  BY ListIsKept, LeftoverHolds, PTL

\* cloud_playback_list_get: page after page, counted from the number it is told, a
\* phone that does not filter is shown every entry of a day or of all days once, in
\* either order, with no page longer than its size.  With a filter it misses none of
\* the entries it asks for; that a page then ends where the next begins is not so.
THEOREM PagesOfAnySize == ASSUME NEW CONSTANT size \in Nat \ {0} PROVE Spec => []PagesCover(size)
  <1>1. ListInv => PagesCover(size)
    BY PagesHold DEF ListInv
  <1> QED  BY <1>1, ListIsKept, PTL

\* cloud_playback_list_get: the same for the size that is model-checked.
THEOREM PagesAreComplete == Spec => []PagesCoverTheDay
  <1>1. ListInv => PagesCoverTheDay
    BY PagesHold DEF ListInv, PagesCoverTheDay
  <1> QED  BY <1>1, ListIsKept, PTL

\* cloud_playback_list_get_name_for_start_time finds the recording of the time asked
\* for, however long minutes, hours and days are, when the recordings of the hour are
\* at most a minute long and do not overlap.
THEOREM PlaysTheRightFile == Spec => []PlaysTheMinuteAskedFor
  <1>1. ListInv => PlaysTheMinuteAskedFor
    BY PlaysHolds DEF ListInv
  <1> QED  BY <1>1, ListIsKept, PTL
=============================================================================
