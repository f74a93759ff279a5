--------------------------- MODULE CloudPlayback ----------------------------
(***************************************************************************)
(* Phones that watch recorded files (cloud_playback.c, the callbacks in    *)
(* ut_dev_ipc_cmd.c and ut_xciot.c).  Each HistoryPlay makes a session     *)
(* with a task of its own, which sends one file, or one after the other    *)
(* (rtype 0).  A pause, and each of the two events by which a connection   *)
(* ends, kills the oldest session of the connection and waits until its    *)
(* task has ended.                                                         *)
(*                                                                         *)
(* find_next_file walks through the list of a day without its mutex and is *)
(* modelled entry by entry, each entry deleted meanwhile being linked to   *)
(* itself.                                                                 *)
(***************************************************************************)
EXTENDS PlaybackList

CONSTANTS
    Conns,      \* connections
    NSessions,  \* bound: blocks of memory for sessions
    Frames      \* bound: frames of a file

ASSUME SessionBounds == {NSessions, Frames} \subseteq Nat \ {0} /\ Conns # {}

VARIABLES
    conn,       \* state of each connection in the SDK
    session,    \* CLOUD_PLAYBACK_INFO and its task
    playing,    \* cloud_playback_list_head
    sdk,        \* the thread of the SDK inside a callback
    next_flag   \* the static of find_next_file

playVars == <<conn, session, playing, sdk, next_flag>>
vars == <<listVars, playVars>>

Sessions == 1..NSessions
Idle == [at |-> "idle", conn |-> CHOOSE c \in Conns : TRUE, of |-> 0]
NoTask == {"none", "ended"}
Free == [at |-> "none", conn |-> CHOOSE c \in Conns : TRUE, by_file |-> FALSE,
         kill |-> FALSE, time |-> 0, path |-> NoTime, next_path |-> NoTime,
         left |-> 0, pos |-> 0, ahead |-> 0]
Allocated == ToSet(playing) \cup (IF sdk.of = 0 THEN {} ELSE {sdk.of})

Init ==
    /\ ListInit
    /\ conn = [c \in Conns |-> "open"]
    /\ session = [n \in Sessions |-> Free]
    /\ playing = <<>>
    /\ sdk = Idle
    /\ next_flag = FALSE
-----------------------------------------------------------------------------
(***************************************************************************)
(* The callbacks.                                                          *)
(***************************************************************************)
\* HistoryPlay: the task runs before its session is listed.
HistoryPlay(c, t, by_file) ==
    /\ sdk.at = "idle" /\ conn[c] = "open"
    /\ \E n \in Sessions \ Allocated :
         /\ n = Min(Sessions \ Allocated)
         /\ session' = [session EXCEPT ![n] =
                [Free EXCEPT !.at = "name", !.conn = c, !.by_file = by_file, !.time = t]]
         /\ sdk' = [at |-> "list", conn |-> c, of |-> n]
    /\ budget.plays > 0 /\ budget' = [budget EXCEPT !.plays = @ - 1]
    /\ UNCHANGED <<card, files, last, events, kill, info, day_list, day_cnt, total, scan, rec>>
    /\ UNCHANGED <<conn, playing, next_flag>>

PlayListed ==
    /\ sdk.at = "list"
    /\ playing' = Append(playing, sdk.of)
    /\ sdk' = Idle
    /\ UNCHANGED <<listVars, conn, session, next_flag>>

\* cloud_playback_uninit: the oldest session of the connection is told to stop
\* and taken from the list, ...
Uninit(c) ==
    LET of_c == {i \in DOMAIN playing : session[playing[i]].conn = c}
    IN  \/ /\ of_c = {} /\ UNCHANGED <<session, playing, sdk>>
        \/ /\ of_c # {}
           /\ LET n == playing[Min(of_c)]
              IN  /\ session' = [session EXCEPT ![n].kill = TRUE]
                  /\ playing' = RemoveAt(playing, Min(of_c))
                  /\ sdk' = [at |-> "kill", conn |-> c, of |-> n]

\* Faulty: frees without waiting for the task.
FreesAtOnce ==
    /\ sdk.at = "kill"
    /\ session' = [session EXCEPT ![sdk.of].time = 0]
    /\ sdk' = Idle
    /\ UNCHANGED <<listVars, conn, playing, next_flag>>

\* ... and freed when its task has ended.
Killed ==
    /\ sdk.at = "kill"
    /\ session[sdk.of].at = "ended"
    /\ session' = [session EXCEPT ![sdk.of] = Free]
    /\ sdk' = Idle
    /\ UNCHANGED <<listVars, conn, playing, next_flag>>

HistoryPause(c) ==
    /\ sdk.at = "idle" /\ conn[c] = "open"
    /\ Uninit(c)
    /\ UNCHANGED <<listVars, conn, next_flag>>

\* iot_dev_on_connect.
ConnClosed(c) ==
    /\ sdk.at = "idle" /\ conn[c] = "open"
    /\ conn' = [conn EXCEPT ![c] = "closed"]
    /\ Uninit(c)
    /\ UNCHANGED <<listVars, next_flag>>

ConnIdle(c) ==
    /\ sdk.at = "idle" /\ conn[c] = "closed"
    /\ conn' = [conn EXCEPT ![c] = "none"]
    /\ Uninit(c)
    /\ UNCHANGED <<listVars, next_flag>>

ConnOpened(c) ==
    /\ sdk.at = "idle" /\ conn[c] = "none"
    /\ conn' = [conn EXCEPT ![c] = "open"]
    /\ UNCHANGED <<listVars, session, playing, sdk, next_flag>>

HistoryDel(req) ==
    /\ sdk.at = "idle"
    /\ \E c \in Conns : conn[c] = "open"
    /\ cloud_playback_list_remove(req)
    /\ UNCHANGED playVars
-----------------------------------------------------------------------------
(***************************************************************************)
(* cloud_playback_task.                                                    *)
(***************************************************************************)
Task(n, p) == /\ session' = [session EXCEPT ![n] = p]
              /\ UNCHANGED <<listVars, conn, playing, sdk>>
Ended(p) == [Free EXCEPT !.at = "ended", !.conn = p.conn]

\* A file is opened, if it is there and there is memory to play it, to send one of so
\* many numbers of its frames: the first is begun anywhere, the next at the start.
Opens(n, p, f, frames) ==
    \/ Task(n, Ended(p))
    \/ /\ card = "in" /\ f \in files
       /\ \E k \in frames :
            Task(n, [p EXCEPT !.at = "send", !.path = f, !.left = k, !.pos = 0, !.ahead = 0])

\* The first file.  If none fits, path is what was on the stack: the name of a file,
\* perhaps, which an earlier task has left there.
TaskBegins(n) ==
    LET p == session[n]
        f == NameFor(p.time, p.by_file)
    IN  /\ p.at = "name"
        /\ \E g \in (IF f # NoTime THEN {f} ELSE files \cup {NoTime}) : Opens(n, p, g, 1..Frames)
        /\ UNCHANGED next_flag

\* The list as find_next_file sees it: the head of a day is a node behind the slots.
DayHead(d) == NSlots + 1 + d
Before(x) ==
    IF x > NSlots
      THEN LET list == day_list[x - NSlots - 1]
           IN  IF list = <<>> THEN x ELSE list[Len(list)]
      ELSE IF x \notin Listed THEN x
      ELSE LET d == CHOOSE d \in Days : x \in ToSet(day_list[d])
               i == CHOOSE i \in DOMAIN day_list[d] : day_list[d][i] = x
           IN  IF i = 1 THEN DayHead(d) ELSE day_list[d][i - 1]

\* find_next_file begins with the oldest file of the day, ...
Walk(p) == LET first == Before(DayHead(Day(p.time)))
           IN  [p EXCEPT !.at = "walk", !.path = NoTime, !.left = 0,
                         !.pos = first, !.ahead = Before(first)]

\* Faulty: kill_flag is not looked at.
IgnoresKill(n) ==
    LET p == session[n]
        sent == conn[p.conn] = "open" /\ card = "in"
    IN  /\ p.at = "send"
        /\ \/ (~sent \/ p.path \notin files) /\ Task(n, Ended(p))
           \/ sent /\ p.left > 1 /\ Task(n, [p EXCEPT !.left = @ - 1])
           \/ sent /\ p.left = 1 /\ p.by_file /\ Task(n, Ended(p))
           \/ sent /\ p.left = 1 /\ ~p.by_file /\ Task(n, Walk(p))
        /\ UNCHANGED next_flag

\* Faulty: a closed connection does not end the task.
SendsOn(n) ==
    LET p == session[n]
        sent == ~p.kill /\ card = "in"
    IN  /\ p.at = "send"
        /\ \/ (~sent \/ p.path \notin files) /\ Task(n, Ended(p))
           \/ sent /\ p.left > 1 /\ Task(n, [p EXCEPT !.left = @ - 1])
           \/ sent /\ p.left = 1 /\ p.by_file /\ Task(n, Ended(p))
           \/ sent /\ p.left = 1 /\ ~p.by_file /\ Task(n, Walk(p))
        /\ UNCHANGED next_flag

\* One round of the loop: a frame is read and sent, unless the session is to stop
\* (kill_flag), the connection is gone (-9) or the file cannot be read.  Whether a
\* file that is deleted while it is open can be read is left open.
TaskSends(n) ==
    LET p == session[n]
        sent == ~p.kill /\ conn[p.conn] = "open" /\ card = "in"
    IN  /\ p.at = "send"
        /\ \/ (~sent \/ p.path \notin files) /\ Task(n, Ended(p))
           \/ sent /\ p.left > 1 /\ Task(n, [p EXCEPT !.left = @ - 1])
           \/ sent /\ p.left = 1 /\ p.by_file /\ Task(n, Ended(p))
           \/ sent /\ p.left = 1 /\ ~p.by_file /\ Task(n, Walk(p))
        /\ UNCHANGED next_flag

\* What is played next is opened, and is looked for by its own start from then on.
PlaysNext(n, f) ==
    Opens(n, [session[n] EXCEPT !.next_path = f, !.time = IF f = NoTime THEN @ ELSE f], f, {Frames})

\* ... looks at one entry after the other: one that fits sets the flag, and the one
\* that finds it set is played next, ...
WalkLooks(n) ==
    LET p == session[n]
        f == IF p.pos > NSlots THEN NoTime ELSE Time(p.pos)
    IN  /\ p.at = "walk" /\ p.pos # DayHead(Day(p.time))
        /\ \/ next_flag /\ next_flag' = FALSE /\ PlaysNext(n, f)
           \/ /\ ~next_flag
              /\ next_flag' = (f # NoTime /\ Covers(f, p.time))
              /\ Task(n, [p EXCEPT !.pos = p.ahead, !.ahead = Before(p.ahead)])

\* ... and at the head of the list gives up: the path is the one found before.
WalkEnds(n) ==
    LET p == session[n]
    IN  /\ p.at = "walk" /\ p.pos = DayHead(Day(p.time))
        /\ PlaysNext(n, p.next_path)
        /\ UNCHANGED next_flag

TaskNext(n) == TaskBegins(n) \/ TaskSends(n) \/ WalkLooks(n) \/ WalkEnds(n)
SdkNext == PlayListed \/ Killed

Next ==
    \/ ListNext /\ UNCHANGED playVars
    \/ \E c \in Conns, t \in Times, by_file \in BOOLEAN : HistoryPlay(c, t, by_file)
    \/ \E c \in Conns : HistoryPause(c) \/ ConnClosed(c) \/ ConnIdle(c) \/ ConnOpened(c)
    \/ \E f \in Times : HistoryDel(<<f>>)
    \/ \E f, g \in Times : f # g /\ HistoryDel(<<f, g>>)
    \/ SdkNext
    \/ \E n \in Sessions : TaskNext(n)

Spec == Init /\ [][Next]_vars

\* A callback goes on, and every task is scheduled.
FairSpec == /\ Spec
            /\ WF_vars(SdkNext)
            /\ \A n \in Sessions : WF_vars(TaskNext(n))
-----------------------------------------------------------------------------
PlayTypeOK ==
    /\ conn \in [Conns -> {"open", "closed", "none"}]
    /\ \A n \in Sessions :
         /\ session[n].at \in {"none", "name", "send", "walk", "ended"}
         /\ session[n].conn \in Conns
         /\ {session[n].kill, session[n].by_file} \subseteq BOOLEAN
         /\ session[n].time \in Times
         /\ {session[n].path, session[n].next_path} \subseteq Times \cup {NoTime}
         /\ session[n].left \in 0..Frames
         /\ {session[n].pos, session[n].ahead} \subseteq 0..DayHead(Max(Days))
    /\ playing \in BoundedSeq(Sessions, NSessions)
    /\ sdk \in [at : {"idle", "list", "kill"}, conn : Conns, of : 0..NSessions]
    /\ next_flag \in BOOLEAN

TypeOK == ListTypeOK /\ PlayTypeOK

\* No task runs without its session: the session is listed, where a pause finds
\* it, or the SDK's thread is about to list it or waits for its task.
TaskHasItsSession ==
    /\ \A n \in Sessions : session[n].at \notin NoTask => n \in Allocated
    /\ IsInjective(playing) /\ sdk.of \notin ToSet(playing)

\* A walk that stands on an entry which is not in the list of its day.
Stranded(n) ==
    LET p == session[n]
    IN  p.at = "walk" /\ {p.pos, p.ahead} \ (ToSet(day_list[Day(p.time)]) \cup {DayHead(Day(p.time))}) # {}

\* A pause, and the end of a connection, comes to its end, unless a file was
\* deleted from under a walk of find_next_file: then the SDK's thread may wait
\* for ever for a task that never leaves the deleted entry.
CallbackReturns ==
    sdk.at = "kill" ~> sdk.at = "idle" \/ \E n \in Sessions : Stranded(n)

\* When a connection is gone nothing is sent to it for long, also by a session
\* that no kill was left for: a connection ends with two kills at most, and its
\* phone may have started more sessions.
GoneConnectionIsLeft ==
    \A n \in Sessions :
        session[n].at \notin NoTask /\ conn[session[n].conn] # "open"
          ~> \/ session[n].at \in NoTask \/ conn[session[n].conn] = "open"
             \/ Stranded(n)

\* A phone that disconnects without ending its playback ends it all the same: its
\* tasks are closed (the comments of iot_dev_on_connect).  Not so when find_next_file
\* stands on an entry another phone has deleted.
ThreadIsClosed ==
    \A n \in Sessions :
        session[n].at \notin NoTask /\ conn[session[n].conn] = "closed"
          ~> session[n].at \in NoTask
=============================================================================
