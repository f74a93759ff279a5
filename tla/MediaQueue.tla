----------------------------- MODULE MediaQueue -----------------------------
(***************************************************************************)
(* The pictures a phone sends during a call (cloud_rt_talk.c).  The thread *)
(* of the SDK appends each frame to a list and posts a semaphore           *)
(* (net_video_wrete_frame); net_video_dec_ctrl_task takes a token, moves   *)
(* one frame to the queue of net_video_dec_task, and that task writes it   *)
(* to the decoder and frees it.  The start of a call waits for a token of  *)
(* the same semaphore.  dec_pro_file, which draws the picture of the idle  *)
(* screen, clears the list.                                                *)
(*                                                                         *)
(* The list is modelled as the linked list it is (generic/list.h), since   *)
(* it is not always touched under its mutex: at video_frame_count >= 60    *)
(* the writer gives the mutex back and goes on all the same, and the clear *)
(* never takes it.  So the writer, the mover and the clear each read the   *)
(* pointers in one step and write them in a later one, and an unlocked     *)
(* increment of the count reads it before it writes it.                    *)
(***************************************************************************)
EXTENDS Integers, Sequences, FiniteSets

CONSTANTS
    Blocks,     \* the blocks of memory a frame can be allocated in
    Anchor,     \* the static head of the list
    Limit,      \* video_frame_count at which the list is full (60)
    Ready,      \* frames that must be there before the first is decoded (3)
    MaxCount,   \* bound: no frame arrives when the count is this large
    MaxQueue,   \* messages the queue of video_dec_task holds (512 words)
    MaxPosts,   \* bound: starts and stops of calls, and of the screen
    MaxStrays   \* bound: frames appended although the list is full, and
                \* pictures of the idle screen drawn

ASSUME AnchorIsNoBlock ==
    Anchor \notin Blocks /\ Blocks \cap {"START", "STOP"} = {} /\ IsFiniteSet(Blocks)
ASSUME Numbers == /\ Limit \in Nat /\ Ready \in Nat /\ MaxCount \in Nat
                  /\ MaxQueue \in Nat /\ MaxPosts \in Nat
                  /\ MaxStrays \in Nat

VARIABLES
    allocated,  \* blocks that hold a frame
    lost,       \* those whose frame the full queue turned away (history)
    keys,       \* those whose frame is a key frame the decoder may still get
    next, prev, \* the links of the head and of every block
    count,      \* video_frame_count
    wait,       \* is_wait_iframe
    start,      \* the decoder has been given a first key frame
    playing,    \* video_dec_start
    sem,        \* net_scr_dec_video_ctrl_sem
    mutex,      \* holder of cloud_media_info_video_list_mutex
    sdk,        \* the thread of the SDK inside net_video_wrete_frame
    ctrl,       \* net_video_dec_ctrl_task
    clear,      \* a caller of dec_pro_file, who holds dec_server_mutex
    dec,        \* net_video_dec_task
    queue,      \* its queue
    torn,       \* whether the links have ever been inconsistent (history)
    posts, passes, clears   \* how often these happened, for the bounds

vars == <<allocated, lost, keys, next, prev, count, wait, start, playing, sem, mutex,
          sdk, ctrl, clear, dec, queue, torn, posts, passes, clears>>
links == <<next, prev, torn>>
heap == <<allocated, lost, keys>>
tally == <<posts, passes, clears>>

Nodes == Blocks \cup {Anchor}
Message == Blocks \cup {"START", "STOP"}
Listed == {b \in Blocks : next[b] # b}
Whole == \A n \in Nodes : next[prev[n]] = n /\ prev[next[n]] = n

Init ==
    /\ allocated = {} /\ lost = {} /\ keys = {}
    /\ next = [n \in Nodes |-> n] /\ prev = [n \in Nodes |-> n]
    /\ count = 0 /\ wait = TRUE /\ start = FALSE /\ playing = FALSE
    /\ sem = 0 /\ mutex = "none"
    /\ sdk = [pc |-> "idle", block |-> Anchor, tail |-> Anchor, count |-> 0]
    /\ ctrl = [pc |-> "wait", block |-> Anchor, prev |-> Anchor, next |-> Anchor, count |-> 0]
    /\ clear = [pc |-> "off", block |-> Anchor, prev |-> Anchor, next |-> Anchor]
    /\ dec = [pc |-> "idle", block |-> Anchor]
    /\ queue = <<>> /\ torn = FALSE /\ posts = 0 /\ passes = 0 /\ clears = 0

-----------------------------------------------------------------------------
(* generic/list.h.  Each takes the neighbours that were read before. *)

AddBetween(new, before, after) ==
    /\ next' = [next EXCEPT ![new] = after, ![before] = new]
    /\ prev' = [prev EXCEPT ![after] = new, ![new] = before]
    /\ torn' = (torn \/ ~Whole')

DelBetween(entry, before, after) ==
    /\ next' = [next EXCEPT ![before] = after, ![entry] = entry]
    /\ prev' = [prev EXCEPT ![after] = before, ![entry] = entry]
    /\ torn' = (torn \/ ~Whole')

-----------------------------------------------------------------------------
(* The thread of the SDK: net_video_wrete_frame. *)

\* Which free block is taken makes no difference.
FreeBlock == CHOOSE b \in Blocks : b \notin allocated

\* A delta frame is turned away until a key frame has come.  A full list
\* gives the mutex back, but the return behind it is commented out: the frame
\* is copied and the last entry of the list is read all the same.  Without
\* memory the frame is not stored, but it is counted.
FrameArrives(key) ==
    /\ sdk.pc = "idle" /\ mutex = "none" /\ count < MaxCount
    /\ ~wait \/ key
    /\ IF count >= Limit
         THEN passes + clears < MaxStrays /\ passes' = passes + 1 /\ UNCHANGED mutex
         ELSE mutex' = "sdk" /\ UNCHANGED passes
    /\ \/ /\ ~(Blocks \subseteq allocated)
          /\ LET b == FreeBlock IN
            /\ allocated' = allocated \cup {b}
            /\ keys' = IF key THEN keys \cup {b} ELSE keys
            /\ sdk' = [sdk EXCEPT !.pc = "link", !.block = b, !.tail = prev[Anchor]]
            /\ UNCHANGED lost
       \/ /\ Blocks \subseteq allocated
          /\ sdk' = [sdk EXCEPT !.pc = "count", !.count = count]
          /\ UNCHANGED heap
    /\ UNCHANGED <<links, count, wait, start, playing, sem, ctrl, clear, dec, queue, posts, clears>>

LinkFrame ==
    /\ sdk.pc = "link"
    /\ AddBetween(sdk.block, sdk.tail, Anchor)
    /\ sdk' = [sdk EXCEPT !.pc = "count", !.block = Anchor, !.tail = Anchor, !.count = count]
    /\ UNCHANGED <<heap, count, wait, start, playing, sem, mutex, ctrl, clear, dec, queue, tally>>

\* Faulty: after the start a frame brings a token only when enough are there.
FaultyTokens(counted) == IF counted >= Ready THEN sem + 1 ELSE sem

\* The tokens that a frame brings when it is the counted-th.  Before the
\* decoder has started the semaphore is set to Ready and posted once more.
Tokens(counted) ==
    IF start THEN sem + 1 ELSE IF counted >= Ready THEN Ready + 1 ELSE sem

\* The frame is counted, its token posted and the mutex given back; a second
\* post by a thread that no longer holds the mutex is refused.
CountFrame ==
    /\ sdk.pc = "count"
    /\ count' = sdk.count + 1
    /\ wait' = FALSE
    /\ sem' = Tokens(sdk.count + 1)
    /\ mutex' = IF mutex = "sdk" THEN "none" ELSE mutex
    /\ sdk' = [sdk EXCEPT !.pc = "idle", !.count = 0]
    /\ UNCHANGED <<heap, links, start, playing, ctrl, clear, dec, queue, tally>>

-----------------------------------------------------------------------------
(* net_video_dec_ctrl_task.  How long it sleeps between frames is left out. *)

TakeToken ==
    /\ ctrl.pc = "wait" /\ sem > 0
    /\ sem' = sem - 1
    /\ ctrl' = [ctrl EXCEPT !.pc = "lock"]
    /\ UNCHANGED <<heap, links, count, wait, start, playing, mutex, sdk, clear, dec, queue, tally>>

\* A token without a frame is forgotten.
NoFrame ==
    /\ ctrl.pc = "lock" /\ mutex = "none" /\ next[Anchor] = Anchor
    /\ ctrl' = [ctrl EXCEPT !.pc = "wait"]
    /\ UNCHANGED <<heap, links, count, wait, start, playing, sem, mutex, sdk, clear, dec, queue,
                   tally>>

\* Faulty: the first frame is looked up before the mutex is taken.
FaultyFirstFrame ==
    /\ ctrl.pc = "lock" /\ next[Anchor] # Anchor
    /\ mutex' = "ctrl"
    /\ LET p == next[Anchor] IN
         ctrl' = [ctrl EXCEPT !.pc = "unlink", !.block = p, !.prev = prev[p], !.next = next[p]]
    /\ UNCHANGED <<heap, links, count, wait, start, playing, sem, sdk, clear, dec, queue, tally>>

FirstFrame ==
    /\ ctrl.pc = "lock" /\ mutex = "none" /\ next[Anchor] # Anchor
    /\ mutex' = "ctrl"
    /\ LET p == next[Anchor] IN
         ctrl' = [ctrl EXCEPT !.pc = "unlink", !.block = p, !.prev = prev[p], !.next = next[p]]
    /\ UNCHANGED <<heap, links, count, wait, start, playing, sem, sdk, clear, dec, queue, tally>>

UnlinkFrame ==
    /\ ctrl.pc = "unlink"
    /\ DelBetween(ctrl.block, ctrl.prev, ctrl.next)
    /\ ctrl' = [ctrl EXCEPT !.pc = "post", !.prev = Anchor, !.next = Anchor, !.count = count]
    /\ UNCHANGED <<heap, count, wait, start, playing, sem, mutex, sdk, clear, dec, queue, tally>>

\* post_msg_doorbell_task does not wait for room: when the queue is full it logs
\* the error and its callers go on. Here the frame is already off the list and off
\* the count, so that nobody will free its memory.
PostFrame ==
    /\ ctrl.pc = "post"
    /\ count' = ctrl.count - 1
    /\ \/ /\ Len(queue) < MaxQueue
          /\ queue' = Append(queue, ctrl.block)
          /\ UNCHANGED heap
       \/ /\ Len(queue) >= MaxQueue
          /\ lost' = lost \cup {ctrl.block}
          /\ keys' = keys \ {ctrl.block}
          /\ UNCHANGED <<queue, allocated>>
    /\ mutex' = "none"
    /\ ctrl' = [ctrl EXCEPT !.pc = "wait", !.block = Anchor, !.count = 0]
    /\ UNCHANGED <<links, wait, start, playing, sem, sdk, clear, dec, tally>>

-----------------------------------------------------------------------------
(* dec_pro_file: it draws a picture with the decoder and then clears the   *)
(* list, under dec_server_mutex but not under the mutex of the list.       *)

PictureDrawn ==
    /\ clear.pc = "off" /\ passes + clears < MaxStrays
    /\ clears' = clears + 1
    /\ clear' = [clear EXCEPT !.pc = "look"]
    /\ UNCHANGED <<heap, links, count, wait, start, playing, sem, mutex, sdk, ctrl, dec, queue,
                   posts, passes>>

ClearLooks ==
    /\ clear.pc = "look"
    /\ LET p == next[Anchor] IN
         clear' = IF p = Anchor THEN [clear EXCEPT !.pc = "off"]
                  ELSE [pc |-> "unlink", block |-> p, prev |-> prev[p], next |-> next[p]]
    /\ UNCHANGED <<heap, links, count, wait, start, playing, sem, mutex, sdk, ctrl, dec, queue,
                   tally>>

\* The data of the frame is wiped, but neither freed nor taken off the count.
ClearUnlinks ==
    /\ clear.pc = "unlink"
    /\ DelBetween(clear.block, clear.prev, clear.next)
    /\ clear' = [pc |-> "look", block |-> Anchor, prev |-> Anchor, next |-> Anchor]
    /\ keys' = keys \ {clear.block}
    /\ UNCHANGED <<allocated, lost, count, wait, start, playing, sem, mutex, sdk, ctrl, dec, queue, tally>>

-----------------------------------------------------------------------------
(* net_video_dec_task, one message at a time.  What it does with the       *)
(* decoder it does under dec_server_mutex, which a clear holds.            *)

Free(b) == allocated' = allocated \ {b} /\ keys' = keys \ {b} /\ UNCHANGED lost

TakeMessage == dec.pc = "idle" /\ queue # <<>> /\ queue' = Tail(queue)

\* Faulty: a frame that is skipped is not freed.
FaultySkipFrame ==
    /\ TakeMessage /\ Head(queue) \in Blocks
    /\ ~start /\ Head(queue) \notin keys
    /\ UNCHANGED <<heap, links, count, wait, start, playing, sem, mutex, sdk, ctrl, clear, dec,
                   tally>>

\* Before the first key frame a delta frame is freed and not shown.
SkipFrame ==
    /\ TakeMessage /\ Head(queue) \in Blocks
    /\ ~start /\ Head(queue) \notin keys
    /\ Free(Head(queue))
    /\ UNCHANGED <<links, count, wait, start, playing, sem, mutex, sdk, ctrl, clear, dec, tally>>

TakeFrame ==
    /\ TakeMessage /\ Head(queue) \in Blocks
    /\ start \/ Head(queue) \in keys
    /\ start' = TRUE
    /\ dec' = [pc |-> "write", block |-> Head(queue)]
    /\ keys' = keys \ {Head(queue)}
    /\ UNCHANGED <<allocated, lost, links, count, wait, playing, sem, mutex, sdk, ctrl, clear, tally>>

WriteFrame ==
    /\ dec.pc = "write" /\ clear.pc = "off"
    /\ Free(dec.block)
    /\ dec' = [pc |-> "idle", block |-> Anchor]
    /\ UNCHANGED <<links, count, wait, start, playing, sem, mutex, sdk, ctrl, clear, queue, tally>>

StartCall ==
    /\ TakeMessage /\ Head(queue) = "START"
    /\ dec' = [dec EXCEPT !.pc = "token"]
    /\ UNCHANGED <<heap, links, count, wait, start, playing, sem, mutex, sdk, ctrl, clear, tally>>

\* Faulty: the start takes a token that is not there; it waits for ever.
FaultyTakesToken ==
    /\ dec.pc = "token"
    /\ sem' = sem - 1
    /\ dec' = [dec EXCEPT !.pc = "play"]
    /\ UNCHANGED <<heap, links, count, wait, start, playing, mutex, sdk, ctrl, clear, queue, tally>>
FaultyTimesOut == FALSE /\ UNCHANGED vars

\* The start takes a token, or goes on without one after a second.
StartTakesToken ==
    /\ dec.pc = "token" /\ sem > 0
    /\ sem' = sem - 1
    /\ dec' = [dec EXCEPT !.pc = "play"]
    /\ UNCHANGED <<heap, links, count, wait, start, playing, mutex, sdk, ctrl, clear, queue, tally>>

StartTimesOut ==
    /\ dec.pc = "token"
    /\ dec' = [dec EXCEPT !.pc = "play"]
    /\ UNCHANGED <<heap, links, count, wait, start, playing, sem, mutex, sdk, ctrl, clear, queue,
                   tally>>

dec_server_start ==
    /\ dec.pc = "play" /\ clear.pc = "off"
    /\ playing' = TRUE
    /\ dec' = [dec EXCEPT !.pc = "idle"]
    /\ UNCHANGED <<heap, links, count, wait, start, sem, mutex, sdk, ctrl, clear, queue, tally>>

\* A stop that finds no call on the screen leaves the decoder alone.
StopCall ==
    /\ TakeMessage /\ Head(queue) = "STOP"
    /\ \/ clear.pc = "off" /\ playing' = FALSE
       \/ UNCHANGED playing
    /\ UNCHANGED <<heap, links, count, wait, start, sem, mutex, sdk, ctrl, clear, dec, tally>>

-----------------------------------------------------------------------------
(* The other threads: calls start and stop, the screen opens and closes. *)

PostCall(m) ==
    /\ posts < MaxPosts /\ posts' = posts + 1
    /\ queue' = IF Len(queue) < MaxQueue THEN Append(queue, m) ELSE queue
    /\ UNCHANGED <<heap, links, count, wait, start, playing, sem, mutex, sdk, ctrl, clear, dec,
                   passes, clears>>

dec_server_open ==
    /\ clear.pc = "off" /\ start' = FALSE
    /\ posts < MaxPosts /\ posts' = posts + 1
    /\ UNCHANGED <<heap, links, count, wait, playing, sem, mutex, sdk, ctrl, clear, dec, queue,
                   passes, clears>>

\* A decoder that was never opened is not closed.
dec_server_close ==
    /\ clear.pc = "off"
    /\ playing' = FALSE \/ UNCHANGED playing
    /\ posts < MaxPosts /\ posts' = posts + 1
    /\ UNCHANGED <<heap, links, count, wait, start, sem, mutex, sdk, ctrl, clear, dec, queue,
                   passes, clears>>

-----------------------------------------------------------------------------
SdkStep == LinkFrame \/ CountFrame
CtrlStep == TakeToken \/ NoFrame \/ FirstFrame \/ UnlinkFrame \/ PostFrame
ClearStep == ClearLooks \/ ClearUnlinks
DecStep == \/ SkipFrame \/ TakeFrame \/ WriteFrame \/ StartCall \/ StartTakesToken
           \/ StartTimesOut \/ dec_server_start \/ StopCall
Environment == \/ \E key \in BOOLEAN : FrameArrives(key)
               \/ PictureDrawn \/ dec_server_open \/ dec_server_close
               \/ \E m \in {"START", "STOP"} : PostCall(m)

\* Bound: what the threads do with torn links is not followed.
Next == /\ ~torn
        /\ SdkStep \/ CtrlStep \/ ClearStep \/ DecStep \/ Environment

Spec == Init /\ [][Next]_vars

\* The task and the clear go on when they can; the time out of a start does
\* elapse. Nothing is asked of the writer and the mover.
FairSpec == Spec /\ WF_vars(ClearStep) /\ WF_vars(DecStep)

-----------------------------------------------------------------------------
Sdk == [pc : {"idle", "link", "count"}, block : Nodes, tail : Nodes, count : Int]
Ctrl == [pc : {"wait", "lock", "unlink", "post"}, block : Nodes, prev : Nodes, next : Nodes,
         count : Int]
Clear == [pc : {"off", "look", "unlink"}, block : Nodes, prev : Nodes, next : Nodes]
Dec == [pc : {"idle", "write", "token", "play"}, block : Nodes]

Types ==
    /\ allocated \subseteq Blocks /\ lost \subseteq Blocks /\ keys \subseteq Blocks
    /\ next \in [Nodes -> Nodes] /\ prev \in [Nodes -> Nodes]
    /\ count \in Int /\ sem \in Nat
    /\ mutex \in {"none", "sdk", "ctrl"}
    /\ sdk \in Sdk /\ ctrl \in Ctrl /\ clear \in Clear /\ dec \in Dec
    /\ queue \in Seq(Message)
    /\ posts \in 0 .. MaxPosts /\ passes \in Nat /\ clears \in Nat

Flags == {wait, start, playing, torn} \subseteq BOOLEAN

TypeOK == Types /\ Flags

Undisturbed == passes = 0 /\ clears = 0
\* Until a frame is appended to a full list or the list is cleared, its
\* links are consistent at every step, whoever works on it.
ListIsWhole == Undisturbed => ~torn

Places == {"list", "sdk", "ctrl", "queue", "dec", "lost"}
Queued(b) == \E i \in DOMAIN queue : queue[i] = b

Holders(b) ==
    {h \in Places :
        \/ h = "list" /\ b \in Listed /\ ctrl.block # b
        \/ h = "sdk" /\ sdk.block = b
        \/ h = "ctrl" /\ ctrl.block = b
        \/ h = "queue" /\ Queued(b)
        \/ h = "dec" /\ dec.block = b
        \/ h = "lost" /\ b \in lost}

\* Until then every frame is in one place from its allocation to the task that
\* frees it, or was turned away by the full queue, which leaks its memory: none
\* leaks in another way, none is in two hands, and none is used when it is free.
FrameHasOneHolder ==
    Undisturbed =>
        \A b \in Blocks : IF b \in allocated THEN \E h \in Places : Holders(b) = {h} ELSE Holders(b) = {}

\* Frames in the list for which there is no token: they stay in the list
\* when no more frames come, and every later frame is shown that much later.
Backlog == Cardinality(Listed) - sem - Cardinality({sdk.pc} \cap {"count"})
             - Cardinality({ctrl.pc} \cap {"lock", IF ctrl.block \in Listed THEN "unlink" ELSE "lock"})

\* Once the decoder has started, only the start of a call strands a frame,
\* by the token it takes: writer, mover and clear keep token and frame together.
BacklogGrowsOnlyByStarts ==
    [][start /\ start' /\ ~torn' /\ Backlog' > Backlog
         => (dec.pc = "token" /\ sem' = sem - 1) \/ Backlog' <= 0]_vars

\* A start that is queued comes to the picture, even if no frame comes and
\* though the decoder may be taken by a clear; a broken list can hold up the
\* clear for ever, and with it the decoder. A start that finds the queue full is
\* lost, as a frame is.
CallStarts == (\E i \in DOMAIN queue : queue[i] = "START") ~> (playing \/ torn)

=============================================================================
