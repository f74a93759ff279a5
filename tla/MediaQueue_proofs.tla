-------------------------- MODULE MediaQueue_proofs --------------------------
(***************************************************************************)
(* What holds of the frames of a call for every number of blocks and every *)
(* limit.  The invariant says who holds the mutex of the list and, until a *)
(* frame is appended to a full list or the list is cleared, that what the  *)
(* writer and the mover have read of the links is still true when they     *)
(* write them, and that every frame has one holder, or was turned away.    *)
(* For the backlog this is not enough, it is also about disturbed lists:   *)
(* Linked says that while the links are whole no frame is cut off from the *)
(* head.                                                                   *)
(***************************************************************************)
EXTENDS MediaQueue, TLAPS, FiniteSetTheorems

USE AnchorIsNoBlock, Numbers

Mutex ==
    /\ mutex = "ctrl" <=> ctrl.pc \in {"unlink", "post"}
    /\ mutex = "sdk" => sdk.pc # "idle"
    /\ passes = 0 /\ sdk.pc # "idle" => mutex = "sdk"
    /\ clears = 0 => clear.pc = "off"

\* Who has no block has the anchor.
Hands ==
    /\ sdk.pc = "link" <=> sdk.block # Anchor
    /\ ctrl.pc \in {"unlink", "post"} <=> ctrl.block # Anchor
    /\ dec.pc = "write" <=> dec.block # Anchor

Alone(b) == next[b] = b /\ prev[b] = b

\* The pointers that were read are still the neighbours.
Fresh ==
    /\ Whole /\ ~torn
    /\ sdk.pc = "link" => sdk.tail = prev[Anchor] /\ Alone(sdk.block)
    /\ ctrl.pc = "unlink" => /\ ctrl.block = next[Anchor] /\ ctrl.prev = prev[ctrl.block]
                             /\ ctrl.next = next[ctrl.block]
    /\ ctrl.pc = "post" => Alone(ctrl.block)
    /\ dec.block # Anchor => Alone(dec.block)
    /\ \A b \in Blocks : Queued(b) \/ b \in lost => Alone(b)

\* No frame is queued twice.
Once == \A i, j \in DOMAIN queue : queue[i] \in Blocks /\ queue[i] = queue[j] => i = j

\* Frames in different hands are different, and every frame is somewhere.
Apart ==
    /\ sdk.block # Anchor => sdk.block # ctrl.block /\ sdk.block # dec.block /\ ~Queued(sdk.block)
    /\ ctrl.block # Anchor => ctrl.block # dec.block /\ ~Queued(ctrl.block)
    /\ dec.block # Anchor => ~Queued(dec.block)
    /\ Once
    /\ \A b \in Blocks : b \in lost =>
          sdk.block # b /\ ctrl.block # b /\ dec.block # b /\ ~Queued(b)
    /\ \A b \in Blocks : b \in allocated <=>
          \/ b \in Listed \/ sdk.block = b \/ ctrl.block = b \/ dec.block = b
          \/ Queued(b) \/ b \in lost

IInv == TypeOK /\ Mutex /\ Hands /\ (Undisturbed => Fresh /\ Apart)

-----------------------------------------------------------------------------
(* Types. *)

LEMMA FlagsStep == ASSUME Flags, [Next]_vars PROVE Flags'
  <1> USE DEF Flags, heap, links, tally
  <1>1. ASSUME SdkStep \/ \E key \in BOOLEAN : FrameArrives(key) PROVE Flags'
    BY <1>1 DEF SdkStep, LinkFrame, CountFrame, FrameArrives, AddBetween
  <1>2. ASSUME CtrlStep PROVE Flags'
    BY <1>2 DEF CtrlStep, TakeToken, NoFrame, FirstFrame, UnlinkFrame, PostFrame, DelBetween
  <1>3. ASSUME ClearStep \/ PictureDrawn PROVE Flags'
    BY <1>3 DEF ClearStep, ClearLooks, ClearUnlinks, DelBetween, PictureDrawn
  <1>4. ASSUME DecStep PROVE Flags'
    BY <1>4 DEF DecStep, SkipFrame, TakeFrame, WriteFrame, StartCall, StartTakesToken,
                StartTimesOut, dec_server_start, StopCall
  <1>5. ASSUME dec_server_open \/ dec_server_close \/ \E m \in {"START", "STOP"} : PostCall(m)
        PROVE  Flags'
    BY <1>5 DEF dec_server_open, dec_server_close, PostCall
  <1>6. CASE UNCHANGED vars
    BY <1>6 DEF vars
  <1> QED BY <1>1, <1>2, <1>3, <1>4, <1>5, <1>6 DEF Next, Environment

LEMMA TypesInit == Init => Types
  BY DEF Init, Types, Nodes, Message, Sdk, Ctrl, Clear, Dec

\* A queue that is not empty holds a message at its head.
LEMMA QueueHead ==
    ASSUME NEW q \in Seq(Message), q # <<>>
    PROVE  Head(q) \in Message /\ Tail(q) \in Seq(Message)
  OBVIOUS

\* Adding and taking an entry keeps the links among the nodes.
LEMMA LinkTypes ==
    ASSUME next \in [Nodes -> Nodes], prev \in [Nodes -> Nodes],
           NEW e \in Nodes, NEW before \in Nodes, NEW after \in Nodes,
           AddBetween(e, before, after) \/ DelBetween(e, before, after)
    PROVE  next' \in [Nodes -> Nodes] /\ prev' \in [Nodes -> Nodes] 
  BY DEF AddBetween, DelBetween

LEMMA TypesStep == ASSUME Types, Hands, [Next]_vars PROVE Types'
  <1> USE DEF heap, links, tally
  <1>0. Anchor \in Nodes
    BY DEF Nodes
  <1>1. ASSUME NEW key \in BOOLEAN, FrameArrives(key) PROVE Types'
    <2>1. ~(Blocks \subseteq allocated) => FreeBlock \in Blocks
      BY DEF FreeBlock
    <2>2. /\ allocated' \subseteq Blocks /\ lost' \subseteq Blocks /\ keys' \subseteq Blocks
          /\ passes' \in Nat
      BY <1>1, <2>1 DEF FrameArrives, Types
    <2>3. sdk' \in Sdk
      BY <1>1, <2>1, <1>0 DEF FrameArrives, Types, Sdk, Nodes
    <2>4. mutex' \in {"none", "sdk", "ctrl"}
      BY <1>1 DEF FrameArrives, Types
    <2> QED BY <1>1, <2>2, <2>3, <2>4 DEF FrameArrives, Types
  <1>2. ASSUME LinkFrame PROVE Types'
    <2>1. sdk.block \in Nodes /\ sdk.tail \in Nodes
      BY DEF Types, Sdk
    <2>2. next' \in [Nodes -> Nodes] /\ prev' \in [Nodes -> Nodes]
      BY <1>2, <2>1, <1>0, LinkTypes DEF LinkFrame, Types
    <2>3. sdk' \in Sdk
      BY <1>2, <1>0 DEF LinkFrame, Types, Sdk
    <2> QED BY <1>2, <2>2, <2>3 DEF LinkFrame, Types
  <1>3. ASSUME CountFrame PROVE Types'
    <2>1. sdk.count + 1 \in Int
      BY DEF Types, Sdk
    <2>2. sem' \in Nat /\ count' \in Int
      BY <1>3, <2>1 DEF CountFrame, Tokens, Types
    <2>3. sdk' \in Sdk
      <3>1. sdk \in Sdk /\ sdk' = [sdk EXCEPT !.pc = "idle", !.count = 0]
        BY <1>3 DEF CountFrame, Types
      <3>2. 0 \in Int
        OBVIOUS
      <3> HIDE DEF Nodes
      <3> QED BY <3>1, <3>2, Zenon DEF Sdk
    <2> QED BY <1>3, <2>2, <2>3 DEF CountFrame, Types
  <1>4. ASSUME TakeToken PROVE Types'
    BY <1>4 DEF TakeToken, Types, Ctrl
  <1>5. ASSUME NoFrame PROVE Types'
    BY <1>5 DEF NoFrame, Types, Ctrl
  <1>6. ASSUME FirstFrame PROVE Types'
    <2>1. next[Anchor] \in Nodes /\ prev[next[Anchor]] \in Nodes /\ next[next[Anchor]] \in Nodes
      BY <1>0 DEF Types
    <2>2. ctrl' \in Ctrl
      BY <1>6, <2>1 DEF FirstFrame, Types, Ctrl
    <2> QED BY <1>6, <2>2 DEF FirstFrame, Types
  <1>7. ASSUME UnlinkFrame PROVE Types'
    <2>1. ctrl.block \in Nodes /\ ctrl.prev \in Nodes /\ ctrl.next \in Nodes
      BY DEF Types, Ctrl
    <2>2. next' \in [Nodes -> Nodes] /\ prev' \in [Nodes -> Nodes]
      BY <1>7, <2>1, LinkTypes DEF UnlinkFrame, Types
    <2>3. ctrl' \in Ctrl
      BY <1>7, <1>0 DEF UnlinkFrame, Types, Ctrl
    <2> QED BY <1>7, <2>2, <2>3 DEF UnlinkFrame, Types
  <1>8. ASSUME PostFrame PROVE Types'
    <2>1. ctrl.block \in Message /\ ctrl.count - 1 \in Int
      BY <1>8 DEF PostFrame, Hands, Types, Ctrl, Message, Nodes
    <2>2. queue' \in Seq(Message) /\ count' \in Int
      <3>1. /\ queue' = queue \/ queue' = Append(queue, ctrl.block)
            /\ count' = ctrl.count - 1
        BY <1>8 DEF PostFrame
      <3>2. queue \in Seq(Message)
        BY DEF Types
      <3>3. queue' \in Seq(Message)
        BY <2>1, <3>1, <3>2
      <3> QED BY <2>1, <3>1, <3>3
    <2>3. ctrl' \in Ctrl
      <3>1. ctrl \in Ctrl /\ ctrl' = [ctrl EXCEPT !.pc = "wait", !.block = Anchor, !.count = 0]
        BY <1>8 DEF PostFrame, Types
      <3>2. 0 \in Int
        OBVIOUS
      <3> DEFINE zero == 0
      <3> HIDE DEF zero
      <3> QED BY <3>1, <3>2, <1>0 DEF Ctrl
    <2>4. allocated' \subseteq Blocks /\ lost' \subseteq Blocks /\ keys' \subseteq Blocks
      BY <1>8 DEF PostFrame, Hands, Types, Ctrl, Nodes
    <2>5. /\ mutex' = "none"
          /\ UNCHANGED <<next, prev, sem, sdk, clear, dec, posts, passes, clears>>
      BY <1>8 DEF PostFrame
    <2> QED BY <2>2, <2>3, <2>4, <2>5 DEF Types
  <1>9. ASSUME PictureDrawn PROVE Types'
    <2>1. clear' \in Clear /\ clears' \in Nat
      BY <1>9 DEF PictureDrawn, Types, Clear
    <2> QED BY <1>9, <2>1 DEF PictureDrawn, Types
  <1>10. ASSUME ClearLooks PROVE Types'
    BY <1>10, <1>0 DEF ClearLooks, Types, Clear
  <1>11. ASSUME ClearUnlinks PROVE Types'
    <2>1. clear.block \in Nodes /\ clear.prev \in Nodes /\ clear.next \in Nodes
      BY DEF Types, Clear
    <2>2. next' \in [Nodes -> Nodes] /\ prev' \in [Nodes -> Nodes]
      BY <1>11, <2>1, LinkTypes DEF ClearUnlinks, Types
    <2> QED BY <1>11, <2>2, <1>0 DEF ClearUnlinks, Types, Clear
  <1>12. ASSUME SkipFrame \/ TakeFrame \/ StartCall \/ StopCall PROVE Types'
    <2>1. Head(queue) \in Message /\ queue' \in Seq(Message)
      BY <1>12, QueueHead DEF SkipFrame, TakeFrame, StartCall, StopCall, TakeMessage, Types
    <2> QED
      BY <1>12, <2>1 DEF SkipFrame, TakeFrame, StartCall, StopCall, TakeMessage, Free, Types,
                         Dec, Nodes
  <1>13. ASSUME WriteFrame \/ StartTakesToken \/ StartTimesOut \/ dec_server_start PROVE Types'
    BY <1>13, <1>0 DEF WriteFrame, StartTakesToken, StartTimesOut, dec_server_start, Free, Types, Dec
  <1>14. ASSUME dec_server_open \/ dec_server_close PROVE Types'
    BY <1>14 DEF dec_server_open, dec_server_close, Types
  <1>15. ASSUME NEW m \in {"START", "STOP"}, PostCall(m) PROVE Types'
    <2>1. queue' \in Seq(Message)
      BY <1>15 DEF PostCall, Types, Message
    <2> QED BY <1>15, <2>1 DEF PostCall, Types
  <1>16. CASE UNCHANGED vars
    BY <1>16 DEF vars, Types
  <1> QED
    BY <1>1, <1>2, <1>3, <1>4, <1>5, <1>6, <1>7, <1>8, <1>9, <1>10, <1>11, <1>12, <1>13, <1>14,
       <1>15, <1>16
    DEF Next, SdkStep, CtrlStep, ClearStep, DecStep, Environment

-----------------------------------------------------------------------------
(* Who holds the mutex and who has a block. *)

LEMMA HandsStep ==
    ASSUME Types, Mutex, Hands, [Next]_vars
    PROVE  Mutex' /\ Hands'
  <1> USE DEF Mutex, Hands, heap, links, tally
  <1>0. /\ sdk \in Sdk /\ ctrl \in Ctrl /\ clear \in Clear /\ dec \in Dec
        /\ mutex \in {"none", "sdk", "ctrl"} /\ passes \in Nat /\ clears \in Nat
    BY DEF Types
  <1>1. ASSUME NEW key \in BOOLEAN, FrameArrives(key) PROVE Mutex' /\ Hands'
    <2>1. ~(Blocks \subseteq allocated) => FreeBlock # Anchor
      BY DEF FreeBlock
    <2>2. UNCHANGED <<ctrl, clear, dec, clears>> /\ sdk.pc = "idle" /\ mutex = "none"
      BY <1>1 DEF FrameArrives
    <2>3. \/ passes' = passes + 1 /\ mutex' = "none"
          \/ passes' = passes /\ mutex' = "sdk"
      BY <1>1, <2>2 DEF FrameArrives
    <2>4. sdk'.pc \in {"link", "count"} /\ (sdk'.pc = "link" <=> sdk'.block # Anchor)
      BY <1>0, <1>1, <2>1 DEF FrameArrives, Sdk
    <2> QED BY <1>0, <2>2, <2>3, <2>4
  <1>2. ASSUME LinkFrame PROVE Mutex' /\ Hands'
    <2>1. sdk' = [sdk EXCEPT !.pc = "count", !.block = Anchor, !.tail = Anchor, !.count = count]
          /\ sdk.pc = "link" /\ UNCHANGED <<mutex, ctrl, clear, dec, passes, clears>>
      BY <1>2 DEF LinkFrame
    <2>2. sdk'.pc = "count" /\ sdk'.block = Anchor
      BY <1>0, <2>1 DEF Sdk
    <2> QED BY <2>1, <2>2
  <1>3. ASSUME CountFrame PROVE Mutex' /\ Hands'
    <2>1. sdk' = [sdk EXCEPT !.pc = "idle", !.count = 0] /\ sdk.pc = "count"
          /\ mutex' = (IF mutex = "sdk" THEN "none" ELSE mutex)
          /\ UNCHANGED <<ctrl, clear, dec, passes, clears>>
      BY <1>3 DEF CountFrame
    <2>2. sdk'.pc = "idle" /\ sdk'.block = sdk.block
      BY <1>0, <2>1 DEF Sdk
    <2> QED BY <2>1, <2>2
  <1>4. ASSUME CtrlStep PROVE Mutex' /\ Hands'
    <2>1. UNCHANGED <<sdk, clear, dec, passes, clears>>
      BY <1>4 DEF CtrlStep, TakeToken, NoFrame, FirstFrame, UnlinkFrame, PostFrame
    <2>2. CASE TakeToken \/ NoFrame
      BY <1>0, <2>1, <2>2 DEF TakeToken, NoFrame, Ctrl
    <2>3. CASE FirstFrame
      BY <1>0, <2>1, <2>3 DEF FirstFrame, Ctrl
    <2>4. CASE UnlinkFrame
      BY <1>0, <2>1, <2>4 DEF UnlinkFrame, Ctrl
    <2>5. CASE PostFrame
      BY <1>0, <2>1, <2>5 DEF PostFrame, Ctrl
    <2> QED BY <1>4, <2>2, <2>3, <2>4, <2>5 DEF CtrlStep
  <1>5. ASSUME PictureDrawn \/ ClearLooks \/ ClearUnlinks PROVE Mutex' /\ Hands'
    BY <1>0, <1>5 DEF PictureDrawn, ClearLooks, ClearUnlinks, Clear
  <1>6. ASSUME DecStep PROVE Mutex' /\ Hands'
    <2>1. UNCHANGED <<sdk, ctrl, clear, mutex, passes, clears>>
      BY <1>6 DEF DecStep, SkipFrame, TakeFrame, StartCall, StopCall, WriteFrame, StartTakesToken,
                  StartTimesOut, dec_server_start
    <2>2. CASE SkipFrame \/ StopCall
      BY <2>1, <2>2 DEF SkipFrame, StopCall, TakeMessage
    <2>3. CASE TakeFrame
      BY <2>1, <2>3 DEF TakeFrame, TakeMessage
    <2>4. CASE WriteFrame \/ StartCall
      BY <1>0, <2>1, <2>4 DEF WriteFrame, StartCall, TakeMessage, Dec
    <2>5. CASE StartTakesToken \/ StartTimesOut \/ dec_server_start
      BY <1>0, <2>1, <2>5 DEF StartTakesToken, StartTimesOut, dec_server_start, Dec
    <2> QED BY <1>6, <2>2, <2>3, <2>4, <2>5 DEF DecStep
  <1>7. ASSUME dec_server_open \/ dec_server_close \/ \E m \in {"START", "STOP"} : PostCall(m)
        PROVE  Mutex' /\ Hands'
    BY <1>7 DEF dec_server_open, dec_server_close, PostCall
  <1>8. CASE UNCHANGED vars
    BY <1>8 DEF vars
  <1> QED
    BY <1>1, <1>2, <1>3, <1>4, <1>5, <1>6, <1>7, <1>8 DEF Next, SdkStep, ClearStep, Environment

LEMMA HandsInit == Init => Mutex /\ Hands
  BY DEF Init, Mutex, Hands

LEMMA FlagsInit == Init => Flags
  BY DEF Init, Flags

\* Every variable keeps its type: the links stay among the head and the
\* blocks, the semaphore never goes below zero although writer, mover and the
\* start of a call change it, and only frames and messages are queued.
THEOREM MediaTypes == Spec => []TypeOK
  <1> DEFINE I == Types /\ Flags /\ Mutex /\ Hands
  <1>1. Init => I
    BY TypesInit, FlagsInit, HandsInit
  <1>2. I /\ [Next]_vars => I'
    <2> SUFFICES ASSUME I, [Next]_vars PROVE I'
      OBVIOUS
    <2>1. Types'
      BY TypesStep
    <2>2. Flags'
      BY FlagsStep
    <2>3. Mutex' /\ Hands'
      BY HandsStep
    <2> QED BY <2>1, <2>2, <2>3
  <1>3. I => TypeOK
    BY DEF TypeOK
  <1> QED BY <1>1, <1>2, <1>3, PTL DEF Spec

-----------------------------------------------------------------------------
(* What an append and a removal do to links that are whole. *)

LEMMA AddKeeps ==
    ASSUME next \in [Nodes -> Nodes], prev \in [Nodes -> Nodes], Whole, ~torn,
           NEW e \in Blocks, Alone(e), AddBetween(e, prev[Anchor], Anchor)
    PROVE  /\ Whole' /\ ~torn'
           /\ \A b \in Blocks : b # e => (Alone(b) => Alone(b)')
           /\ \A b \in Blocks : b \in Listed' <=> b \in Listed \/ b = e
  <1> DEFINE t == prev[Anchor]
  <1>1. e # Anchor /\ Anchor \in Nodes /\ e \in Nodes /\ t \in Nodes
    BY DEF Nodes
  <1>2. next[t] = Anchor /\ t # e
    BY <1>1 DEF Whole, Alone
  <1>3. /\ next' = [next EXCEPT ![e] = Anchor, ![t] = e]
        /\ prev' = [prev EXCEPT ![Anchor] = e, ![e] = t]
        /\ torn' = (torn \/ ~Whole')
    BY DEF AddBetween
  <1>4. \A n \in Nodes : /\ next'[n] = IF n = t THEN e ELSE IF n = e THEN Anchor ELSE next[n]
                         /\ prev'[n] = IF n = e THEN t ELSE IF n = Anchor THEN e ELSE prev[n]
    BY <1>1, <1>2, <1>3
  <1>5. Whole'
    <2> SUFFICES ASSUME NEW n \in Nodes PROVE next'[prev'[n]] = n /\ prev'[next'[n]] = n
      BY DEF Whole
    <2>1. next[prev[n]] = n /\ prev[next[n]] = n /\ next[n] \in Nodes /\ prev[n] \in Nodes
      BY DEF Whole
    <2> QED BY <1>1, <1>2, <1>4, <2>1 DEF Alone
  <1>6. ASSUME NEW b \in Blocks, b # e, Alone(b) PROVE Alone(b)'
    BY <1>1, <1>2, <1>4, <1>6 DEF Alone, Nodes
  <1>7. ASSUME NEW b \in Blocks PROVE b \in Listed' <=> b \in Listed \/ b = e
    BY <1>1, <1>2, <1>4, <1>7 DEF Listed, Nodes
  <1> QED BY <1>3, <1>5, <1>6, <1>7

LEMMA DelKeeps ==
    ASSUME next \in [Nodes -> Nodes], prev \in [Nodes -> Nodes], Whole, ~torn,
           NEW p \in Blocks, p = next[Anchor], DelBetween(p, prev[p], next[p])
    PROVE  /\ Whole' /\ ~torn' /\ Alone(p)'
           /\ \A b \in Blocks : Alone(b) => Alone(b)'
           /\ \A b \in Blocks : b \in Listed' <=> b \in Listed /\ b # p
  <1> DEFINE n == next[p]
  <1>1. p # Anchor /\ Anchor \in Nodes /\ p \in Nodes /\ n \in Nodes
    BY DEF Nodes
  <1>2. prev[p] = Anchor /\ prev[n] = p /\ n # p
    BY <1>1 DEF Whole
  <1>3. /\ next' = [next EXCEPT ![Anchor] = n, ![p] = p]
        /\ prev' = [prev EXCEPT ![n] = Anchor, ![p] = p]
        /\ torn' = (torn \/ ~Whole')
    BY <1>2 DEF DelBetween
  <1>4. \A m \in Nodes : /\ next'[m] = IF m = p THEN p ELSE IF m = Anchor THEN n ELSE next[m]
                         /\ prev'[m] = IF m = p THEN p ELSE IF m = n THEN Anchor ELSE prev[m]
    BY <1>1, <1>2, <1>3
  <1>5. Whole'
    <2> SUFFICES ASSUME NEW m \in Nodes PROVE next'[prev'[m]] = m /\ prev'[next'[m]] = m
      BY DEF Whole
    <2>1. next[prev[m]] = m /\ prev[next[m]] = m /\ next[m] \in Nodes /\ prev[m] \in Nodes
      BY DEF Whole
    <2> QED BY <1>1, <1>2, <1>4, <2>1
  <1>6. Alone(p)'
    BY <1>1, <1>4 DEF Alone
  <1>7. ASSUME NEW b \in Blocks, Alone(b) PROVE Alone(b)'
    BY <1>1, <1>2, <1>4, <1>7 DEF Alone, Nodes
  <1>8. ASSUME NEW b \in Blocks PROVE b \in Listed' <=> b \in Listed /\ b # p
    BY <1>1, <1>2, <1>4, <1>8 DEF Listed, Nodes
  <1> QED BY <1>3, <1>5, <1>6, <1>7, <1>8

-----------------------------------------------------------------------------
(* What the queue of the decoder holds. *)

LEMMA QueueAppend ==
    ASSUME queue \in Seq(Message), NEW m \in Message, queue' = Append(queue, m)
    PROVE  /\ \A b \in Blocks : Queued(b)' <=> Queued(b) \/ b = m
           /\ Once /\ ~Queued(m) => Once'
  <1>1. /\ DOMAIN queue = 1 .. Len(queue) /\ Len(queue) \in Nat
        /\ DOMAIN queue' = 1 .. Len(queue) + 1
        /\ \A i \in 1 .. Len(queue) : queue'[i] = queue[i]
        /\ queue'[Len(queue) + 1] = m
    OBVIOUS
  <1>2. \A i \in 1 .. Len(queue) + 1 : i \in 1 .. Len(queue) \/ i = Len(queue) + 1
    BY <1>1
  <1>3. Len(queue) + 1 \in 1 .. Len(queue) + 1 /\ 1 .. Len(queue) \subseteq 1 .. Len(queue) + 1
    BY <1>1
  <1>4. \A b \in Blocks : Queued(b)' <=> Queued(b) \/ b = m
    BY <1>1, <1>2, <1>3 DEF Queued
  <1>5. ASSUME Once, ~Queued(m) PROVE Once'
    BY <1>1, <1>2, <1>3, <1>5 DEF Queued, Once
  <1> QED BY <1>4, <1>5

LEMMA QueueTail ==
    ASSUME queue \in Seq(Message), queue # <<>>, queue' = Tail(queue)
    PROVE  /\ Head(queue) \in Message /\ Queued(Head(queue))
           /\ Once => /\ Once'
                      /\ \A b \in Blocks : Queued(b)' <=> Queued(b) /\ b # Head(queue)
  <1>1. /\ Len(queue) \in Nat /\ Len(queue) > 0
        /\ DOMAIN queue = 1 .. Len(queue) /\ DOMAIN queue' = 1 .. Len(queue) - 1
        /\ \A i \in 1 .. Len(queue) - 1 : queue'[i] = queue[i + 1]
        /\ Head(queue) = queue[1] /\ Head(queue) \in Message
    OBVIOUS
  <1>2. /\ 1 \in DOMAIN queue
        /\ \A i \in DOMAIN queue' : i + 1 \in DOMAIN queue /\ i + 1 # 1
        /\ \A i, j \in DOMAIN queue' : i + 1 = j + 1 => i = j
        /\ \A i \in DOMAIN queue : i # 1 => i - 1 \in DOMAIN queue' /\ (i - 1) + 1 = i
    BY <1>1
  <1>3. \A i \in DOMAIN queue : i # 1 => queue'[i - 1] = queue[i]
    BY <1>1, <1>2
  <1>4. ASSUME Once PROVE Once'
    BY <1>1, <1>2, <1>4 DEF Once
  <1>5. ASSUME Once, NEW b \in Blocks PROVE Queued(b)' <=> Queued(b) /\ b # Head(queue)
    <2>1. Queued(b)' => Queued(b) /\ b # Head(queue)
      BY <1>1, <1>2, <1>5 DEF Once, Queued
    <2>2. Queued(b) /\ b # Head(queue) => Queued(b)'
      BY <1>1, <1>2, <1>3, <1>5 DEF Queued
    <2> QED BY <2>1, <2>2
  <1> QED BY <1>1, <1>2, <1>4, <1>5 DEF Queued

-----------------------------------------------------------------------------
(* Until the list is full or cleared, pointers are fresh and frames apart. *)

LEMMA GoodInit == Init => Fresh /\ Apart
  <1> SUFFICES ASSUME Init PROVE Fresh /\ Apart
    OBVIOUS
  <1> USE DEF Init
  <1>1. Whole /\ ~torn /\ Listed = {}
    BY DEF Whole, Listed, Nodes
  <1>2. \A b : ~Queued(b)
    BY DEF Queued
  <1>3. Once
    BY DEF Once
  <1> QED BY <1>1, <1>2, <1>3 DEF Fresh, Apart

\* Steps that neither touch the links nor hand on a frame.
LEMMA GoodIdle ==
    ASSUME Fresh, Apart, UNCHANGED <<allocated, lost, next, prev, torn>>,
           sdk'.block = sdk.block, (sdk'.pc = sdk.pc) \/ sdk'.pc \notin {"link"},
           sdk'.tail = sdk.tail,
           \/ ctrl' = ctrl
           \/ /\ {ctrl.pc, ctrl'.pc} \subseteq {"wait", "lock"}
              /\ ctrl'.block = ctrl.block,
           dec'.block = dec.block, Once',
           \A b \in Blocks : Queued(b)' <=> Queued(b),
           sdk \in Sdk, ctrl \in Ctrl, dec \in Dec
    PROVE  Fresh' /\ Apart'
  <1>1. Listed' = Listed /\ Whole' /\ ~torn'
    BY DEF Listed, Whole, Fresh
  <1>2. \A b : Alone(b)' <=> Alone(b)
    BY DEF Alone
  <1>3. /\ sdk.block # Anchor => sdk.block \in Blocks
        /\ ctrl.block # Anchor => ctrl.block \in Blocks
        /\ dec.block # Anchor => dec.block \in Blocks
    BY DEF Sdk, Ctrl, Dec, Nodes
  <1>4. ctrl'.block = ctrl.block
    OBVIOUS
  <1>5. Apart'
    BY <1>1, <1>3, <1>4 DEF Apart
  <1>6. Fresh'
    BY <1>1, <1>2, <1>3, <1>4 DEF Fresh
  <1> QED BY <1>5, <1>6

\* A frame arrives in a block that nobody holds.
LEMMA GoodArrives ==
    ASSUME Types, Mutex, Hands, Fresh, Apart, NEW key \in BOOLEAN, FrameArrives(key)
    PROVE  Fresh' /\ Apart'
  <1>0. sdk \in Sdk /\ ctrl \in Ctrl /\ dec \in Dec
    BY DEF Types
  <1>1. /\ sdk.pc = "idle" /\ sdk.block = Anchor
        /\ UNCHANGED <<lost, next, prev, torn, ctrl, dec, queue>>
    BY DEF FrameArrives, Hands, links, heap
  <1>2. CASE Blocks \subseteq allocated
    <2>1. /\ sdk' = [sdk EXCEPT !.pc = "count", !.count = count] /\ allocated' = allocated
      BY <1>2 DEF FrameArrives, heap
    <2>2. sdk'.pc = "count" /\ sdk'.block = sdk.block /\ sdk'.tail = sdk.tail
      BY <1>0, <2>1 DEF Sdk
    <2>3. Once' /\ \A b \in Blocks : Queued(b)' <=> Queued(b)
      BY <1>1 DEF Once, Queued, Apart
    <2> QED BY <1>0, <1>1, <2>1, <2>2, <2>3, GoodIdle
  <1>3. CASE ~(Blocks \subseteq allocated)
    <2> DEFINE b == FreeBlock
    <2>1. b \in Blocks /\ b \notin allocated /\ b # Anchor
      BY <1>3 DEF FreeBlock
    <2>2. /\ allocated' = allocated \cup {b}
          /\ sdk' = [sdk EXCEPT !.pc = "link", !.block = b, !.tail = prev[Anchor]]
      BY <1>3 DEF FrameArrives
    <2>3. sdk'.pc = "link" /\ sdk'.block = b /\ sdk'.tail = prev[Anchor]
      BY <1>0, <2>2 DEF Sdk
    <2>4. b \notin Listed /\ ctrl.block # b /\ dec.block # b /\ ~Queued(b) /\ b \notin lost
      BY <2>1 DEF Apart
    <2>5. Alone(b)
      BY <2>1, <2>4 DEF Listed, Alone, Fresh, Whole, Nodes
    <2>6. /\ Listed' = Listed /\ Whole' /\ ~torn' /\ Once'
          /\ \A c : Queued(c)' <=> Queued(c)
          /\ \A c : Alone(c)' <=> Alone(c)
      BY <1>1 DEF Listed, Whole, Fresh, Once, Apart, Queued, Alone
    <2> HIDE DEF b
    <2>7. Fresh'
      BY <1>1, <2>3, <2>5, <2>6 DEF Fresh
    <2>8. Apart'
      BY <1>1, <2>1, <2>2, <2>3, <2>4, <2>6 DEF Apart
    <2> QED BY <2>7, <2>8
  <1> QED BY <1>2, <1>3

\* The writer appends it behind the last entry, which is still the last.
LEMMA GoodLink ==
    ASSUME Types, Mutex, Hands, passes = 0, Fresh, Apart, LinkFrame
    PROVE  Fresh' /\ Apart'
  <1> DEFINE e == sdk.block
  <1>0. sdk \in Sdk /\ next \in [Nodes -> Nodes] /\ prev \in [Nodes -> Nodes]
    BY DEF Types
  <1>1. /\ sdk.pc = "link" /\ e # Anchor /\ e \in Blocks
        /\ AddBetween(e, sdk.tail, Anchor)
        /\ sdk' = [sdk EXCEPT !.pc = "count", !.block = Anchor, !.tail = Anchor, !.count = count]
        /\ UNCHANGED <<allocated, lost, ctrl, dec, queue>>
    BY <1>0 DEF LinkFrame, heap, Hands, Sdk, Nodes
  <1>2. sdk'.pc = "count" /\ sdk'.block = Anchor
    BY <1>0, <1>1 DEF Sdk
  <1>3. sdk.tail = prev[Anchor] /\ Alone(e) /\ Whole /\ ~torn
    BY <1>1 DEF Fresh
  <1>4. /\ Whole' /\ ~torn'
        /\ \A b \in Blocks : b # e => (Alone(b) => Alone(b)')
        /\ \A b \in Blocks : b \in Listed' <=> b \in Listed \/ b = e
    BY <1>0, <1>1, <1>3, AddKeeps
  <1>5. ctrl.pc \notin {"unlink", "post"} /\ ctrl.block = Anchor
    BY <1>1 DEF Mutex, Hands
  <1>6. Once' /\ \A c : Queued(c)' <=> Queued(c)
    BY <1>1 DEF Once, Apart, Queued
  <1>7. dec.block # e /\ ~Queued(e) /\ e \notin lost /\ (dec.block # Anchor => dec.block \in Blocks)
    BY <1>1 DEF Apart, Types, Dec, Nodes
  <1> HIDE DEF e
  <1>8. Fresh'
    BY <1>1, <1>2, <1>4, <1>5, <1>6, <1>7 DEF Fresh
  <1>9. Apart'
    BY <1>1, <1>2, <1>4, <1>5, <1>6, <1>7 DEF Apart, e
  <1> QED BY <1>8, <1>9

\* The mover looks up the first entry, and takes out what is still the first.
LEMMA GoodFirst ==
    ASSUME Types, Mutex, Hands, passes = 0, Fresh, Apart, FirstFrame
    PROVE  Fresh' /\ Apart'
  <1> DEFINE p == next[Anchor]
  <1>0. ctrl \in Ctrl /\ next \in [Nodes -> Nodes] /\ prev \in [Nodes -> Nodes]
        /\ Anchor \in Nodes
    BY DEF Types, Nodes
  <1>1. /\ ctrl.pc = "lock" /\ p # Anchor /\ p \in Blocks /\ mutex = "none"
        /\ ctrl' = [ctrl EXCEPT !.pc = "unlink", !.block = p, !.prev = prev[p], !.next = next[p]]
        /\ UNCHANGED <<allocated, lost, next, prev, torn, sdk, dec, queue>>
    BY <1>0 DEF FirstFrame, heap, links, Nodes
  <1>2. ctrl'.pc = "unlink" /\ ctrl'.block = p /\ ctrl'.prev = prev[p] /\ ctrl'.next = next[p]
    BY <1>0, <1>1 DEF Ctrl
  <1>3. sdk.pc = "idle" /\ sdk.block = Anchor /\ ctrl.block = Anchor
    BY <1>1 DEF Mutex, Hands
  <1>4. prev[p] = Anchor /\ p \in Listed
    BY <1>0, <1>1 DEF Fresh, Whole, Listed
  <1>5. ~Alone(p) /\ dec.block # p /\ ~Queued(p) /\ p \in allocated /\ p \notin lost
    BY <1>1, <1>4 DEF Alone, Fresh, Apart
  <1>6. /\ Listed' = Listed /\ Whole' /\ ~torn' /\ Once'
        /\ \A c : Queued(c)' <=> Queued(c)
        /\ \A c : Alone(c)' <=> Alone(c)
    BY <1>1 DEF Listed, Whole, Fresh, Once, Apart, Queued, Alone
  <1>7. Fresh'
    BY <1>1, <1>2, <1>3, <1>6 DEF Fresh
  <1>8. Apart'
    <2> HIDE DEF p
    <2> QED BY <1>1, <1>2, <1>3, <1>4, <1>5, <1>6 DEF Apart
  <1> QED BY <1>7, <1>8

LEMMA GoodUnlink ==
    ASSUME Types, Mutex, Hands, passes = 0, Fresh, Apart, UnlinkFrame
    PROVE  Fresh' /\ Apart'
  <1> DEFINE p == ctrl.block
  <1>0. ctrl \in Ctrl /\ next \in [Nodes -> Nodes] /\ prev \in [Nodes -> Nodes]
    BY DEF Types
  <1>1. /\ ctrl.pc = "unlink" /\ p # Anchor /\ p \in Blocks /\ mutex = "ctrl"
        /\ DelBetween(p, ctrl.prev, ctrl.next)
        /\ ctrl' = [ctrl EXCEPT !.pc = "post", !.prev = Anchor, !.next = Anchor, !.count = count]
        /\ UNCHANGED <<allocated, lost, sdk, dec, queue>>
    BY <1>0 DEF UnlinkFrame, heap, Hands, Mutex, Ctrl, Nodes
  <1>2. ctrl'.pc = "post" /\ ctrl'.block = p
    BY <1>0, <1>1 DEF Ctrl
  <1>3. sdk.pc = "idle" /\ sdk.block = Anchor
    BY <1>1 DEF Mutex, Hands
  <1>4. /\ p = next[Anchor] /\ ctrl.prev = prev[p] /\ ctrl.next = next[p] /\ Whole /\ ~torn
    BY <1>1 DEF Fresh
  <1>5. /\ Whole' /\ ~torn' /\ Alone(p)'
        /\ \A b \in Blocks : Alone(b) => Alone(b)'
        /\ \A b \in Blocks : b \in Listed' <=> b \in Listed /\ b # p
    BY <1>0, <1>1, <1>4, DelKeeps
  <1>6. Once' /\ \A c : Queued(c)' <=> Queued(c)
    BY <1>1 DEF Once, Apart, Queued
  <1>7. dec.block # Anchor => dec.block \in Blocks
    BY DEF Types, Dec, Nodes
  <1>8. Fresh'
    <2>1. ctrl'.pc # "unlink" /\ sdk'.pc # "link" /\ dec' = dec /\ lost' = lost
      BY <1>1, <1>2, <1>3
    <2> QED BY <2>1, <1>2, <1>5, <1>6, <1>7 DEF Fresh
  <1>9. Apart'
    BY <1>1, <1>2, <1>3, <1>5, <1>6 DEF Apart
  <1> QED BY <1>8, <1>9

\* The mover hands a frame to the queue of the decoder.
LEMMA GoodPost ==
    ASSUME Types, Mutex, Hands, passes = 0, Fresh, Apart, PostFrame
    PROVE  Fresh' /\ Apart'
  <1> DEFINE p == ctrl.block
  <1>0. ctrl \in Ctrl /\ queue \in Seq(Message) /\ lost \subseteq Blocks
    BY DEF Types
  <1>1. /\ ctrl.pc = "post" /\ p # Anchor /\ p \in Blocks /\ p \in Message /\ mutex = "ctrl"
        /\ \/ queue' = Append(queue, p) /\ lost' = lost
           \/ queue' = queue /\ lost' = lost \cup {p}
        /\ ctrl' = [ctrl EXCEPT !.pc = "wait", !.block = Anchor, !.count = 0]
        /\ UNCHANGED <<allocated, next, prev, torn, sdk, dec>>
    <2>1. ctrl.pc = "post" /\ p # Anchor /\ p \in Blocks /\ p \in Message /\ mutex = "ctrl"
      BY <1>0 DEF PostFrame, Hands, Mutex, Ctrl, Nodes, Message
    <2>2. /\ \/ queue' = Append(queue, p) /\ lost' = lost
             \/ queue' = queue /\ lost' = lost \cup {p}
          /\ ctrl' = [ctrl EXCEPT !.pc = "wait", !.block = Anchor, !.count = 0]
          /\ UNCHANGED <<allocated, next, prev, torn, sdk, dec>>
      BY DEF PostFrame, heap, links
    <2> QED BY <2>1, <2>2
  <1>2. ctrl'.pc = "wait" /\ ctrl'.block = Anchor
    BY <1>0, <1>1 DEF Ctrl
  <1>3. sdk.pc = "idle" /\ sdk.block = Anchor
    BY <1>1 DEF Mutex, Hands
  <1>4. Once /\ ~Queued(p) /\ Alone(p) /\ dec.block # p /\ p \notin lost /\ p \in allocated
    BY <1>1 DEF Apart, Fresh
  <1>6. /\ Listed' = Listed /\ Whole' /\ ~torn'
        /\ \A c : Alone(c)' <=> Alone(c)
    BY <1>1 DEF Listed, Whole, Fresh, Alone
  <1>7. dec.block # Anchor => dec.block \in Blocks
    BY DEF Types, Dec, Nodes
  <1>8. CASE queue' = Append(queue, p) /\ lost' = lost
    <2>1. Once' /\ \A b \in Blocks : Queued(b)' <=> Queued(b) \/ b = p
      BY <1>0, <1>1, <1>4, <1>8, QueueAppend
    <2> HIDE DEF p
    <2>2. Fresh'
      BY <1>1, <1>2, <1>3, <1>4, <1>6, <1>8, <2>1 DEF Fresh
    <2>3. Apart'
      BY <1>1, <1>2, <1>3, <1>4, <1>6, <1>7, <1>8, <2>1 DEF Apart, p
    <2> QED BY <2>2, <2>3
  <1>9. CASE queue' = queue /\ lost' = lost \cup {p}
    <2>1. Once' /\ \A b : Queued(b)' <=> Queued(b)
      BY <1>4, <1>9 DEF Once, Queued
    <2> HIDE DEF p
    <2>2. Fresh'
      BY <1>1, <1>2, <1>3, <1>4, <1>6, <1>9, <2>1 DEF Fresh
    <2>3. Apart'
      BY <1>1, <1>2, <1>3, <1>4, <1>6, <1>7, <1>9, <2>1 DEF Apart, p
    <2> QED BY <2>2, <2>3
  <1> QED BY <1>1, <1>8, <1>9

\* The decoder takes a frame from its queue, and frees it at once or later.
LEMMA GoodTake ==
    ASSUME Types, Mutex, Hands, Fresh, Apart, SkipFrame \/ TakeFrame
    PROVE  Fresh' /\ Apart'
  <1> DEFINE h == Head(queue)
  <1>0. dec \in Dec /\ queue \in Seq(Message) /\ ctrl \in Ctrl /\ sdk \in Sdk
    BY DEF Types
  <1>1. /\ dec.pc = "idle" /\ queue # <<>> /\ queue' = Tail(queue) /\ h \in Blocks
        /\ \/ dec' = dec /\ allocated' = allocated \ {h}
           \/ dec' = [pc |-> "write", block |-> h] /\ allocated' = allocated
        /\ UNCHANGED <<lost, next, prev, torn, sdk, ctrl>>
    BY DEF SkipFrame, TakeFrame, TakeMessage, Free, heap, links
  <1>2. dec.block = Anchor /\ h # Anchor
    BY <1>1 DEF Hands
  <1>3. Once
    BY DEF Apart
  <1>4. Queued(h) /\ Once' /\ \A b \in Blocks : Queued(b)' <=> Queued(b) /\ b # h
    BY <1>0, <1>1, <1>3, QueueTail
  <1>5. /\ Listed' = Listed /\ Whole' /\ ~torn'
        /\ \A c : Alone(c)' <=> Alone(c)
    BY <1>1 DEF Listed, Whole, Fresh, Alone
  <1>6. /\ sdk.block # Anchor => sdk.block \in Blocks
        /\ ctrl.block # Anchor => ctrl.block \in Blocks
    BY <1>0 DEF Sdk, Ctrl, Nodes
  <1>7. Alone(h) /\ h \notin Listed /\ h # sdk.block /\ h # ctrl.block
    BY <1>1, <1>2, <1>4 DEF Fresh, Apart, Alone, Listed
  <1> HIDE DEF h
  <1>8. CASE dec' = dec /\ allocated' = allocated \ {h}
    <2>1. Fresh'
      BY <1>1, <1>2, <1>4, <1>5, <1>8 DEF Fresh
    <2>2. Apart'
      BY <1>1, <1>2, <1>4, <1>5, <1>6, <1>7, <1>8 DEF Apart
    <2> QED BY <2>1, <2>2
  <1>9. CASE dec' = [pc |-> "write", block |-> h] /\ allocated' = allocated
    <2>0. dec'.block = h
      BY <1>9
    <2>1. Fresh'
      BY <1>1, <1>2, <1>4, <1>5, <1>7, <2>0 DEF Fresh
    <2>2. Apart'
      BY <1>1, <1>2, <1>4, <1>5, <1>6, <1>7, <1>9, <2>0 DEF Apart
    <2> QED BY <2>1, <2>2
  <1> QED BY <1>1, <1>8, <1>9

LEMMA GoodWrite ==
    ASSUME Types, Mutex, Hands, Fresh, Apart, WriteFrame
    PROVE  Fresh' /\ Apart'
  <1> DEFINE d == dec.block
  <1>0. dec \in Dec
    BY DEF Types
  <1>1. /\ d # Anchor /\ d \in Blocks /\ allocated' = allocated \ {d}
        /\ dec' = [pc |-> "idle", block |-> Anchor]
        /\ UNCHANGED <<lost, next, prev, torn, sdk, ctrl, queue>>
    BY <1>0 DEF WriteFrame, Free, links, Hands, Dec, Nodes
  <1>2. dec'.block = Anchor
    BY <1>1
  <1>3. /\ Listed' = Listed /\ Whole' /\ ~torn' /\ Once'
        /\ \A c : Queued(c)' <=> Queued(c)
        /\ \A c : Alone(c)' <=> Alone(c)
    BY <1>1 DEF Listed, Whole, Fresh, Once, Apart, Queued, Alone
  <1>4. Alone(d) /\ d \notin Listed /\ d # sdk.block /\ d # ctrl.block /\ ~Queued(d)
    BY <1>1 DEF Fresh, Apart, Alone, Listed
  <1>5. Fresh'
    BY <1>1, <1>2, <1>3 DEF Fresh
  <1>6. Apart'
    BY <1>1, <1>2, <1>3, <1>4 DEF Apart
  <1> QED BY <1>5, <1>6

\* Everything else leaves links and frames where they are.
LEMMA GoodOther ==
    ASSUME Types, Hands, Fresh, Apart, UNCHANGED <<allocated, lost, next, prev, torn>>,
           \/ CountFrame \/ TakeToken \/ NoFrame \/ StartCall \/ StopCall \/ StartTakesToken
           \/ StartTimesOut \/ dec_server_start \/ dec_server_open \/ dec_server_close
           \/ \E m \in {"START", "STOP"} : PostCall(m)
           \/ UNCHANGED vars
    PROVE  Fresh' /\ Apart'
  <1>0. sdk \in Sdk /\ ctrl \in Ctrl /\ dec \in Dec /\ queue \in Seq(Message)
    BY DEF Types
  <1>1. Once
    BY DEF Apart
  <1>2. CASE queue' = queue
    <2>1. Once' /\ \A b \in Blocks : Queued(b)' <=> Queued(b)
      BY <1>1, <1>2 DEF Once, Queued
    <2>2. CASE CountFrame
      <3>1. /\ sdk' = [sdk EXCEPT !.pc = "idle", !.count = 0] /\ ctrl' = ctrl /\ dec' = dec
        BY <2>2 DEF CountFrame
      <3>2. sdk'.pc = "idle" /\ sdk'.block = sdk.block /\ sdk'.tail = sdk.tail
        BY <1>0, <3>1 DEF Sdk
      <3> QED BY <1>0, <2>1, <3>1, <3>2, GoodIdle
    <2>3. CASE TakeToken \/ NoFrame
      <3>1. /\ sdk' = sdk /\ dec' = dec /\ {ctrl.pc, ctrl'.pc} \subseteq {"wait", "lock"}
            /\ ctrl'.block = ctrl.block
        BY <1>0, <2>3 DEF TakeToken, NoFrame, Ctrl
      <3> QED BY <1>0, <2>1, <3>1, GoodIdle
    <2>4. CASE StartTakesToken \/ StartTimesOut \/ dec_server_start
      <3>1. sdk' = sdk /\ ctrl' = ctrl /\ dec'.block = dec.block
        BY <1>0, <2>4 DEF StartTakesToken, StartTimesOut, dec_server_start, Dec
      <3> QED BY <1>0, <2>1, <3>1, GoodIdle
    <2>5. CASE \/ dec_server_open \/ dec_server_close \/ UNCHANGED vars
               \/ \E m \in {"START", "STOP"} : PostCall(m)
      <3>1. sdk' = sdk /\ ctrl' = ctrl /\ dec' = dec
        BY <2>5 DEF dec_server_open, dec_server_close, PostCall, vars
      <3> QED BY <1>0, <2>1, <3>1, GoodIdle
    <2>6. CASE StartCall \/ StopCall
      <3>1. queue # <<>> /\ queue' = Tail(queue)
        BY <2>6 DEF StartCall, StopCall, TakeMessage
      <3>2. Len(queue') # Len(queue)
        BY <1>0, <3>1
      <3> QED BY <1>2, <3>2
    <2> QED BY <2>2, <2>3, <2>4, <2>5, <2>6
  <1>3. CASE StartCall \/ StopCall
    <2>1. /\ queue # <<>> /\ queue' = Tail(queue) /\ Head(queue) \in {"START", "STOP"}
          /\ sdk' = sdk /\ ctrl' = ctrl /\ dec'.block = dec.block
      BY <1>0, <1>3 DEF StartCall, StopCall, TakeMessage, Dec
    <2>2. Once' /\ \A b \in Blocks : Queued(b)' <=> Queued(b) /\ b # Head(queue)
      BY <1>0, <1>1, <2>1, QueueTail
    <2>3. \A b \in Blocks : Queued(b)' <=> Queued(b)
      BY <2>1, <2>2
    <2> QED BY <1>0, <2>1, <2>2, <2>3, GoodIdle
  <1>4. CASE queue' # queue /\ \E m \in {"START", "STOP"} : PostCall(m)
    <2>1. PICK m \in {"START", "STOP"} : PostCall(m)
      BY <1>4
    <2>2. queue' = Append(queue, m) /\ sdk' = sdk /\ ctrl' = ctrl /\ dec' = dec /\ m \in Message
      BY <1>4, <2>1 DEF PostCall, Message
    <2>3. /\ \A b \in Blocks : Queued(b)' <=> Queued(b) \/ b = m
          /\ Once'
      <3>1. \A i \in DOMAIN queue' : queue'[i] = m \/ (i \in DOMAIN queue /\ queue'[i] = queue[i])
        BY <1>0, <2>2
      <3>2. m \notin Blocks
        OBVIOUS
      <3>3. \A b \in Blocks : Queued(b)' <=> Queued(b) \/ b = m
        BY <1>0, <2>2, QueueAppend
      <3>4. Once'
        BY <1>1, <3>1, <3>2 DEF Once
      <3> QED BY <3>3, <3>4
    <2>4. \A b \in Blocks : Queued(b)' <=> Queued(b)
      BY <2>3
    <2> QED BY <1>0, <2>2, <2>3, <2>4, GoodIdle
  <1>5. queue' = queue \/ StartCall \/ StopCall \/ \E m \in {"START", "STOP"} : PostCall(m)
    BY DEF CountFrame, TakeToken, NoFrame, StartTakesToken, StartTimesOut, dec_server_start,
           dec_server_open, dec_server_close, vars
  <1> QED BY <1>2, <1>3, <1>4, <1>5

LEMMA GoodStep ==
    ASSUME Types, Mutex, Hands, Undisturbed, Fresh, Apart, [Next]_vars, Undisturbed'
    PROVE  Fresh' /\ Apart'
  <1>1. passes = 0 /\ clears = 0 /\ clear.pc = "off" /\ passes' = 0 /\ clears' = 0
    BY DEF Undisturbed, Mutex
  <1>2. ~PictureDrawn /\ ~ClearLooks /\ ~ClearUnlinks
    BY <1>1 DEF PictureDrawn, ClearLooks, ClearUnlinks
  <1>3. \/ CountFrame \/ TakeToken \/ NoFrame \/ StartCall \/ StopCall \/ StartTakesToken
        \/ StartTimesOut \/ dec_server_start \/ dec_server_open \/ dec_server_close
        \/ (\E m \in {"START", "STOP"} : PostCall(m))
        \/ UNCHANGED vars
        => UNCHANGED <<allocated, lost, next, prev, torn>>
    BY DEF CountFrame, TakeToken, NoFrame, StartCall, StopCall, StartTakesToken, StartTimesOut,
           dec_server_start, dec_server_open, dec_server_close, PostCall, vars, heap, links
  <1>4. ASSUME NEW key \in BOOLEAN, FrameArrives(key) PROVE Fresh' /\ Apart'
    BY <1>4, GoodArrives
  <1>5. CASE LinkFrame
    BY <1>1, <1>5, GoodLink
  <1>6. CASE FirstFrame
    BY <1>1, <1>6, GoodFirst
  <1>7. CASE UnlinkFrame
    BY <1>1, <1>7, GoodUnlink
  <1>8. CASE PostFrame
    BY <1>1, <1>8, GoodPost
  <1>9. CASE SkipFrame \/ TakeFrame
    BY <1>9, GoodTake
  <1>10. CASE WriteFrame
    BY <1>10, GoodWrite
  <1> QED
    BY <1>2, <1>3, <1>4, <1>5, <1>6, <1>7, <1>8, <1>9, <1>10, GoodOther
    DEF Next, SdkStep, CtrlStep, ClearStep, DecStep, Environment

LEMMA Strays == ASSUME Types, [Next]_vars, Undisturbed' PROVE Undisturbed
  <1>1. passes' = passes \/ passes' = passes + 1
    BY DEF Next, SdkStep, CtrlStep, ClearStep, DecStep, Environment, LinkFrame, CountFrame,
           TakeToken, NoFrame, FirstFrame, UnlinkFrame, PostFrame, ClearLooks, ClearUnlinks,
           SkipFrame, TakeFrame, WriteFrame, StartCall, StartTakesToken, StartTimesOut,
           dec_server_start, StopCall, FrameArrives, PictureDrawn, dec_server_open,
           dec_server_close, PostCall, vars, tally
  <1>2. clears' = clears \/ clears' = clears + 1
    BY DEF Next, SdkStep, CtrlStep, ClearStep, DecStep, Environment, LinkFrame, CountFrame,
           TakeToken, NoFrame, FirstFrame, UnlinkFrame, PostFrame, ClearLooks, ClearUnlinks,
           SkipFrame, TakeFrame, WriteFrame, StartCall, StartTakesToken, StartTimesOut,
           dec_server_start, StopCall, FrameArrives, PictureDrawn, dec_server_open,
           dec_server_close, PostCall, vars, tally
  <1> QED BY <1>1, <1>2 DEF Undisturbed, Types

LEMMA Inductive == Spec => []IInv
  <1>1. Init => IInv
    BY TypesInit, FlagsInit, HandsInit, GoodInit DEF IInv, TypeOK
  <1>2. IInv /\ [Next]_vars => IInv'
    <2> SUFFICES ASSUME IInv, [Next]_vars PROVE IInv'
      OBVIOUS
    <2>1. Types /\ Flags /\ Mutex /\ Hands /\ (Undisturbed => Fresh /\ Apart)
      BY DEF IInv, TypeOK
    <2>2. Types' /\ Flags'
      BY <2>1, TypesStep, FlagsStep
    <2>3. Mutex' /\ Hands'
      BY <2>1, HandsStep
    <2>4. Undisturbed' => Fresh' /\ Apart'
      BY <2>1, GoodStep, Strays
    <2> QED BY <2>2, <2>3, <2>4 DEF IInv, TypeOK
  <1> QED BY <1>1, <1>2, PTL DEF Spec

\* The links of the list are consistent at every step of the writer and of
\* the mover, for as long as nobody appends to a full list or clears it.
THEOREM ListStaysWhole == Spec => []ListIsWhole
  <1>1. IInv => ListIsWhole
    BY DEF IInv, Fresh, ListIsWhole
  <1> QED BY <1>1, Inductive, PTL

\* Until then every frame in memory is held in exactly one place, and a block
\* that is free in none: no frame is freed twice or written after it was freed,
\* and the full queue of the decoder is the only way for its memory to leak.
THEOREM FramesHaveOneHolder == Spec => []FrameHasOneHolder
  <1>1. IInv => FrameHasOneHolder
    <2> SUFFICES ASSUME IInv, Undisturbed, NEW b \in Blocks
                 PROVE  IF b \in allocated THEN \E h \in Places : Holders(b) = {h}
                        ELSE Holders(b) = {}
      BY DEF FrameHasOneHolder
    <2>1. Fresh /\ Apart /\ b # Anchor /\ Hands
      BY DEF IInv
    <2>2. /\ b \in allocated <=>
               \/ b \in Listed \/ sdk.block = b \/ ctrl.block = b \/ dec.block = b
               \/ Queued(b) \/ b \in lost
          /\ sdk.block = b => ctrl.block # b /\ dec.block # b /\ ~Queued(b)
          /\ ctrl.block = b => dec.block # b /\ ~Queued(b)
          /\ dec.block = b => ~Queued(b)
          /\ b \in lost => sdk.block # b /\ ctrl.block # b /\ dec.block # b /\ ~Queued(b)
      BY <2>1 DEF Apart
    <2>3. Alone(b) => b \notin Listed
      BY DEF Alone, Listed
    <2>4. /\ sdk.block = b => b \notin Listed
          /\ dec.block = b \/ Queued(b) \/ b \in lost => b \notin Listed
      BY <2>1, <2>3 DEF Fresh, Hands
    <2>5. CASE b \notin allocated
      BY <2>2, <2>5 DEF Holders
    <2>6. CASE ctrl.block = b
      BY <2>2, <2>6 DEF Holders, Places
    <2>7. CASE sdk.block = b
      BY <2>2, <2>4, <2>7 DEF Holders, Places
    <2>8. CASE dec.block = b
      BY <2>2, <2>4, <2>8 DEF Holders, Places
    <2>9. CASE Queued(b)
      BY <2>2, <2>4, <2>9 DEF Holders, Places
    <2>10. CASE b \in lost
      BY <2>2, <2>4, <2>10 DEF Holders, Places
    <2>11. CASE b \in Listed /\ ctrl.block # b
      BY <2>2, <2>4, <2>11 DEF Holders, Places
    <2> QED BY <2>2, <2>5, <2>6, <2>7, <2>8, <2>9, <2>10, <2>11
  <1> QED BY <1>1, Inductive, PTL

-----------------------------------------------------------------------------
(* The backlog.  Appends to a full list and clears may find that what they *)
(* read is no longer true; as long as the links come out whole, such a     *)
(* write has appended a frame, taken the first one, or changed nothing.    *)

\* Whoever follows the links from the head meets every frame of the list.
Reach ==
    \A S \in SUBSET Nodes :
        Anchor \in S /\ (\A n \in S : next[n] \in S) => Listed \subseteq S

\* A task that is about to unlink a frame has read it as the first of the list.
Read(task) == task.pc = "unlink" => /\ task.prev = Anchor /\ task.block # Anchor
                                    /\ task.next # task.block

Linked == (~torn => Whole /\ Reach) /\ Read(ctrl) /\ Read(clear)

\* The first of a list that is whole.
LEMMA FirstRead ==
    ASSUME next \in [Nodes -> Nodes], Whole, next[Anchor] # Anchor
    PROVE  LET p == next[Anchor] IN prev[p] = Anchor /\ p \in Blocks /\ next[p] # p
  <1>1. Anchor \in Nodes /\ next[Anchor] \in Blocks
    BY DEF Nodes
  <1> QED BY <1>1 DEF Whole, Nodes

\* An append that leaves the links whole, whatever its tail was read to be.
LEMMA AddWhole ==
    ASSUME next \in [Nodes -> Nodes], prev \in [Nodes -> Nodes], Whole,
           NEW e \in Blocks, NEW t \in Nodes, AddBetween(e, t, Anchor), Whole'
    PROVE  /\ t # e
           /\ \A n \in Nodes : next'[n] = IF n = t THEN e ELSE IF n = e THEN Anchor ELSE next[n]
           /\ UNCHANGED next \/ (next[t] = Anchor /\ next[e] = e)
  <1>1. e # Anchor /\ Anchor \in Nodes /\ e \in Nodes
    BY DEF Nodes
  <1>2. \A n \in Nodes : /\ next'[n] = IF n = t THEN e ELSE IF n = e THEN Anchor ELSE next[n]
                         /\ prev'[n] = IF n = e THEN t ELSE IF n = Anchor THEN e ELSE prev[n]
    BY <1>1 DEF AddBetween
  <1>3. next' \in [Nodes -> Nodes]
    BY <1>1 DEF AddBetween
  <1>4. t # e
    BY <1>1, <1>2 DEF Whole
  <1>5. prev[Anchor] \in {t, e}
    <2> DEFINE l == prev[Anchor]
    <2>1. l \in Nodes /\ next[l] = Anchor
      BY <1>1 DEF Whole
    <2>2. l \notin {t, e} => next'[l] = Anchor /\ prev'[Anchor] = e /\ prev'[next'[l]] = l
      BY <1>1, <1>2, <2>1 DEF Whole
    <2> QED BY <2>2
  <1>6. CASE prev[Anchor] = t
    <2>1. next[t] = Anchor
      BY <1>1, <1>6 DEF Whole
    <2>2. next[e] # e => FALSE
      <3> DEFINE x == next[e]
      <3>1. x \in Nodes /\ prev[x] = e
        BY <1>1 DEF Whole
      <3>2. x # Anchor
        BY <1>4, <1>6, <3>1
      <3>3. x # e => prev'[x] = e /\ next'[e] = Anchor
        BY <1>1, <1>2, <1>4, <3>1, <3>2
      <3>4. next'[prev'[x]] = x
        BY <3>1 DEF Whole
      <3> QED BY <3>2, <3>3, <3>4
    <2> QED BY <1>2, <1>4, <2>1, <2>2
  <1>7. CASE prev[Anchor] = e
    <2>1. next[e] = Anchor
      BY <1>1, <1>7 DEF Whole
    <2>2. next[t] = e
      <3> DEFINE u == prev[e]
      <3>1. u \in Nodes /\ next[u] = e /\ u # e
        BY <1>1, <2>1 DEF Whole
      <3>2. u # t => next'[u] = e
        BY <1>2, <3>1
      <3>3. prev'[next'[u]] = u /\ prev'[e] = t
        BY <1>1, <1>2, <3>1 DEF Whole
      <3> QED BY <3>1, <3>2, <3>3
    <2>3. \A n \in Nodes : next'[n] = next[n]
      BY <1>2, <1>4, <2>1, <2>2
    <2> QED BY <1>2, <1>3, <1>4, <2>3
  <1> QED BY <1>2, <1>4, <1>5, <1>6, <1>7

\* A removal of what was read as the first entry that leaves the links whole.
LEMMA DelWhole ==
    ASSUME next \in [Nodes -> Nodes], prev \in [Nodes -> Nodes], Whole,
           NEW p \in Blocks, NEW a \in Nodes, a # p, DelBetween(p, Anchor, a), Whole'
    PROVE  /\ \A n \in Nodes : next'[n] = IF n = p THEN p ELSE IF n = Anchor THEN a ELSE next[n]
           /\ UNCHANGED next \/ (next[Anchor] = p /\ next[p] = a)
  <1>1. p # Anchor /\ Anchor \in Nodes /\ p \in Nodes
    BY DEF Nodes
  <1>2. \A n \in Nodes : /\ next'[n] = IF n = p THEN p ELSE IF n = Anchor THEN a ELSE next[n]
                         /\ prev'[n] = IF n = p THEN p ELSE IF n = a THEN Anchor ELSE prev[n]
    BY <1>1 DEF DelBetween
  <1>3. next' \in [Nodes -> Nodes]
    BY <1>1 DEF DelBetween
  <1> DEFINE q == next[Anchor]
             x == next[p]
  <1>4. q \in Nodes /\ prev[q] = Anchor /\ x \in Nodes /\ prev[x] = p
    BY <1>1 DEF Whole
  <1>5. x \notin {a, p} => prev'[x] = p /\ next'[p] = p /\ next'[prev'[x]] = x
    BY <1>1, <1>2, <1>4 DEF Whole
  <1>6. x \in {a, p}
    BY <1>5
  <1>7. q \notin {a, p} => prev'[q] = Anchor /\ next'[Anchor] = a /\ next'[prev'[q]] = q
    BY <1>1, <1>2, <1>4 DEF Whole
  <1>8. q \in {a, p}
    BY <1>7
  <1>9. CASE q = p
    BY <1>1, <1>2, <1>4, <1>6, <1>9
  <1>10. CASE q = a
    <2>1. x = p
      BY <1>1, <1>4, <1>6, <1>10
    <2>2. \A n \in Nodes : next'[n] = next[n]
      BY <1>2, <1>10, <2>1
    <2> QED BY <1>2, <1>3, <2>2
  <1> QED BY <1>2, <1>8, <1>9, <1>10

LEMMA AddReaches ==
    ASSUME next \in [Nodes -> Nodes], prev \in [Nodes -> Nodes], Whole, Reach,
           NEW e \in Blocks, NEW t \in Nodes, AddBetween(e, t, Anchor), Whole'
    PROVE  Reach' /\ Listed' \subseteq Listed \cup {e} /\ Listed \ {e} \subseteq Listed'
  <1>1. e # Anchor /\ Anchor \in Nodes /\ e \in Nodes /\ Blocks \subseteq Nodes
    BY DEF Nodes
  <1>2. /\ t # e
        /\ \A n \in Nodes : next'[n] = IF n = t THEN e ELSE IF n = e THEN Anchor ELSE next[n]
        /\ UNCHANGED next \/ (next[t] = Anchor /\ next[e] = e)
    BY AddWhole
  <1>3. CASE UNCHANGED next
    BY <1>3 DEF Reach, Listed
  <1>4. CASE next[t] = Anchor /\ next[e] = e
    <2>1. Listed' \subseteq Listed \cup {e}
      BY <1>1, <1>2, <1>4 DEF Listed
    <2>2. Listed \ {e} \subseteq Listed'
      BY <1>1, <1>2 DEF Listed
    <2>3. ASSUME NEW S \in SUBSET Nodes, Anchor \in S, \A n \in S : next'[n] \in S
          PROVE  Listed' \subseteq S
      <3>1. \A n \in S : next[n] \in S
        BY <1>2, <1>4, <2>3
      <3>2. Listed \subseteq S
        BY <2>3, <3>1 DEF Reach
      <3>3. t \in S
        BY <1>1, <1>4, <2>3, <3>2 DEF Listed, Nodes
      <3>4. e \in S
        BY <1>2, <2>3, <3>3
      <3> QED BY <2>1, <3>2, <3>4
    <2> QED BY <2>1, <2>2, <2>3 DEF Reach
  <1> QED BY <1>2, <1>3, <1>4

LEMMA DelReaches ==
    ASSUME next \in [Nodes -> Nodes], prev \in [Nodes -> Nodes], Whole, Reach,
           NEW p \in Blocks, NEW a \in Nodes, a # p, DelBetween(p, Anchor, a), Whole'
    PROVE  Reach' /\ Listed' = Listed \ {p}
  <1>1. p # Anchor /\ Anchor \in Nodes /\ p \in Nodes /\ Blocks \subseteq Nodes
    BY DEF Nodes
  <1>2. /\ \A n \in Nodes : next'[n] = IF n = p THEN p ELSE IF n = Anchor THEN a ELSE next[n]
        /\ UNCHANGED next \/ (next[Anchor] = p /\ next[p] = a)
    BY DelWhole
  <1>3. \A b \in Blocks : b # Anchor
    BY DEF Nodes
  <1>4. Listed' = Listed \ {p}
    BY <1>1, <1>2, <1>3 DEF Listed
  <1>5. CASE UNCHANGED next
    BY <1>4, <1>5 DEF Reach, Listed
  <1>6. CASE next[Anchor] = p /\ next[p] = a
    <2>1. ASSUME NEW S \in SUBSET Nodes, Anchor \in S, \A n \in S : next'[n] \in S
          PROVE  Listed' \subseteq S
      <3> DEFINE T == S \cup {p}
      <3>1. a \in S
        BY <1>1, <1>2, <2>1
      <3>2. T \in SUBSET Nodes /\ Anchor \in T /\ \A n \in T : next[n] \in T
        BY <1>1, <1>2, <1>6, <2>1, <3>1
      <3> HIDE DEF T
      <3>3. Listed \subseteq T
        BY <3>2 DEF Reach
      <3> QED BY <1>4, <3>3 DEF T
    <2> QED BY <1>4, <2>1 DEF Reach
  <1> QED BY <1>2, <1>4, <1>5, <1>6

LEMMA LinkedStep == ASSUME Types, Hands, Linked, [Next]_vars PROVE Linked'
  <1> USE DEF Linked, heap, links, tally
  <1>0. /\ Anchor \in Nodes /\ next \in [Nodes -> Nodes] /\ prev \in [Nodes -> Nodes]
        /\ sdk \in Sdk /\ ctrl \in Ctrl /\ clear \in Clear
    BY DEF Types, Nodes
  <1>1. ASSUME UNCHANGED links PROVE (~torn => Whole /\ Reach)'
    BY <1>1 DEF Whole, Reach, Listed
  <1>2. CASE ~torn /\ LinkFrame
    <2>1. /\ ~torn /\ sdk.block \in Blocks /\ sdk.tail \in Nodes /\ UNCHANGED <<ctrl, clear>>
          /\ AddBetween(sdk.block, sdk.tail, Anchor)
      BY <1>0, <1>2 DEF LinkFrame, Hands, Sdk, Nodes
    <2>2. ~torn' => Whole'
      BY <2>1 DEF AddBetween
    <2>3. Whole' => Reach'
      BY <1>0, <2>1, AddReaches
    <2>4. Read(ctrl)' /\ Read(clear)'
      BY <2>1 DEF Read
    <2> QED BY <2>2, <2>3, <2>4
  <1>3. CASE ~torn /\ UnlinkFrame
    <2>1. /\ ~torn /\ ctrl.block \in Blocks /\ ctrl.next \in Nodes /\ ctrl.next # ctrl.block
          /\ DelBetween(ctrl.block, Anchor, ctrl.next) /\ UNCHANGED clear
          /\ ctrl' = [ctrl EXCEPT !.pc = "post", !.prev = Anchor, !.next = Anchor, !.count = count]
      BY <1>0, <1>3 DEF UnlinkFrame, Hands, Ctrl, Nodes, Read
    <2>2. ~torn' => Whole'
      BY <2>1 DEF DelBetween
    <2>3. Whole' => Reach'
      BY <1>0, <2>1, DelReaches
    <2>4. ctrl'.pc = "post"
      BY <1>0, <2>1 DEF Ctrl
    <2>5. Read(ctrl)' /\ Read(clear)'
      BY <2>1, <2>4 DEF Read
    <2> QED BY <2>2, <2>3, <2>5
  <1>4. CASE ~torn /\ ClearUnlinks
    <2>1. /\ ~torn /\ clear.block \in Blocks /\ clear.next \in Nodes /\ clear.next # clear.block
          /\ DelBetween(clear.block, Anchor, clear.next) /\ UNCHANGED ctrl
          /\ clear' = [pc |-> "look", block |-> Anchor, prev |-> Anchor, next |-> Anchor]
      BY <1>0, <1>4 DEF ClearUnlinks, Clear, Nodes, Read
    <2>2. ~torn' => Whole'
      BY <2>1 DEF DelBetween
    <2>3. Whole' => Reach'
      BY <1>0, <2>1, DelReaches
    <2>4. Read(ctrl)' /\ Read(clear)'
      BY <2>1 DEF Read
    <2> QED BY <2>2, <2>3, <2>4
  <1>5. CASE ~torn /\ FirstFrame
    <2> DEFINE f == next[Anchor]
    <2>1. /\ f # Anchor /\ Whole /\ UNCHANGED <<links, clear>>
          /\ ctrl' = [ctrl EXCEPT !.pc = "unlink", !.block = f, !.prev = prev[f], !.next = next[f]]
      BY <1>5 DEF FirstFrame
    <2>2. prev[f] = Anchor /\ next[f] # f
      BY <1>0, <2>1, FirstRead
    <2>3. ctrl'.block = f /\ ctrl'.prev = prev[f] /\ ctrl'.next = next[f]
      BY <1>0, <2>1 DEF Ctrl
    <2>4. Read(ctrl)' /\ Read(clear)'
      BY <2>1, <2>2, <2>3 DEF Read
    <2> QED BY <1>1, <2>1, <2>4
  <1>6. CASE ~torn /\ ClearLooks
    <2> DEFINE f == next[Anchor]
    <2>1. /\ Whole /\ UNCHANGED <<links, ctrl>>
          /\ clear' = IF f = Anchor THEN [clear EXCEPT !.pc = "off"]
                      ELSE [pc |-> "unlink", block |-> f, prev |-> prev[f], next |-> next[f]]
      BY <1>6 DEF ClearLooks
    <2>2. f # Anchor => prev[f] = Anchor /\ next[f] # f
      BY <1>0, <2>1, FirstRead
    <2>3. Read(clear)'
      BY <1>0, <2>1, <2>2 DEF Clear, Read
    <2> QED BY <1>1, <2>1, <2>3 DEF Read
  <1>7. CASE TakeToken \/ NoFrame \/ PostFrame
    <2>1. UNCHANGED <<links, clear>> /\ ctrl'.pc # "unlink"
      BY <1>0, <1>7 DEF TakeToken, NoFrame, PostFrame, Ctrl
    <2> QED BY <1>1, <2>1 DEF Read
  <1>8. CASE PictureDrawn
    <2>1. UNCHANGED <<links, ctrl>> /\ clear'.pc # "unlink"
      BY <1>0, <1>8 DEF PictureDrawn, Clear
    <2> QED BY <1>1, <2>1 DEF Read
  <1>9. CASE \/ \E key \in BOOLEAN : FrameArrives(key)
             \/ CountFrame \/ DecStep \/ dec_server_open \/ dec_server_close
             \/ \E m \in {"START", "STOP"} : PostCall(m)
             \/ UNCHANGED vars
    <2>1. UNCHANGED <<links, ctrl, clear>>
      BY <1>9 DEF FrameArrives, CountFrame, DecStep, SkipFrame, TakeFrame, WriteFrame, StartCall,
                  StartTakesToken, StartTimesOut, dec_server_start, StopCall, dec_server_open,
                  dec_server_close, PostCall, vars
    <2> QED BY <1>1, <2>1 DEF Read
  <1> QED
    BY <1>2, <1>3, <1>4, <1>5, <1>6, <1>7, <1>8, <1>9
    DEF Next, SdkStep, CtrlStep, ClearStep, Environment

LEMMA LinkedInit == Init => Linked
  <1> SUFFICES ASSUME Init PROVE Linked
    OBVIOUS
  <1>1. Whole /\ Listed = {}
    BY DEF Init, Whole, Listed, Nodes
  <1> QED BY <1>1 DEF Init, Linked, Reach, Read

-----------------------------------------------------------------------------
(* The backlog in numbers that can be compared. *)

\* The backlog of a list L: frames that nobody is about to take, less the
\* tokens that are there, about to be posted, or just taken.
Gap(L, tokens, writer, mover, block) ==
    Cardinality(IF mover = "unlink" THEN L \ {block} ELSE L) - tokens
        - (IF writer = "count" THEN 1 ELSE 0) - (IF mover = "lock" THEN 1 ELSE 0)

LEMMA GapIs ==
    ASSUME NEW L, IsFiniteSet(L), NEW tokens \in Nat, NEW writer, NEW mover, NEW block
    PROVE  Gap(L, tokens, writer, mover, block)
             = Cardinality(L) - tokens - Cardinality({writer} \cap {"count"})
                 - Cardinality({mover} \cap {"lock", IF block \in L THEN "unlink" ELSE "lock"})
  <1>0. Cardinality(L) \in Nat /\ Cardinality(L \ {block}) \in Nat
    BY FS_CardinalityType, FS_RemoveElement
  <1>1. Cardinality({writer} \cap {"count"}) = IF writer = "count" THEN 1 ELSE 0
    <2>1. CASE writer = "count"
      <3>1. {writer} \cap {"count"} = {"count"}
        BY <2>1
      <3> QED BY <2>1, <3>1, FS_Singleton
    <2>2. CASE writer # "count"
      <3>1. {writer} \cap {"count"} = {}
        BY <2>2
      <3> QED BY <2>2, <3>1, FS_EmptySet
    <2> QED BY <2>1, <2>2
  <1> DEFINE C == {mover} \cap {"lock", IF block \in L THEN "unlink" ELSE "lock"}
  <1>2. CASE mover = "lock"
    <2>1. C = {"lock"}
      BY <1>2
    <2>2. Cardinality(C) = 1
      BY <2>1, FS_Singleton
    <2> QED BY <1>0, <1>1, <1>2, <2>2 DEF Gap
  <1>3. CASE mover = "unlink" /\ block \in L
    <2>1. C = {"unlink"}
      BY <1>3
    <2>2. Cardinality(C) = 1
      BY <2>1, FS_Singleton
    <2>3. Cardinality(L \ {block}) = Cardinality(L) - 1
      BY <1>3, FS_RemoveElement
    <2> QED BY <1>0, <1>1, <1>3, <2>2, <2>3 DEF Gap
  <1>4. CASE mover # "lock" /\ ~(mover = "unlink" /\ block \in L)
    <2>1. C = {}
      BY <1>4
    <2>2. Cardinality(C) = 0
      BY <2>1, FS_EmptySet
    <2>3. mover = "unlink" => L \ {block} = L
      BY <1>4
    <2> QED BY <1>0, <1>1, <1>4, <2>2, <2>3 DEF Gap
  <1> QED BY <1>2, <1>3, <1>4

LEMMA ListedIsFinite == IsFiniteSet(Listed) /\ \A b : IsFiniteSet(Listed \ {b})
  BY FS_Subset DEF Listed

LEMMA BacklogIs ==
    ASSUME sem \in Nat, sem' \in Nat
    PROVE  /\ Backlog = Gap(Listed, sem, sdk.pc, ctrl.pc, ctrl.block)
           /\ Backlog' = Gap(Listed', sem', sdk'.pc, ctrl'.pc, ctrl'.block)
  <1>1. IsFiniteSet(Listed) /\ IsFiniteSet(Listed')
    BY FS_Subset DEF Listed
  <1> QED BY <1>1, GapIs DEF Backlog

LEMMA BacklogInt == ASSUME sem \in Nat, sem' \in Nat PROVE Backlog \in Int /\ Backlog' \in Int
  <1> DEFINE S == IF ctrl.pc = "unlink" THEN Listed \ {ctrl.block} ELSE Listed
  <1>1. IsFiniteSet(S) /\ IsFiniteSet(S')
    BY FS_Subset DEF Listed
  <1>2. Cardinality(S) \in Nat /\ Cardinality(S') \in Nat
    BY <1>1, FS_CardinalityType
  <1>3. /\ Backlog = Cardinality(S) - sem - (IF sdk.pc = "count" THEN 1 ELSE 0)
                       - (IF ctrl.pc = "lock" THEN 1 ELSE 0)
        /\ Backlog' = Cardinality(S') - sem' - (IF sdk'.pc = "count" THEN 1 ELSE 0)
                       - (IF ctrl'.pc = "lock" THEN 1 ELSE 0)
    BY BacklogIs DEF Gap
  <1> HIDE DEF S
  <1> QED BY <1>2, <1>3

\* A step that leaves the list alone: only the tokens and the tasks count.
LEMMA SameList ==
    ASSUME sem \in Nat, sem' \in Nat, Listed' = Listed, ctrl'.block = ctrl.block,
           \/ ctrl'.pc = ctrl.pc
           \/ ctrl.pc = "wait" /\ ctrl'.pc = "lock" /\ sem' = sem - 1
           \/ ctrl.pc = "post" /\ ctrl'.pc = "wait",
           \/ sdk'.pc = sdk.pc
           \/ sdk.pc = "idle"
           \/ sdk.pc = "count" /\ sdk'.pc = "idle" /\ sem' = sem + 1 /\ ctrl'.pc = ctrl.pc,
           \/ sem' = sem
           \/ sem' = sem - 1 /\ ctrl.pc = "wait" /\ ctrl'.pc = "lock"
           \/ sem' = sem + 1 /\ sdk.pc = "count" /\ sdk'.pc = "idle" /\ ctrl'.pc = ctrl.pc
    PROVE  Backlog' <= Backlog
  <1> DEFINE W(mover) == Cardinality(IF mover = "unlink" THEN Listed \ {ctrl.block} ELSE Listed)
  <1>1. W(ctrl.pc) \in Nat
    BY ListedIsFinite, FS_CardinalityType
  <1>2. W(ctrl'.pc) = W(ctrl.pc)
    OBVIOUS
  <1>3. Backlog = W(ctrl.pc) - sem - (IF sdk.pc = "count" THEN 1 ELSE 0)
                    - (IF ctrl.pc = "lock" THEN 1 ELSE 0)
    BY BacklogIs DEF Gap
  <1>4. Backlog' = W(ctrl.pc) - sem' - (IF sdk'.pc = "count" THEN 1 ELSE 0)
                     - (IF ctrl'.pc = "lock" THEN 1 ELSE 0)
    BY BacklogIs, <1>2 DEF Gap
  <1> HIDE DEF W
  <1> QED BY <1>1, <1>3, <1>4

LEMMA NoneIsLess ==
    ASSUME NEW tokens \in Nat, NEW posting \in {0, 1}, NEW taken \in {0, 1}
    PROVE  0 - tokens - posting - taken <= 0
  OBVIOUS

LEMMA BacklogStep ==
    ASSUME Types, Types', Hands, Linked, [Next]_vars, start, start', ~torn'
    PROVE  Backlog' <= Backlog \/ (dec.pc = "token" /\ sem' = sem - 1) \/ Backlog' <= 0
  <1> USE DEF heap, links, tally
  <1>0. /\ Anchor \in Nodes /\ next \in [Nodes -> Nodes] /\ prev \in [Nodes -> Nodes]
        /\ sdk \in Sdk /\ ctrl \in Ctrl /\ clear \in Clear /\ dec \in Dec
        /\ sem \in Nat /\ sem' \in Nat
    BY DEF Types, Nodes
  <1>1. ASSUME NEW key \in BOOLEAN, FrameArrives(key) PROVE Backlog' <= Backlog
    <2>1. sdk.pc = "idle" /\ UNCHANGED <<next, sem, ctrl>>
      BY <1>1 DEF FrameArrives
    <2> QED BY <1>0, <2>1, SameList DEF Listed
  <1>2. CASE ~torn /\ LinkFrame
    <2> DEFINE e == sdk.block
    <2>1. /\ sdk.pc = "link" /\ e \in Blocks /\ sdk.tail \in Nodes /\ UNCHANGED <<sem, ctrl>>
          /\ AddBetween(e, sdk.tail, Anchor) /\ Whole /\ Reach
          /\ sdk' = [sdk EXCEPT !.pc = "count", !.block = Anchor, !.tail = Anchor, !.count = count]
      BY <1>0, <1>2 DEF LinkFrame, Hands, Sdk, Nodes, Linked
    <2>2. Whole' /\ sdk'.pc = "count"
      BY <1>0, <2>1 DEF AddBetween, Sdk
    <2>3. Listed' \subseteq Listed \cup {e}
      BY <1>0, <2>1, <2>2, AddReaches
    <2> DEFINE W == IF ctrl.pc = "unlink" THEN Listed \ {ctrl.block} ELSE Listed
               V == IF ctrl.pc = "unlink" THEN Listed' \ {ctrl.block} ELSE Listed'
    <2>4. V \subseteq W \cup {e}
      BY <2>3
    <2>5. IsFiniteSet(W)
      BY ListedIsFinite
    <2>6. /\ Backlog = Cardinality(W) - sem - 0 - (IF ctrl.pc = "lock" THEN 1 ELSE 0)
          /\ Backlog' = Cardinality(V) - sem - 1 - (IF ctrl.pc = "lock" THEN 1 ELSE 0)
      BY <1>0, <2>1, <2>2, BacklogIs DEF Gap
    <2> HIDE DEF W, V
    <2>7. /\ IsFiniteSet(W \cup {e}) /\ Cardinality(W) \in Nat
          /\ Cardinality(W \cup {e}) <= Cardinality(W) + 1
      <3>1. Cardinality(W) \in Nat
        BY <2>5, FS_CardinalityType
      <3>2. /\ IsFiniteSet(W \cup {e})
            /\ Cardinality(W \cup {e}) = IF e \in W THEN Cardinality(W) ELSE Cardinality(W) + 1
        BY <2>5, FS_AddElement
      <3> QED BY <3>1, <3>2
    <2>8. Cardinality(V) <= Cardinality(W \cup {e}) /\ IsFiniteSet(V)
      BY <2>4, <2>7, FS_Subset
    <2>9. Cardinality(V) \in Nat /\ Cardinality(W \cup {e}) \in Nat
      BY <2>7, <2>8, FS_CardinalityType
    <2> QED BY <1>0, <2>6, <2>7, <2>8, <2>9
  <1>3. CASE CountFrame
    <2>1. /\ sdk.pc = "count" /\ sem' = sem + 1 /\ UNCHANGED <<next, ctrl>>
          /\ sdk' = [sdk EXCEPT !.pc = "idle", !.count = 0]
      BY <1>3 DEF CountFrame, Tokens
    <2>2. sdk'.pc = "idle"
      BY <1>0, <2>1 DEF Sdk
    <2> QED BY <1>0, <2>1, <2>2, SameList DEF Listed
  <1>4. CASE TakeToken
    <2>1. /\ ctrl.pc = "wait" /\ sem' = sem - 1 /\ UNCHANGED <<next, sdk>>
          /\ ctrl' = [ctrl EXCEPT !.pc = "lock"]
      BY <1>4 DEF TakeToken
    <2>2. ctrl'.pc = "lock" /\ ctrl'.block = ctrl.block
      BY <1>0, <2>1 DEF Ctrl
    <2> QED BY <1>0, <2>1, <2>2, SameList DEF Listed
  <1>5. CASE ~torn /\ NoFrame
    \* The list is empty: a token that is not followed by a frame leaves no backlog.
    <2>1. next[Anchor] = Anchor /\ Reach /\ UNCHANGED next
      BY <1>5 DEF NoFrame, Linked
    <2>2. Listed \subseteq {Anchor}
      <3>1. {Anchor} \in SUBSET Nodes /\ \A n \in {Anchor} : next[n] \in {Anchor}
        BY <1>0, <2>1
      <3> QED BY <2>1, <3>1 DEF Reach
    <2>3. Listed' = {}
      BY <2>1, <2>2 DEF Listed
    <2>4. Cardinality(IF ctrl'.pc = "unlink" THEN Listed' \ {ctrl'.block} ELSE Listed') = 0
      BY <2>3, FS_EmptySet
    <2>5. Backlog' = 0 - sem' - (IF sdk'.pc = "count" THEN 1 ELSE 0)
                         - (IF ctrl'.pc = "lock" THEN 1 ELSE 0)
      BY <1>0, <2>4, BacklogIs DEF Gap
    <2>6. sem' \in Nat
      BY <1>0
    <2> DEFINE posting == IF sdk'.pc = "count" THEN 1 ELSE 0
               taken == IF ctrl'.pc = "lock" THEN 1 ELSE 0
    <2>7. posting \in {0, 1} /\ taken \in {0, 1} /\ Backlog' = 0 - sem' - posting - taken
      BY <2>5
    <2> HIDE DEF posting, taken
    <2>8. 0 - sem' - posting - taken <= 0
      BY <2>6, <2>7, NoneIsLess
    <2> QED BY <2>7, <2>8
  <1>6. CASE ~torn /\ FirstFrame
    \* The frame that is about to be taken pays for the token.
    <2> DEFINE f == next[Anchor]
    <2>1. /\ ctrl.pc = "lock" /\ f # Anchor /\ Whole /\ UNCHANGED <<next, sem, sdk>>
          /\ ctrl' = [ctrl EXCEPT !.pc = "unlink", !.block = f, !.prev = prev[f], !.next = next[f]]
      BY <1>6 DEF FirstFrame, Linked
    <2>2. f \in Listed
      BY <1>0, <2>1, FirstRead DEF Listed
    <2>3. ctrl'.pc = "unlink" /\ ctrl'.block = f /\ Listed' = Listed
      BY <1>0, <2>1 DEF Ctrl, Listed
    <2>4. Cardinality(Listed) \in Nat /\ Cardinality(Listed \ {f}) = Cardinality(Listed) - 1
      BY <2>2, ListedIsFinite, FS_CardinalityType, FS_RemoveElement
    <2>5. /\ Backlog = Cardinality(Listed) - sem - (IF sdk.pc = "count" THEN 1 ELSE 0) - 1
          /\ Backlog' = Cardinality(Listed \ {f}) - sem - (IF sdk.pc = "count" THEN 1 ELSE 0) - 0
      BY <1>0, <2>1, <2>3, BacklogIs DEF Gap
    <2> HIDE DEF f
    <2> QED BY <1>0, <2>4, <2>5
  <1>7. CASE ~torn /\ UnlinkFrame
    <2>1. /\ ctrl.pc = "unlink" /\ ctrl.block \in Blocks /\ ctrl.next \in Nodes
          /\ ctrl.next # ctrl.block /\ Whole /\ Reach /\ UNCHANGED <<sem, sdk>>
          /\ DelBetween(ctrl.block, Anchor, ctrl.next)
          /\ ctrl' = [ctrl EXCEPT !.pc = "post", !.prev = Anchor, !.next = Anchor, !.count = count]
      BY <1>0, <1>7 DEF UnlinkFrame, Hands, Ctrl, Nodes, Read, Linked
    <2>2. Whole' /\ ctrl'.pc = "post"
      BY <1>0, <2>1 DEF DelBetween, Ctrl
    <2>3. Listed' = Listed \ {ctrl.block}
      BY <1>0, <2>1, <2>2, DelReaches
    <2>4. Backlog' = Backlog
      BY <1>0, <2>1, <2>2, <2>3, BacklogIs DEF Gap
    <2>5. Backlog \in Int
      BY <1>0, BacklogInt
    <2> QED BY <2>4, <2>5
  <1>8. CASE PostFrame
    <2>1. /\ ctrl.pc = "post" /\ UNCHANGED <<next, sem, sdk>>
          /\ ctrl' = [ctrl EXCEPT !.pc = "wait", !.block = Anchor, !.count = 0]
      BY <1>8 DEF PostFrame
    <2>2. ctrl'.pc = "wait" /\ Listed' = Listed
      BY <1>0, <2>1 DEF Ctrl, Listed
    <2>3. Backlog' = Backlog
      BY <1>0, <2>1, <2>2, BacklogIs DEF Gap
    <2>4. Backlog \in Int
      BY <1>0, BacklogInt
    <2> QED BY <2>3, <2>4
  <1>9. CASE ~torn /\ ClearUnlinks
    <2>1. /\ clear.block \in Blocks /\ clear.next \in Nodes /\ clear.next # clear.block
          /\ Whole /\ Reach /\ UNCHANGED <<sem, sdk, ctrl>>
          /\ DelBetween(clear.block, Anchor, clear.next)
      BY <1>0, <1>9 DEF ClearUnlinks, Clear, Nodes, Read, Linked
    <2>2. Whole'
      BY <2>1 DEF DelBetween
    <2>3. Listed' = Listed \ {clear.block}
      BY <1>0, <2>1, <2>2, DelReaches
    <2> DEFINE W == IF ctrl.pc = "unlink" THEN Listed \ {ctrl.block} ELSE Listed
               V == IF ctrl.pc = "unlink" THEN Listed' \ {ctrl.block} ELSE Listed'
    <2>4. V \subseteq W /\ IsFiniteSet(W)
      BY <2>3, ListedIsFinite
    <2>5. /\ Backlog = Cardinality(W) - sem - (IF sdk.pc = "count" THEN 1 ELSE 0)
                         - (IF ctrl.pc = "lock" THEN 1 ELSE 0)
          /\ Backlog' = Cardinality(V) - sem - (IF sdk.pc = "count" THEN 1 ELSE 0)
                         - (IF ctrl.pc = "lock" THEN 1 ELSE 0)
      BY <1>0, <2>1, BacklogIs DEF Gap
    <2> HIDE DEF W, V
    <2>6. Cardinality(V) <= Cardinality(W) /\ Cardinality(W) \in Nat /\ Cardinality(V) \in Nat
      BY <2>4, FS_Subset, FS_CardinalityType
    <2> QED BY <1>0, <2>5, <2>6
  <1>10. CASE \/ PictureDrawn \/ ClearLooks \/ SkipFrame \/ TakeFrame \/ WriteFrame \/ StartCall
              \/ StartTimesOut \/ dec_server_start \/ StopCall \/ dec_server_open
              \/ dec_server_close \/ (\E m \in {"START", "STOP"} : PostCall(m))
              \/ UNCHANGED vars
    <2>1. UNCHANGED <<next, sem, sdk, ctrl>>
      BY <1>10 DEF PictureDrawn, ClearLooks, SkipFrame, TakeFrame, WriteFrame, StartCall,
                   StartTimesOut, dec_server_start, StopCall, dec_server_open, dec_server_close,
                   PostCall, vars
    <2> QED BY <1>0, <2>1, SameList DEF Listed
  <1>11. CASE StartTakesToken
    BY <1>11 DEF StartTakesToken
  <1> QED
    BY <1>1, <1>2, <1>3, <1>4, <1>5, <1>6, <1>7, <1>8, <1>9, <1>10, <1>11
    DEF Next, SdkStep, CtrlStep, ClearStep, DecStep, Environment

\* Once the decoder has started, writer, mover and clear keep every frame of
\* the list together with a token, even when they work on the list at the
\* same time and without its mutex: only the start of a call takes a token
\* from a frame and strands it.
THEOREM OnlyStartsStrandFrames == Spec => BacklogGrowsOnlyByStarts
  <1> DEFINE Kept == start /\ start' /\ ~torn' /\ Backlog' > Backlog
                       => (dec.pc = "token" /\ sem' = sem - 1) \/ Backlog' <= 0
             I == Types /\ Hands /\ Linked
  <1>1. Spec => []I
    <2>1. Init => Linked
      BY LinkedInit
    <2>2. Types /\ Hands /\ Linked /\ [Next]_vars => Linked'
      BY LinkedStep
    <2>3. IInv => Types /\ Hands
      BY DEF IInv, TypeOK
    <2> QED BY <2>1, <2>2, <2>3, Inductive, PTL DEF Spec
  <1>2. I /\ I' /\ [Next]_vars => [Kept]_vars
    <2> SUFFICES ASSUME I, I', [Next]_vars PROVE Kept
      OBVIOUS
    <2>1. sem \in Nat /\ sem' \in Nat
      BY DEF Types
    <2>2. Backlog \in Int /\ Backlog' \in Int
      BY <2>1, BacklogInt
    <2> QED BY <2>2, BacklogStep
  <1> QED BY <1>1, <1>2, PTL DEF Spec, BacklogGrowsOnlyByStarts

=============================================================================
