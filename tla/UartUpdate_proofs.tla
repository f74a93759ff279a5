-------------------------- MODULE UartUpdate_proofs --------------------------
(***************************************************************************)
(* What holds of the update over the serial line for every file, every     *)
(* buffer and every way the line damages a length.                         *)
(*                                                                         *)
(* The invariant adds to the types that a frame on the wire has a next     *)
(* byte, that the receiver knows the length of a frame that is intact, and *)
(* stop and wait: while nothing was asked twice and the file was announced *)
(* once, there is one of a request on the wire, a token, a block being     *)
(* read and an answer, so that no answer meets a request.  DeleteInv says  *)
(* in addition how the count of blocks sent goes with the blocks that the  *)
(* other side has, at each step of the exchange of one block.              *)
(***************************************************************************)
EXTENDS UartUpdate, NumberLemmas, TLAPS, FiniteSetTheorems

Wires ==
    /\ wire.req # Nothing => wire.next <= Length(wire.req) + SYNC_SIZE
    /\ mcu.at = "wait" => mcu.req # Nothing
    /\ task.at = "read" => task.block # 0

\* The receiver is before the end that the length field gives the frame.
EndNotMissed == rx.cnt > 4 /\ rx.cnt >= rx.len + SYNC_SIZE => trampled

Lengths == rx.of # Nothing /\ rx.cnt >= 4 => rx.len = Length(rx.of)

OneInFlight ==
    /\ Len(back) <= 1 /\ rx_sem <= 1
    /\ wire.req # Nothing => rx_sem = 0 /\ task.at # "read" /\ back = <<>>
    /\ rx_sem # 0 => task.at # "read" /\ back = <<>> /\ rx.cnt = 0
    /\ task.at = "read" => back = <<>> /\ rx.cnt = 0

BeforeReady ==
    /\ mcu.at = "off" /\ back = <<>> /\ wire.req = Nothing
    /\ rx_sem = 0 /\ task.at # "read" /\ rx.cnt = 0

StopAndWait ==
    ~disturbed /\ budget.ready <= 1 =>
        ~trampled /\ OneInFlight /\ (budget.ready = 0 => BeforeReady)

IInv == TypeOK /\ Wires /\ Lengths /\ EndNotMissed /\ StopAndWait

\* What the receiver holds.
Frame == [cnt : 0 .. Buffer, len : Nat, of : Request \cup {Nothing}]

Budget == [lost : 0 .. MaxLost, restarts : 0 .. MaxRestarts, ready : 0 .. MaxReady]

-----------------------------------------------------------------------------
(* Requests and answers. *)

USE FileAssumption, BufferAssumption, GarbledAssumption, BoundsAssumption

LEMMA Bounds == MaxLost \in Nat /\ MaxRestarts \in Nat /\ MaxReady \in Nat
  OBVIOUS

\* What is spent stays within its bound.
LEMMA Spending ==
    ASSUME TypeOK
    PROVE  /\ budget \in Budget /\ budget.ready \in Nat
           /\ (budget.lost < MaxLost => [budget EXCEPT !.lost = @ + 1] \in Budget)
           /\ (budget.restarts < MaxRestarts => [budget EXCEPT !.restarts = @ + 1] \in Budget)
           /\ (budget.ready < MaxReady => [budget EXCEPT !.ready = @ + 1] \in Budget)
           /\ [budget EXCEPT !.lost = @ + 1].ready = budget.ready
           /\ [budget EXCEPT !.ready = @ + 1].ready = budget.ready + 1
  <1>1. budget \in Budget
    BY DEF TypeOK, Budget
  <1>2. /\ budget.lost \in 0 .. MaxLost /\ budget.restarts \in 0 .. MaxRestarts
        /\ budget.ready \in 0 .. MaxReady
    BY <1>1 DEF Budget
  <1>3. budget.lost < MaxLost => budget.lost + 1 \in 0 .. MaxLost
    BY <1>2, Bounds
  <1>4. budget.restarts < MaxRestarts => budget.restarts + 1 \in 0 .. MaxRestarts
    BY <1>2, Bounds
  <1>5. budget.ready < MaxReady => budget.ready + 1 \in 0 .. MaxReady
    BY <1>2, Bounds
  <1>6. /\ [budget EXCEPT !.lost = @ + 1].ready = budget.ready
        /\ [budget EXCEPT !.ready = @ + 1].ready = budget.ready + 1
    BY <1>1 DEF Budget
  <1> QED BY <1>1, <1>2, <1>3, <1>4, <1>5, <1>6, Bounds DEF Budget

LEMMA Requests ==
    ASSUME NEW r \in Request
    PROVE  /\ r \in Answer /\ r # Nothing
           /\ Length(r) \in 1 .. 3 /\ (r.cmd = "READ" => r.arg \in Block)
  BY DEF Request, Answer, Nothing, Length, Success, Failure, LoaderDone

LEMMA Answers == \A c : AnswerLength(c) \in Nat
  BY DEF AnswerLength

\* What building an answer does to the frame that is being received.
LEMMA Sending ==
    ASSUME TypeOK, Lengths, EndNotMissed, NEW a \in Answer, uart_send_packet(a)
    PROVE  /\ back' \in Seq(Answer) /\ back' = Append(back, a)
           /\ rx' \in Frame
           /\ rx'.cnt = rx.cnt
           /\ trampled' \in BOOLEAN /\ Lengths' /\ EndNotMissed'
           /\ (rx.cnt = 0 /\ ~trampled => ~trampled')
  <1>1. AnswerLength(a.cmd) \in Nat
    BY Answers
  <1>2. rx' = [rx EXCEPT !.len = AnswerLength(a.cmd),
                         !.of = IF rx.cnt < 3 THEN @ ELSE Nothing]
    BY DEF uart_send_packet
  <1>3. /\ rx \in Frame
        /\ trampled \in BOOLEAN
    BY DEF TypeOK, Frame
  <1>4. rx' \in Frame
        /\ rx'.cnt = rx.cnt /\ rx'.of = (IF rx.cnt < 3 THEN rx.of ELSE Nothing)
    BY <1>1, <1>2, <1>3 DEF Frame
  <1>5. back' \in Seq(Answer) /\ back' = Append(back, a)
    BY DEF uart_send_packet, TypeOK
  <1>6. Lengths'
    BY <1>3, <1>4 DEF Lengths, Frame
  <1>7. trampled' = (trampled \/ rx.cnt >= 3)
    BY DEF uart_send_packet
  <1>8. CASE rx.cnt >= 3
    <2>1. trampled' = TRUE
      BY <1>7, <1>8
    <2>2. EndNotMissed'
      BY <2>1 DEF EndNotMissed
    <2>3. rx.cnt # 0
      BY <1>3, <1>8
    <2> QED BY <1>4, <1>5, <1>6, <2>1, <2>2, <2>3
  <1>9. CASE ~(rx.cnt >= 3)
    <2>1. trampled' = trampled
      BY <1>3, <1>7, <1>9
    <2>2. ~(rx'.cnt > 4)
      BY <1>3, <1>4, <1>9 DEF Frame
    <2>3. EndNotMissed'
      BY <2>2 DEF EndNotMissed
    <2> QED BY <1>3, <1>4, <1>5, <1>6, <2>1, <2>3
  <1> QED BY <1>8, <1>9

-----------------------------------------------------------------------------
(* Receiving a byte. *)

LEMMA DecodeStep == IInv /\ uart_data_decode => IInv'
  <1> SUFFICES ASSUME IInv, uart_data_decode PROVE IInv'
    OBVIOUS
  <1> DEFINE r == wire.req
             i == wire.next
  <1>1. /\ rx \in Frame /\ wire \in [req : Request \cup {Nothing}, next : 1 .. Buffer]
        /\ TypeOK /\ Wires /\ Lengths /\ EndNotMissed /\ StopAndWait
    BY DEF IInv, TypeOK, Frame
  <1>2. r \in Request /\ r # Nothing /\ Length(r) \in 1 .. 3
        /\ i \in Nat \ {0} /\ i <= Length(r) + SYNC_SIZE
    BY <1>1, Requests DEF uart_data_decode, Wires
  <1>3. Length(r) + SYNC_SIZE <= Buffer
    BY <1>2 DEF SYNC_SIZE
  <1>4. /\ wire' = IF i = Length(r) + SYNC_SIZE THEN Quiet ELSE [wire EXCEPT !.next = i + 1]
        /\ UNCHANGED <<doorbell, task, back, trampled, mcu, budget, disturbed, delivered>>
    BY DEF uart_data_decode
  <1>5. /\ wire' \in [req : Request \cup {Nothing}, next : 1 .. Buffer]
        /\ (wire'.req # Nothing => wire'.next <= Length(wire'.req) + SYNC_SIZE)
        /\ (i = Length(r) + SYNC_SIZE => wire'.req = Nothing)
    <2>1. CASE i = Length(r) + SYNC_SIZE
      BY <1>1, <1>4, <2>1 DEF Quiet
    <2>2. CASE i # Length(r) + SYNC_SIZE
      BY <1>1, <1>2, <1>3, <1>4, <2>2 DEF SYNC_SIZE
    <2> QED BY <2>1, <2>2
  <1>6. Wires'
    BY <1>1, <1>4, <1>5 DEF Wires
  \* The bytes that store nothing and complete nothing.
  <1>7. CASE /\ rx' \in Frame /\ rx'.cnt \in {0, 1, rx.cnt} /\ UNCHANGED <<rx_cmd, rx_sem>>
             /\ (rx'.cnt > 1 => rx' = rx)
    <2>1. TypeOK'
      BY <1>1, <1>4, <1>5, <1>7 DEF TypeOK, doorbell, Frame
    <2>2. Lengths' /\ EndNotMissed'
      BY <1>1, <1>4, <1>7 DEF Lengths, EndNotMissed, Frame
    <2>3. StopAndWait'
      BY <1>1, <1>2, <1>4, <1>7 DEF StopAndWait, OneInFlight, BeforeReady, doorbell
    <2> QED BY <1>6, <2>1, <2>2, <2>3 DEF IInv
  <1>8. CASE rx.cnt \in {0, Buffer} \/ (rx.cnt = 1 /\ i # 2)
    <2>1. /\ UNCHANGED <<rx_cmd, rx_sem>>
          /\ rx' = CASE rx.cnt = Buffer -> rx
                     [] rx.cnt < Buffer /\ i = 1 -> [rx EXCEPT !.cnt = 1, !.of = r]
                     [] OTHER -> [rx EXCEPT !.cnt = 0]
      BY <1>1, <1>8 DEF uart_data_decode, Frame
    <2>2. CASE rx' = rx
      BY <1>1, <1>7, <2>1, <2>2
    <2>3. CASE rx' = [rx EXCEPT !.cnt = 1, !.of = r]
      <3>1. 1 \in 0 .. Buffer
        BY <1>2, <1>3 DEF SYNC_SIZE
      <3>2. rx' \in Frame /\ rx'.cnt = 1
        BY <1>1, <1>2, <2>3, <3>1 DEF Frame
      <3> QED BY <1>7, <2>1, <3>2
    <2>4. CASE rx' = [rx EXCEPT !.cnt = 0]
      BY <1>1, <1>2, <1>7, <2>1, <2>4, 0 \in 0 .. Buffer DEF Frame
    <2> QED BY <1>1, <2>1, <2>2, <2>3, <2>4 DEF Frame
  <1>9. CASE rx.cnt \in 1 .. Buffer - 1 /\ (rx.cnt = 1 => i = 2)
    <2>1. PICK s \in Stored(r, i) :
             /\ rx' = IF Complete(s) THEN [s EXCEPT !.cnt = 0] ELSE s
             /\ IF Complete(s) /\ s.of = r
                THEN rx_cmd' = r /\ rx_sem' = rx_sem + 1
                ELSE UNCHANGED <<rx_cmd, rx_sem>>
      BY <1>1, <1>9 DEF uart_data_decode, Frame
    <2>2. /\ s \in Frame /\ s.cnt = rx.cnt + 1
          /\ (s.of # Nothing => s.of = r /\ rx.of = r /\ i = s.cnt)
          /\ (rx.cnt # 3 => s.len = rx.len)
          /\ (rx.cnt = 3 /\ s.of # Nothing => s.len = Length(r))
      <3>1. rx.cnt + 1 \in 0 .. Buffer
        BY <1>1, <1>9 DEF Frame
      <3>2. PICK l \in IF rx.cnt # 3 THEN {rx.len}
                       ELSE IF rx.of = r /\ i = rx.cnt + 1 THEN {Length(r)} ELSE Garbled :
               s = [cnt |-> rx.cnt + 1, len |-> l,
                    of |-> IF rx.of = r /\ i = rx.cnt + 1 THEN r ELSE Nothing]
        BY <2>1 DEF Stored
      <3>3. l \in Nat
        BY <1>1, <1>2, <3>2 DEF Frame
      <3> QED BY <1>1, <1>2, <3>1, <3>2, <3>3 DEF Frame
    <2>3. s.cnt >= 4 /\ s.of # Nothing => s.len = Length(r)
      BY <1>1, <2>2 DEF Lengths, Frame
    <2>4. rx' \in Frame /\ (Complete(s) => rx'.cnt = 0) /\ (~Complete(s) => rx' = s)
      BY <2>1, <2>2, 0 \in 0 .. Buffer DEF Frame
    <2>5. Lengths'
      BY <2>2, <2>3, <2>4 DEF Lengths, Frame
    <2>6. EndNotMissed'
      <3>1. CASE Complete(s)
        BY <2>4, <3>1 DEF EndNotMissed
      <3>2. CASE ~Complete(s)
        <4>1. s.cnt > 4 => s.cnt # s.len + SYNC_SIZE
          BY <3>2 DEF Complete
        <4>2. SUFFICES ASSUME s.cnt > 4, s.cnt >= s.len + SYNC_SIZE PROVE trampled
          BY <1>4, <2>4, <3>2 DEF EndNotMissed
        <4>3. rx.cnt >= rx.len + SYNC_SIZE /\ rx.cnt # 3
          BY <1>1, <2>2, <4>1, <4>2 DEF Frame, SYNC_SIZE
        <4>4. rx.cnt > 4
          BY <1>1, <2>2, <4>2, <4>3 DEF Frame, SYNC_SIZE
        <4> QED BY <1>1, <4>3, <4>4 DEF EndNotMissed
      <3> QED BY <3>1, <3>2
    <2>7. CASE Complete(s) /\ s.of = r
      <3>1. i = Length(r) + SYNC_SIZE /\ wire'.req = Nothing
        BY <1>2, <1>5, <2>2, <2>3, <2>7 DEF Complete, Frame
      <3>2. rx_cmd' = r /\ rx_sem' = rx_sem + 1 /\ rx'.cnt = 0
        BY <2>1, <2>4, <2>7
      <3>3. TypeOK'
        <4>1. rx_cmd' \in Request \cup {Nothing} /\ rx_sem' \in Nat
          BY <1>1, <1>2, <3>2 DEF TypeOK
        <4> QED BY <1>1, <1>4, <1>5, <2>4, <4>1 DEF TypeOK, doorbell, Frame
      <3>4. StopAndWait'
        BY <1>1, <1>2, <1>4, <3>1, <3>2 DEF StopAndWait, OneInFlight, BeforeReady, doorbell
      <3> QED BY <1>6, <2>5, <2>6, <3>3, <3>4 DEF IInv
    <2>8. CASE ~(Complete(s) /\ s.of = r)
      <3>1. UNCHANGED <<rx_cmd, rx_sem>>
        BY <2>1, <2>8
      <3>2. TypeOK'
        BY <1>1, <1>4, <1>5, <2>4, <3>1 DEF TypeOK, doorbell, Frame
      <3>3. StopAndWait'
        BY <1>1, <1>2, <1>4, <3>1 DEF StopAndWait, OneInFlight, BeforeReady, doorbell
      <3> QED BY <1>6, <2>5, <2>6, <3>2, <3>3 DEF IInv
    <2> QED BY <2>7, <2>8
  <1> QED BY <1>8, <1>9 DEF uart_data_decode

-----------------------------------------------------------------------------
(* The steps of the update task. *)

\* An answer is built after a token was taken or a block was read, and then no
\* request is being received.
LEMMA Answering ==
    ASSUME IInv, NEW a \in Answer, uart_send_packet(a), UNCHANGED other,
           \/ task.at = "read" /\ rx_sem' = rx_sem /\ task' = Idle
           \/ task.at = "wait" /\ rx_sem > 0 /\ rx_sem' = rx_sem - 1 /\ task'.at # "read"
    PROVE  /\ rx' \in Frame /\ back' \in Seq(Answer) /\ trampled' \in BOOLEAN
           /\ rx_sem' \in Nat /\ Lengths' /\ EndNotMissed' /\ StopAndWait'
  <1>1. /\ rx' \in Frame /\ back' \in Seq(Answer) /\ back' = Append(back, a)
        /\ rx'.cnt = rx.cnt /\ trampled' \in BOOLEAN /\ Lengths' /\ EndNotMissed'
        /\ (rx.cnt = 0 /\ ~trampled => ~trampled')
    BY Sending DEF IInv
  <1>2. /\ rx_sem \in Nat /\ back \in Seq(Answer) /\ StopAndWait
    BY DEF IInv, TypeOK
  <1>3. rx_sem' \in Nat /\ task'.at # "read"
    BY <1>2 DEF Idle
  <1>4. UNCHANGED <<wire, mcu, budget, disturbed>>
    BY DEF other
  <1>5. StopAndWait'
    <2>1. SUFFICES ASSUME ~disturbed, budget.ready <= 1
                   PROVE  ~trampled' /\ OneInFlight' /\ (budget.ready = 0 => BeforeReady')
      BY <1>4 DEF StopAndWait
    <2>2. ~trampled /\ OneInFlight /\ (budget.ready = 0 => BeforeReady)
      BY <1>2, <2>1 DEF StopAndWait
    <2>3. task.at = "read" \/ (rx_sem # 0 /\ rx_sem' = rx_sem - 1)
      BY <1>2
    <2>4. back = <<>> /\ rx.cnt = 0 /\ rx_sem' = 0 /\ wire.req = Nothing /\ budget.ready # 0
      BY <1>2, <2>2, <2>3 DEF OneInFlight, BeforeReady
    <2>5. Len(back') = 1
      BY <1>1, <2>4
    <2>6. OneInFlight'
      BY <1>1, <1>3, <1>4, <2>4, <2>5 DEF OneInFlight
    <2> QED BY <1>1, <2>2, <2>4, <2>6
  <1> QED BY <1>1, <1>3, <1>5

LEMMA PercentType ==
    ASSUME NEW sent \in Nat, NEW total \in Nat \ {0}
    PROVE  Percent(sent, total) \in 0 .. 255
  <1>1. (sent * 100) \div total \in Nat
    OBVIOUS
  <1>2. ((sent * 100) \div total) % 256 \in 0 .. 255
    BY <1>1
  <1> QED BY <1>2 DEF Percent

LEMMA ServeStep == IInv /\ Serve => IInv'
  <1> SUFFICES ASSUME IInv, Serve PROVE IInv'
    OBVIOUS
  <1>1. TypeOK /\ Wires /\ rx \in Frame
    BY DEF IInv, TypeOK, Frame
  <1>2. ASSUME NEW c \in {"START", "LEN", "ALIVE", "READ", "END"}, Take(c)
        PROVE  /\ rx_cmd \in Request /\ rx_cmd \in Answer /\ rx_cmd.cmd = c
               /\ task.at = "wait" /\ rx_sem > 0 /\ rx_sem' = rx_sem - 1
               /\ UNCHANGED <<rx_cmd, other>>
    BY <1>1, <1>2, Requests DEF Take, TypeOK, Nothing
  <1>3. ASSUME rx' \in Frame, back' \in Seq(Answer), trampled' \in BOOLEAN,
               rx_sem' \in Nat, Lengths', EndNotMissed', StopAndWait',
               UNCHANGED <<rx_cmd, other>>,
               file' \in BOOLEAN, fd' \in BOOLEAN, sta' \in States, complete' \in BOOLEAN,
               progress' \in [total : {0, Blocks}, sent : Nat, percent : 0 .. 255],
               task' \in [at : {"wait", "read", "reset"}, block : Block \cup {0}],
               task'.at = "read" => task'.block # 0
        PROVE  IInv'
    <2>1. TypeOK'
      BY <1>1, <1>3 DEF TypeOK, other, Frame
    <2>2. Wires'
      BY <1>1, <1>3 DEF Wires, other
    <2> QED BY <1>3, <2>1, <2>2 DEF IInv
  <1>4. CASE CmdStart
    <2>1. Take("START") /\ uart_send_packet(rx_cmd) /\ sta' = "START"
          /\ UNCHANGED <<file, fd, progress, complete, task>>
      BY <1>4 DEF CmdStart, Reply
    <2>2. sta' \in States
      BY <2>1 DEF States
    <2> QED BY <1>1, <1>2, <1>3, <2>1, <2>2, Answering DEF TypeOK
  <1>5. CASE CmdLen
    <2>1. Take("LEN") /\ uart_send_packet(rx_cmd)
          /\ progress' = [total |-> Blocks, sent |-> 0, percent |-> 0]
          /\ UNCHANGED <<file, fd, sta, complete, task>>
      BY <1>5 DEF CmdLen, Reply
    <2>2. progress' \in [total : {0, Blocks}, sent : Nat, percent : 0 .. 255]
      BY <2>1
    <2> QED BY <1>1, <1>2, <1>3, <2>1, <2>2, Answering DEF TypeOK
  <1>6. CASE CmdKeepAlive
    <2>1. Take("ALIVE") /\ uart_send_packet(rx_cmd) /\ UNCHANGED <<doorbell, task>>
      BY <1>6 DEF CmdKeepAlive, Reply
    <2> QED BY <1>1, <1>2, <1>3, <2>1, Answering DEF TypeOK, doorbell
  <1>7. CASE CmdRead
    <2>1. /\ Take("READ") /\ task' = [at |-> "read", block |-> rx_cmd.arg]
          /\ UNCHANGED <<file, fd, sta, rx, back, trampled>>
      BY <1>7 DEF CmdRead
    <2>2. /\ progress' \in [total : {0, Blocks}, sent : Nat, percent : 0 .. 255]
          /\ complete' \in BOOLEAN
      <3>1. CASE progress.total = 0
        BY <1>1, <1>7, <3>1 DEF CmdRead, TypeOK
      <3>2. CASE progress.total # 0
        <4>1. /\ progress' = Counted(progress)
              /\ complete' = (complete \/ progress'.percent = 99)
          BY <1>7, <3>2 DEF CmdRead
        <4>2. progress.sent + 1 \in Nat /\ progress.total \in Nat \ {0}
          BY <1>1, <3>2 DEF TypeOK
        <4>3. Percent(progress.sent + 1, progress.total) \in 0 .. 255
          BY <4>2, PercentType
        <4> QED BY <1>1, <4>1, <4>2, <4>3 DEF Counted, TypeOK
      <3> QED BY <3>1, <3>2
    <2>3. rx_cmd.arg \in Block
      BY <1>2, <2>1, Requests
    <2>4. /\ task' \in [at : {"wait", "read", "reset"}, block : Block \cup {0}]
          /\ task'.at = "read" /\ task'.block # 0
      BY <2>1, <2>3 DEF Block
    <2>5. Lengths' /\ EndNotMissed'
      BY <2>1 DEF IInv, Lengths, EndNotMissed
    <2>6. rx_sem \in Nat /\ rx_sem > 0 /\ rx_sem' = rx_sem - 1 /\ rx_sem' \in Nat
          /\ UNCHANGED <<rx_cmd, other>>
      BY <1>1, <1>2, <2>1 DEF TypeOK
    <2>7. StopAndWait'
      BY <2>1, <2>4, <2>6 DEF IInv, StopAndWait, OneInFlight, BeforeReady, other
    <2> QED BY <1>1, <1>3, <2>1, <2>2, <2>4, <2>5, <2>6, <2>7 DEF TypeOK
  <1>8. CASE CmdEnd
    <2>1. /\ Take("END") /\ uart_send_packet(rx_cmd) /\ UNCHANGED complete
          /\ uart_update_err_code_handle(rx_cmd.arg)
      BY <1>8 DEF CmdEnd, Reply
    <2>2. file' \in BOOLEAN /\ fd' \in BOOLEAN
      BY <1>1, <1>8 DEF CmdEnd, ufw_file_op_close, TypeOK
    <2>3. /\ task' \in [at : {"wait", "read", "reset"}, block : Block \cup {0}]
          /\ task'.at # "read"
      BY <1>1, <1>2, <1>8, <2>1 DEF CmdEnd, TypeOK
    <2>4. /\ sta' \in States
          /\ progress' \in [total : {0, Blocks}, sent : Nat, percent : 0 .. 255]
      <3> DEFINE P == [total : {0, Blocks}, sent : Nat, percent : 0 .. 255]
      <3>1. progress \in P
        BY <1>1 DEF TypeOK
      <3>2. [total |-> 0, sent |-> 0, percent |-> 100] \in P
        OBVIOUS
      <3>3. [progress EXCEPT !.percent = 100] \in P
        BY <3>1
      <3>4. {"LOADER_DOWNLOAD_FINISH", "SUCC", "FAIL"} \subseteq States
        BY DEF States
      <3> HIDE DEF P
      <3>5. sta' \in States /\ progress' \in P
        BY <2>1, <3>1, <3>2, <3>3, <3>4 DEF uart_update_err_code_handle
      <3> QED BY <3>5 DEF P
    <2> QED BY <1>1, <1>2, <1>3, <2>1, <2>2, <2>3, <2>4, Answering DEF TypeOK
  <1>9. CASE update_data_read_from_file /\ UNCHANGED budget
    <2>1. /\ task.at = "read" /\ task' = Idle
          /\ uart_send_packet([cmd |-> "READ", arg |-> task.block])
          /\ UNCHANGED <<doorbell, rx_cmd, rx_sem, other>>
      <3>1. budget' # [budget EXCEPT !.lost = @ + 1]
        BY <1>1, <1>9, Spending DEF Budget
      <3> QED BY <1>9, <3>1 DEF update_data_read_from_file, other
    <2>2. task.block \in Block
      BY <1>1, <2>1 DEF TypeOK, Wires
    <2>3. [cmd |-> "READ", arg |-> task.block] \in Answer
      BY <2>2 DEF Answer, Request
    <2>4. /\ task' \in [at : {"wait", "read", "reset"}, block : Block \cup {0}]
          /\ task'.at # "read"
      BY <2>1 DEF Idle
    <2> QED BY <1>1, <1>3, <2>1, <2>3, <2>4, Answering DEF TypeOK, doorbell
  \* Without memory the block is not sent.
  <1>11. CASE update_data_read_from_file /\ budget' # budget
    <2>1. /\ task.at = "read" /\ task' = Idle
          /\ budget.lost < MaxLost /\ budget' = [budget EXCEPT !.lost = @ + 1]
          /\ UNCHANGED <<doorbell, receiver, back, trampled, wire, mcu, disturbed, delivered>>
      BY <1>11 DEF update_data_read_from_file, receiver
    <2>2. budget' \in Budget /\ budget'.ready = budget.ready
      BY <1>1, <2>1, Spending
    <2>3. /\ task' \in [at : {"wait", "read", "reset"}, block : Block \cup {0}]
          /\ task'.at # "read"
      BY <2>1 DEF Idle
    <2>4. TypeOK'
      BY <1>1, <2>1, <2>2, <2>3 DEF TypeOK, Budget, doorbell, receiver
    <2>5. Wires' /\ Lengths' /\ EndNotMissed'
      BY <1>1, <2>1, <2>3 DEF IInv, Wires, Lengths, EndNotMissed, receiver
    <2>6. StopAndWait'
      BY <2>1, <2>2, <2>3 DEF IInv, StopAndWait, OneInFlight, BeforeReady, receiver
    <2> QED BY <2>4, <2>5, <2>6 DEF IInv
  <1>10. CASE CpuReset
    <2>1. /\ task' = Idle /\ rx' = NoBytes /\ rx_cmd' = Nothing /\ rx_sem' = 0
          /\ fd' = FALSE /\ sta' = "NONE" /\ progress' = NoProgress /\ complete' = FALSE
          /\ UNCHANGED <<file, back, trampled, other>>
      BY <1>10 DEF CpuReset
    <2>2. rx' \in Frame /\ rx'.cnt = 0 /\ rx'.of = Nothing
      BY <2>1 DEF Frame, NoBytes
    <2>3. TypeOK'
      <3>1. /\ task' \in [at : {"wait", "read", "reset"}, block : Block \cup {0}]
            /\ progress' \in [total : {0, Blocks}, sent : Nat, percent : 0 .. 255]
        BY <2>1 DEF NoProgress, Idle
      <3>2. sta' \in States /\ rx_sem' \in Nat /\ rx_cmd' \in Request \cup {Nothing}
        BY <2>1 DEF States
      <3> QED BY <1>1, <2>1, <2>2, <3>1, <3>2 DEF TypeOK, Frame, other
    <2>4. Wires' /\ Lengths' /\ EndNotMissed'
      BY <1>1, <2>1, <2>2 DEF Wires, Lengths, EndNotMissed, other, Idle
    <2>5. StopAndWait'
      BY <2>1, <2>2 DEF IInv, StopAndWait, OneInFlight, BeforeReady, other, Idle
    <2> QED BY <2>3, <2>4, <2>5 DEF IInv
  <1> QED BY <1>4, <1>5, <1>6, <1>7, <1>8, <1>9, <1>10, <1>11 DEF Serve

-----------------------------------------------------------------------------
(* The announcement, the line and the microcontroller. *)

LEMMA ReadyStep == IInv /\ uart_update_send_update_ready => IInv'
  <1> SUFFICES ASSUME IInv, uart_update_send_update_ready PROVE IInv'
    OBVIOUS
  <1>1. TypeOK /\ rx \in Frame /\ Wires /\ Lengths /\ EndNotMissed /\ StopAndWait
    BY DEF IInv, TypeOK, Frame
  <1>2. /\ budget.ready < MaxReady /\ budget' = [budget EXCEPT !.ready = @ + 1]
        /\ fd' = file
        /\ UNCHANGED <<file, progress, complete, rx_cmd, rx_sem, task, wire, mcu,
                       disturbed, delivered>>
    BY DEF uart_update_send_update_ready
  <1>3. /\ budget' \in Budget
        /\ budget.ready \in Nat /\ budget'.ready = budget.ready + 1
    BY <1>1, <1>2, Spending
  <1>4. Wires'
    BY <1>1, <1>2 DEF Wires
  <1>5. CASE file
    <2>1. sta' = "READY" /\ uart_send_packet([cmd |-> "READY", arg |-> 0])
      BY <1>5 DEF uart_update_send_update_ready
    <2>2. [cmd |-> "READY", arg |-> 0] \in Answer
      BY DEF Answer
    <2>3. /\ rx' \in Frame /\ back' \in Seq(Answer)
          /\ back' = Append(back, [cmd |-> "READY", arg |-> 0])
          /\ rx'.cnt = rx.cnt /\ trampled' \in BOOLEAN /\ Lengths' /\ EndNotMissed'
          /\ (rx.cnt = 0 /\ ~trampled => ~trampled')
      BY <1>1, <2>1, <2>2, Sending
    <2>4. TypeOK'
      BY <1>1, <1>2, <1>3, <2>1, <2>3 DEF TypeOK, Budget, Frame, States
    <2>5. StopAndWait'
      <3>1. SUFFICES ASSUME ~disturbed, budget'.ready <= 1
                     PROVE  ~trampled' /\ OneInFlight' /\ budget'.ready # 0
        BY <1>2 DEF StopAndWait
      <3>2. BeforeReady /\ ~trampled
        BY <1>1, <1>3, <3>1 DEF StopAndWait
      <3>3. Len(back') = 1
        BY <2>3, <3>2 DEF BeforeReady
      <3> QED BY <1>2, <1>3, <2>3, <3>2, <3>3 DEF OneInFlight, BeforeReady
    <2> QED BY <1>4, <2>3, <2>4, <2>5 DEF IInv
  <1>6. CASE ~file
    <2>1. UNCHANGED <<sta, back, rx, trampled>>
      BY <1>6 DEF uart_update_send_update_ready
    <2>2. TypeOK'
      BY <1>1, <1>2, <1>3, <2>1 DEF TypeOK, Budget
    <2>3. Lengths' /\ EndNotMissed'
      BY <1>1, <2>1 DEF Lengths, EndNotMissed
    <2>4. StopAndWait'
      BY <1>1, <1>2, <1>3, <2>1 DEF StopAndWait, OneInFlight, BeforeReady
    <2> QED BY <1>4, <2>2, <2>3, <2>4 DEF IInv
  <1> QED BY <1>5, <1>6

LEMMA LossStep == IInv /\ (LoseByte \/ LoseAnswer \/ PendTimeout) => IInv'
  <1> SUFFICES ASSUME IInv, LoseByte \/ LoseAnswer \/ PendTimeout PROVE IInv'
    OBVIOUS
  <1>1. TypeOK /\ Wires /\ Lengths /\ EndNotMissed /\ StopAndWait
    BY DEF IInv
  <1>2. CASE LoseByte
    <2>1. /\ wire.req # Nothing /\ budget.lost < MaxLost
          /\ wire' = IF wire.next = Length(wire.req) + SYNC_SIZE
                     THEN Quiet ELSE [wire EXCEPT !.next = @ + 1]
          /\ budget' = [budget EXCEPT !.lost = @ + 1]
          /\ UNCHANGED <<doorbell, receiver, task, back, trampled, mcu, disturbed, delivered>>
      BY <1>2 DEF LoseByte
    <2>2. wire.req \in Request /\ Length(wire.req) \in 1 .. 3
      BY <1>1, <2>1, Requests DEF TypeOK
    <2>3. /\ wire' \in [req : Request \cup {Nothing}, next : 1 .. Buffer]
          /\ (wire'.req # Nothing => wire'.next <= Length(wire'.req) + SYNC_SIZE)
      <3>1. CASE wire.next = Length(wire.req) + SYNC_SIZE
        BY <2>1, <2>2, <3>1 DEF Quiet, SYNC_SIZE
      <3>2. CASE wire.next # Length(wire.req) + SYNC_SIZE
        <4>1. wire' = [wire EXCEPT !.next = wire.next + 1]
          BY <2>1, <3>2
        <4>2. /\ wire \in [req : Request \cup {Nothing}, next : 1 .. Buffer]
              /\ wire.next <= Length(wire.req) + SYNC_SIZE
          BY <1>1, <2>1 DEF TypeOK, Wires
        <4>3. wire.next + 1 \in 1 .. Buffer /\ wire.next + 1 <= Length(wire.req) + SYNC_SIZE
          BY <2>2, <3>2, <4>2 DEF SYNC_SIZE
        <4> QED BY <4>1, <4>2, <4>3
      <3> QED BY <3>1, <3>2
    <2>4. /\ budget' \in Budget
          /\ budget'.ready = budget.ready
      BY <1>1, <2>1, Spending
    <2>5. TypeOK'
      BY <1>1, <2>1, <2>3, <2>4 DEF TypeOK, Budget, doorbell, receiver
    <2>6. Wires' /\ Lengths' /\ EndNotMissed'
      BY <1>1, <2>1, <2>3 DEF Wires, Lengths, EndNotMissed, receiver
    <2>7. StopAndWait'
      BY <1>1, <2>1, <2>4 DEF StopAndWait, OneInFlight, BeforeReady, receiver
    <2> QED BY <2>5, <2>6, <2>7 DEF IInv
  <1>3. CASE LoseAnswer
    <2>1. /\ back # <<>> /\ budget.lost < MaxLost /\ back' = Tail(back)
          /\ budget' = [budget EXCEPT !.lost = @ + 1]
          /\ UNCHANGED <<doorbell, receiver, task, trampled, wire, mcu, disturbed, delivered>>
      BY <1>3 DEF LoseAnswer
    <2>2. /\ budget' \in Budget
          /\ budget'.ready = budget.ready
      BY <1>1, <2>1, Spending
    <2>3. back' \in Seq(Answer) /\ (Len(back) <= 1 => back' = <<>>) /\ Len(<<>>) = 0
      BY <1>1, <2>1 DEF TypeOK
    <2>4. TypeOK'
      BY <1>1, <2>1, <2>2, <2>3 DEF TypeOK, Budget, doorbell, receiver
    <2>5. Wires' /\ Lengths' /\ EndNotMissed'
      BY <1>1, <2>1 DEF Wires, Lengths, EndNotMissed, receiver
    <2>6. StopAndWait'
      BY <1>1, <2>1, <2>2, <2>3 DEF StopAndWait, OneInFlight, BeforeReady, receiver
    <2> QED BY <2>4, <2>5, <2>6 DEF IInv
  <1>4. CASE PendTimeout
    <2>1. sta' \in States
          /\ UNCHANGED <<file, fd, progress, complete, receiver, task, back, trampled, other>>
      BY <1>4 DEF PendTimeout, States
    <2>2. TypeOK'
      BY <1>1, <2>1 DEF TypeOK, receiver, other
    <2>3. Wires' /\ Lengths' /\ EndNotMissed'
      BY <1>1, <2>1 DEF Wires, Lengths, EndNotMissed, receiver, other
    <2>4. StopAndWait'
      BY <1>1, <2>1 DEF StopAndWait, OneInFlight, BeforeReady, receiver, other
    <2> QED BY <2>2, <2>3, <2>4 DEF IInv
  <1> QED BY <1>2, <1>3, <1>4

LEMMA Questions ==
    ASSUME NEW r, NEW got \in SUBSET Block
    PROVE  Following(r, got) \subseteq Request
  <1>1. /\ Missing(got) \subseteq Request /\ Missing({}) \subseteq Request
        /\ {Plain("LEN"), Plain("ALIVE"), Plain("START")} \subseteq Request
        /\ {End(Success), End(Failure), End(LoaderDone)} \subseteq Request
    BY DEF Missing, Plain, End, Request
  <1> QED BY <1>1 DEF Following

LEMMA McuStep == IInv /\ (McuAnswered \/ McuAsksAgain \/ McuRestart) => IInv'
  <1> SUFFICES ASSUME IInv, McuAnswered \/ McuAsksAgain \/ McuRestart PROVE IInv'
    OBVIOUS
  <1>1. TypeOK /\ Wires /\ Lengths /\ EndNotMissed /\ StopAndWait
    BY DEF IInv
  <1> DEFINE M == [at : {"off", "wait"}, req : Request \cup {Nothing},
                   got : SUBSET Block, loader : BOOLEAN]
             W == [req : Request \cup {Nothing}, next : 1 .. Buffer]
  <1>2. mcu \in M /\ wire \in W /\ delivered \in BOOLEAN
    BY <1>1 DEF TypeOK, Budget
  <1>3. ASSUME UNCHANGED <<doorbell, receiver, task, trampled>>,
               mcu' \in M, wire' \in W, delivered' \in BOOLEAN, disturbed' \in BOOLEAN,
               back' \in Seq(Answer),
               budget' \in Budget,
               mcu'.at = "wait" => mcu'.req # Nothing,
               wire'.req # Nothing => wire'.next <= Length(wire'.req) + SYNC_SIZE,
               StopAndWait'
        PROVE  IInv'
    <2>1. TypeOK'
      BY <1>1, <1>3 DEF TypeOK, Budget, doorbell, receiver
    <2>2. Wires' /\ Lengths' /\ EndNotMissed'
      BY <1>1, <1>3 DEF Wires, Lengths, EndNotMissed, receiver
    <2> QED BY <1>3, <2>1, <2>2 DEF IInv
  <1>4. ASSUME NEW q \in Request
        PROVE  /\ [req |-> q, next |-> 1] \in W /\ q # Nothing
               /\ 1 <= Length(q) + SYNC_SIZE
    <2>1. 1 \in 1 .. Buffer
      BY DEF SYNC_SIZE
    <2> QED BY <2>1, Requests DEF SYNC_SIZE
  <1>5. CASE McuAnswered
    <2> DEFINE a == Head(back)
               r == mcu.req
               got == CASE r.cmd = "READ" /\ ~mcu.loader -> mcu.got \cup {r.arg}
                        [] r.cmd = "LEN" -> {}
                        [] OTHER -> mcu.got
    <2>1. /\ back # <<>> /\ wire = Quiet /\ back' = Tail(back)
          /\ UNCHANGED <<doorbell, receiver, task, trampled, budget, disturbed>>
      BY <1>5 DEF McuAnswered
    <2>2. back' \in Seq(Answer) /\ (Len(back) <= 1 => back' = <<>>) /\ Len(<<>>) = 0
      BY <1>1, <2>1 DEF TypeOK, Budget
    <2>3. StopAndWait'
      BY <1>1, <2>1, <2>2 DEF StopAndWait, OneInFlight, BeforeReady, receiver
    <2>4. got \in SUBSET Block
      <3>1. r.cmd = "READ" => r.arg \in Block
        BY <1>2, Requests DEF Nothing
      <3> QED BY <1>2, <3>1
    <2>5. \/ /\ Asked(Plain("START"), {}, mcu.loader) /\ UNCHANGED delivered
          \/ /\ \E n \in Following(r, got) : Asked(n, got, mcu.loader /\ r.cmd # "END")
             /\ delivered' = (delivered \/ 99 * Blocks <= 100 * Cardinality(got))
          \/ /\ mcu' = [mcu EXCEPT !.at = "off", !.req = Nothing, !.got = {}]
             /\ UNCHANGED <<wire, delivered>>
          \/ UNCHANGED <<wire, mcu, delivered>>
      BY <1>5 DEF McuAnswered
    <2>6. budget' = budget /\ disturbed' = disturbed
      BY <2>1
    <2>7. ASSUME NEW q \in Request, NEW g \in SUBSET Block, NEW l \in BOOLEAN, Asked(q, g, l)
          PROVE  /\ mcu' \in M /\ wire' \in W
                 /\ (mcu'.at = "wait" => mcu'.req # Nothing)
                 /\ (wire'.req # Nothing => wire'.next <= Length(wire'.req) + SYNC_SIZE)
      BY <1>4, <2>7 DEF Asked
    <2>8. CASE Asked(Plain("START"), {}, mcu.loader) /\ UNCHANGED delivered
      <3>1. Plain("START") \in Request /\ mcu.loader \in BOOLEAN
        BY <1>2 DEF Plain, Request
      <3> HIDE DEF M, W
      <3> QED BY <1>1, <1>2, <1>3, <2>1, <2>2, <2>3, <2>6, <2>7, <2>8, <3>1 DEF TypeOK, Budget
    <2>9. CASE /\ \E n \in Following(r, got) : Asked(n, got, mcu.loader /\ r.cmd # "END")
               /\ delivered' = (delivered \/ 99 * Blocks <= 100 * Cardinality(got))
      <3>1. PICK n \in Following(r, got) : Asked(n, got, mcu.loader /\ r.cmd # "END")
        BY <2>9
      <3>2. n \in Request /\ (mcu.loader /\ r.cmd # "END") \in BOOLEAN
        BY <2>4, Questions
      <3>3. delivered' \in BOOLEAN
        BY <2>9
      <3> HIDE DEF M, W, r, got
      <3> QED BY <1>1, <1>3, <2>1, <2>2, <2>3, <2>4, <2>6, <2>7, <3>1, <3>2, <3>3 DEF TypeOK, Budget
    <2>10. CASE /\ mcu' = [mcu EXCEPT !.at = "off", !.req = Nothing, !.got = {}]
                /\ UNCHANGED <<wire, delivered>>
      <3>1. mcu' \in M /\ mcu'.at = "off" /\ wire' \in W /\ delivered' \in BOOLEAN
        BY <1>2, <2>10
      <3>2. wire'.req = Nothing
        BY <2>1, <2>10 DEF Quiet
      <3> HIDE DEF M, W
      <3> QED BY <1>1, <1>3, <2>1, <2>2, <2>3, <2>6, <3>1, <3>2 DEF TypeOK, Budget
    <2>11. CASE UNCHANGED <<wire, mcu, delivered>>
      <3> HIDE DEF M, W
      <3> QED BY <1>1, <1>2, <1>3, <2>1, <2>2, <2>3, <2>6, <2>11 DEF TypeOK, Budget, Wires
    <2> QED BY <2>5, <2>8, <2>9, <2>10, <2>11
  <1>6. CASE McuAsksAgain
    <2>1. /\ mcu.at = "wait" /\ wire' = [req |-> mcu.req, next |-> 1] /\ disturbed' = TRUE
          /\ UNCHANGED <<doorbell, receiver, task, back, trampled, mcu, budget, delivered>>
      BY <1>6 DEF McuAsksAgain
    <2>2. mcu.req \in Request
      BY <1>1, <1>2, <2>1 DEF Wires
    <2>3. StopAndWait'
      BY <2>1 DEF StopAndWait
    <2>4. wire' \in W /\ wire'.next <= Length(wire'.req) + SYNC_SIZE
      BY <1>4, <2>1, <2>2
    <2> HIDE DEF M, W
    <2> QED BY <1>1, <1>2, <1>3, <2>1, <2>3, <2>4 DEF TypeOK, Budget, Wires
  <1>7. CASE McuRestart
    <2>1. /\ budget.restarts < MaxRestarts
          /\ budget' = [budget EXCEPT !.restarts = @ + 1]
          /\ wire' = Quiet /\ disturbed' = TRUE
          /\ mcu' = [mcu EXCEPT !.at = "off", !.req = Nothing, !.got = {}]
          /\ UNCHANGED <<doorbell, receiver, task, back, trampled, delivered>>
      BY <1>7 DEF McuRestart
    <2>2. budget' \in Budget
      BY <1>1, <2>1, Spending
    <2>3. mcu' \in M /\ mcu'.at = "off"
      BY <1>2, <2>1
    <2>4. wire' \in W /\ wire'.req = Nothing
      <3>1. 1 \in 1 .. Buffer
        BY DEF SYNC_SIZE
      <3> QED BY <2>1, <3>1 DEF Quiet
    <2>5. StopAndWait'
      BY <2>1 DEF StopAndWait
    <2> HIDE DEF M, W
    <2> QED BY <1>1, <1>2, <1>3, <2>1, <2>2, <2>3, <2>4, <2>5 DEF TypeOK, Budget
  <1> QED BY <1>5, <1>6, <1>7

-----------------------------------------------------------------------------
(* The theorems. *)

LEMMA InitIInv == Init => IInv
  <1> SUFFICES ASSUME Init PROVE IInv
    OBVIOUS
  <1>1. TypeOK
    <2>1. 0 \in 0 .. Buffer /\ 1 \in 1 .. Buffer
      BY DEF SYNC_SIZE
    <2>2. \A n \in Nat : 0 \in 0 .. n
      OBVIOUS
    <2>3. /\ wire \in [req : Request \cup {Nothing}, next : 1 .. Buffer]
          /\ rx \in [cnt : 0 .. Buffer, len : Nat, of : Request \cup {Nothing}]
      BY <2>1 DEF Init, Quiet, NoBytes
    <2>4. /\ progress \in [total : {0, Blocks}, sent : Nat, percent : 0 .. 255]
          /\ task \in [at : {"wait", "read", "reset"}, block : Block \cup {0}]
      BY DEF Init, NoProgress, Idle
    <2>5. mcu \in [at : {"off", "wait"}, req : Request \cup {Nothing},
                   got : SUBSET Block, loader : BOOLEAN]
      BY DEF Init
    <2>6. budget \in Budget
      BY <2>2, Bounds DEF Init, Budget
    <2>7. back \in Seq(Answer) /\ sta \in States /\ rx_cmd \in Request \cup {Nothing}
      BY DEF Init, States
    <2> QED BY <2>3, <2>4, <2>5, <2>6, <2>7 DEF Init, TypeOK, Budget
  <1>2. Wires /\ Lengths /\ EndNotMissed
    BY DEF Init, Wires, Lengths, EndNotMissed, Quiet, NoBytes, Idle
  <1>3. StopAndWait
    BY DEF Init, StopAndWait, OneInFlight, BeforeReady, Quiet, NoBytes, Idle
  <1> QED BY <1>1, <1>2, <1>3 DEF IInv

LEMMA NextIInv == IInv /\ [Next]_vars => IInv'
  <1> SUFFICES ASSUME IInv, [Next]_vars PROVE IInv'
    OBVIOUS
  <1>1. CASE Next
    BY <1>1, ServeStep, LossStep, ReadyStep, DecodeStep, McuStep DEF Next
  <1>2. CASE UNCHANGED vars
    BY <1>2 DEF IInv, TypeOK, Wires, Lengths, EndNotMissed, StopAndWait, OneInFlight,
                BeforeReady, vars, doorbell, receiver, other
  <1> QED BY <1>1, <1>2

LEMMA SpecIInv == Spec => []IInv
  BY InitIInv, NextIInv, PTL DEF Spec

\* Every variable keeps its type: the percentage fits its byte, the frame its
\* buffer.
THEOREM UpdateTypes == Spec => []TypeOK
  <1>1. IInv => TypeOK
    BY DEF IInv
  <1> QED BY <1>1, SpecIInv, PTL

\* No answer is ever built over a request as long as nothing was asked twice
\* and the file was announced once, for every file and every kind of damage.
THEOREM OneDirection == Spec => []OneDirectionAtATime
  <1>1. IInv => OneDirectionAtATime
    <2>1. SUFFICES ASSUME IInv, trampled, ~disturbed PROVE budget.ready > 1
      BY DEF OneDirectionAtATime
    <2>2. budget.ready \in Nat /\ StopAndWait
      BY <2>1 DEF IInv, TypeOK
    <2>3. ~(budget.ready <= 1)
      BY <2>1, <2>2 DEF StopAndWait
    <2> QED BY <2>2, <2>3
  <1> QED BY <1>1, SpecIInv, PTL

-----------------------------------------------------------------------------
(* Where a frame ends.  While nothing was lost and the other side did not  *)
(* restart, the receiver and the line are at the same byte of the same     *)
(* request, or a restart of the doorbell has made it forget the first.     *)

Unharmed == budget.lost + budget.restarts = 0 /\ ~trampled

InStep == Unharmed => \/ rx.cnt = 0
                      \/ wire.req # Nothing /\ rx.of = wire.req /\ wire.next = rx.cnt + 1

LEMMA SentInStep ==
    ASSUME IInv, InStep, NEW a \in Answer, uart_send_packet(a), UNCHANGED wire,
           budget'.lost = budget.lost, budget'.restarts = budget.restarts
    PROVE  InStep'
  <1>1. /\ rx \in Frame /\ rx' = [rx EXCEPT !.len = AnswerLength(a.cmd),
                                           !.of = IF rx.cnt < 3 THEN @ ELSE Nothing]
        /\ trampled' = (trampled \/ rx.cnt >= 3)
    BY DEF IInv, TypeOK, Frame, uart_send_packet
  <1>2. rx'.cnt = rx.cnt /\ rx.cnt \in Nat /\ (rx.cnt < 3 => rx'.of = rx.of)
    BY <1>1 DEF Frame
  <1>3. ~trampled' => ~trampled /\ ~(rx.cnt >= 3)
    BY <1>1, Zenon
  <1>4. budget'.lost + budget'.restarts = budget.lost + budget.restarts
    OBVIOUS
  <1>5. Unharmed' => Unharmed /\ ~(rx.cnt >= 3)
    BY <1>3, <1>4, Zenon DEF Unharmed
  <1> QED BY <1>2, <1>5 DEF InStep

LEMMA DecodeInStep == ASSUME IInv, InStep, uart_data_decode PROVE InStep'
  <1> DEFINE r == wire.req
             i == wire.next
  <1>1. /\ rx \in Frame /\ wire \in [req : Request \cup {Nothing}, next : 1 .. Buffer]
        /\ Lengths /\ UNCHANGED <<budget, trampled>>
    BY DEF IInv, TypeOK, Frame, uart_data_decode
  <1>2. r # Nothing /\ r \in Request /\ i \in Nat /\ Length(r) \in 1 .. 3
        /\ wire' = IF i = Length(r) + SYNC_SIZE THEN Quiet ELSE [wire EXCEPT !.next = i + 1]
    BY <1>1, Requests DEF uart_data_decode
  <1>3. i # Length(r) + SYNC_SIZE => wire'.req = r /\ wire'.next = i + 1
    BY <1>1, <1>2
  <1>4. SUFFICES ASSUME Unharmed PROVE rx'.cnt = 0 \/
             (wire'.req # Nothing /\ rx'.of = wire'.req /\ wire'.next = rx'.cnt + 1)
    BY <1>1 DEF InStep, Unharmed
  <1>5. rx.cnt = 0 \/ (rx.of = r /\ i = rx.cnt + 1)
    BY <1>4 DEF InStep
  <1>6. CASE rx.cnt = 0
    <2>1. rx' = IF i = 1 THEN [rx EXCEPT !.cnt = 1, !.of = r] ELSE [rx EXCEPT !.cnt = 0]
      BY <1>1, <1>2, <1>6 DEF uart_data_decode, Frame, SYNC_SIZE
    <2>2. CASE i = 1
      <3>1. rx'.cnt = 1 /\ rx'.of = r /\ i # Length(r) + SYNC_SIZE
        BY <1>1, <1>2, <2>1, <2>2 DEF Frame, SYNC_SIZE
      <3> QED BY <1>2, <1>3, <2>2, <3>1
    <2>3. CASE i # 1
      BY <1>1, <2>1, <2>3 DEF Frame
    <2> QED BY <2>2, <2>3
  <1>7. CASE rx.cnt # 0
    <2>1. rx.of = r /\ i = rx.cnt + 1 /\ rx.cnt \in Nat
      BY <1>1, <1>5, <1>7 DEF Frame
    <2>2. i <= Length(r) + SYNC_SIZE
      BY <1>2 DEF IInv, Wires
    <2>3. rx.cnt \in 1 .. Buffer - 1 /\ (rx.cnt = 1 => i = 2)
      BY <1>2, <1>7, <2>1, <2>2 DEF SYNC_SIZE
    <2>4. PICK s \in Stored(r, i) : rx' = IF Complete(s) THEN [s EXCEPT !.cnt = 0] ELSE s
      BY <1>1, <2>1, <2>3 DEF uart_data_decode, Frame
    <2>5. s = [cnt |-> i, len |-> IF rx.cnt # 3 THEN rx.len ELSE Length(r), of |-> r]
      BY <2>1, <2>4 DEF Stored
    <2>6. CASE i = Length(r) + SYNC_SIZE
      <3>1. s.cnt > 4 /\ s.len = Length(r)
        BY <1>1, <1>2, <2>1, <2>5, <2>6 DEF Lengths, SYNC_SIZE
      <3>2. Complete(s)
        BY <2>5, <2>6, <3>1 DEF Complete
      <3> QED BY <2>4, <2>5, <3>2
    <2>7. CASE i # Length(r) + SYNC_SIZE
      <3>1. rx'.cnt = 0 \/ rx' = s
        BY <2>4, <2>5
      <3> QED BY <1>2, <1>3, <2>5, <2>7, <3>1
    <2> QED BY <2>6, <2>7
  <1> QED BY <1>6, <1>7

LEMMA NextInStep == ASSUME IInv, InStep, [Next]_vars PROVE InStep'
  <1>1. /\ budget \in Budget /\ budget.lost \in Nat /\ budget.restarts \in Nat
        /\ rx_cmd \in Request \cup {Nothing} /\ wire \in [req : Request \cup {Nothing}, next : 1 .. Buffer]
    BY DEF IInv, TypeOK, Budget
  <1>2. /\ [budget EXCEPT !.lost = @ + 1].lost = budget.lost + 1
        /\ [budget EXCEPT !.lost = @ + 1].restarts = budget.restarts
        /\ [budget EXCEPT !.restarts = @ + 1].lost = budget.lost
        /\ [budget EXCEPT !.restarts = @ + 1].restarts = budget.restarts + 1
        /\ [budget EXCEPT !.ready = @ + 1].lost = budget.lost
        /\ [budget EXCEPT !.ready = @ + 1].restarts = budget.restarts
    BY <1>1 DEF Budget
  \* A loss or a restart of the other side ends it.
  <1>3. CASE \/ budget' = [budget EXCEPT !.lost = @ + 1]
             \/ budget' = [budget EXCEPT !.restarts = @ + 1]
    <2>1. \/ budget'.lost = budget.lost + 1 /\ budget'.restarts = budget.restarts
          \/ budget'.lost = budget.lost /\ budget'.restarts = budget.restarts + 1
      BY <1>2, <1>3, Zenon
    <2>2. budget'.lost + budget'.restarts # 0
      BY <1>1, <2>1
    <2> QED BY <2>2 DEF InStep, Unharmed
  <1>4. CASE UNCHANGED <<rx, wire, budget, trampled>>
    BY <1>4 DEF InStep, Unharmed
  <1>5. ASSUME NEW c \in {"START", "LEN", "ALIVE", "READ", "END"}, Take(c), Reply PROVE InStep'
    <2>1. rx_cmd \in Answer /\ UNCHANGED <<wire, budget>>
      BY <1>1, <1>5, Requests DEF Take, Nothing, other
    <2> QED BY <1>5, <2>1, SentInStep DEF Reply
  <1>6. CASE CmdStart \/ CmdLen \/ CmdKeepAlive \/ CmdEnd
    BY <1>5, <1>6 DEF CmdStart, CmdLen, CmdKeepAlive, CmdEnd
  <1>7. CASE CmdRead
    BY <1>4, <1>7 DEF CmdRead, Take, other
  <1>8. CASE update_data_read_from_file
    <2>1. CASE budget' = [budget EXCEPT !.lost = @ + 1]
      BY <1>3, <2>1
    <2>2. CASE /\ uart_send_packet([cmd |-> "READ", arg |-> task.block])
               /\ task.at = "read" /\ UNCHANGED <<wire, budget>>
      <3>1. [cmd |-> "READ", arg |-> task.block] \in Answer
        BY <2>2 DEF IInv, TypeOK, Wires, Answer, Request
      <3> QED BY <2>2, <3>1, SentInStep
    <2> QED BY <1>8, <2>1, <2>2 DEF update_data_read_from_file
  <1>9. CASE CpuReset
    <2>1. rx'.cnt = 0
      BY <1>9 DEF CpuReset, NoBytes
    <2> QED BY <2>1 DEF InStep
  <1>10. CASE uart_update_send_update_ready
    <2>1. budget' = [budget EXCEPT !.ready = @ + 1] /\ wire' = wire
      BY <1>10 DEF uart_update_send_update_ready
    <2>2. budget'.lost = budget.lost /\ budget'.restarts = budget.restarts
      BY <1>2, <2>1
    <2>3. CASE file
      <3>1. [cmd |-> "READY", arg |-> 0] \in Answer
        BY DEF Answer
      <3> QED BY <1>10, <2>1, <2>2, <2>3, <3>1, SentInStep DEF uart_update_send_update_ready
    <2>4. CASE ~file
      BY <1>10, <2>1, <2>2, <2>4 DEF uart_update_send_update_ready, InStep, Unharmed
    <2> QED BY <2>3, <2>4
  <1>11. CASE uart_data_decode
    BY <1>11, DecodeInStep
  <1>12. CASE LoseByte \/ LoseAnswer \/ McuRestart
    BY <1>3, <1>12 DEF LoseByte, LoseAnswer, McuRestart
  \* What is asked next is asked when the line is quiet, and then no frame has begun.
  <1>13. CASE McuAnswered \/ McuAsksAgain
    <2>1. wire.req = Nothing /\ UNCHANGED <<rx, budget, trampled>>
      BY <1>13 DEF McuAnswered, McuAsksAgain, Quiet, receiver
    <2> QED BY <2>1 DEF InStep, Unharmed
  <1>14. CASE PendTimeout \/ UNCHANGED vars
    BY <1>4, <1>14 DEF PendTimeout, vars, receiver, other
  <1> QED BY <1>6, <1>7, <1>8, <1>9, <1>10, <1>11, <1>12, <1>13, <1>14 DEF Next, Serve

\* Until an answer is built over a frame, the receiver does not miss the end that
\* the length field gives it, for every damage of a length; and that end lies in
\* the buffer, however often the file is announced, the same is asked again or
\* the doorbell restarts, as long as no byte is lost and the other side does not.
THEOREM FramesEnd == Spec => []FrameEnds
  <1>1. Init => InStep
    BY DEF Init, InStep, NoBytes
  <1>2. IInv /\ InStep /\ [Next]_vars => InStep'
    BY NextInStep
  <1>3. IInv /\ InStep => FrameEnds
    <2>1. SUFFICES ASSUME IInv, InStep, rx.cnt > 4, ~trampled
                   PROVE  /\ rx.cnt < rx.len + SYNC_SIZE
                          /\ rx.len + SYNC_SIZE > Buffer => budget.lost + budget.restarts > 0
      BY DEF FrameEnds
    <2>2. /\ rx \in Frame /\ budget.lost \in Nat /\ budget.restarts \in Nat
          /\ wire.req \in Request \cup {Nothing}
      BY <2>1 DEF IInv, TypeOK, Frame
    <2>3. rx.cnt < rx.len + SYNC_SIZE
      BY <2>1, <2>2 DEF IInv, EndNotMissed, Frame, SYNC_SIZE
    <2>4. ASSUME budget.lost + budget.restarts = 0 PROVE rx.len + SYNC_SIZE <= Buffer
      <3>1. wire.req # Nothing /\ rx.of = wire.req
        BY <2>1, <2>2, <2>4 DEF InStep, Unharmed, Frame
      <3>2. rx.len = Length(wire.req) /\ Length(wire.req) \in 1 .. 3
        BY <2>1, <2>2, <3>1, Requests DEF IInv, Lengths, Frame
      <3> QED BY <3>2 DEF SYNC_SIZE
    <2> QED BY <2>2, <2>3, <2>4 DEF Frame, SYNC_SIZE
  <1> QED BY <1>1, <1>2, <1>3, SpecIInv, PTL DEF Spec

-----------------------------------------------------------------------------
(* When the file is deleted.  As long as nothing was asked twice, the      *)
(* doorbell and the microcontroller take turns: what was asked is on the   *)
(* wire, in the slot, read from the file or answered, or it is lost; the   *)
(* announcements in between change nothing.  So the blocks the doorbell    *)
(* has counted are those the microcontroller has, or one more.             *)

Replies(s) == {i \in DOMAIN s : s[i].cmd # "READY"}
OneReply(s, r) == \A i, j \in Replies(s) : i = j /\ s[i] = r

OneTurn ==
    ~disturbed =>
        /\ rx_sem <= 1
        /\ mcu.at = "off" => /\ mcu.req = Nothing /\ wire.req = Nothing /\ rx_sem = 0
                             /\ task.at # "read" /\ Replies(back) = {}
        /\ wire.req # Nothing => /\ wire.req = mcu.req /\ rx_sem = 0
                                 /\ task.at # "read" /\ Replies(back) = {}
        /\ rx_sem # 0 => rx_cmd = mcu.req /\ task.at # "read" /\ Replies(back) = {}
        /\ task.at = "read" => /\ mcu.req = [cmd |-> "READ", arg |-> task.block]
                               /\ Replies(back) = {}
        /\ OneReply(back, mcu.req)

\* While the loader is loaded nothing is counted.
LoaderFirst ==
    mcu.loader => progress.total = 0 /\ ~complete /\ mcu.req.cmd # "LEN"

\* A block is asked for once, and the count follows the blocks.
SentBlocks ==
    ~mcu.loader =>
        /\ mcu.req.cmd = "READ" => mcu.req.arg \notin mcu.got
        /\ progress.total # 0 =>
            /\ mcu.req.cmd = "LEN" /\ Replies(back) # {} => progress.sent = 0
            /\ mcu.req.cmd = "ALIVE" => progress.sent = Cardinality(mcu.got)
            /\ mcu.req.cmd = "READ" /\ (wire.req # Nothing \/ rx_sem # 0)
                   => progress.sent = Cardinality(mcu.got)
            /\ mcu.req.cmd = "READ" /\ (task.at = "read" \/ Replies(back) # {})
                   => progress.sent = Cardinality(mcu.got) + 1

\* With the block that is asked for, the update is complete.
CompleteIsTrue ==
    complete => delivered \/ /\ mcu.req.cmd = "READ" /\ ~mcu.loader
                             /\ 99 * Blocks <= 100 * (Cardinality(mcu.got) + 1)

BlocksCounted == ~disturbed => LoaderFirst /\ SentBlocks /\ CompleteIsTrue

DeleteInv == OneTurn /\ BlocksCounted /\ DeletedWhenDelivered

LEMMA SentReady ==
    ASSUME NEW s \in Seq(Answer), NEW a \in Answer, a.cmd = "READY", NEW r
    PROVE  Replies(Append(s, a)) = Replies(s) /\ (OneReply(s, r) => OneReply(Append(s, a), r))
  <1> DEFINE t == Append(s, a)
  <1>1. /\ Len(s) \in Nat /\ DOMAIN s = 1 .. Len(s) /\ DOMAIN t = 1 .. Len(s) + 1
        /\ t[Len(s) + 1] = a /\ \A i \in 1 .. Len(s) : t[i] = s[i]
    <2> HIDE DEF Answer
    <2> QED OBVIOUS
  <1>2. Replies(t) = Replies(s)
    BY <1>1 DEF Replies
  <1>3. \A i \in Replies(s) : t[i] = s[i]
    BY <1>1 DEF Replies
  <1> QED BY <1>2, <1>3 DEF OneReply

LEMMA SentReply ==
    ASSUME NEW s \in Seq(Answer), NEW a \in Answer, a.cmd # "READY", Replies(s) = {}
    PROVE  OneReply(Append(s, a), a) /\ Replies(Append(s, a)) # {}
  <1> DEFINE t == Append(s, a)
  <1>1. /\ Len(s) \in Nat /\ DOMAIN s = 1 .. Len(s) /\ DOMAIN t = 1 .. Len(s) + 1
        /\ t[Len(s) + 1] = a /\ \A i \in 1 .. Len(s) : t[i] = s[i]
    <2> HIDE DEF Answer
    <2> QED OBVIOUS
  <1>2. Replies(t) = {Len(s) + 1}
    BY <1>1 DEF Replies
  <1> QED BY <1>1, <1>2 DEF OneReply

LEMMA TakenReply ==
    ASSUME NEW s \in Seq(Answer), s # <<>>, NEW r, OneReply(s, r)
    PROVE  /\ OneReply(Tail(s), r)
           /\ Replies(s) = {} => Replies(Tail(s)) = {} /\ Head(s).cmd = "READY"
           /\ Head(s).cmd # "READY" => Replies(s) # {} /\ Replies(Tail(s)) = {}
  <1> DEFINE t == Tail(s)
  <1>1. /\ Len(s) \in Nat \ {0} /\ DOMAIN s = 1 .. Len(s) /\ Head(s) = s[1]
        /\ DOMAIN t = 1 .. Len(s) - 1 /\ \A i \in 1 .. Len(s) - 1 : t[i] = s[i + 1]
    <2> HIDE DEF Answer
    <2> QED OBVIOUS
  <1>2. ASSUME NEW i \in Replies(t) PROVE i \in Nat \ {0} /\ i + 1 \in Replies(s) /\ t[i] = s[i + 1]
    BY <1>1 DEF Replies
  <1>3. OneReply(t, r)
    <2>1. ASSUME NEW i \in Replies(t), NEW j \in Replies(t) PROVE i = j /\ t[i] = r
      <3> DEFINE m == i + 1
                 n == j + 1
      <3>1. m \in Replies(s) /\ n \in Replies(s) /\ t[i] = s[m] /\ i \in Nat /\ j \in Nat
        BY <1>2
      <3> HIDE DEF t
      <3>2. m = n => i = j
        BY <3>1
      <3> HIDE DEF m, n
      <3>3. m = n /\ s[m] = r
        BY <3>1 DEF OneReply
      <3> QED BY <3>1, <3>2, <3>3
    <2> QED BY <2>1 DEF OneReply
  <1>4. Replies(s) = {} => Replies(t) = {} /\ Head(s).cmd = "READY"
    <2>1. Replies(s) = {} => Replies(t) = {}
      BY <1>2
    <2>2. Head(s).cmd # "READY" => 1 \in Replies(s)
      BY <1>1 DEF Replies
    <2> QED BY <2>1, <2>2
  <1>5. Head(s).cmd # "READY" => Replies(s) # {} /\ Replies(t) = {}
    <2>1. SUFFICES ASSUME Head(s).cmd # "READY" PROVE Replies(s) # {} /\ Replies(t) = {}
      OBVIOUS
    <2>2. 1 \in Replies(s)
      BY <1>1, <2>1 DEF Replies
    <2>3. ASSUME NEW i \in Replies(t) PROVE FALSE
      <3>1. i + 1 = 1 /\ i \in Nat \ {0}
        BY <1>2, <2>2 DEF OneReply
      <3> QED BY <3>1
    <2> QED BY <2>2, <2>3
  <1> QED BY <1>3, <1>4, <1>5

\* The steps that move none of the things OneTurn and BlocksCounted speak of.
LEMMA DeleteStutter ==
    ASSUME DeleteInv,
           UNCHANGED <<file, rx_sem, rx_cmd, mcu, wire, task, back, progress, complete,
                       delivered, disturbed>>
    PROVE  DeleteInv'
  BY DEF DeleteInv, OneTurn, BlocksCounted, LoaderFirst, SentBlocks, CompleteIsTrue,
         DeletedWhenDelivered

\* A request that is received whole leaves the wire for the slot.
LEMMA DecodeEffect ==
    ASSUME IInv, uart_data_decode
    PROVE  /\ wire.req \in Request /\ wire.req # Nothing
           /\ UNCHANGED <<doorbell, task, back, trampled, mcu, budget, disturbed, delivered>>
           /\ \/ UNCHANGED <<rx_cmd, rx_sem>> /\ wire'.req \in {wire.req, Nothing}
              \/ rx_cmd' = wire.req /\ rx_sem' = rx_sem + 1 /\ wire'.req = Nothing
  <1> DEFINE r == wire.req
             i == wire.next
  <1>1. /\ rx \in Frame /\ wire \in [req : Request \cup {Nothing}, next : 1 .. Buffer]
        /\ Lengths
    BY DEF IInv, TypeOK, Frame
  <1>2. r \in Request /\ r # Nothing /\ Length(r) \in 1 .. 3 /\ i \in Nat
    BY <1>1, Requests DEF uart_data_decode
  <1>3. /\ wire' = IF i = Length(r) + SYNC_SIZE THEN Quiet ELSE [wire EXCEPT !.next = i + 1]
        /\ UNCHANGED <<doorbell, task, back, trampled, mcu, budget, disturbed, delivered>>
    BY DEF uart_data_decode
  <1>4. wire'.req \in {wire.req, Nothing} /\ (i = Length(r) + SYNC_SIZE => wire'.req = Nothing)
    BY <1>1, <1>3 DEF Quiet
  <1>5. CASE UNCHANGED <<rx_cmd, rx_sem>>
    BY <1>2, <1>3, <1>4, <1>5
  <1>6. CASE ~UNCHANGED <<rx_cmd, rx_sem>>
    <2>1. PICK s \in Stored(r, i) :
             Complete(s) /\ s.of = r /\ rx_cmd' = r /\ rx_sem' = rx_sem + 1
      BY <1>6 DEF uart_data_decode
    <2>2. PICK l \in IF rx.cnt # 3 THEN {rx.len}
                     ELSE IF rx.of = r /\ i = rx.cnt + 1 THEN {Length(r)} ELSE Garbled :
             s = [cnt |-> rx.cnt + 1, len |-> l,
                  of |-> IF rx.of = r /\ i = rx.cnt + 1 THEN r ELSE Nothing]
      BY <2>1 DEF Stored
    <2>3. rx.of = r /\ i = rx.cnt + 1 /\ s.cnt = rx.cnt + 1 /\ s.len = l
      BY <1>2, <2>1, <2>2
    <2>4. rx.cnt \in Nat /\ rx.cnt + 1 > 4 /\ rx.cnt + 1 = l + SYNC_SIZE
      BY <1>1, <2>1, <2>3 DEF Complete, Frame
    <2>5. l = Length(r)
      BY <1>1, <1>2, <2>2, <2>3, <2>4 DEF Lengths
    <2> QED BY <1>2, <1>3, <1>4, <2>1, <2>3, <2>4, <2>5
  <1> QED BY <1>5, <1>6

LEMMA DecodeDelete == ASSUME IInv, DeleteInv, uart_data_decode PROVE DeleteInv'
  <1>1. /\ wire.req \in Request /\ wire.req # Nothing
        /\ UNCHANGED <<doorbell, task, back, mcu, disturbed, delivered>>
        /\ \/ UNCHANGED <<rx_cmd, rx_sem>> /\ wire'.req \in {wire.req, Nothing}
           \/ rx_cmd' = wire.req /\ rx_sem' = rx_sem + 1 /\ wire'.req = Nothing
    BY DecodeEffect
  <1>2. OneTurn'
    BY <1>1 DEF DeleteInv, OneTurn
  <1>3. BlocksCounted'
    BY <1>1 DEF DeleteInv, OneTurn, BlocksCounted, LoaderFirst, SentBlocks, CompleteIsTrue,
                doorbell
  <1>4. DeletedWhenDelivered'
    BY <1>1 DEF DeleteInv, DeletedWhenDelivered, doorbell
  <1> QED BY <1>2, <1>3, <1>4 DEF DeleteInv

LEMMA LossDelete ==
    ASSUME IInv, DeleteInv, LoseByte \/ LoseAnswer \/ PendTimeout PROVE DeleteInv'
  <1>1. CASE LoseByte
    <2>1. /\ wire.req # Nothing /\ wire'.req \in {wire.req, Nothing}
          /\ UNCHANGED <<doorbell, receiver, task, back, mcu, disturbed, delivered>>
      BY <1>1 DEF LoseByte, Quiet, IInv, TypeOK
    <2>2. OneTurn'
      BY <2>1 DEF DeleteInv, OneTurn, receiver
    <2>3. BlocksCounted'
      BY <2>1 DEF DeleteInv, BlocksCounted, LoaderFirst, SentBlocks, CompleteIsTrue,
                  doorbell, receiver
    <2>4. DeletedWhenDelivered'
      BY <2>1 DEF DeleteInv, DeletedWhenDelivered, doorbell
    <2> QED BY <2>2, <2>3, <2>4 DEF DeleteInv
  <1>2. CASE LoseAnswer
    <2>1. /\ back # <<>> /\ back' = Tail(back) /\ back \in Seq(Answer)
          /\ UNCHANGED <<doorbell, receiver, task, wire, mcu, disturbed, delivered>>
      BY <1>2 DEF LoseAnswer, IInv, TypeOK
    <2>2. OneTurn' /\ (~disturbed /\ Replies(back) = {} => Replies(back') = {})
      BY <2>1, TakenReply DEF DeleteInv, OneTurn, receiver
    <2>3. BlocksCounted'
      BY <2>1, <2>2 DEF DeleteInv, BlocksCounted, LoaderFirst, SentBlocks, CompleteIsTrue,
                        doorbell, receiver
    <2>4. DeletedWhenDelivered'
      BY <2>1 DEF DeleteInv, DeletedWhenDelivered, doorbell
    <2> QED BY <2>2, <2>3, <2>4 DEF DeleteInv
  <1>3. CASE PendTimeout
    BY <1>3, DeleteStutter DEF PendTimeout, receiver, other
  <1> QED BY <1>1, <1>2, <1>3

LEMMA ReadyDelete ==
    ASSUME IInv, DeleteInv, uart_update_send_update_ready PROVE DeleteInv'
  <1> DEFINE a == [cmd |-> "READY", arg |-> 0]
  <1>1. /\ back' = Append(back, a) \/ back' = back
        /\ UNCHANGED <<file, progress, complete, rx_cmd, rx_sem, task, wire, mcu,
                       disturbed, delivered>>
    BY DEF uart_update_send_update_ready, uart_send_packet
  <1>2. back \in Seq(Answer) /\ a \in Answer /\ a.cmd = "READY"
    BY DEF IInv, TypeOK, Answer
  <1> HIDE DEF a
  <1>3. Replies(back') = Replies(back) /\ (OneReply(back, mcu.req) => OneReply(back', mcu.req))
    BY <1>1, <1>2, SentReady
  <1>4. OneTurn'
    BY <1>1, <1>3 DEF DeleteInv, OneTurn
  <1>5. BlocksCounted'
    BY <1>1, <1>3 DEF DeleteInv, BlocksCounted, LoaderFirst, SentBlocks, CompleteIsTrue
  <1>6. DeletedWhenDelivered'
    BY <1>1 DEF DeleteInv, DeletedWhenDelivered
  <1> QED BY <1>4, <1>5, <1>6 DEF DeleteInv

\* A request is taken from the slot: it is the one the microcontroller waits for.
LEMMA TakenRequest ==
    ASSUME IInv, DeleteInv, NEW c \in {"START", "LEN", "ALIVE", "READ", "END"}, Take(c)
    PROVE  /\ rx_cmd.cmd = c /\ UNCHANGED <<rx_cmd, wire, mcu, disturbed, delivered>>
           /\ rx_cmd \in Request /\ rx_cmd \in Answer /\ back \in Seq(Answer)
           /\ ~disturbed => /\ rx_cmd = mcu.req /\ rx_sem' = 0 /\ wire.req = Nothing
                            /\ mcu.at # "off" /\ task.at # "read" /\ Replies(back) = {}
  <1>1. /\ task.at = "wait" /\ rx_sem > 0 /\ rx_cmd.cmd = c /\ rx_sem' = rx_sem - 1
        /\ UNCHANGED <<rx_cmd, wire, mcu, disturbed, delivered>>
    BY DEF Take, other
  <1>2. rx_cmd \in Request \cup {Nothing} /\ rx_sem \in Nat /\ back \in Seq(Answer)
    BY DEF IInv, TypeOK
  <1>3. rx_cmd \in Request /\ rx_cmd \in Answer
    BY <1>1, <1>2, Requests DEF Nothing
  <1>4. SUFFICES ASSUME ~disturbed
                 PROVE  /\ rx_cmd = mcu.req /\ rx_sem' = 0 /\ wire.req = Nothing
                        /\ mcu.at # "off" /\ task.at # "read" /\ Replies(back) = {}
    BY <1>1, <1>2, <1>3
  <1>5. rx_sem = 1
    BY <1>1, <1>2, <1>4 DEF DeleteInv, OneTurn
  <1> QED BY <1>1, <1>4, <1>5 DEF DeleteInv, OneTurn

\* It is answered, and the turn is the microcontroller's.
LEMMA AnsweredTurn ==
    ASSUME IInv, DeleteInv, NEW c \in {"START", "LEN", "ALIVE", "READ", "END"}, Take(c),
           Reply, task'.at # "read"
    PROVE  OneTurn'
  <1>1. back' = Append(back, rx_cmd)
    BY DEF Reply, uart_send_packet
  <1>2. SUFFICES ASSUME ~disturbed PROVE OneTurn'
    BY TakenRequest DEF OneTurn
  <1>3. /\ rx_cmd.cmd # "READY" /\ rx_cmd \in Answer /\ back \in Seq(Answer)
        /\ Replies(back) = {} /\ rx_cmd = mcu.req /\ rx_sem' = 0 /\ wire.req = Nothing
        /\ mcu.at # "off" /\ UNCHANGED <<wire, mcu, disturbed>>
    BY <1>2, TakenRequest
  <1>4. OneReply(back', mcu'.req)
    BY <1>1, <1>3, SentReply
  <1> QED BY <1>3, <1>4 DEF OneTurn

\* The percentage is 99 when 99 of 100 blocks were counted, and not before.
LEMMA PercentIs99 ==
    ASSUME NEW sent \in Nat, NEW total \in Nat \ {0}, Percent(sent, total) = 99
    PROVE  99 * total <= 100 * sent
  <1> DEFINE q == (sent * 100) \div total
             m == (sent * 100) % total
  <1>1. sent * 100 \in Nat
    OBVIOUS
  <1>2. q \in Nat /\ m \in Nat /\ sent * 100 = total * q + m
    BY <1>1, DivMod
  <1>3. q % 256 >= 99
    BY <1>2 DEF Percent
  <1> HIDE DEF q, m
  <1>4. q >= 99
    BY <1>2, <1>3
  <1>5. total * (q - 99) >= 0
    <2>1. q - 99 \in Nat
      BY <1>2, <1>4
    <2> QED BY <2>1
  <1>6. total * (q - 99) = total * q - 99 * total /\ total * q \in Int
    BY <1>2
  <1> QED BY <1>2, <1>5, <1>6

\* Only an END deletes the file.
LEMMA FileStays ==
    ASSUME DeleteInv, UNCHANGED <<file, disturbed, delivered>> PROVE DeletedWhenDelivered'
  BY DEF DeleteInv, DeletedWhenDelivered

LEMMA ServeDelete == ASSUME IInv, DeleteInv, Serve PROVE DeleteInv'
  <1>1. TypeOK /\ OneTurn /\ BlocksCounted
    BY DEF IInv, DeleteInv
  <1>2. /\ progress \in [total : {0, Blocks}, sent : Nat, percent : 0 .. 255]
        /\ complete \in BOOLEAN
    BY <1>1 DEF TypeOK
  <1>3. CASE CmdStart
    <2>1. /\ Take("START") /\ Reply /\ UNCHANGED <<file, fd, progress, complete, task>>
      BY <1>3 DEF CmdStart
    <2>2. /\ UNCHANGED <<wire, mcu, disturbed, delivered>>
          /\ ~disturbed => mcu.req.cmd = "START" /\ task.at # "read"
      BY <2>1, TakenRequest
    <2>3. OneTurn'
      BY <2>1, AnsweredTurn DEF Take
    <2>4. BlocksCounted'
      BY <1>1, <2>1, <2>2 DEF BlocksCounted, LoaderFirst, SentBlocks, CompleteIsTrue
    <2> QED BY <2>1, <2>2, <2>3, <2>4, FileStays DEF DeleteInv
  <1>4. CASE CmdLen
    <2>1. /\ Take("LEN") /\ Reply /\ UNCHANGED <<file, fd, complete, task>>
          /\ progress' = [total |-> Blocks, sent |-> 0, percent |-> 0]
      BY <1>4 DEF CmdLen
    <2>2. /\ UNCHANGED <<wire, mcu, disturbed, delivered>>
          /\ ~disturbed => mcu.req.cmd = "LEN" /\ task.at # "read"
      BY <2>1, TakenRequest
    <2>3. OneTurn'
      BY <2>1, AnsweredTurn DEF Take
    <2>4. BlocksCounted'
      BY <1>1, <2>1, <2>2 DEF BlocksCounted, LoaderFirst, SentBlocks, CompleteIsTrue
    <2> QED BY <2>1, <2>2, <2>3, <2>4, FileStays DEF DeleteInv
  <1>5. CASE CmdKeepAlive
    <2>1. Take("ALIVE") /\ Reply /\ UNCHANGED <<doorbell, task>>
      BY <1>5 DEF CmdKeepAlive
    <2>2. /\ UNCHANGED <<wire, mcu, disturbed, delivered>>
          /\ ~disturbed => mcu.req.cmd = "ALIVE" /\ task.at # "read"
      BY <2>1, TakenRequest
    <2>3. OneTurn'
      BY <2>1, AnsweredTurn DEF Take
    <2>4. BlocksCounted'
      BY <1>1, <2>1, <2>2 DEF BlocksCounted, LoaderFirst, SentBlocks, CompleteIsTrue, doorbell
    <2> QED BY <2>1, <2>2, <2>3, <2>4, FileStays DEF DeleteInv, doorbell
  <1>6. CASE CmdRead
    <2>1. /\ Take("READ") /\ task' = [at |-> "read", block |-> rx_cmd.arg]
          /\ UNCHANGED <<file, fd, back>>
          /\ IF progress.total # 0
             THEN /\ progress' = Counted(progress)
                  /\ complete' = (complete \/ progress'.percent = 99)
             ELSE UNCHANGED <<progress, complete>>
      BY <1>6 DEF CmdRead
    <2>2. /\ UNCHANGED <<wire, mcu, disturbed, delivered>> /\ rx_cmd \in Request
          /\ rx_cmd.cmd = "READ"
          /\ ~disturbed => /\ rx_cmd = mcu.req /\ rx_sem' = 0 /\ wire.req = Nothing
                           /\ mcu.at # "off" /\ Replies(back) = {}
      BY <2>1, TakenRequest
    <2>3. rx_cmd = [cmd |-> "READ", arg |-> rx_cmd.arg]
      BY <2>2 DEF Request
    <2>4. OneTurn'
      BY <2>1, <2>2, <2>3 DEF OneTurn, OneReply
    <2>5. rx_sem > 0 /\ rx_sem \in Nat
      BY <1>1, <2>1 DEF Take, TypeOK
    <2>6. BlocksCounted'
      <3>1. SUFFICES ASSUME ~disturbed PROVE (LoaderFirst /\ SentBlocks /\ CompleteIsTrue)'
        BY <2>2 DEF BlocksCounted
      <3>2. /\ LoaderFirst /\ SentBlocks /\ CompleteIsTrue
            /\ mcu.req.cmd = "READ" /\ rx_sem # 0 /\ rx_sem' = 0 /\ wire.req = Nothing
        BY <1>1, <2>2, <2>5, <3>1 DEF BlocksCounted
      <3>3. CASE progress.total = 0
        <4>1. UNCHANGED <<progress, complete>>
          BY <2>1, <3>3
        <4> QED BY <2>2, <3>2, <3>3, <4>1 DEF LoaderFirst, SentBlocks, CompleteIsTrue
      <3>4. CASE progress.total # 0
        <4>1. /\ ~mcu.loader /\ progress.total = Blocks
              /\ progress.sent = Cardinality(mcu.got) /\ mcu.req.arg \notin mcu.got
          BY <1>2, <3>2, <3>4 DEF LoaderFirst, SentBlocks
        <4>2. /\ progress'.sent = Cardinality(mcu.got) + 1
              /\ progress'.percent = Percent(progress.sent + 1, Blocks)
              /\ complete' = (complete \/ progress'.percent = 99)
          <5>1. progress' = Counted(progress) /\ complete' = (complete \/ progress'.percent = 99)
            BY <2>1, <3>4
          <5>2. progress' = [progress EXCEPT !.sent = progress.sent + 1,
                               !.percent = Percent(progress.sent + 1, progress.total)]
            BY <5>1 DEF Counted
          <5>3. /\ progress'.sent = progress.sent + 1
                /\ progress'.percent = Percent(progress.sent + 1, progress.total)
            BY <1>2, <5>2
          <5> QED BY <4>1, <5>1, <5>3
        <4>3. progress'.percent = 99 => 99 * Blocks <= 100 * (Cardinality(mcu.got) + 1)
          <5>1. progress.sent + 1 \in Nat
            BY <1>2
          <5> QED BY <4>1, <4>2, <5>1, PercentIs99
        <4>4. CompleteIsTrue'
          BY <2>2, <3>2, <4>1, <4>2, <4>3 DEF CompleteIsTrue
        <4>5. (LoaderFirst /\ SentBlocks)'
          BY <2>2, <3>2, <4>1, <4>2 DEF LoaderFirst, SentBlocks
        <4> QED BY <4>4, <4>5
      <3> QED BY <3>3, <3>4
    <2> QED BY <2>1, <2>2, <2>4, <2>6, FileStays DEF DeleteInv
  <1>7. CASE update_data_read_from_file /\ uart_send_packet([cmd |-> "READ", arg |-> task.block])
    <2> DEFINE a == [cmd |-> "READ", arg |-> task.block]
    <2>1. /\ task.at = "read" /\ task' = Idle /\ back' = Append(back, a)
          /\ UNCHANGED <<doorbell, rx_cmd, rx_sem, wire, mcu, disturbed, delivered>>
      BY <1>7 DEF update_data_read_from_file, uart_send_packet
    <2>2. a \in Answer /\ a.cmd # "READY" /\ back \in Seq(Answer)
      <3>1. task.block \in Block
        BY <2>1 DEF IInv, TypeOK, Wires
      <3> QED BY <1>1, <3>1 DEF Answer, Request, TypeOK
    <2>3. ~disturbed => /\ mcu.req = a /\ Replies(back) = {} /\ wire.req = Nothing
                        /\ rx_sem = 0 /\ mcu.at # "off"
      BY <1>1, <2>1 DEF OneTurn
    <2> HIDE DEF a
    <2>4. OneTurn'
      BY <2>1, <2>2, <2>3, SentReply DEF OneTurn, Idle
    <2>5. BlocksCounted'
      <3>1. SUFFICES ASSUME ~disturbed PROVE (LoaderFirst /\ SentBlocks /\ CompleteIsTrue)'
        BY <2>1 DEF BlocksCounted
      <3>2. LoaderFirst /\ SentBlocks /\ CompleteIsTrue /\ mcu.req.cmd = "READ"
        BY <1>1, <2>1, <2>3, <3>1 DEF BlocksCounted, a
      <3> QED BY <2>1, <2>3, <3>1, <3>2 DEF LoaderFirst, SentBlocks, CompleteIsTrue, doorbell
    <2> QED BY <2>1, <2>4, <2>5, FileStays DEF DeleteInv, doorbell
  \* Without memory the block is not sent, and not asked for again undisturbed.
  <1>10. CASE update_data_read_from_file /\ UNCHANGED back
    <2>1. /\ task.at = "read" /\ task' = Idle
          /\ UNCHANGED <<doorbell, rx_cmd, rx_sem, back, wire, mcu, disturbed, delivered>>
      BY <1>10 DEF update_data_read_from_file
    <2>2. OneTurn'
      BY <1>1, <2>1 DEF OneTurn, Idle
    <2>3. BlocksCounted'
      BY <1>1, <2>1 DEF BlocksCounted, LoaderFirst, SentBlocks, CompleteIsTrue, doorbell, Idle
    <2> QED BY <2>1, <2>2, <2>3, FileStays DEF DeleteInv, doorbell
  <1>8. CASE CmdEnd
    <2>1. /\ Take("END") /\ Reply /\ UNCHANGED complete
          /\ uart_update_err_code_handle(rx_cmd.arg)
          /\ IF complete
             THEN ufw_file_op_close /\ task' = [at |-> "reset", block |-> 0]
             ELSE UNCHANGED <<file, fd, task>>
      BY <1>8 DEF CmdEnd
    <2>2. /\ UNCHANGED <<wire, mcu, disturbed, delivered>>
          /\ ~disturbed => mcu.req.cmd = "END" /\ task.at # "read"
      BY <2>1, TakenRequest
    <2>3. task'.at # "read"
      BY <2>1 DEF Take
    <2>4. OneTurn'
      BY <2>1, <2>3, AnsweredTurn
    <2>5. progress'.total \in {progress.total, 0}
      BY <1>2, <2>1 DEF uart_update_err_code_handle
    <2>6. BlocksCounted'
      BY <1>1, <2>1, <2>2, <2>5 DEF BlocksCounted, LoaderFirst, SentBlocks, CompleteIsTrue
    <2>7. DeletedWhenDelivered'
      <3>1. CASE complete
        BY <1>1, <2>2, <3>1 DEF BlocksCounted, CompleteIsTrue, DeletedWhenDelivered
      <3>2. CASE ~complete
        BY <2>1, <2>2, <3>2, FileStays
      <3> QED BY <3>1, <3>2
    <2> QED BY <2>4, <2>6, <2>7 DEF DeleteInv
  <1>9. CASE CpuReset
    <2>1. /\ task' = Idle /\ rx_sem' = 0 /\ progress' = NoProgress /\ complete' = FALSE
          /\ task.at # "read"
          /\ UNCHANGED <<file, back, wire, mcu, disturbed, delivered>>
      BY <1>9 DEF CpuReset, other
    <2>2. OneTurn'
      BY <1>1, <2>1 DEF OneTurn, Idle
    <2>3. BlocksCounted'
      BY <1>1, <2>1 DEF BlocksCounted, LoaderFirst, SentBlocks, CompleteIsTrue, NoProgress
    <2> QED BY <2>1, <2>2, <2>3, FileStays DEF DeleteInv
  <1> QED BY <1>3, <1>4, <1>5, <1>6, <1>7, <1>8, <1>9, <1>10 DEF Serve, update_data_read_from_file

\* What is asked next: a block that is missing, and the length only when no loader
\* is loaded.
LEMMA FollowingOf ==
    ASSUME NEW r, NEW got, NEW n \in Following(r, got)
    PROVE  \/ n \in Missing(got) /\ r.cmd \in {"ALIVE", "READ"}
           \/ n \in Missing({}) /\ ((r.cmd = "START" /\ mcu.loader) \/ r.cmd = "LEN")
           \/ n = Plain("LEN") /\ ~mcu.loader
           \/ n = Plain("ALIVE") /\ r.cmd = "READ" /\ ~mcu.loader
           \/ n = Plain("START")
           \/ n \in {End(LoaderDone), End(Success), End(Failure)}
  BY DEF Following

LEMMA AnswerDelete == ASSUME IInv, DeleteInv, McuAnswered PROVE DeleteInv'
  <1> DEFINE r == mcu.req
             got == CASE r.cmd = "READ" /\ ~mcu.loader -> mcu.got \cup {r.arg}
                      [] r.cmd = "LEN" -> {}
                      [] OTHER -> mcu.got
  <1>1. /\ mcu \in [at : {"off", "wait"}, req : Request \cup {Nothing},
                    got : SUBSET Block, loader : BOOLEAN]
        /\ back \in Seq(Answer) /\ (mcu.at = "wait" => mcu.req \in Request)
    BY DEF IInv, TypeOK, Wires
  <1>2. /\ back # <<>> /\ wire = Quiet /\ back' = Tail(back)
        /\ UNCHANGED <<doorbell, receiver, task, trampled, budget, disturbed>>
    BY DEF McuAnswered
  <1>3. \/ /\ mcu.at = "off" /\ Asked(Plain("START"), {}, mcu.loader) /\ UNCHANGED delivered
        \/ /\ mcu.at = "wait" /\ Head(back) = r /\ r.cmd # "READY" /\ ~Ends(r)
           /\ \E n \in Following(r, got) : Asked(n, got, mcu.loader /\ r.cmd # "END")
           /\ delivered' = (delivered \/ 99 * Blocks <= 100 * Cardinality(got))
        \/ /\ mcu.at = "wait" /\ Head(back) = r /\ r.cmd # "READY" /\ Ends(r)
           /\ mcu' = [mcu EXCEPT !.at = "off", !.req = Nothing, !.got = {}]
           /\ UNCHANGED <<wire, delivered>>
        \/ UNCHANGED <<wire, mcu, delivered>>
    <2>1. r \in Request => r.cmd # "READY"
      BY DEF Request
    <2> QED BY <1>1, <2>1 DEF McuAnswered
  <1> HIDE DEF got
  <1>4. DeletedWhenDelivered'
    BY <1>2, <1>3 DEF DeleteInv, DeletedWhenDelivered, doorbell
  <1>5. CASE disturbed
    BY <1>2, <1>4, <1>5 DEF DeleteInv, OneTurn, BlocksCounted
  <1>6. CASE ~disturbed
    <2>1. OneTurn /\ LoaderFirst /\ SentBlocks /\ CompleteIsTrue
      BY <1>6 DEF DeleteInv, BlocksCounted
    <2>2. /\ OneReply(Tail(back), mcu.req)
          /\ Replies(back) = {} => Replies(Tail(back)) = {}
          /\ Head(back).cmd # "READY" => Replies(back) # {} /\ Replies(Tail(back)) = {}
      BY <1>1, <1>2, <1>6, <2>1, TakenReply DEF OneTurn
    <2>3. SUFFICES (OneTurn /\ LoaderFirst /\ SentBlocks /\ CompleteIsTrue)'
      BY <1>4 DEF DeleteInv, BlocksCounted
    <2>4. UNCHANGED <<rx_sem, rx_cmd, task, progress, complete, disturbed>> /\ wire.req = Nothing
      BY <1>2 DEF receiver, doorbell, Quiet
    <2>5. CASE mcu.at = "off" /\ Asked(Plain("START"), {}, mcu.loader) /\ UNCHANGED delivered
      <3>1. /\ mcu' = [at |-> "wait", req |-> Plain("START"), got |-> {}, loader |-> mcu.loader]
            /\ wire' = [req |-> Plain("START"), next |-> 1]
            /\ rx_sem = 0 /\ task.at # "read" /\ Replies(back') = {} /\ mcu.req = Nothing
        BY <1>2, <1>6, <2>1, <2>2, <2>5 DEF Asked, OneTurn
      <3>2. OneTurn'
        BY <2>4, <3>1 DEF OneTurn, OneReply
      <3>3. (LoaderFirst /\ SentBlocks /\ CompleteIsTrue)'
        BY <2>1, <2>4, <2>5, <3>1 DEF LoaderFirst, SentBlocks, CompleteIsTrue, Plain, Nothing
      <3> QED BY <3>2, <3>3
    <2>6. CASE /\ mcu.at = "wait" /\ Head(back) = r /\ r.cmd # "READY" /\ Ends(r)
               /\ mcu' = [mcu EXCEPT !.at = "off", !.req = Nothing, !.got = {}]
               /\ UNCHANGED <<wire, delivered>>
      <3>1. /\ Replies(back) # {} /\ Replies(back') = {} /\ rx_sem = 0 /\ task.at # "read"
            /\ r.cmd = "END"
        BY <1>2, <1>6, <2>1, <2>2, <2>6 DEF OneTurn, Ends
      <3>2. mcu'.at = "off" /\ mcu'.req = Nothing /\ mcu'.got = {} /\ mcu'.loader = mcu.loader
        BY <1>1, <2>6
      <3>3. OneTurn'
        BY <2>4, <2>6, <3>1, <3>2 DEF OneTurn, OneReply
      <3>4. (LoaderFirst /\ SentBlocks /\ CompleteIsTrue)'
        BY <2>1, <2>4, <2>6, <3>1, <3>2 DEF LoaderFirst, SentBlocks, CompleteIsTrue, Nothing
      <3> QED BY <3>3, <3>4
    <2>7. CASE UNCHANGED <<wire, mcu, delivered>>
      <3>1. OneTurn'
        BY <1>2, <2>1, <2>2, <2>4, <2>7 DEF OneTurn
      <3>2. (LoaderFirst /\ SentBlocks /\ CompleteIsTrue)'
        BY <1>2, <2>1, <2>2, <2>4, <2>7 DEF LoaderFirst, SentBlocks, CompleteIsTrue
      <3> QED BY <3>1, <3>2
    <2>8. CASE /\ mcu.at = "wait" /\ Head(back) = r /\ r.cmd # "READY" /\ ~Ends(r)
               /\ \E n \in Following(r, got) : Asked(n, got, mcu.loader /\ r.cmd # "END")
               /\ delivered' = (delivered \/ 99 * Blocks <= 100 * Cardinality(got))
      <3>1. /\ Replies(back) # {} /\ Replies(back') = {} /\ rx_sem = 0 /\ task.at # "read"
        BY <1>2, <1>6, <2>1, <2>2, <2>8 DEF OneTurn
      <3>2. PICK n \in Following(r, got) : Asked(n, got, mcu.loader /\ r.cmd # "END")
        BY <2>8
      <3>3. /\ mcu' = [at |-> "wait", req |-> n, got |-> got,
                       loader |-> mcu.loader /\ r.cmd # "END"]
            /\ wire' = [req |-> n, next |-> 1]
        BY <3>2 DEF Asked
      <3>4. OneTurn'
        BY <2>4, <3>1, <3>3 DEF OneTurn, OneReply
      \* The blocks that are there when the answer has come.
      <3>5. /\ r.cmd = "READ" /\ ~mcu.loader => Cardinality(got) = Cardinality(mcu.got) + 1
            /\ r.cmd = "LEN" => got = {} /\ Cardinality(got) = 0
            /\ r.cmd \notin {"READ", "LEN"} => got = mcu.got
        <4>1. CASE r.cmd = "READ" /\ ~mcu.loader
          <5>1. got = mcu.got \cup {r.arg} /\ r.arg \notin mcu.got
            BY <2>1, <4>1 DEF got, SentBlocks
          <5>2. IsFiniteSet(mcu.got)
            <6>1. Blocks \in Int
              OBVIOUS
            <6>2. IsFiniteSet(1 .. Blocks)
              BY <6>1, FS_Interval
            <6>3. mcu.got \subseteq 1 .. Blocks
              BY <1>1 DEF Block
            <6> QED BY <6>2, <6>3, FS_Subset
          <5>3. Cardinality(got) = Cardinality(mcu.got) + 1
            BY <5>1, <5>2, FS_AddElement
          <5> QED BY <4>1, <5>3
        <4>2. CASE r.cmd = "LEN"
          BY <4>2, FS_EmptySet DEF got
        <4>3. CASE r.cmd # "LEN" /\ ~(r.cmd = "READ" /\ ~mcu.loader)
          BY <4>3 DEF got
        <4> QED BY <4>1, <4>2, <4>3
      <3>6. CompleteIsTrue'
        <4>1. SUFFICES ASSUME complete PROVE delivered'
          BY <2>4 DEF CompleteIsTrue
        <4>2. \/ delivered
              \/ /\ r.cmd = "READ" /\ ~mcu.loader
                 /\ 99 * Blocks <= 100 * (Cardinality(mcu.got) + 1)
          BY <2>1, <4>1 DEF CompleteIsTrue
        <4> QED BY <2>8, <3>5, <4>2
      <3>7. n.cmd = "LEN" => ~mcu.loader
        BY <3>2, FollowingOf DEF Missing, Plain, End
      <3>8. LoaderFirst'
        BY <2>1, <2>4, <3>3, <3>7 DEF LoaderFirst
      <3>9. n.cmd = "READ" /\ ~mcu'.loader => n.arg \notin got
        <4>1. SUFFICES ASSUME n.cmd = "READ", ~mcu'.loader PROVE n.arg \notin got
          OBVIOUS
        <4>2. \/ n \in Missing(got)
              \/ n \in Missing({}) /\ ((r.cmd = "START" /\ mcu.loader) \/ r.cmd = "LEN")
          BY <3>2, <4>1, FollowingOf DEF Plain, End
        <4>3. ~(r.cmd = "START" /\ mcu.loader)
          BY <3>3, <4>1
        <4>4. n \in Missing(got)
          BY <3>5, <4>2, <4>3
        <4> QED BY <4>4 DEF Missing
      <3>10. ASSUME n.cmd \in {"READ", "ALIVE"}, ~mcu'.loader, progress.total # 0
             PROVE  progress.sent = Cardinality(got)
        <4>1. ~mcu.loader
          BY <2>1, <3>10 DEF LoaderFirst
        <4>2. r.cmd \in {"ALIVE", "READ", "LEN"}
          BY <3>2, <3>10, <4>1, FollowingOf DEF Plain, End
        <4> QED BY <2>1, <3>1, <3>5, <3>10, <4>1, <4>2 DEF SentBlocks
      <3>11. SentBlocks'
        BY <2>4, <3>1, <3>3, <3>9, <3>10 DEF SentBlocks
      <3> QED BY <3>4, <3>6, <3>8, <3>11
    <2> QED BY <1>3, <2>5, <2>6, <2>7, <2>8
  <1> QED BY <1>5, <1>6

LEMMA McuDelete ==
    ASSUME IInv, DeleteInv, McuAsksAgain \/ McuRestart PROVE DeleteInv'
  <1>1. disturbed' /\ file' = file
    BY DEF McuAsksAgain, McuRestart, doorbell
  <1> QED BY <1>1 DEF DeleteInv, OneTurn, BlocksCounted, DeletedWhenDelivered

LEMMA InitDelete == Init => DeleteInv
  <1> SUFFICES ASSUME Init PROVE DeleteInv
    OBVIOUS
  <1>1. /\ mcu.at = "off" /\ mcu.req = Nothing /\ wire.req = Nothing /\ rx_sem = 0
        /\ task.at = "wait" /\ back = <<>> /\ progress.total = 0 /\ ~complete /\ file
    BY DEF Init, Quiet, Idle, NoProgress
  <1>2. Replies(back) = {} /\ OneReply(back, mcu.req)
    BY <1>1 DEF Replies, OneReply
  <1>3. OneTurn
    BY <1>1, <1>2 DEF OneTurn
  <1>4. BlocksCounted /\ DeletedWhenDelivered
    BY <1>1, <1>2 DEF BlocksCounted, LoaderFirst, SentBlocks, CompleteIsTrue, Nothing,
                      DeletedWhenDelivered
  <1> QED BY <1>3, <1>4 DEF DeleteInv

LEMMA NextDelete == ASSUME IInv, DeleteInv, [Next]_vars PROVE DeleteInv'
  <1>1. CASE UNCHANGED vars
    BY <1>1, DeleteStutter DEF vars, doorbell, receiver, other
  <1>2. CASE Next
    BY <1>2, ServeDelete, LossDelete, ReadyDelete, DecodeDelete, AnswerDelete, McuDelete
       DEF Next
  <1> QED BY <1>1, <1>2

\* The file is deleted only when the other side has had the 99 blocks of 100 for
\* which the doorbell takes an update for complete, as long as nothing was asked
\* twice and it did not restart: for every file, whatever the line loses or damages, however often the
\* file is announced in between, and whether or not a loader is loaded first.
THEOREM FileIsDeletedWhenDelivered == Spec => []DeletedWhenDelivered
  <1>1. IInv /\ DeleteInv /\ [Next]_vars => DeleteInv'
    BY NextDelete
  <1>2. DeleteInv => DeletedWhenDelivered
    BY DEF DeleteInv
  <1> QED BY <1>1, <1>2, InitDelete, SpecIInv, PTL DEF Spec
=============================================================================
