----------------------------- MODULE UartUpdate -----------------------------
(***************************************************************************)
(* The update of a second microcontroller over the serial line:            *)
(* uart_update_master.c, with the thread of dev_update.c that announces    *)
(* the file and the receiving thread of spec_uart.c.                       *)
(*                                                                         *)
(* The doorbell only answers.  The microcontroller asks for the file block *)
(* by block and asks again when no answer comes; what it does is external  *)
(* and taken from the commands the code understands.  The receiving thread *)
(* assembles a request byte by byte in protocal_frame, the same buffer in  *)
(* which uart_send_packet builds an answer, copies it into the one slot    *)
(* rx_cmd and posts rx_sem; the update task takes a token and then reads   *)
(* the slot.  A frame is counted in bytes, a field of four bytes as one,   *)
(* and a file in blocks.                                                   *)
(***************************************************************************)
EXTENDS Naturals, Sequences, FiniteSets

CONSTANTS
    Blocks,      \* the blocks of the file
    Unit,        \* FILE_READ_UNIT: the bytes of a block
    Buffer,      \* PROTOCAL_SIZE + SYNC_SIZE: the bytes of protocal_frame
    Garbled,     \* what a damaged length field may say
    MaxLost,     \* bound: bytes and answers the line loses, and blocks for which
                 \* there is no memory
    MaxRestarts, \* bound: times the microcontroller restarts
    MaxReady,    \* bound: times the file is announced
    MaxPending   \* bound: requests and answers that wait

SYNC_SIZE == 6

ASSUME FileAssumption == Blocks \in Nat \ {0} /\ Unit \in Nat
ASSUME BufferAssumption == Buffer \in Nat /\ 3 + Unit + SYNC_SIZE <= Buffer
ASSUME GarbledAssumption == Garbled \subseteq Nat
ASSUME BoundsAssumption == {MaxLost, MaxRestarts, MaxReady, MaxPending} \subseteq Nat

VARIABLES
    file,      \* the update file is on the card
    fd,        \* fd # NULL: it is open
    sta,       \* update_sta
    progress,  \* update_total_size, update_send_size and update_percent
    complete,  \* upg_complete_flag
    rx,        \* the receiver: rx_cnt, protocal_frame.data.length, and the
               \* request whose first bytes are stored, if they are intact
    rx_cmd,    \* rx_cmd: the last request received
    rx_sem,    \* rx_sem
    task,      \* where update_process_run is, and the block it reads
    wire,      \* the request on its way to the doorbell, and its next byte
    back,      \* the answers on their way to the microcontroller
    mcu,       \* the microcontroller: off or waiting for the answer to req;
               \* the blocks it has; whether it loads its loader first
    budget,    \* how often each bounded thing has happened
    disturbed, \* history: a request was repeated or the other side restarted
    trampled,  \* history: an answer was built over a request being received
    delivered  \* history: the microcontroller has had 99 blocks of 100

doorbell == <<file, fd, sta, progress, complete>>
receiver == <<rx, rx_cmd, rx_sem>>
other    == <<wire, mcu, budget, disturbed, delivered>>
vars == <<doorbell, receiver, task, back, trampled, other>>

Block == 1 .. Blocks
Success == 0
Failure == 1     \* UPDATE_ERR_KEY, UPDATE_ERR_VERIFY
LoaderDone == 128 \* UPDATE_ERR_LOADER_DOWNLOAD_SUCC

Request == [cmd : {"START", "LEN", "ALIVE"}, arg : {0}]
           \cup [cmd : {"READ"}, arg : Block]
           \cup [cmd : {"END"}, arg : {Success, Failure, LoaderDone}]
Nothing == [cmd |-> "none", arg |-> 0]
Answer == Request \cup {[cmd |-> "READY", arg |-> 0]}

States == {"NONE", "READY", "START", "TIMEOUT", "LOADER_DOWNLOAD_FINISH", "SUCC", "FAIL"}

\* What a request holds between the length field and the checksum: its command
\* and its fields, the address and the length, the size, or the result.
Length(r) == CASE r.cmd = "READ"           -> 3
               [] r.cmd \in {"LEN", "END"} -> 2
               [] OTHER                    -> 1

\* The same of an answer: a READ is answered with the block, a START with the
\* baud rate, everything else with its command.
AnswerLength(c) == CASE c = "READ"  -> 3 + Unit
                     [] c = "START" -> 2
                     [] OTHER       -> 1

TypeOK ==
    /\ file \in BOOLEAN /\ fd \in BOOLEAN /\ complete \in BOOLEAN
    /\ sta \in States
    /\ progress \in [total : {0, Blocks}, sent : Nat, percent : 0 .. 255]
    /\ rx \in [cnt : 0 .. Buffer, len : Nat, of : Request \cup {Nothing}]
    /\ rx_cmd \in Request \cup {Nothing} /\ rx_sem \in Nat
    /\ task \in [at : {"wait", "read", "reset"}, block : Block \cup {0}]
    /\ wire \in [req : Request \cup {Nothing}, next : 1 .. Buffer]
    /\ back \in Seq(Answer)
    /\ mcu \in [at : {"off", "wait"}, req : Request \cup {Nothing},
                got : SUBSET Block, loader : BOOLEAN]
    /\ budget \in [lost : 0 .. MaxLost, restarts : 0 .. MaxRestarts,
                   ready : 0 .. MaxReady]
    /\ disturbed \in BOOLEAN /\ trampled \in BOOLEAN /\ delivered \in BOOLEAN

Idle == [at |-> "wait", block |-> 0]
NoProgress == [total |-> 0, sent |-> 0, percent |-> 0]
NoBytes == [cnt |-> 0, len |-> 0, of |-> Nothing]
Quiet == [req |-> Nothing, next |-> 1]

Init ==
    /\ file = TRUE /\ fd = FALSE /\ sta = "NONE"
    /\ progress = NoProgress /\ complete = FALSE
    /\ rx = NoBytes /\ rx_cmd = Nothing /\ rx_sem = 0 /\ task = Idle
    /\ wire = Quiet /\ back = <<>>
    /\ mcu \in {[at |-> "off", req |-> Nothing, got |-> {}, loader |-> l] :
                    l \in BOOLEAN}
    /\ budget = [lost |-> 0, restarts |-> 0, ready |-> 0]
    /\ disturbed = FALSE /\ trampled = FALSE /\ delivered = FALSE

-----------------------------------------------------------------------------
(* Sending and receiving. *)

\* uart_send_packet builds the answer in the buffer the receiver fills.  The two
\* marks are the same; from the length on, the bytes received are gone.
uart_send_packet(a) ==
    /\ back' = Append(back, a)
    /\ rx' = [rx EXCEPT !.len = AnswerLength(a.cmd),
                        !.of = IF rx.cnt < 3 THEN @ ELSE Nothing]
    /\ trampled' = (trampled \/ rx.cnt >= 3)

\* uart_data_decode puts byte i of request r into the frame.  The length is read
\* from bytes 3 and 4; when they are not what was sent it may be anything.
Stored(r, i) ==
    LET intact == rx.of = r /\ i = rx.cnt + 1 IN
    {[cnt |-> rx.cnt + 1, len |-> l, of |-> IF intact THEN r ELSE Nothing] :
        l \in IF rx.cnt # 3 THEN {rx.len} ELSE IF intact THEN {Length(r)} ELSE Garbled}

\* Faulty: the checksum is counted twice.
FaultyComplete(s) == s.cnt > 4 /\ s.cnt = s.len + SYNC_SIZE + 2

Complete(s) == s.cnt > 4 /\ s.cnt = s.len + SYNC_SIZE

\* uart_data_decode for one byte.  Until a mark is seen, bytes are passed over;
\* a frame that ends is copied to rx_cmd and counted in rx_sem if its checksum
\* is right.  Payload bytes that look like a mark are left out, and so is what
\* lies behind the buffer: the code goes on to write there, here a receiver that
\* runs past the end stays at it.
uart_data_decode ==
    LET r == wire.req
        i == wire.next
        First == [rx EXCEPT !.cnt = 1, !.of = r]
    IN
    /\ r # Nothing
    /\ wire' = IF i = Length(r) + SYNC_SIZE THEN Quiet ELSE [wire EXCEPT !.next = i + 1]
    /\ \/ /\ rx.cnt \in {0, Buffer} \/ (rx.cnt = 1 /\ i # 2)
          /\ rx' = CASE rx.cnt = Buffer -> rx
                     [] rx.cnt < Buffer /\ i = 1 -> First
                     [] OTHER -> [rx EXCEPT !.cnt = 0]
          /\ UNCHANGED <<rx_cmd, rx_sem>>
       \/ /\ rx.cnt \in 1 .. Buffer - 1 /\ (rx.cnt = 1 => i = 2)
          /\ \E s \in Stored(r, i) :
                /\ rx' = IF Complete(s) THEN [s EXCEPT !.cnt = 0] ELSE s
                /\ IF Complete(s) /\ s.of = r
                   THEN rx_cmd' = r /\ rx_sem' = rx_sem + 1
                   ELSE UNCHANGED <<rx_cmd, rx_sem>>
    /\ UNCHANGED <<doorbell, task, back, trampled, mcu, budget, disturbed, delivered>>

\* The line loses a byte, or an answer.
LoseByte ==
    /\ wire.req # Nothing /\ budget.lost < MaxLost
    /\ wire' = IF wire.next = Length(wire.req) + SYNC_SIZE
               THEN Quiet ELSE [wire EXCEPT !.next = @ + 1]
    /\ budget' = [budget EXCEPT !.lost = @ + 1]
    /\ UNCHANGED <<doorbell, receiver, task, back, trampled, mcu, disturbed, delivered>>

LoseAnswer ==
    /\ back # <<>> /\ budget.lost < MaxLost
    /\ back' = Tail(back)
    /\ budget' = [budget EXCEPT !.lost = @ + 1]
    /\ UNCHANGED <<doorbell, receiver, task, trampled, wire, mcu, disturbed, delivered>>

-----------------------------------------------------------------------------
(* The doorbell: update_process_run and the announcement. *)

\* The pause of eight seconds without a request.
PendTimeout ==
    /\ task.at = "wait" /\ rx_sem = 0
    /\ sta' = "TIMEOUT"
    /\ UNCHANGED <<file, fd, progress, complete, receiver, task, back, trampled, other>>

\* A token is taken and the slot is read: what it holds now, which need not be
\* the request the token was posted for.
Take(c) ==
    /\ task.at = "wait" /\ rx_sem > 0 /\ rx_cmd.cmd = c
    /\ rx_sem' = rx_sem - 1
    /\ UNCHANGED <<rx_cmd, other>>

Reply == uart_send_packet(rx_cmd)

CmdStart ==
    /\ Take("START") /\ sta' = "START" /\ Reply
    /\ UNCHANGED <<file, fd, progress, complete, task>>

CmdLen ==
    /\ Take("LEN") /\ progress' = [total |-> Blocks, sent |-> 0, percent |-> 0] /\ Reply
    /\ UNCHANGED <<file, fd, sta, complete, task>>

\* Faulty: the request is taken and not answered.
FaultyCmdKeepAlive ==
    Take("ALIVE") /\ UNCHANGED <<doorbell, task, rx, back, trampled>>

CmdKeepAlive == Take("ALIVE") /\ Reply /\ UNCHANGED <<doorbell, task>>

\* Faulty: neither wrapped nor stopped at 99.
FaultyPercent(sent, total) == (sent * 100) \div total

\* What CMD_UPDATE_READ counts.  update_percent is a u8: it wraps, then stops
\* at 99.
Percent(sent, total) == LET p == ((sent * 100) \div total) % 256
                        IN  IF p >= 99 THEN 99 ELSE p

Counted(p) == LET sent == p.sent + 1
              IN  [p EXCEPT !.sent = sent, !.percent = Percent(sent, p.total)]

\* Faulty: the command is acknowledged before the block is sent.
FaultyCmdRead ==
    /\ Take("READ") /\ Reply
    /\ task' = [at |-> "read", block |-> rx_cmd.arg]
    /\ UNCHANGED doorbell

CmdRead ==
    /\ Take("READ")
    /\ IF progress.total # 0
       THEN /\ progress' = Counted(progress)
            /\ complete' = (complete \/ progress'.percent = 99)
       ELSE UNCHANGED <<progress, complete>>
    /\ task' = [at |-> "read", block |-> rx_cmd.arg]
    /\ UNCHANGED <<file, fd, sta, rx, back, trampled>>

\* update_data_read_from_file: a block is read and sent.  Whether the read
\* worked is not looked at.  Without memory for it nothing is sent, which MaxLost
\* bounds as it does the answers that the line loses.
update_data_read_from_file ==
    /\ task.at = "read" /\ task' = Idle
    /\ \/ uart_send_packet([cmd |-> "READ", arg |-> task.block]) /\ UNCHANGED budget
       \/ /\ budget.lost < MaxLost /\ budget' = [budget EXCEPT !.lost = @ + 1]
          /\ UNCHANGED <<rx, back, trampled>>
    /\ UNCHANGED <<doorbell, rx_cmd, rx_sem, wire, mcu, disturbed, delivered>>

\* uart_update_err_code_handle.
uart_update_err_code_handle(code) ==
    IF code = LoaderDone
    THEN sta' = "LOADER_DOWNLOAD_FINISH"
         /\ progress' = [total |-> 0, sent |-> 0, percent |-> 100]
    ELSE IF code = Success
    THEN sta' = "SUCC" /\ progress' = [progress EXCEPT !.percent = 100]
    ELSE sta' = "FAIL" /\ UNCHANGED progress

\* ufw_file_op_close deletes the file it closes.
ufw_file_op_close == file' = (file /\ ~fd) /\ fd' = FALSE

\* Faulty: every end of a session closes the file and restarts the doorbell.
FaultyCmdEnd ==
    /\ Take("END")
    /\ uart_update_err_code_handle(rx_cmd.arg)
    /\ Reply
    /\ ufw_file_op_close /\ task' = [at |-> "reset", block |-> 0]
    /\ UNCHANGED complete

CmdEnd ==
    /\ Take("END")
    /\ uart_update_err_code_handle(rx_cmd.arg)
    /\ Reply
    /\ IF complete
       THEN ufw_file_op_close /\ task' = [at |-> "reset", block |-> 0]
       ELSE UNCHANGED <<file, fd, task>>
    /\ UNCHANGED complete

\* The four seconds of delay_cpu_reset are over: nothing but the card survives.
CpuReset ==
    /\ task.at = "reset" /\ task' = Idle
    /\ fd' = FALSE /\ sta' = "NONE" /\ progress' = NoProgress /\ complete' = FALSE
    /\ rx' = NoBytes /\ rx_cmd' = Nothing /\ rx_sem' = 0
    /\ UNCHANGED <<file, back, trampled, other>>

\* dev_update_check, when a card with the file is found.
uart_update_send_update_ready ==
    /\ budget.ready < MaxReady
    /\ budget' = [budget EXCEPT !.ready = @ + 1]
    /\ fd' = file
    /\ IF file
       THEN sta' = "READY" /\ uart_send_packet([cmd |-> "READY", arg |-> 0])
       ELSE UNCHANGED <<sta, back, rx, trampled>>
    /\ UNCHANGED <<file, progress, complete, rx_cmd, rx_sem, task, wire, mcu,
                   disturbed, delivered>>

-----------------------------------------------------------------------------
(* The microcontroller, external: what update_process_run understands. *)

\* What it may ask when an answer has come.  Blocks are asked for in order.
Missing(got) == [cmd : {"READ"}, arg : {b \in Block \ got : b - 1 \in got \cup {0}}]
Plain(c) == [cmd |-> c, arg |-> 0]
End(code) == [cmd |-> "END", arg |-> code]

Following(r, got) ==
    CASE r.cmd = "START" /\ ~mcu.loader -> {Plain("LEN")}
      [] r.cmd = "START" /\ mcu.loader -> Missing({})
      [] r.cmd = "LEN"   -> Missing({})
      [] r.cmd = "ALIVE" -> Missing(got)
      [] r.cmd = "READ" /\ mcu.loader -> {End(LoaderDone)}
      [] r.cmd = "READ" /\ ~mcu.loader /\ got = Block -> {End(Success), End(Failure)}
      [] r.cmd = "READ" /\ ~mcu.loader /\ got # Block ->
            Missing(got) \cup {Plain("ALIVE"), End(Failure)}
      [] OTHER -> {Plain("START")}

\* The answer to an END ends the update, or the loading of the loader.
Ends(r) == r.cmd = "END" /\ r.arg # LoaderDone

Asked(r, got, loader) ==
    /\ wire' = [req |-> r, next |-> 1]
    /\ mcu' = [at |-> "wait", req |-> r, got |-> got, loader |-> loader]

McuAnswered ==
    /\ back # <<>> /\ wire = Quiet /\ back' = Tail(back)
    /\ LET a == Head(back)
           r == mcu.req
           got == CASE r.cmd = "READ" /\ ~mcu.loader -> mcu.got \cup {r.arg}
                    [] r.cmd = "LEN" -> {}
                    [] OTHER -> mcu.got
       IN
       \/ /\ mcu.at = "off" /\ a.cmd = "READY"
          /\ Asked(Plain("START"), {}, mcu.loader)
          /\ UNCHANGED delivered
       \/ /\ mcu.at = "wait" /\ a = r /\ ~Ends(r)
          /\ \E n \in Following(r, got) : Asked(n, got, mcu.loader /\ r.cmd # "END")
          /\ delivered' = (delivered \/ 99 * Blocks <= 100 * Cardinality(got))
       \/ /\ mcu.at = "wait" /\ a = r /\ Ends(r)
          /\ mcu' = [mcu EXCEPT !.at = "off", !.req = Nothing, !.got = {}]
          /\ UNCHANGED <<wire, delivered>>
       \/ /\ IF mcu.at = "off" THEN a.cmd # "READY" ELSE a # r
          /\ UNCHANGED <<wire, mcu, delivered>>
    /\ UNCHANGED <<doorbell, receiver, task, trampled, budget, disturbed>>

\* No answer came in time: it asks again.
McuAsksAgain ==
    /\ mcu.at = "wait" /\ wire = Quiet /\ Len(back) + rx_sem < MaxPending
    /\ wire' = [req |-> mcu.req, next |-> 1]
    /\ disturbed' = TRUE
    /\ UNCHANGED <<doorbell, receiver, task, back, trampled, mcu, budget, delivered>>

\* It restarts, even in the middle of a frame, and waits to be told of the file.
McuRestart ==
    /\ mcu.at = "wait" /\ budget.restarts < MaxRestarts
    /\ budget' = [budget EXCEPT !.restarts = @ + 1]
    /\ wire' = Quiet /\ disturbed' = TRUE
    /\ mcu' = [mcu EXCEPT !.at = "off", !.req = Nothing, !.got = {}]
    /\ UNCHANGED <<doorbell, receiver, task, back, trampled, delivered>>

-----------------------------------------------------------------------------
Serve == CmdStart \/ CmdLen \/ CmdKeepAlive \/ CmdRead \/ CmdEnd
         \/ update_data_read_from_file \/ CpuReset

Next ==
    \/ Serve \/ PendTimeout \/ uart_update_send_update_ready
    \/ uart_data_decode \/ LoseByte \/ LoseAnswer
    \/ McuAnswered \/ McuAsksAgain \/ McuRestart

Spec == Init /\ [][Next]_vars

\* The receiver and the task run, and the microcontroller reads its answers and
\* asks again: nothing else has to happen.
FairSpec ==
    /\ Spec /\ WF_vars(uart_data_decode) /\ WF_vars(Serve)
    /\ WF_vars(McuAnswered) /\ WF_vars(McuAsksAgain)

-----------------------------------------------------------------------------
(* Properties. *)

\* One buffer serves both directions.  That an answer is never built over a
\* request being received is not the doorbell's doing: it holds as long as the
\* microcontroller waits for its answer before it asks again and the file is
\* announced only once.
OneDirectionAtATime == trampled => disturbed \/ budget.ready > 1

\* Until an answer is built over a frame, the receiver does not miss the end
\* that the length field gives it, whatever the line loses. The length is not
\* looked at, and an end behind the buffer is never reached: that the frames end
\* inside it holds as long as no byte is lost and the other side does not restart.
FrameEnds ==
    rx.cnt > 4 /\ ~trampled =>
        /\ rx.cnt < rx.len + SYNC_SIZE
        /\ rx.len + SYNC_SIZE > Buffer => budget.lost + budget.restarts > 0

\* The file is deleted only after a session in which 99 of 100 blocks were sent,
\* which is when the doorbell takes the update for complete: it is not lost
\* earlier, as long as nothing was asked twice.
DeletedWhenDelivered == ~file => delivered \/ disturbed

\* An update that began ends, unless the receiver ran past its buffer.
UpdateEnds == mcu.at = "wait" ~> mcu.at = "off" \/ rx.cnt = Buffer
=============================================================================
