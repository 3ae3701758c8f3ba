------------------------------- MODULE SdioTx -------------------------------
(***************************************************************************)
(* The transmit side of artosyn_sdio on a bound device: the network stack  *)
(* (net_start_xmit, net_open, net_close), the writers of the character     *)
(* device, the workqueue, the SDIO interrupt and the chip.                 *)
(*                                                                         *)
(* Data packets and commands wait in two queues.  Whoever holds the host   *)
(* claim, the interrupt handler or the worker, runs send_data and then     *)
(* send_cmd: each packs what fits the credit the chip has granted into one *)
(* transfer and consumes that grant.  The queues, the in-flight counter,   *)
(* the stop bit of the network queue and the sleepers on cmd_wq are shared *)
(* with threads that do not hold the claim, so a step is one access to one *)
(* of them.  Lengths are in bytes, as in the code.                         *)
(***************************************************************************)
EXTENDS Integers, Sequences, FiniteSets

CONSTANTS
    Pkt,           \* IPv4 packets the stack may hand to start_xmit
    Cmd,           \* commands the control device may be asked to write
    Size,          \* skb->len of each packet and command
    Odd,           \* packets whose first byte is not 0x45
    Writer,        \* threads in artosyn_write
    GrantBlocks,   \* values of REG_TX_CREDIT
    Staging,       \* ARSDIO_STAGING
    InflightCap,   \* ARSDIO_INFLIGHT_CAP
    UnackedMax,    \* tx_window; 0 disables the window
    IfDown,        \* whether the interface is ever taken down
    IoFails        \* whether a CMD53 write may fail

Block   == 512
Trailer == 4
Shrink  == 8       \* IP_HEAD_SHRINK

Msg == Pkt \cup Cmd

ASSUME MsgAssumption ==
    /\ Pkt \cap Cmd = {} /\ Odd \subseteq Pkt
    /\ Size \in [Msg -> Nat \ {0}]
    /\ \A p \in Pkt : Size[p] >= 20
ASSUME GrantAssumption == \A g \in GrantBlocks : g \in Nat /\ g <= 255
ASSUME LimitAssumption ==
    /\ Staging \in Nat /\ InflightCap \in Nat \ {0} /\ UnackedMax \in Nat
    /\ \A p \in Pkt : Size[p] - Shrink + Trailer <= Staging
ASSUME SwitchAssumption == IfDown \in BOOLEAN /\ IoFails \in BOOLEAN

VARIABLES
    \* the network stack
    todo,          \* packets in the qdisc
    xm,            \* where start_xmit is: <<>> or <<step, packet>>
    stopped,       \* the network queue is stopped
    up,            \* the queue is activated between ndo_open and ndo_stop
    closing,       \* where net_close is
    \* the driver
    data_txq, cmd_txq,
    inflight,      \* dev->inflight
    tx_read_acc, tx_write_acc,
    unacked_bytes,
    pending,       \* the work item is queued
    running,       \* the worker is executing it
    \* the holder of the host claim, with the locals of the function it is in
    host, pc, do_tx,
    hand,          \* the skb just dequeued: at most one
    batch, used,   \* the packets copied to tx_buf, and their length
    \* the writers
    writer, unwritten,
    \* the chip
    offer,         \* a grant waiting in REG_TX_CREDIT: at most one
    ack,           \* a 0xEE report waiting in the FIFO: at most one
    undrained,     \* data bytes received and not yet sent over the air
    wire_ip,       \* packets received, in order
    wire_cmd,      \* commands received, in order
    spent          \* block-run bytes received against the grant last taken

stack  == <<todo, xm, stopped, up, closing>>
credit == <<tx_read_acc, tx_write_acc, unacked_bytes>>
work   == <<pending, running>>
locals == <<host, pc, do_tx, hand, batch, used>>
users  == <<writer, unwritten>>
fifo   == <<undrained, wire_ip, wire_cmd, spent>>
chip   == <<offer, ack, undrained, wire_ip, wire_cmd, spent>>
vars   == <<todo, xm, stopped, up, closing, data_txq, cmd_txq, inflight,
            tx_read_acc, tx_write_acc, unacked_bytes, pending, running,
            host, pc, do_tx, hand, batch, used, writer, unwritten,
            offer, ack, undrained, wire_ip, wire_cmd, spent>>

TypeOK ==
    /\ todo \subseteq Pkt
    /\ xm \in {<<>>} \cup ({"counted", "over", "stopping"} \X Pkt)
    /\ stopped \in BOOLEAN /\ up \in BOOLEAN
    /\ closing \in {"no", "cancel", "drain"}
    /\ data_txq \in Seq(Pkt) /\ cmd_txq \in Seq(Cmd)
    /\ inflight \in Nat
    /\ tx_read_acc \in Nat /\ tx_write_acc \in Nat /\ unacked_bytes \in Nat
    /\ pending \in BOOLEAN /\ running \in BOOLEAN
    /\ host \in {"free", "irq", "worker"}
    /\ pc \in {"free", "irq", "data", "pack", "fit", "flush",
               "cmd", "cpack", "cfit", "cflush"}
    /\ do_tx \in BOOLEAN
    /\ hand \in Seq(Msg) /\ Len(hand) <= 1
    /\ batch \in Seq(Msg) /\ used \in Nat
    /\ writer \in [Writer -> {"idle", "asleep", "woken", "past"}]
    /\ unwritten \subseteq Cmd
    /\ offer \in Seq(GrantBlocks) /\ Len(offer) <= 1
    /\ ack \in Seq(Nat) /\ Len(ack) <= 1
    /\ undrained \in Nat /\ spent \in Nat
    /\ wire_ip \in Seq(Pkt) /\ wire_cmd \in Seq(Cmd)

Init ==
    /\ todo = Pkt /\ xm = <<>> /\ stopped = FALSE /\ up = TRUE /\ closing = "no"
    /\ data_txq = <<>> /\ cmd_txq = <<>>
    /\ inflight = 0
    /\ tx_read_acc = 0 /\ tx_write_acc = 0 /\ unacked_bytes = 0
    /\ pending = FALSE /\ running = FALSE
    /\ host = "free" /\ pc = "free" /\ do_tx = FALSE
    /\ hand = <<>> /\ batch = <<>> /\ used = 0
    /\ writer = [w \in Writer |-> "idle"] /\ unwritten = Cmd
    /\ offer = <<>> /\ ack = <<>> /\ undrained = 0 /\ spent = 0
    /\ wire_ip = <<>> /\ wire_cmd = <<>>

-----------------------------------------------------------------------------
(* artosyn_sdio_net_start_xmit                                             *)

\* atomic_inc_return, compared with the cap.
XmitCount ==
    /\ up /\ ~stopped /\ xm = <<>>
    /\ \E p \in todo :
          xm' = <<IF inflight + 1 > InflightCap THEN "over" ELSE "counted", p>>
    /\ inflight' = inflight + 1
    /\ UNCHANGED <<todo, stopped, up, closing, data_txq, cmd_txq, credit, work,
                   locals, users, chip>>

XmitQueue ==
    /\ xm # <<>> /\ xm[1] = "counted"
    /\ data_txq' = Append(data_txq, xm[2])
    /\ todo' = todo \ {xm[2]}
    /\ xm' = <<>>
    /\ pending' = TRUE
    /\ UNCHANGED <<stopped, up, closing, cmd_txq, inflight, credit, running,
                   locals, users, chip>>

XmitBackOut ==
    /\ xm # <<>> /\ xm[1] = "over"
    /\ inflight' = inflight - 1
    /\ xm' = <<"stopping", xm[2]>>
    /\ UNCHANGED <<todo, stopped, up, closing, data_txq, cmd_txq, credit, work,
                   locals, users, chip>>

\* NETDEV_TX_BUSY: the packet goes back to the qdisc.
XmitStop ==
    /\ xm # <<>> /\ xm[1] = "stopping"
    /\ stopped' = TRUE
    /\ xm' = <<>>
    /\ UNCHANGED <<todo, up, closing, data_txq, cmd_txq, inflight, credit, work,
                   locals, users, chip>>

-----------------------------------------------------------------------------
(* artosyn_sdio_net_close and _net_open                                    *)

\* The stack deactivates the queue, which waits for start_xmit to return.
CloseStart ==
    /\ IfDown /\ up /\ xm = <<>>
    /\ up' = FALSE
    /\ stopped' = TRUE
    /\ closing' = "cancel"
    /\ UNCHANGED <<todo, xm, data_txq, cmd_txq, inflight, credit, work, locals, users, chip>>

\* cancel_work_sync waits for the worker.
CloseCancel ==
    /\ closing = "cancel" /\ ~running
    /\ pending' = FALSE
    /\ closing' = "drain"
    /\ UNCHANGED <<todo, xm, stopped, up, data_txq, cmd_txq, inflight, credit, running,
                   locals, users, chip>>

\* atomic_dec_if_positive
Uncount == inflight' = IF inflight > 0 THEN inflight - 1 ELSE inflight

CloseDrain ==
    /\ closing = "drain" /\ data_txq # <<>>
    /\ data_txq' = Tail(data_txq)
    /\ Uncount
    /\ UNCHANGED <<stack, cmd_txq, credit, work, locals, users, chip>>

ClosePurge ==
    /\ closing = "drain" /\ data_txq = <<>>
    /\ cmd_txq' = <<>>
    /\ closing' = "no"
    /\ UNCHANGED <<todo, xm, stopped, up, data_txq, inflight, credit, work, locals,
                   users, chip>>

NetOpen ==
    /\ ~up /\ closing = "no"
    /\ up' = TRUE
    /\ stopped' = FALSE
    /\ UNCHANGED <<todo, xm, closing, data_txq, cmd_txq, inflight, credit, work, locals,
                   users, chip>>

-----------------------------------------------------------------------------
(* artosyn_do_write                                                        *)

Moves(w, from, to) ==
    /\ writer[w] \in from
    /\ writer' = [writer EXCEPT ![w] = to]

\* wake_up(&dev->cmd_wq): every waiter re-evaluates its condition.
Wake == writer' = [w \in Writer |-> IF writer[w] = "asleep" THEN "woken" ELSE writer[w]]

\* The queue is empty, at first sight or after a wake-up.
WriteReady(w) ==
    /\ cmd_txq = <<>> /\ unwritten # {}
    /\ Moves(w, {"idle", "woken"}, "past")
    /\ UNCHANGED <<stack, data_txq, cmd_txq, inflight, credit, work, locals, unwritten, chip>>

WriteSleep(w) ==
    /\ cmd_txq # <<>> /\ unwritten # {}
    /\ Moves(w, {"idle", "woken"}, "asleep")
    /\ UNCHANGED <<stack, data_txq, cmd_txq, inflight, credit, work, locals, unwritten, chip>>

\* A signal ends the wait.
WriteSignal(w) ==
    /\ Moves(w, {"asleep", "woken"}, "idle")
    /\ UNCHANGED <<stack, data_txq, cmd_txq, inflight, credit, work, locals, unwritten, chip>>

\* Nothing between the check and skb_queue_tail keeps the queue empty.
WriteQueue(w) ==
    /\ Moves(w, {"past"}, "idle")
    /\ \E c \in unwritten :
          /\ cmd_txq' = Append(cmd_txq, c)
          /\ unwritten' = unwritten \ {c}
    /\ pending' = TRUE
    /\ UNCHANGED <<stack, data_txq, inflight, credit, running, locals, chip>>

\* The allocation or the copy fails, or someone else wrote the last command.
WriteFail(w) ==
    /\ Moves(w, {"past"}, "idle")
    /\ UNCHANGED <<stack, data_txq, cmd_txq, inflight, credit, work, locals, unwritten, chip>>

-----------------------------------------------------------------------------
(* The claim of the host: the interrupt handler and the worker             *)

HasCredit == tx_read_acc # tx_write_acc

\* The interrupt, or a poll() with nothing ready, finds an event pending.
IrqEnter ==
    /\ host = "free" /\ (offer # <<>> \/ ack # <<>>)
    /\ host' = "irq" /\ pc' = "irq" /\ do_tx' = FALSE
    /\ UNCHANGED <<stack, data_txq, cmd_txq, inflight, credit, work, hand, batch, used,
                   users, chip>>

\* EVT_TX: reading the register clears the event, taken or not.
IrqTx ==
    /\ pc = "irq" /\ offer # <<>>
    /\ offer' = <<>>
    /\ IF ~do_tx /\ ~HasCredit
         THEN /\ tx_read_acc' = 0
              /\ tx_write_acc' = offer[1] * Block
              /\ do_tx' = TRUE
              /\ spent' = 0
         ELSE UNCHANGED <<tx_read_acc, tx_write_acc, do_tx, spent>>
    /\ UNCHANGED <<stack, data_txq, cmd_txq, inflight, unacked_bytes, work, host, pc,
                   hand, batch, used, users, ack, undrained, wire_ip, wire_cmd>>

\* EVT_RX: artosyn_sdio_recv finds a 0xEE run.
IrqAck ==
    /\ pc = "irq" /\ ack # <<>>
    /\ ack' = <<>>
    /\ unacked_bytes' = IF unacked_bytes > ack[1] THEN ack[1] ELSE unacked_bytes
    /\ UNCHANGED <<stack, data_txq, cmd_txq, inflight, tx_read_acc, tx_write_acc, work,
                   locals, users, offer, fifo>>

\* REG_STATUS reads zero, or the loop has run for too long.
IrqLeave ==
    /\ pc = "irq"
    /\ IF do_tx THEN pc' = "data" /\ host' = host ELSE pc' = "free" /\ host' = "free"
    /\ UNCHANGED <<stack, data_txq, cmd_txq, inflight, credit, work, do_tx, hand, batch,
                   used, users, chip>>

WorkStart ==
    /\ pending /\ ~running
    /\ pending' = FALSE /\ running' = TRUE
    /\ UNCHANGED <<stack, data_txq, cmd_txq, inflight, credit, locals, users, chip>>

WorkClaim ==
    /\ running /\ host = "free"
    /\ host' = "worker" /\ pc' = "data"
    /\ UNCHANGED <<stack, data_txq, cmd_txq, inflight, credit, work, do_tx, hand, batch,
                   used, users, chip>>

Release ==
    /\ host' = "free" /\ pc' = "free" /\ do_tx' = FALSE
    /\ running' = (running /\ host # "worker")

-----------------------------------------------------------------------------
(* Packing, shared by send_data and send_cmd                               *)

Align(n) == ((n + Block - 1) \div Block) * Block

\* What a message takes up in tx_buf: build_ip_head shortens a packet.
WireLen(m) == IF m \in Pkt THEN Size[m] - Shrink ELSE Size[m]

\* The message still fits the grant behind those already packed.
Fits(m) == Align(used + WireLen(m) + Trailer) <= tx_write_acc

\* tx_buf has to be sent before the message can be copied to it.
Overflows(m) == used > 0 /\ used + WireLen(m) + Trailer > Staging

\* artosyn_tx_flush: the callers ignore its result.
Flush(ip) ==
    /\ \/ /\ ip
          /\ wire_ip' = wire_ip \o batch /\ undrained' = undrained + used
          /\ UNCHANGED wire_cmd
       \/ /\ ~ip
          /\ wire_cmd' = wire_cmd \o batch
          /\ UNCHANGED <<wire_ip, undrained>>
       \/ IoFails /\ UNCHANGED <<wire_ip, wire_cmd, undrained>>
    /\ spent' = spent + Align(used + Trailer)

Discard == hand' = <<>> /\ UNCHANGED <<batch, used>>

Pack ==
    /\ batch' = batch \o hand
    /\ used' = used + WireLen(hand[1])
    /\ hand' = <<>>

-----------------------------------------------------------------------------
(* artosyn_sdio_send_data                                                  *)

Throttled == UnackedMax # 0 /\ unacked_bytes > UnackedMax

DataEnter ==
    /\ pc = "data"
    /\ pc' = IF HasCredit /\ ~Throttled THEN "pack" ELSE "cmd"
    /\ UNCHANGED <<stack, data_txq, cmd_txq, inflight, credit, work, host, do_tx, hand,
                   batch, used, users, chip>>

DataDequeue ==
    /\ pc = "pack" /\ data_txq # <<>>
    /\ hand' = <<Head(data_txq)>>
    /\ data_txq' = Tail(data_txq)
    /\ pc' = "fit"
    /\ UNCHANGED <<stack, cmd_txq, inflight, credit, work, host, do_tx, batch, used,
                   users, chip>>

DataEmpty ==
    /\ pc = "pack" /\ data_txq = <<>>
    /\ pc' = "flush"
    /\ UNCHANGED <<stack, data_txq, cmd_txq, inflight, credit, work, host, do_tx, hand,
                   batch, used, users, chip>>

\* Mutant: a dropped packet stays counted.
DataDropLeak ==
    /\ pc = "fit"
    /\ hand[1] \in Odd \/ (used = 0 /\ ~Fits(hand[1]))
    /\ Discard
    /\ pc' = "pack"
    /\ UNCHANGED <<stack, data_txq, cmd_txq, inflight, credit, work, host, do_tx, users, chip>>

\* Not an IPv4 header without options, or larger than the whole grant.
DataDrop ==
    /\ pc = "fit"
    /\ hand[1] \in Odd \/ (used = 0 /\ ~Fits(hand[1]))
    /\ Discard /\ Uncount
    /\ pc' = "pack"
    /\ UNCHANGED <<stack, data_txq, cmd_txq, credit, work, host, do_tx, users, chip>>

\* Mutant: the packet that did not fit goes to the end of the queue.
DataRequeueTail ==
    /\ pc = "fit"
    /\ hand[1] \notin Odd /\ used > 0 /\ ~Fits(hand[1])
    /\ data_txq' = data_txq \o hand
    /\ Discard
    /\ pc' = "flush"
    /\ UNCHANGED <<stack, cmd_txq, inflight, credit, work, host, do_tx, users, chip>>

DataRequeue ==
    /\ pc = "fit"
    /\ hand[1] \notin Odd /\ used > 0 /\ ~Fits(hand[1])
    /\ data_txq' = hand \o data_txq
    /\ Discard
    /\ pc' = "flush"
    /\ UNCHANGED <<stack, cmd_txq, inflight, credit, work, host, do_tx, users, chip>>

\* Mutant: what was sent stays in the staging buffer.
DataOverflowKeeps ==
    /\ pc = "fit"
    /\ hand[1] \notin Odd /\ Fits(hand[1]) /\ Overflows(hand[1])
    /\ Flush(TRUE)
    /\ used' = 0
    /\ UNCHANGED <<stack, data_txq, cmd_txq, inflight, credit, work, host, pc, do_tx, hand,
                   batch, users, offer, ack>>

\* The staging buffer is full: it is sent, but no credit is consumed yet.
DataOverflow ==
    /\ pc = "fit"
    /\ hand[1] \notin Odd /\ Fits(hand[1]) /\ Overflows(hand[1])
    /\ Flush(TRUE)
    /\ batch' = <<>> /\ used' = 0
    /\ UNCHANGED <<stack, data_txq, cmd_txq, inflight, credit, work, host, pc, do_tx, hand,
                   users, offer, ack>>

DataPack ==
    /\ pc = "fit"
    /\ hand[1] \notin Odd /\ Fits(hand[1]) /\ ~Overflows(hand[1])
    /\ Pack /\ Uncount
    /\ pc' = "pack"
    /\ UNCHANGED <<stack, data_txq, cmd_txq, credit, work, host, do_tx, users, chip>>

\* Mutant: the grant is not consumed.
DataFlushFree ==
    /\ pc = "flush"
    /\ IF used > 0
         THEN Flush(TRUE) /\ unacked_bytes' = unacked_bytes + used
         ELSE UNCHANGED <<fifo, unacked_bytes>>
    /\ batch' = <<>> /\ used' = 0
    /\ stopped' = (stopped /\ inflight >= InflightCap)
    /\ pc' = "cmd"
    /\ UNCHANGED <<todo, xm, up, closing, data_txq, cmd_txq, inflight, tx_read_acc,
                   tx_write_acc, work, host, do_tx, hand, users, offer, ack>>

DataFlush ==
    /\ pc = "flush"
    /\ IF used > 0
         THEN /\ Flush(TRUE)
              /\ tx_read_acc' = tx_write_acc
              /\ unacked_bytes' = unacked_bytes + used
         ELSE UNCHANGED <<fifo, tx_read_acc, unacked_bytes>>
    /\ batch' = <<>> /\ used' = 0
    /\ stopped' = (stopped /\ inflight >= InflightCap)
    /\ pc' = "cmd"
    /\ UNCHANGED <<todo, xm, up, closing, data_txq, cmd_txq, inflight, tx_write_acc, work,
                   host, do_tx, hand, users, offer, ack>>

-----------------------------------------------------------------------------
(* artosyn_sdio_send_cmd                                                   *)

CmdEnter ==
    /\ pc = "cmd"
    /\ IF HasCredit THEN pc' = "cpack" /\ UNCHANGED <<host, do_tx, running>> ELSE Release
    /\ UNCHANGED <<stack, data_txq, cmd_txq, inflight, credit, pending, hand, batch, used,
                   users, chip>>

CmdDequeue ==
    /\ pc = "cpack" /\ cmd_txq # <<>>
    /\ hand' = <<Head(cmd_txq)>>
    /\ cmd_txq' = Tail(cmd_txq)
    /\ pc' = "cfit"
    /\ UNCHANGED <<stack, data_txq, inflight, credit, work, host, do_tx, batch, used,
                   users, chip>>

CmdEmpty ==
    /\ pc = "cpack" /\ cmd_txq = <<>>
    /\ pc' = "cflush"
    /\ UNCHANGED <<stack, data_txq, cmd_txq, inflight, credit, work, host, do_tx, hand,
                   batch, used, users, chip>>

\* Mutant: dropping a command wakes nobody.
CmdDropQuiet ==
    /\ pc = "cfit" /\ used = 0
    /\ ~Fits(hand[1]) \/ WireLen(hand[1]) + Trailer > Staging
    /\ Discard
    /\ pc' = "cpack"
    /\ UNCHANGED <<stack, data_txq, cmd_txq, inflight, credit, work, host, do_tx, users, chip>>

\* Larger than the whole grant, or than tx_buf: the writers are woken, as the
\* queue may now be empty with nothing packed.
CmdDrop ==
    /\ pc = "cfit" /\ used = 0
    /\ ~Fits(hand[1]) \/ WireLen(hand[1]) + Trailer > Staging
    /\ Discard /\ Wake
    /\ pc' = "cpack"
    /\ UNCHANGED <<stack, data_txq, cmd_txq, inflight, credit, work, host, do_tx,
                   unwritten, chip>>

\* Mutant: the command that did not fit goes to the end of the queue.
CmdRequeueTail ==
    /\ pc = "cfit" /\ used > 0 /\ ~Fits(hand[1])
    /\ cmd_txq' = cmd_txq \o hand
    /\ Discard
    /\ pc' = "cflush"
    /\ UNCHANGED <<stack, data_txq, inflight, credit, work, host, do_tx, users, chip>>

CmdRequeue ==
    /\ pc = "cfit" /\ used > 0 /\ ~Fits(hand[1])
    /\ cmd_txq' = hand \o cmd_txq
    /\ Discard
    /\ pc' = "cflush"
    /\ UNCHANGED <<stack, data_txq, inflight, credit, work, host, do_tx, users, chip>>

CmdOverflow ==
    /\ pc = "cfit" /\ Fits(hand[1]) /\ Overflows(hand[1])
    /\ Flush(FALSE)
    /\ batch' = <<>> /\ used' = 0
    /\ UNCHANGED <<stack, data_txq, cmd_txq, inflight, credit, work, host, pc, do_tx, hand,
                   users, offer, ack>>

CmdPack ==
    /\ pc = "cfit" /\ Fits(hand[1]) /\ used + WireLen(hand[1]) + Trailer <= Staging
    /\ Pack
    /\ pc' = "cpack"
    /\ UNCHANGED <<stack, data_txq, cmd_txq, inflight, credit, work, host, do_tx, users, chip>>

\* Mutant: no empty frame is sent while data is throttled.
CmdFlushSilent ==
    /\ pc = "cflush"
    /\ IF used > 0
         THEN Flush(FALSE) /\ tx_read_acc' = tx_write_acc /\ Wake
         ELSE UNCHANGED <<fifo, tx_read_acc, writer>>
    /\ batch' = <<>> /\ used' = 0
    /\ Release
    /\ UNCHANGED <<stack, data_txq, cmd_txq, inflight, tx_write_acc, unacked_bytes, pending,
                   hand, unwritten, offer, ack>>

\* The commands go out; with none, an empty frame consumes a grant that
\* send_data left because the window is closed.
CmdFlush ==
    /\ pc = "cflush"
    /\ \/ /\ used > 0 \/ (data_txq # <<>> /\ HasCredit)
          /\ Flush(FALSE)
          /\ tx_read_acc' = tx_write_acc
          /\ IF used > 0 THEN Wake ELSE UNCHANGED writer
       \/ /\ used = 0 /\ (data_txq = <<>> \/ ~HasCredit)
          /\ UNCHANGED <<fifo, tx_read_acc, writer>>
    /\ batch' = <<>> /\ used' = 0
    /\ Release
    /\ UNCHANGED <<stack, data_txq, cmd_txq, inflight, tx_write_acc, unacked_bytes, pending,
                   hand, unwritten, offer, ack>>

-----------------------------------------------------------------------------
(* The chip, as the comments of the driver describe it                     *)

ChipGrant ==
    /\ offer = <<>>
    /\ \E g \in GrantBlocks : offer' = <<g>>
    /\ UNCHANGED <<stack, data_txq, cmd_txq, inflight, credit, work, locals, users,
                   ack, fifo>>

\* A 0xEE run carries the bytes still pending when the chip queues it.
ChipReport ==
    /\ ack = <<>>
    /\ ack' = <<undrained>>
    /\ UNCHANGED <<stack, data_txq, cmd_txq, inflight, credit, work, locals, users,
                   offer, fifo>>

ChipDrain ==
    /\ undrained > 0
    /\ undrained' = 0
    /\ UNCHANGED <<stack, data_txq, cmd_txq, inflight, credit, work, locals, users,
                   offer, ack, wire_ip, wire_cmd, spent>>

-----------------------------------------------------------------------------

Xmit     == XmitQueue \/ XmitBackOut \/ XmitStop
Close    == CloseStart \/ CloseCancel \/ CloseDrain \/ ClosePurge \/ NetOpen
Write(w) == WriteReady(w) \/ WriteSleep(w) \/ WriteSignal(w) \/ WriteQueue(w) \/ WriteFail(w)
SendData == \/ DataEnter \/ DataDequeue \/ DataEmpty \/ DataDrop
            \/ DataRequeue \/ DataOverflow \/ DataPack \/ DataFlush
SendCmd  == \/ CmdEnter \/ CmdDequeue \/ CmdEmpty \/ CmdDrop
            \/ CmdRequeue \/ CmdOverflow \/ CmdPack \/ CmdFlush
Irq      == IrqEnter \/ IrqTx \/ IrqAck \/ IrqLeave
Worker   == WorkStart \/ WorkClaim
Chip     == ChipGrant \/ ChipReport \/ ChipDrain

Next == \/ XmitCount \/ Xmit \/ Close \/ \E w \in Writer : Write(w)
        \/ SendData \/ SendCmd \/ Irq \/ Worker \/ Chip

Spec == Init /\ [][Next]_vars

(* Threads inside the driver keep running.  A thread that waits for the    *)
(* claim gets it in the end, although others claim the host meanwhile, and *)
(* the handler reads the events it was raised for: hence SF.  The chip     *)
(* keeps granting credit, sending what it received and reporting it.       *)
Fairness ==
    /\ WF_vars(Xmit) /\ WF_vars(SendData) /\ WF_vars(SendCmd)
    /\ SF_vars(IrqEnter) /\ SF_vars(IrqTx) /\ SF_vars(IrqAck) /\ WF_vars(IrqLeave)
    /\ WF_vars(WorkStart) /\ SF_vars(WorkClaim)
    /\ WF_vars(ChipGrant) /\ WF_vars(ChipReport) /\ WF_vars(ChipDrain)

FairSpec == Spec /\ Fairness

-----------------------------------------------------------------------------
(* Properties                                                              *)

\* A packet between its dequeue and its fate, and one between its count and
\* its place in the queue.
InHand == IF pc = "fit" THEN 1 ELSE 0
InXmit == IF xm # <<>> /\ xm[1] # "stopping" THEN 1 ELSE 0
\* dev->inflight counts the packets between start_xmit and the end of their
\* life in the driver, so it never sticks at the cap; and no more than
\* InflightCap of them are ever queued.
InflightExact ==
    /\ inflight = Len(data_txq) + InHand + InXmit
    /\ Len(data_txq) + InHand <= InflightCap

\* Between two grants the driver writes no more to the FIFO than the block
\* runs the first of them allows, whichever of the two functions writes.
WithinCredit == spent <= tx_write_acc

\* A writer asleep in artosyn_do_write has a wake-up coming: a command that
\* keeps the queue busy, or a batch that will wake it when it is sent.
WriterNotForgotten ==
    \A w \in Writer : writer[w] = "asleep" =>
        \/ cmd_txq # <<>>
        \/ pc \in {"cpack", "cfit", "cflush"} /\ (hand # <<>> \/ used > 0)

InData == pc \in {"pack", "fit", "flush"}
InCmd  == pc \in {"cpack", "cfit", "cflush"}

\* What each path has accepted and neither sent nor dropped, oldest first:
\* what is packed, then what is in the hand, then what is queued.
DataHeld  == IF InData THEN batch \o hand ELSE <<>>
CmdHeld   == IF InCmd THEN batch \o hand ELSE <<>>
DataQueue == DataHeld \o data_txq
CmdQueue  == CmdHeld \o cmd_txq

\* Each of the two paths is a lossy pipe that neither reorders nor repeats.
DataPipe == INSTANCE TxPipe WITH Msg <- Pkt, queue <- DataQueue, delivered <- wire_ip
CmdPipe  == INSTANCE TxPipe WITH Msg <- Cmd, queue <- CmdQueue, delivered <- wire_cmd

DataInOrder == DataPipe!Spec
CmdInOrder  == CmdPipe!Spec

\* A queued packet leaves data_txq, throttled or not, for as long as the chip
\* grants credit and reports what it has sent.
DataDrains ==
    \A p \in Pkt : (\E i \in 1..Len(data_txq) : data_txq[i] = p)
                     ~> (\A i \in 1..Len(data_txq) : data_txq[i] # p)

\* A network queue that start_xmit stopped is started again once the packets
\* that filled it are sent or dropped.
BusyQueueReopens == (stopped /\ up /\ data_txq # <<>>) ~> (~stopped \/ ~up)

-----------------------------------------------------------------------------
(* The inductive invariants behind the safety properties above.            *)

\* What each queue holds, and what the holder of the claim has in its hand.
Queues ==
    /\ data_txq \in Seq(Pkt)
    /\ cmd_txq \in Seq(Cmd)
    /\ todo \subseteq Pkt /\ unwritten \subseteq Cmd
    /\ xm # <<>> => xm[1] \in {"counted", "over", "stopping"} /\ xm[2] \in Pkt
    /\ pc = "fit" => hand = <<hand[1]>> /\ hand[1] \in Pkt
    /\ pc = "cfit" => hand = <<hand[1]>> /\ hand[1] \in Cmd
    /\ host = "free" => pc = "free"

Admitted == xm # <<>> /\ xm[1] = "counted"

\* A packet start_xmit has counted below the cap stays below it.
InflightInv ==
    /\ InflightExact
    /\ Admitted => inflight <= InflightCap

\* What is packed fits the grant, and a grant that is not consumed is unspent.
Budget ==
    /\ tx_read_acc \in Nat /\ tx_write_acc \in Nat /\ spent \in Nat /\ used \in Nat
    /\ tx_write_acc = 0 \/ \E g \in GrantBlocks : tx_write_acc = g * Block
    /\ offer # <<>> => offer[1] \in GrantBlocks
    /\ HasCredit => tx_read_acc = 0 /\ spent = 0
    /\ InData \/ InCmd => HasCredit
    /\ ~(InData \/ InCmd) => used = 0
    /\ used > 0 => Align(used + Trailer) <= tx_write_acc
    /\ WithinCredit

\* tx_buf holds messages of the function that packs, and is empty elsewhere;
\* a message is in the hand exactly while it is looked at.
Packed ==
    /\ used \in Nat /\ (used = 0 <=> batch = <<>>)
    /\ batch # <<>> => InData \/ InCmd
    /\ InData => batch \in Seq(Pkt)
    /\ InCmd => batch \in Seq(Cmd)
    /\ hand = <<>> <=> pc \notin {"fit", "cfit"}

\* Nobody takes the interface down.
StaysUp == up /\ closing = "no"

\* The chip never grants more than tx_buf can hold.
SmallGrants == \A g \in GrantBlocks : g * Block <= Staging
=============================================================================
