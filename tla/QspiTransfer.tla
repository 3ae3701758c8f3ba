------------------------------ MODULE QspiTransfer ------------------------------
(***************************************************************************)
(* The flash controller (spi-ar9301.c): one operation at a time, under     *)
(* qspi->lock, is armed and then fed from, or drained into, a buffer       *)
(* through two FIFOs of words, by polling, while the engine shifts at its  *)
(* own pace.  The FIFOs' levels count whole words; a tail of one to three  *)
(* bytes goes beside them.                                                 *)
(*                                                                         *)
(* A byte is the operation's number and where it is in its data.           *)
(***************************************************************************)
EXTENDS Integers, Sequences, SequencesExt

CONSTANTS
  Depth,       \* AR9301_FIFO_WORDS
  Cap,         \* AR9301_MAX_DATA_LEN
  Requests,    \* what spi-mem asks for: [dir, nbytes], dir "in", "out" or "none";
               \* no write that fills the FIFO has a tail
  Late,        \* whether the engine may go on after the driver gave up on it
  MaxTransfers \* bound

VARIABLES
  op,          \* the operation under way: [id, dir, nbytes], or id 0 between two
  step,        \* where ar9301_exec_op is
  buf,         \* what was read, or how much was written
  engine,      \* [busy, dir, id, len, left, dead]: what it still has to shift
  rx, tx,      \* the FIFOs: the entries, each the bytes of a word or of a tail
  flash,       \* the bytes the last operation that wrote has given the flash
  result,      \* of the last operation: 0, or an error
  lost         \* bytes stored to a full TX FIFO

qpVars == <<op, step, buf, engine, rx, tx, flash, result, lost>>

Less(a, b) == IF a < b THEN a ELSE b
NoTransfer == [id |-> 0, dir |-> "none", nbytes |-> 0]

\* n bytes of the operation from byte k on
Bytes(id, k, n) == [i \in 1..n |-> <<id, k + i - 1>>]

\* AR9301_FIFOSTAT: RX_LEVEL and TX_FREE in words, RX_EMPTY
RxLevel == Len(SelectSeq(rx, LAMBDA e : Len(e) = 4))
RxEmpty == rx = <<>>
TxFree == Depth - Len(SelectSeq(tx, LAMBDA e : Len(e) = 4))

QpInit ==
  /\ op = NoTransfer /\ step = "idle" /\ buf = <<>>
  /\ engine = [busy |-> FALSE, dir |-> "none", id |-> 0, len |-> 0, left |-> 0, dead |-> FALSE]
  /\ rx = <<>> /\ tx = <<>> /\ flash = <<>> /\ result = "none" /\ lost = FALSE

\* adjust_op_size, and the call of exec_op that follows
Ask(r) ==
  /\ step = "idle" /\ op.id < MaxTransfers
  /\ op' = [id |-> op.id + 1, dir |-> r.dir, nbytes |-> Less(r.nbytes, Cap)]
  /\ step' = "send" /\ buf' = <<>> /\ result' = "none"
  /\ UNCHANGED <<engine, rx, tx, flash, lost>>

\* STATUS0 says that the command before has retired.
ar9301_idle == ~engine.busy

\* The last store of ar9301_send_cmd arms the engine.
ar9301_send_cmd ==
  /\ step = "send" /\ ar9301_idle
  /\ engine' = [engine EXCEPT !.busy = TRUE, !.dir = op.dir, !.id = op.id,
                              !.len = op.nbytes, !.left = op.nbytes]
  /\ flash' = IF op.dir = "out" THEN <<>> ELSE flash
  /\ step' = IF op.nbytes = 0 \/ op.dir = "none" THEN "done"
             ELSE IF op.dir = "out" THEN "write" ELSE "read"
  /\ UNCHANGED <<op, buf, rx, tx, result, lost>>

Words == (op.nbytes - Len(buf)) \div 4
Tail4 == (op.nbytes - Len(buf)) % 4

\* The words that fit are stored one by one.
WriteWords ==
  /\ step = "write" /\ Words > 0 /\ TxFree > 0
  /\ LET n == Less(TxFree, Words)
     IN /\ tx' = tx \o [i \in 1..n |-> Bytes(op.id, Len(buf) + 4 * (i - 1), 4)]
        /\ buf' = buf \o Bytes(op.id, Len(buf), 4 * n)
  /\ UNCHANGED <<op, step, engine, rx, flash, result, lost>>

\* The tail is stored without a look at the space left.
WriteTail ==
  /\ step = "write" /\ Words = 0
  /\ step' = "drain"
  /\ IF Tail4 = 0 THEN UNCHANGED <<tx, buf, lost>>
     ELSE /\ buf' = buf \o Bytes(op.id, Len(buf), Tail4)
          /\ IF Len(tx) < Depth
               THEN tx' = Append(tx, Bytes(op.id, Len(buf), Tail4)) /\ UNCHANGED lost
               ELSE lost' = TRUE /\ UNCHANGED tx
  /\ UNCHANGED <<op, engine, rx, flash, result>>

ar9301_wait_tx_drained ==
  /\ step = "drain" /\ TxFree = Depth
  /\ step' = "done"
  /\ UNCHANGED <<op, buf, engine, rx, tx, flash, result, lost>>

\* Entries are popped whatever they hold.
Pop(n, keep) ==
  /\ buf' = buf \o FlattenSeq([i \in 1..n |-> SubSeq(rx[i], 1, Less(keep, Len(rx[i])))])
  /\ rx' = SubSeq(rx, n + 1, Len(rx))

ReadWords ==
  /\ step = "read" /\ Words > 0 /\ RxLevel > 0
  /\ Pop(Less(RxLevel, Words), 4)
  /\ UNCHANGED <<op, step, engine, tx, flash, result, lost>>

\* Mutant of the next: the tail is popped as soon as the words are.
TailHereNot == TRUE

\* RX_EMPTY clears when the partial word has landed.
TailHere == ~RxEmpty

ReadTail ==
  /\ step = "read" /\ Words = 0
  /\ step' = "empty"
  /\ IF Tail4 = 0 THEN UNCHANGED <<rx, buf>>
     ELSE /\ TailHere
          /\ IF RxEmpty THEN buf' = buf \o Bytes(0, 0, Tail4) /\ UNCHANGED rx
                        ELSE Pop(1, Tail4)
  /\ UNCHANGED <<op, engine, tx, flash, result, lost>>

ar9301_check_rx_drained ==
  /\ step = "empty"
  /\ step' = IF RxEmpty THEN "done" ELSE "failed"
  /\ UNCHANGED <<op, buf, engine, rx, tx, flash, result, lost>>

\* A poll gives up: with nothing moving any more or, if Late, ahead of it.
PollTimesOut ==
  /\ \/ step = "send" /\ ~ar9301_idle
     \/ step = "write" /\ Words > 0 /\ TxFree = 0
     \/ step = "drain" /\ TxFree < Depth
     \/ step = "read" /\ Words > 0 /\ RxLevel = 0
     \/ step = "read" /\ Words = 0 /\ Tail4 > 0 /\ RxEmpty
  /\ engine.dead \/ Late
  /\ step' = "failed"
  /\ UNCHANGED <<op, buf, engine, rx, tx, flash, result, lost>>

\* ar9301_exec_op from out: on
Leave ==
  /\ step \in {"done", "failed"}
  /\ step' = "idle" /\ result' = IF step = "done" THEN "ok" ELSE "error"
  /\ UNCHANGED <<op, buf, engine, rx, tx, flash, lost>>

(***************************************************************************)
(* The engine; it stops its clock while a FIFO is full or empty.           *)
(***************************************************************************)
Shifted(n) == [engine EXCEPT !.left = @ - n, !.busy = engine.left > n]

ShiftIn ==
  /\ engine.busy /\ ~engine.dead /\ engine.dir = "in" /\ engine.left > 0
  /\ Len(rx) < Depth
  /\ rx' = Append(rx, Bytes(engine.id, engine.len - engine.left, Less(4, engine.left)))
  /\ engine' = Shifted(Less(4, engine.left))
  /\ UNCHANGED <<op, step, buf, tx, flash, result, lost>>

ShiftOut ==
  /\ engine.busy /\ ~engine.dead /\ engine.dir = "out" /\ tx # <<>>
  /\ flash' = flash \o tx[1] /\ tx' = Tail(tx)
  /\ engine' = Shifted(Len(tx[1]))
  /\ UNCHANGED <<op, step, buf, rx, result, lost>>

\* A command without data
ShiftCommand ==
  /\ engine.busy /\ ~engine.dead /\ engine.left = 0
  /\ engine' = [engine EXCEPT !.busy = FALSE]
  /\ UNCHANGED <<op, step, buf, rx, tx, flash, result, lost>>

Die ==
  /\ ~engine.dead /\ engine' = [engine EXCEPT !.dead = TRUE]
  /\ UNCHANGED <<op, step, buf, rx, tx, flash, result, lost>>

QpNext ==
  \/ \E r \in Requests : Ask(r)
  \/ ar9301_send_cmd \/ WriteWords \/ WriteTail \/ ar9301_wait_tx_drained
  \/ ReadWords \/ ReadTail \/ ar9301_check_rx_drained \/ PollTimesOut \/ Leave
  \/ ShiftIn \/ ShiftOut \/ ShiftCommand \/ Die

(***************************************************************************)
(* Properties.                                                             *)
(***************************************************************************)

\* A read that succeeds has filled the buffer with its own bytes, each once
\* and in order; a write that succeeds has stored all of its own, and what the
\* flash has and what is on its way to it are those bytes (ar9301_exec_op).
TransfersTrue ==
  result = "ok" =>
    /\ op.dir = "in" => buf = Bytes(op.id, 0, op.nbytes)
    /\ op.dir = "out" => flash \o FlattenSeq(tx) = Bytes(op.id, 0, op.nbytes)

\* Nothing is stored to a FIFO that is full.
FifosKept == ~lost /\ Len(tx) =< Depth
================================================================================
