------------------------------ MODULE SdioCmdRx ------------------------------
(***************************************************************************)
(* The receive side of the command channel: the chip sends frames, the     *)
(* SDIO interrupt handler queues them on cmd_rxq, and threads read() and   *)
(* poll() /dev/artosyn_sdio.  The handler runs under the host claim, for   *)
(* the interrupt or for a poll() that found nothing; the readers hold no   *)
(* lock, so each look at the queue is a step of its own.                   *)
(*                                                                         *)
(* A frame is a number; <<f, k>> is frame f with its first k parts read    *)
(* by earlier short reads.                                                 *)
(***************************************************************************)
EXTENDS Naturals, Sequences, FiniteSets

CONSTANTS
    Reader,        \* threads, each with a descriptor of its own
    Frames,        \* how many frames the chip sends: a bound for TLC
    Parts,         \* how many reads of the smallest buffer a frame takes
    CapIdle,       \* CMD_RXQ_MAX_IDLE
    CapReader,     \* CMD_RXQ_MAX_READER
    RecvFails      \* whether CMD53 reads and skb allocations may fail

ASSUME ReaderAssumption == IsFiniteSet(Reader)
ASSUME BoundAssumption == Frames \in Nat /\ Parts \in Nat \ {0}
ASSUME CapAssumption ==
    CapIdle \in Nat \ {0} /\ CapReader \in Nat \ {0} /\ CapIdle <= CapReader
ASSUME SwitchAssumption == RecvFails \in BOOLEAN

VARIABLES
    sent,          \* frames the chip has produced
    fifo,          \* those the host has not fetched
    \* the handler
    pc,            \* its next step; "free" when nobody holds the claim
    pump,          \* the poll()er it runs for: at most one
    batch,         \* frames fetched and not yet dispatched
    cap,           \* the limit it read for the frame at hand
    \* shared
    cmd_rxq, cmd_readers,
    cmd_busy,      \* cmd_txq is not empty
    woken,         \* entries of cmd_wq woken since their thread registered
    \* the threads
    at,            \* where each is
    hand,          \* the skb it has dequeued: at most one
    got            \* the parts returned to user space, in order

chip    == <<sent, fifo>>
handler == <<pc, pump, batch, cap>>
threads == <<at, hand, got>>
vars    == <<sent, fifo, pc, pump, batch, cap, cmd_rxq, cmd_readers, cmd_busy,
             woken, at, hand, got>>

Places == {"closed", "idle", "wait", "asleep", "take", "copy",
           "poll", "claim", "pump", "polling"}
Skb    == (1..Frames) \X (0..Parts - 1)

TypeOK ==
    /\ sent \in 0..Frames /\ fifo \in Seq(1..Frames)
    /\ pc \in {"free", "recv", "room", "drop", "queue", "wake"}
    /\ pump \in Seq(Reader) /\ Len(pump) <= 1
    /\ batch \in Seq(1..Frames) /\ cap \in {CapIdle, CapReader}
    /\ cmd_rxq \in Seq(Skb)
    /\ cmd_readers \in 0..Cardinality(Reader)
    /\ cmd_busy \in BOOLEAN /\ woken \subseteq Reader
    /\ at \in [Reader -> Places]
    /\ hand \in [Reader -> Seq(Skb)] /\ \A r \in Reader : Len(hand[r]) <= 1
    /\ got \in Seq((1..Frames) \X (1..Parts))

Init ==
    /\ sent = 0 /\ fifo = <<>>
    /\ pc = "free" /\ pump = <<>> /\ batch = <<>> /\ cap = CapIdle
    /\ cmd_rxq = <<>> /\ cmd_readers = 0 /\ cmd_busy = FALSE /\ woken = {}
    /\ at = [r \in Reader |-> "closed"] /\ hand = [r \in Reader |-> <<>>]
    /\ got = <<>>

-----------------------------------------------------------------------------
(* The chip and the command writers                                        *)

ChipSend ==
    /\ sent < Frames
    /\ sent' = sent + 1
    /\ fifo' = Append(fifo, sent + 1)
    /\ UNCHANGED <<handler, cmd_rxq, cmd_readers, cmd_busy, woken, threads>>

\* Commands come and go on cmd_txq; send_cmd wakes cmd_wq (see SdioTx).
WriteCmd ==
    /\ ~cmd_busy
    /\ cmd_busy' = TRUE
    /\ UNCHANGED <<chip, handler, cmd_rxq, cmd_readers, woken, threads>>

SendCmd ==
    /\ cmd_busy
    /\ cmd_busy' = FALSE
    /\ woken' = Reader
    /\ UNCHANGED <<chip, handler, cmd_rxq, cmd_readers, threads>>

-----------------------------------------------------------------------------
(* artosyn_sdio_irqhandler and artosyn_sdio_recv                           *)

\* Everything the FIFO holds is fetched at once, or lost with a failed CMD53.
Fetch ==
    /\ pc = "free"
    /\ pc' = "recv"
    /\ batch' = fifo \/ (RecvFails /\ batch' = <<>>)
    /\ fifo' = <<>>
    /\ UNCHANGED <<sent, cap, cmd_rxq, cmd_readers, cmd_busy, woken, hand, got>>

IrqEnter ==
    /\ fifo # <<>>
    /\ Fetch
    /\ UNCHANGED <<pump, at>>

\* Each frame is held to the limit that applies when it is dispatched.
Dispatch ==
    /\ pc = "recv" /\ batch # <<>>
    /\ cap' = IF cmd_readers # 0 THEN CapReader ELSE CapIdle
    /\ pc' = "room"
    /\ UNCHANGED <<chip, pump, batch, cmd_rxq, cmd_readers, cmd_busy, woken, threads>>

\* Mutant: one frame too many is kept.
RoomOneMore ==
    /\ pc = "room"
    /\ pc' = IF Len(cmd_rxq) > cap THEN "drop" ELSE "queue"
    /\ UNCHANGED <<chip, pump, batch, cap, cmd_rxq, cmd_readers, cmd_busy, woken, threads>>

Room ==
    /\ pc = "room"
    /\ pc' = IF Len(cmd_rxq) >= cap THEN "drop" ELSE "queue"
    /\ UNCHANGED <<chip, pump, batch, cap, cmd_rxq, cmd_readers, cmd_busy, woken, threads>>

\* A reader may have emptied the queue since it was measured.
DropOldest ==
    /\ pc = "drop"
    /\ IF cmd_rxq = <<>>
         THEN pc' = "queue" /\ cmd_rxq' = cmd_rxq
         ELSE pc' = "room" /\ cmd_rxq' = Tail(cmd_rxq)
    /\ UNCHANGED <<chip, pump, batch, cap, cmd_readers, cmd_busy, woken, threads>>

\* Mutant: the frame is queued and nobody is woken.
QueueQuiet ==
    /\ pc = "queue"
    /\ batch' = Tail(batch)
    /\ cmd_rxq' = Append(cmd_rxq, <<Head(batch), 0>>)
    /\ pc' = "recv"
    /\ UNCHANGED <<chip, pump, cap, cmd_readers, cmd_busy, woken, threads>>

QueueFrame ==
    /\ pc = "queue"
    /\ batch' = Tail(batch)
    /\ \/ cmd_rxq' = Append(cmd_rxq, <<Head(batch), 0>>) /\ pc' = "wake"
       \/ RecvFails /\ cmd_rxq' = cmd_rxq /\ pc' = "recv"
    /\ UNCHANGED <<chip, pump, cap, cmd_readers, cmd_busy, woken, threads>>

WakeReaders ==
    /\ pc = "wake"
    /\ woken' = Reader
    /\ pc' = "recv"
    /\ UNCHANGED <<chip, pump, batch, cap, cmd_rxq, cmd_readers, cmd_busy, threads>>

\* The handler returns; a poll() it ran for reports nothing and waits.
Leave ==
    /\ pc = "recv" /\ batch = <<>>
    /\ pc' = "free" /\ pump' = <<>>
    /\ at' = [r \in Reader |-> IF at[r] = "pump" THEN "polling" ELSE at[r]]
    /\ UNCHANGED <<chip, batch, cap, cmd_rxq, cmd_readers, cmd_busy, woken, hand, got>>

-----------------------------------------------------------------------------
(* artosyn_open, artosyn_close and artosyn_do_read                         *)

Goto(r, from, to) ==
    /\ at[r] = from
    /\ at' = [at EXCEPT ![r] = to]

Register(r) == woken' = woken \ {r}

Open(r) ==
    /\ Goto(r, "closed", "idle")
    /\ cmd_readers' = cmd_readers + 1
    /\ UNCHANGED <<chip, handler, cmd_rxq, cmd_busy, woken, hand, got>>

\* Mutant: a closed descriptor still counts as a reader.
CloseCounted(r) ==
    /\ Goto(r, "idle", "closed")
    /\ UNCHANGED <<chip, handler, cmd_rxq, cmd_readers, cmd_busy, woken, hand, got>>

Close(r) ==
    /\ Goto(r, "idle", "closed")
    /\ cmd_readers' = cmd_readers - 1
    /\ UNCHANGED <<chip, handler, cmd_rxq, cmd_busy, woken, hand, got>>

\* A frame at first sight, or wait_event puts the thread on cmd_wq.
ReadEnter(r) ==
    /\ IF cmd_rxq # <<>>
         THEN Goto(r, "idle", "take") /\ woken' = woken
         ELSE Goto(r, "idle", "wait") /\ Register(r)
    /\ UNCHANGED <<chip, handler, cmd_rxq, cmd_readers, cmd_busy, hand, got>>

WaitCheck(r) ==
    /\ Goto(r, "wait", IF cmd_rxq # <<>> THEN "take" ELSE "asleep")
    /\ UNCHANGED <<chip, handler, cmd_rxq, cmd_readers, cmd_busy, woken, hand, got>>

WaitAgain(r) ==
    /\ r \in woken
    /\ Goto(r, "asleep", "wait") /\ Register(r)
    /\ UNCHANGED <<chip, handler, cmd_rxq, cmd_readers, cmd_busy, hand, got>>

WaitSignal(r) ==
    /\ Goto(r, "asleep", "idle")
    /\ UNCHANGED <<chip, handler, cmd_rxq, cmd_readers, cmd_busy, woken, hand, got>>

\* skb_dequeue, some time after the queue was seen to hold a frame: if a drop
\* or another reader came first, the read() returns -EIO.
ReadTake(r) ==
    /\ \/ /\ cmd_rxq # <<>>
          /\ Goto(r, "take", "copy")
          /\ hand' = [hand EXCEPT ![r] = <<Head(cmd_rxq)>>]
          /\ cmd_rxq' = Tail(cmd_rxq)
       \/ /\ cmd_rxq = <<>>
          /\ Goto(r, "take", "idle")
          /\ UNCHANGED <<hand, cmd_rxq>>
    /\ UNCHANGED <<chip, handler, cmd_readers, cmd_busy, woken, got>>

\* What is left of frame s once its first k parts have been read.
Rest(s, k) == IF k = Parts THEN <<>> ELSE << <<s[1], k>> >>

Returned(s, k) == [i \in 1..k - s[2] |-> <<s[1], s[2] + i>>]

\* Mutant: the rest of a short read goes to the end of the queue.
ReadCopyTail(r) ==
    /\ Goto(r, "copy", "idle")
    /\ \E k \in hand[r][1][2]..Parts :
          /\ got' = got \o Returned(hand[r][1], k)
          /\ cmd_rxq' = cmd_rxq \o Rest(hand[r][1], k)
    /\ hand' = [hand EXCEPT ![r] = <<>>]
    /\ UNCHANGED <<chip, handler, cmd_readers, cmd_busy, woken>>

\* A whole, a short or, with no progress, a failed copy.
ReadCopy(r) ==
    /\ Goto(r, "copy", "idle")
    /\ \E k \in hand[r][1][2]..Parts :
          /\ got' = got \o Returned(hand[r][1], k)
          /\ cmd_rxq' = Rest(hand[r][1], k) \o cmd_rxq
    /\ hand' = [hand EXCEPT ![r] = <<>>]
    /\ UNCHANGED <<chip, handler, cmd_readers, cmd_busy, woken>>

-----------------------------------------------------------------------------
(* artosyn_poll, called by a thread that waits for POLLIN                  *)

PollEnter(r) ==
    /\ Goto(r, "idle", "poll") /\ Register(r)
    /\ UNCHANGED <<chip, handler, cmd_rxq, cmd_readers, cmd_busy, hand, got>>

\* POLLIN; or POLLOUT alone, which the caller does not wait for; or an empty
\* mask, and the handler is to be run.
PollCheck(r) ==
    /\ Goto(r, "poll", IF cmd_rxq # <<>> THEN "idle"
                       ELSE IF ~cmd_busy THEN "polling" ELSE "claim")
    /\ UNCHANGED <<chip, handler, cmd_rxq, cmd_readers, cmd_busy, woken, hand, got>>

PollPump(r) ==
    /\ Goto(r, "claim", "pump")
    /\ Fetch
    /\ pump' = <<r>>

PollAgain(r) ==
    /\ r \in woken
    /\ Goto(r, "polling", "poll") /\ Register(r)
    /\ UNCHANGED <<chip, handler, cmd_rxq, cmd_readers, cmd_busy, hand, got>>

PollTimeout(r) ==
    /\ Goto(r, "polling", "idle")
    /\ UNCHANGED <<chip, handler, cmd_rxq, cmd_readers, cmd_busy, woken, hand, got>>

-----------------------------------------------------------------------------

Handler == Dispatch \/ Room \/ DropOldest \/ QueueFrame \/ WakeReaders \/ Leave
Reading(r) == WaitCheck(r) \/ WaitAgain(r) \/ ReadTake(r) \/ ReadCopy(r)
Polling(r) == PollCheck(r) \/ PollPump(r) \/ PollAgain(r)

Next ==
    \/ ChipSend \/ WriteCmd \/ SendCmd
    \/ IrqEnter \/ Handler
    \/ \E r \in Reader : \/ Open(r) \/ Close(r) \/ ReadEnter(r) \/ WaitSignal(r)
                         \/ Reading(r)
                         \/ PollEnter(r) \/ PollTimeout(r) \/ Polling(r)

Spec == Init /\ [][Next]_vars

(* The interrupt is served, and threads inside the driver keep running.    *)
Fairness ==
    /\ WF_vars(IrqEnter) /\ WF_vars(Handler)
    /\ \A r \in Reader : WF_vars(Reading(r)) /\ WF_vars(Polling(r))

FairSpec == Spec /\ Fairness

-----------------------------------------------------------------------------
(* Properties                                                              *)

Held == {r \in Reader : hand[r] # <<>>}

\* The backlog of frames is bounded although the chip sends on its own: the
\* limit of artosyn_sdio_recv can be passed only by what readers put back.
BacklogBounded ==
    Len(cmd_rxq) + Cardinality(Held) <= CapReader + Cardinality(Reader)

\* What read() returns never goes back, and never starts in the middle of a
\* frame: short reads go on where they stopped, whatever the handler drops.
ReadsInOrder ==
    \A i \in 1..Len(got) :
        /\ got[i][2] > 1 => i > 1 /\ got[i - 1] = <<got[i][1], got[i][2] - 1>>
        /\ i > 1 /\ got[i][2] = 1 => got[i - 1][1] < got[i][1]

\* With one reader, a thread asleep in read() or poll() with a frame on the
\* queue has been woken or is about to be.
ReaderNotForgotten ==
    \A r \in Reader :
        at[r] \in {"asleep", "polling"} /\ r \notin woken => cmd_rxq = <<>> \/ pc = "wake"

\* A thread blocked in read() or poll() with a frame on the queue returns,
\* unless someone takes the frame before it looks.
Blocked == {"wait", "asleep", "poll", "polling"}
ReaderServed ==
    \A r \in Reader :
        at[r] \in Blocked /\ cmd_rxq # <<>> ~> at[r] = "idle" \/ cmd_rxq = <<>>

-----------------------------------------------------------------------------
(* The inductive invariants behind the safety properties above.            *)

\* cmd_readers counts the open descriptors, and a thread holds a frame exactly
\* while it copies it.
Counted == cmd_readers = Cardinality({r \in Reader : at[r] # "closed"})
Hands   == \A r \in Reader : hand[r] # <<>> <=> at[r] = "copy"

\* Past the test for room, even a frame put back by every reader leaves a place.
Limited ==
    /\ BacklogBounded
    /\ pc = "queue" =>
         Len(cmd_rxq) + Cardinality(Held) <= CapReader + Cardinality(Reader) - 1
    /\ pc \in {"room", "drop", "queue"} => batch # <<>>

IInv == TypeOK /\ Counted /\ Hands /\ Limited

\* With one reader, everything keeps the order in which the chip sent it:
\* what read() returned, the frame in hand, the queue, the frames fetched and
\* those in the FIFO.
Last == IF got = <<>> THEN <<0, 0>> ELSE got[Len(got)]

\* The rest of the frame returned last, or a later frame from its start.
Continues(s) == s = Last \/ (s[2] = 0 /\ s[1] > Last[1])

Taken ==
    {Last[1]} \cup {cmd_rxq[i][1] : i \in 1..Len(cmd_rxq)} \cup {hand[r][1][1] : r \in Held}

Ascending(s) == \A i, j \in 1..Len(s) : i < j => s[i] < s[j]
Before(f, s) == \A i \in 1..Len(s) : f < s[i]

QueueOrdered ==
    /\ \A i, j \in 1..Len(cmd_rxq) :
          i < j => cmd_rxq[i][1] < cmd_rxq[j][1] /\ cmd_rxq[j][2] = 0
    /\ \A i \in 1..Len(cmd_rxq) : Continues(cmd_rxq[i])
    /\ \A r \in Held :
          /\ Continues(hand[r][1])
          /\ \A i \in 1..Len(cmd_rxq) : hand[r][1][1] < cmd_rxq[i][1] /\ cmd_rxq[i][2] = 0

StreamOrdered ==
    /\ Ascending(batch) /\ Ascending(fifo)
    /\ \A i \in 1..Len(batch) : Before(batch[i], fifo) /\ batch[i] <= sent
    /\ \A i \in 1..Len(fifo) : fifo[i] <= sent
    /\ \A f \in Taken : Before(f, batch) /\ Before(f, fifo) /\ f <= sent
=============================================================================
