------------------------------ MODULE DmaBlit ------------------------------
(***************************************************************************)
(* The batched copies of ml_dmablit.c.  g_lock lets one batch run at a     *)
(* time; the completion it waits for is on the stack of the call, and the  *)
(* callback of the DMA engine, a tasklet, writes it.  A batch that is not  *)
(* done in time, or not well, has its channel terminated, which waits for  *)
(* a callback under way.                                                   *)
(***************************************************************************)
EXTENDS Naturals

CONSTANTS
  Caller,  \* threads that issue ML_DMABLIT_SUBMIT
  NoOne,
  NChan    \* g_nchan: the channels are 0..NChan - 1

ASSUME CallerAssumption == NoOne \notin Caller
ASSUME ChannelAssumption == NChan \in Nat \ {0}

VARIABLES
  g_lock,      \* the caller whose batch runs
  blit_at,     \* its next step
  g_next_chan,
  chan,        \* the channel it uses
  slot,        \* its completion: [live, by, done, ok]
  tx,          \* channel -> the descriptor on it: [at, by, ok], see NoTx
  moved,       \* the engine has moved all of the batch
  turn,        \* channel -> batches begun since it was last enabled, 0..NChan
  verdict      \* what the call returns: "ok" or an error, "none" before that

blitVars == <<g_lock, blit_at, g_next_chan, chan, slot, tx, moved, turn,
              verdict>>

Chan == 0..(NChan - 1)
NoTx == [at |-> "none", by |-> NoOne, ok |-> TRUE]
NoSlot == [live |-> FALSE, by |-> NoOne, done |-> FALSE, ok |-> TRUE]

Step(from, to) == blit_at = from /\ blit_at' = to

(***************************************************************************)
(* ml_dmablit_submit.                                                      *)
(***************************************************************************)

\* The copies are resolved and checked before anything is asked of the
\* engine; a malformed batch is refused with no more done.
Submit(c) ==
  /\ g_lock = NoOne
  /\ g_lock' = c /\ blit_at' = "prep" /\ moved' = FALSE /\ verdict' = "none"
  /\ UNCHANGED <<g_next_chan, chan, slot, tx, turn>>

Refused ==
  /\ Step("prep", "return")
  /\ verdict' = "EINVAL"
  /\ UNCHANGED <<g_lock, g_next_chan, chan, slot, tx, moved, turn>>

\* The cursor moves on before the descriptor is prepared, and stays there
\* when that fails.
Rotate ==
  /\ chan' = g_next_chan
  /\ g_next_chan' = (g_next_chan + 1) % NChan
  /\ turn' = [k \in Chan |-> IF turn[k] < NChan THEN turn[k] + 1 ELSE NChan]

Prep ==
  /\ Step("prep", "submit")
  /\ Rotate
  /\ tx' = [tx EXCEPT ![chan'] = [at |-> "prepared", by |-> g_lock,
                                  ok |-> TRUE]]
  /\ slot' = [live |-> TRUE, by |-> g_lock, done |-> FALSE, ok |-> TRUE]
  /\ UNCHANGED <<g_lock, moved, verdict>>

PrepFails ==
  /\ Step("prep", "return")
  /\ Rotate
  /\ verdict' = "EIO"
  /\ UNCHANGED <<g_lock, slot, tx, moved>>

\* dmaengine_submit and dma_async_issue_pending, which enables the channel
Issue ==
  /\ Step("submit", "wait")
  /\ tx' = [tx EXCEPT ![chan].at = "issued"]
  /\ turn' = [turn EXCEPT ![chan] = 0]
  /\ UNCHANGED <<g_lock, g_next_chan, chan, slot, moved, verdict>>

SubmitFails ==
  /\ Step("submit", "terminate")
  /\ verdict' = "EIO"
  /\ UNCHANGED <<g_lock, g_next_chan, chan, slot, tx, moved, turn>>

WaitDone ==
  /\ slot.done
  /\ Step("wait", IF slot.ok THEN "return" ELSE "terminate")
  /\ verdict' = IF slot.ok THEN "ok" ELSE "EIO"
  /\ UNCHANGED <<g_lock, g_next_chan, chan, slot, tx, moved, turn>>

TimesOut ==
  /\ ~slot.done
  /\ Step("wait", "terminate")
  /\ verdict' = "ETIMEDOUT"
  /\ UNCHANGED <<g_lock, g_next_chan, chan, slot, tx, moved, turn>>

\* dmaengine_terminate_sync takes the descriptor off the channel, unless its
\* callback is being called, ...
Terminate ==
  /\ Step("terminate", "synchronize")
  /\ tx' = IF tx[chan].at = "calling" THEN tx ELSE [tx EXCEPT ![chan] = NoTx]
  /\ UNCHANGED <<g_lock, g_next_chan, chan, slot, moved, turn, verdict>>

\* Mutant: it does not wait.
SynchronizeNot ==
  /\ Step("synchronize", "return")
  /\ UNCHANGED <<g_lock, g_next_chan, chan, slot, tx, moved, turn, verdict>>

\* ... and waits for that.
Synchronize ==
  /\ Step("synchronize", "return")
  /\ tx[chan].at # "calling"
  /\ UNCHANGED <<g_lock, g_next_chan, chan, slot, tx, moved, turn, verdict>>

Return ==
  /\ Step("return", "none")
  /\ g_lock' = NoOne /\ slot' = NoSlot
  /\ UNCHANGED <<g_next_chan, chan, tx, moved, turn, verdict>>

(***************************************************************************)
(* The engine: a descriptor that failed is completed like one that did     *)
(* well, and the tasklet calls back for either.                            *)
(***************************************************************************)

EngineEnds(k, ok) ==
  /\ tx[k].at = "issued"
  /\ tx' = [tx EXCEPT ![k].at = "done", ![k].ok = ok]
  /\ moved' = (moved \/ (ok /\ tx[k].by = g_lock))
  /\ UNCHANGED <<g_lock, blit_at, g_next_chan, chan, slot, turn, verdict>>

Tasklet(k) ==
  /\ tx[k].at = "done"
  /\ tx' = [tx EXCEPT ![k].at = "calling"]
  /\ UNCHANGED <<g_lock, blit_at, g_next_chan, chan, slot, moved, turn,
                 verdict>>

\* ml_blit_done
BlitDone(k) ==
  /\ tx[k].at = "calling"
  /\ slot' = [slot EXCEPT !.done = TRUE, !.ok = tx[k].ok]
  /\ tx' = [tx EXCEPT ![k] = NoTx]
  /\ UNCHANGED <<g_lock, blit_at, g_next_chan, chan, moved, turn, verdict>>

BlitInit ==
  /\ g_lock = NoOne /\ blit_at = "none" /\ verdict = "none"
  /\ g_next_chan = 0 /\ chan = 0
  /\ slot = NoSlot /\ tx = [k \in Chan |-> NoTx]
  /\ moved = FALSE /\ turn = [k \in Chan |-> NChan]

BlitNext ==
  \/ \E c \in Caller : Submit(c)
  \/ Refused \/ Prep \/ PrepFails \/ Issue \/ SubmitFails
  \/ WaitDone \/ TimesOut \/ Terminate \/ Synchronize \/ Return
  \/ \E k \in Chan :
       \/ \E ok \in BOOLEAN : EngineEnds(k, ok)
       \/ Tasklet(k) \/ BlitDone(k)

BlitSpec == BlitInit /\ [][BlitNext]_blitVars

(***************************************************************************)
(* Properties.                                                             *)
(***************************************************************************)

\* A callback writes the completion of the call it belongs to, while that
\* call is still on the stack.
CallbackLive ==
  \A k \in Chan : tx[k].at = "calling" => slot.live /\ slot.by = tx[k].by

\* A call that returns 0 has had all its bytes moved.
OkMeansMoved == verdict = "ok" => moved

\* A channel is given a batch only when nothing is left on it: whatever
\* happened to a batch, its call leaves every channel clean.
ChannelsClean == blit_at \in {"none", "prep", "return"} =>
                   \A k \in Chan : tx[k] = NoTx

\* A channel is enabled again only after each other one has had a batch.
ChannelsRotate == blit_at = "submit" => turn[chan] >= NChan

BlitsIsolated == CallbackLive /\ OkMeansMoved /\ ChannelsClean /\ ChannelsRotate
=============================================================================
