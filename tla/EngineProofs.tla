---------------------------- MODULE EngineProofs ----------------------------
(***************************************************************************)
(* Proofs about the drivers of the two copy engines, the cache of mappings *)
(* the scaler keeps per file, and the memory the buffers come from.        *)
(*                                                                         *)
(* DmaBlit, for any number of callers and of channels: a batch never meets *)
(* what another one left behind, and the channels take turns.              *)
(*                                                                         *)
(* ScalerEngine, for a scaler that is not bound again while files are      *)
(* open: a call that succeeds had its own operation run, and nothing of a  *)
(* call outlives it.                                                       *)
(*                                                                         *)
(* BufCache, for any number of clients and of buffers and any sizes the    *)
(* static_assert of ar_scaler.c admits: what a call has resolved is still  *)
(* mapped, the right way, when the engine runs on it.                      *)
(*                                                                         *)
(* VideoPool, over MmzHeap, for a zone of any size, any clients, pools,    *)
(* requests and registrations that fail: blocks never overlap, a request   *)
(* is refused only when nothing fits, a block is pinned once for each      *)
(* mapping, and a handle names one block of one pool.                      *)
(***************************************************************************)
EXTENDS DmaBlit, ScalerEngine, BufCache, VideoPool, SequenceFacts,
        FiniteSetTheorems, TLAPS

-----------------------------------------------------------------------------
(* The DMA copies.                                                         *)

Who == Caller \cup {NoOne}

Tx == [at : {"none", "prepared", "issued", "done", "calling"}, by : Who,
       ok : BOOLEAN]

BlitTypes ==
  /\ g_lock \in Who
  /\ blit_at \in {"none", "prep", "submit", "wait", "terminate",
                  "synchronize", "return"}
  /\ g_next_chan \in Chan /\ chan \in Chan
  /\ slot \in [live : BOOLEAN, by : Who, done : BOOLEAN, ok : BOOLEAN]
  /\ tx \in [Chan -> Tx]
  /\ moved \in BOOLEAN
  /\ turn \in [Chan -> 0..NChan]

\* Only the channel of the call has a descriptor on it, from its preparation
\* until the callback is over or it is terminated.
OneDescriptor ==
  /\ \A k \in Chan : k # chan => tx[k] = NoTx
  /\ blit_at \in {"none", "prep", "return"} => tx[chan] = NoTx
  /\ blit_at = "submit" => tx[chan].at = "prepared"
  /\ blit_at = "synchronize" => tx[chan] = NoTx \/ tx[chan].at = "calling"
  /\ slot.done => tx[chan] = NoTx

\* The lock is held during the call; the completion is on the stack for as
\* long as a callback can come, and is the call's own.
SlotHeld ==
  /\ g_lock = NoOne <=> blit_at = "none"
  /\ blit_at \in {"submit", "wait", "terminate", "synchronize"} =>
       slot.live /\ slot.by = g_lock
  /\ tx[chan].at # "none" => tx[chan].by = g_lock

\* Nothing says so before the bytes are moved.
MovedBefore ==
  /\ tx[chan].at \in {"done", "calling"} /\ tx[chan].ok => moved
  /\ blit_at \in {"submit", "wait"} /\ slot.done /\ slot.ok => moved
  /\ verdict = "ok" => moved

\* How many batches ago the cursor was at channel k.
Age(k) == IF k < g_next_chan THEN g_next_chan - k - 1
                             ELSE g_next_chan - k - 1 + NChan

Rotation ==
  /\ \A k \in Chan : turn[k] >= Age(k)
  /\ blit_at = "submit" =>
       turn[chan] >= NChan /\ g_next_chan = (chan + 1) % NChan

BlitInv == BlitTypes /\ OneDescriptor /\ SlotHeld /\ MovedBefore /\ Rotation

-----------------------------------------------------------------------------

\* The cursor of ml_dmablit_prep goes round the channels.
LEMMA CursorGoesRound ==
  ASSUME NEW g \in Chan
  PROVE  /\ (g + 1) % NChan = IF g + 1 = NChan THEN 0 ELSE g + 1
         /\ (g + 1) % NChan \in Chan
<1>1. NChan \in Nat /\ NChan > 0 /\ g \in 0..(NChan - 1)
  BY ChannelAssumption DEF Chan
<1> QED BY <1>1 DEF Chan

LEMMA BlitTypesHold == BlitTypes /\ [BlitNext]_blitVars => BlitTypes'
<1> SUFFICES ASSUME BlitTypes, [BlitNext]_blitVars PROVE BlitTypes'
  OBVIOUS
<1> USE DEF BlitTypes, Step
<1>1. NoTx \in Tx /\ NoOne \in Who
  BY DEF NoTx, Tx, Who
<1>2. ASSUME NEW c \in Caller, Submit(c) PROVE BlitTypes'
  BY <1>2 DEF Submit, Who
<1>3. CASE Refused
  BY <1>3 DEF Refused
<1>4. Rotate => /\ chan' \in Chan /\ g_next_chan' \in Chan
                /\ turn' \in [Chan -> 0..NChan]
  BY CursorGoesRound, ChannelAssumption DEF Rotate
<1>5. CASE Prep
  <2>1. [at |-> "prepared", by |-> g_lock, ok |-> TRUE] \in Tx
    BY DEF Tx
  <2>2. tx' \in [Chan -> Tx]
    BY <1>4, <1>5, <2>1 DEF Prep
  <2> QED BY <1>4, <1>5, <2>2 DEF Prep
<1>6. CASE PrepFails
  BY <1>4, <1>6 DEF PrepFails
<1>7. CASE Issue
  BY <1>7, ChannelAssumption DEF Issue, Tx
<1>8. CASE SubmitFails \/ WaitDone \/ TimesOut \/ Synchronize
  BY <1>8 DEF SubmitFails, WaitDone, TimesOut, Synchronize
<1>9. CASE Terminate
  BY <1>1, <1>9 DEF Terminate
<1>10. CASE Return
  BY <1>1, <1>10 DEF Return, NoSlot
<1>11. ASSUME NEW k \in Chan, NEW ok \in BOOLEAN, EngineEnds(k, ok)
       PROVE  BlitTypes'
  BY <1>11 DEF EngineEnds, Tx
<1>12. ASSUME NEW k \in Chan, Tasklet(k) PROVE BlitTypes'
  BY <1>12 DEF Tasklet, Tx
<1>13. ASSUME NEW k \in Chan, BlitDone(k) PROVE BlitTypes'
  <2>1. tx[k].ok \in BOOLEAN
    BY DEF Tx
  <2> QED BY <1>1, <1>13, <2>1 DEF BlitDone
<1>14. CASE UNCHANGED blitVars
  BY <1>14 DEF blitVars
<1> QED BY <1>2, <1>3, <1>5, <1>6, <1>7, <1>8, <1>9, <1>10, <1>11, <1>12,
           <1>13, <1>14 DEF BlitNext

LEMMA OneDescriptorHolds ==
  BlitInv /\ [BlitNext]_blitVars => OneDescriptor'
<1> SUFFICES ASSUME BlitInv, [BlitNext]_blitVars PROVE OneDescriptor'
  OBVIOUS
<1> USE DEF BlitInv, BlitTypes, OneDescriptor, Step
<1>1. chan \in Chan /\ tx \in [Chan -> Tx] /\ NoTx.at = "none"
  BY DEF NoTx
<1>2. ASSUME NEW c \in Caller, Submit(c) PROVE OneDescriptor'
  BY <1>2 DEF Submit, SlotHeld
<1>3. CASE Refused \/ WaitDone
  BY <1>3, <1>1 DEF Refused, WaitDone
<1>4. CASE Prep
  <2>1. /\ chan' \in Chan
        /\ \A k \in Chan : tx[k] = NoTx
    BY <1>4, <1>1 DEF Prep, Rotate
  <2> QED BY <1>4, <1>1, <2>1 DEF Prep
<1>5. CASE PrepFails
  <2>1. \A k \in Chan : tx[k] = NoTx
    BY <1>5, <1>1 DEF PrepFails
  <2> QED BY <1>5, <1>1, <2>1 DEF PrepFails, Rotate
<1>6. CASE Issue
  BY <1>6, <1>1 DEF Issue
<1>7. CASE SubmitFails \/ TimesOut
  BY <1>7, <1>1 DEF SubmitFails, TimesOut
<1>8. CASE Terminate
  BY <1>8, <1>1 DEF Terminate
<1>9. CASE Synchronize
  BY <1>9, <1>1 DEF Synchronize
<1>10. CASE Return
  BY <1>10, <1>1 DEF Return, NoSlot
<1>11. ASSUME NEW k \in Chan, NEW ok \in BOOLEAN, EngineEnds(k, ok)
       PROVE  OneDescriptor'
  <2>1. k = chan /\ tx[chan] # NoTx
    BY <1>11, <1>1 DEF EngineEnds
  <2> QED BY <1>11, <1>1, <2>1 DEF EngineEnds
<1>12. ASSUME NEW k \in Chan, Tasklet(k) PROVE OneDescriptor'
  <2>1. k = chan /\ tx[chan] # NoTx
    BY <1>12, <1>1 DEF Tasklet
  <2> QED BY <1>12, <1>1, <2>1 DEF Tasklet
<1>13. ASSUME NEW k \in Chan, BlitDone(k) PROVE OneDescriptor'
  BY <1>13, <1>1 DEF BlitDone
<1>14. CASE UNCHANGED blitVars
  BY <1>14, <1>1 DEF blitVars
<1> QED BY <1>2, <1>3, <1>4, <1>5, <1>6, <1>7, <1>8, <1>9, <1>10, <1>11,
           <1>12, <1>13, <1>14 DEF BlitNext

LEMMA SlotIsHeld == BlitInv /\ [BlitNext]_blitVars => SlotHeld'
<1> SUFFICES ASSUME BlitInv, [BlitNext]_blitVars PROVE SlotHeld'
  OBVIOUS
<1> USE DEF BlitInv, BlitTypes, OneDescriptor, SlotHeld, Step
<1>1. /\ chan \in Chan /\ tx \in [Chan -> Tx] /\ NoTx.at = "none"
      /\ NoOne \notin Caller
  BY CallerAssumption DEF NoTx
<1>2. ASSUME NEW c \in Caller, Submit(c) PROVE SlotHeld'
  BY <1>2, <1>1 DEF Submit
<1>3. CASE Refused \/ WaitDone \/ SubmitFails \/ TimesOut
  BY <1>3, <1>1 DEF Refused, WaitDone, SubmitFails, TimesOut
<1>4. CASE Prep
  BY <1>4, <1>1, CursorGoesRound DEF Prep, Rotate
<1>5. CASE PrepFails
  <2>1. \A k \in Chan : tx[k] = NoTx
    BY <1>5, <1>1 DEF PrepFails
  <2> QED BY <1>5, <1>1, <2>1 DEF PrepFails, Rotate
<1>6. CASE Issue
  BY <1>6, <1>1 DEF Issue
<1>7. CASE Terminate
  BY <1>7, <1>1 DEF Terminate
<1>8. CASE Synchronize
  BY <1>8, <1>1 DEF Synchronize
<1>9. CASE Return
  BY <1>9, <1>1 DEF Return, NoSlot
<1>10. ASSUME NEW k \in Chan, NEW ok \in BOOLEAN, EngineEnds(k, ok)
       PROVE  SlotHeld'
  BY <1>10, <1>1 DEF EngineEnds
<1>11. ASSUME NEW k \in Chan, Tasklet(k) PROVE SlotHeld'
  BY <1>11, <1>1 DEF Tasklet
<1>12. ASSUME NEW k \in Chan, BlitDone(k) PROVE SlotHeld'
  BY <1>12, <1>1 DEF BlitDone
<1>13. CASE UNCHANGED blitVars
  BY <1>13, <1>1 DEF blitVars
<1> QED BY <1>2, <1>3, <1>4, <1>5, <1>6, <1>7, <1>8, <1>9, <1>10, <1>11,
           <1>12, <1>13 DEF BlitNext

LEMMA MovedIsBefore == BlitInv /\ [BlitNext]_blitVars => MovedBefore'
<1> SUFFICES ASSUME BlitInv, [BlitNext]_blitVars PROVE MovedBefore'
  OBVIOUS
<1> USE DEF BlitInv, BlitTypes, OneDescriptor, SlotHeld, MovedBefore, Step
<1>1. chan \in Chan /\ tx \in [Chan -> Tx] /\ NoTx.at = "none"
  BY DEF NoTx
<1>2. ASSUME NEW c \in Caller, Submit(c) PROVE MovedBefore'
  BY <1>2, <1>1 DEF Submit
<1>3. CASE Refused \/ SubmitFails \/ TimesOut \/ WaitDone
  BY <1>3, <1>1 DEF Refused, SubmitFails, TimesOut, WaitDone
<1>4. CASE Prep
  BY <1>4, <1>1, CursorGoesRound DEF Prep, Rotate
<1>5. CASE PrepFails
  <2>1. \A k \in Chan : tx[k] = NoTx
    BY <1>5, <1>1 DEF PrepFails
  <2> QED BY <1>5, <1>1, <2>1 DEF PrepFails, Rotate
<1>6. CASE Issue
  BY <1>6, <1>1 DEF Issue
<1>7. CASE Terminate
  BY <1>7, <1>1 DEF Terminate
<1>8. CASE Synchronize \/ Return
  BY <1>8, <1>1 DEF Synchronize, Return, NoSlot
<1>9. ASSUME NEW k \in Chan, NEW ok \in BOOLEAN, EngineEnds(k, ok)
      PROVE  MovedBefore'
  <2>1. k = chan /\ tx[k].by = g_lock
    BY <1>9, <1>1 DEF EngineEnds
  <2> QED BY <1>9, <1>1, <2>1 DEF EngineEnds
<1>10. ASSUME NEW k \in Chan, Tasklet(k) PROVE MovedBefore'
  BY <1>10, <1>1 DEF Tasklet
<1>11. ASSUME NEW k \in Chan, BlitDone(k) PROVE MovedBefore'
  BY <1>11, <1>1 DEF BlitDone
<1>12. CASE UNCHANGED blitVars
  BY <1>12, <1>1 DEF blitVars
<1> QED BY <1>2, <1>3, <1>4, <1>5, <1>6, <1>7, <1>8, <1>9, <1>10, <1>11,
           <1>12 DEF BlitNext

\* ml_dmablit_prep gives every channel its turn before it comes back to one.
LEMMA RotationHolds == BlitInv /\ [BlitNext]_blitVars => Rotation'
<1> SUFFICES ASSUME BlitInv, [BlitNext]_blitVars PROVE Rotation'
  OBVIOUS
<1> USE DEF BlitInv, BlitTypes, Rotation, Age, Step
<1>1. /\ NChan \in Nat /\ NChan > 0
      /\ \A k \in Chan : k \in Nat /\ k < NChan
      /\ g_next_chan \in Chan /\ chan \in Chan
      /\ turn \in [Chan -> 0..NChan]
  BY ChannelAssumption DEF Chan
<1>2. ASSUME Rotate
      PROVE  /\ \A k \in Chan : turn'[k] >= Age(k)'
             /\ turn'[chan'] >= NChan /\ g_next_chan' = (chan' + 1) % NChan
  <2>1. /\ chan' = g_next_chan
        /\ g_next_chan' = IF g_next_chan + 1 = NChan THEN 0 ELSE g_next_chan + 1
        /\ g_next_chan' = (chan' + 1) % NChan
    BY <1>1, <1>2, CursorGoesRound DEF Rotate
  <2>2. \A k \in Chan : turn'[k] = IF turn[k] < NChan THEN turn[k] + 1 ELSE NChan
    BY <1>2 DEF Rotate
  <2>3. ASSUME NEW k \in Chan, k # g_next_chan PROVE turn'[k] >= Age(k)'
    <3>1. Age(k)' = Age(k) + 1 /\ Age(k) + 1 < NChan
      BY <1>1, <2>1, <2>3
    <3> QED BY <1>1, <2>2, <3>1
  <2>4. Age(g_next_chan) = NChan - 1 /\ turn'[g_next_chan] = NChan
    BY <1>1, <2>2
  <2>5. ASSUME NEW k \in Chan, k = g_next_chan PROVE turn'[k] >= Age(k)'
    BY <1>1, <2>1, <2>4, <2>5
  <2> QED BY <1>1, <2>1, <2>3, <2>4, <2>5
<1>3. CASE Prep \/ PrepFails
  BY <1>2, <1>3 DEF Prep, PrepFails
<1>4. CASE Issue
  <2>1. /\ turn' = [turn EXCEPT ![chan] = 0] /\ UNCHANGED <<g_next_chan, chan>>
        /\ blit_at' = "wait" /\ g_next_chan = (chan + 1) % NChan
    BY <1>4 DEF Issue
  <2>2. Age(chan) = 0
    BY <1>1, <2>1, CursorGoesRound
  <2>3. ASSUME NEW k \in Chan PROVE turn'[k] >= Age(k)'
    BY <1>1, <2>1, <2>2
  <2> QED BY <2>1, <2>3
<1>5. ASSUME UNCHANGED <<g_next_chan, chan, turn>>,
             blit_at' = "submit" => blit_at = "submit"
      PROVE  Rotation'
  BY <1>5
<1>6. CASE BlitNext /\ ~Prep /\ ~PrepFails /\ ~Issue
  <2>1. UNCHANGED <<g_next_chan, chan, turn>> /\ (blit_at' = "submit" => blit_at = "submit")
    BY <1>6 DEF BlitNext, Submit, Refused, SubmitFails, WaitDone, TimesOut,
      Terminate, Synchronize, Return, EngineEnds, Tasklet, BlitDone
  <2> QED BY <1>5, <2>1
<1>7. CASE UNCHANGED blitVars
  BY <1>5, <1>7 DEF blitVars
<1> QED BY <1>3, <1>4, <1>6, <1>7

-----------------------------------------------------------------------------

LEMMA BlitInvStarts == BlitInit => BlitInv
<1> SUFFICES ASSUME BlitInit PROVE BlitInv
  OBVIOUS
<1> USE DEF BlitInit
<1>1. NChan \in Nat /\ NChan > 0 /\ 0 \in Chan /\ NoTx \in Tx /\ NoTx.at = "none"
  BY ChannelAssumption DEF Chan, NoTx, Tx, Who
<1>2. BlitTypes
  <2>1. NoSlot \in [live : BOOLEAN, by : Who, done : BOOLEAN, ok : BOOLEAN]
    BY DEF NoSlot, Who
  <2>2. tx \in [Chan -> Tx]
    BY <1>1
  <2>3. turn \in [Chan -> 0..NChan]
    BY <1>1
  <2> QED BY <1>1, <2>1, <2>2, <2>3 DEF BlitTypes, Who
<1>3. OneDescriptor /\ SlotHeld /\ MovedBefore
  BY <1>1 DEF OneDescriptor, SlotHeld, MovedBefore, NoSlot
<1>4. \A k \in Chan : k \in Nat /\ k < NChan
  BY <1>1 DEF Chan
<1>5. Rotation
  BY <1>1, <1>4 DEF Rotation, Age
<1> QED BY <1>2, <1>3, <1>5 DEF BlitInv

LEMMA BlitInvHolds == BlitSpec => []BlitInv
<1>1. BlitInv /\ [BlitNext]_blitVars => BlitInv'
  BY BlitTypesHold, OneDescriptorHolds, SlotIsHeld, MovedIsBefore, RotationHolds
     DEF BlitInv
<1> QED BY BlitInvStarts, <1>1, PTL DEF BlitSpec

\* However a batch of ml_dmablit_submit ends (done, failed, timed out, its
\* callback under way), it leaves nothing on a channel, a callback never
\* writes the completion of another call, success means that the bytes were
\* moved, and no channel is enabled twice in a row.
THEOREM BlitsAreIsolated == BlitSpec => []BlitsIsolated
<1>1. BlitInv => BlitsIsolated
  <2> SUFFICES ASSUME BlitInv PROVE BlitsIsolated
    OBVIOUS
  <2> USE DEF BlitInv, BlitTypes, OneDescriptor, SlotHeld
  <2>1. chan \in Chan /\ NoTx.at = "none"
    BY DEF NoTx
  <2>2. CallbackLive
    BY <2>1 DEF CallbackLive
  <2>3. OkMeansMoved
    BY DEF MovedBefore, OkMeansMoved
  <2>4. ChannelsClean
    BY DEF ChannelsClean
  <2>5. ChannelsRotate
    BY DEF ChannelsRotate, Rotation
  <2> QED BY <2>2, <2>3, <2>4, <2>5 DEF BlitsIsolated
<1> QED BY BlitInvHolds, <1>1, PTL

-----------------------------------------------------------------------------
(* The scaler.                                                             *)

OpOrNone == Op \cup {NoOp}

Regs == [mode : BOOLEAN, live : OpOrNone, staged : OpOrNone,
         irqen : BOOLEAN, status : BOOLEAN, clock : BOOLEAN]

ScTypes ==
  /\ sc_lock \in Thread \cup {Nobody} /\ sc_op \in OpOrNone
  /\ sc_at \in {"none", "program", "trigger", "wait", "return", "mask", "sync",
                "gate", "seed", "mask2", "clear", "sync2", "reinit", "unmask"}
  /\ dead \in BOOLEAN /\ suspended \in BOOLEAN
  /\ bound \in {"off", "probing", "ready", "up", "down"}
  /\ files \subseteq Thread
  /\ regs \in Regs
  /\ job \in OpOrNone /\ done \in Nat
  /\ irqh \in {"none", "ack", "wake"} /\ ran \in BOOLEAN

\* A call that holds the lock runs on a device that is up; an engine that is
\* up and not being reset has its clock.
Lifetime ==
  /\ sc_lock = Nobody <=> sc_at = "none"
  /\ sc_at # "none" => bound = "up" /\ ~dead /\ ~suspended
  /\ files # {} /\ ~dead => bound = "up"
  /\ suspended => bound = "up"
  /\ bound \in {"ready", "up"} /\ ~suspended /\ sc_at # "seed" => regs.clock

\* The descriptor the next trigger fetches is the call's own.
Fetched ==
  /\ sc_at # "none" => sc_op \in Op
  /\ sc_at \in {"program", "trigger"} /\ sc_op.batch => regs.staged = sc_op
  /\ sc_at = "trigger" =>
       IF sc_op.batch THEN regs.mode ELSE ~regs.mode /\ regs.live = sc_op

Clean == job = NoOp /\ ~regs.status /\ done = 0 /\ irqh = "none"

\* The completion of an operation is in one place: latched, with the handler,
\* or counted.
OneAnswer ==
  \/ regs.status /\ irqh \in {"none", "ack"} /\ done = 0
  \/ ~regs.status /\ irqh = "wake" /\ done = 0
  \/ ~regs.status /\ irqh = "none" /\ done = 1

Handshake ==
  /\ sc_at \in {"none", "program", "trigger", "return", "unmask"} => Clean
  /\ sc_at = "return" => ran
  /\ sc_at \in {"wait", "mask", "sync", "gate"} =>
       \/ job = sc_op /\ ~regs.status /\ done = 0 /\ irqh = "none"
       \/ job = NoOp /\ ran /\ OneAnswer
  /\ sc_at \in {"seed", "mask2", "clear", "sync2", "reinit"} => job = NoOp
  /\ sc_at \in {"sync2", "reinit"} => ~regs.status
  /\ sc_at = "reinit" => irqh = "none"

ScInv == ScTypes /\ Lifetime /\ Fetched /\ Handshake

-----------------------------------------------------------------------------

LEMMA ScTypesHold ==
  ASSUME ~Rebind, ScInv, [ScNext]_scVars
  PROVE  ScTypes'
<1> USE DEF ScInv, ScTypes, At, lifecycle, OpOrNone
<1>0. NoOp \notin Op /\ Nobody \notin Thread
  BY NobodyAssumption, NoOpAssumption
<1>1. CASE EngineDone
  <2>1. regs' \in Regs
    BY <1>1 DEF EngineDone, Regs
  <2> QED BY <1>1, <2>1 DEF EngineDone
<1>2. CASE HandlerReads
  BY <1>0, <1>2 DEF HandlerReads
<1>3. CASE HandlerAcks
  <2>1. regs' \in Regs
    BY <1>3 DEF HandlerAcks, Regs
  <2> QED BY <1>3, <2>1 DEF HandlerAcks
<1>4. CASE HandlerCompletes
  BY <1>0, <1>4 DEF HandlerCompletes
<1>5. ASSUME NEW t \in Thread, Start(t) PROVE ScTypes'
  <2>1. PICK b \in BOOLEAN :
          sc_op' = [by |-> t, n |-> IF sc_op = NoOp THEN 0 ELSE 1 - sc_op.n,
                    batch |-> b]
    BY <1>5 DEF Start
  <2>2. sc_op # NoOp => sc_op.n \in 0..1
    BY DEF Op, OpOrNone
  <2>3. sc_op' \in Op
    BY <2>1, <2>2 DEF Op
  <2>4. regs' \in Regs
    BY <1>5, <2>3 DEF Start, OpOrNone, Regs
  <2> QED BY <1>5, <2>3, <2>4 DEF Start, OpOrNone
<1>6. CASE Program
  <2>1. regs' \in Regs
    BY <1>6 DEF Program, Regs
  <2> QED BY <1>6, <2>1 DEF Program
<1>7. CASE Trigger
  BY <1>7 DEF Trigger, Regs
<1>8. CASE Completes
  BY <1>0, <1>8 DEF Completes
<1>9. CASE Returns
  BY <1>0, <1>9 DEF Returns
<1>10. CASE Expires
  BY <1>0, <1>10 DEF Expires
<1>11. CASE Mask("mask", "sync") \/ Mask("mask2", "clear")
  <2>1. regs' \in Regs
    BY <1>11 DEF Mask, Regs
  <2> QED BY <1>11, <2>1 DEF Mask
<1>12. CASE Sync("sync", "gate") \/ Sync("sync2", "reinit")
  BY <1>0, <1>12 DEF Sync
<1>13. CASE GateOff
  <2>1. regs' \in Regs
    BY <1>13 DEF GateOff, Regs
  <2> QED BY <1>13, <2>1 DEF GateOff
<1>14. CASE Seed
  <2>1. regs' \in Regs
    BY <1>14 DEF Seed, Seeded, Regs
  <2> QED BY <1>14, <2>1 DEF Seed, Seeded
<1>15. CASE ClearStatus
  <2>1. regs' \in Regs
    BY <1>15 DEF ClearStatus, Regs
  <2> QED BY <1>15, <2>1 DEF ClearStatus
<1>16. CASE Reinit
  BY <1>0, <1>16 DEF Reinit
<1>17. CASE Unmask
  <2>1. regs' \in Regs
    BY <1>17 DEF Unmask, Regs
  <2> QED BY <1>17, <2>1 DEF Unmask
<1>18. ASSUME NEW t \in Thread, OpenNode(t) \/ CloseNode(t) PROVE ScTypes'
  BY <1>0, <1>18 DEF OpenNode, CloseNode
<1>19. CASE Suspend \/ Resume
  <2>1. regs' \in Regs
    BY <1>19 DEF Suspend, Resume, Seeded, Quiet, Regs
  <2> QED BY <1>19, <2>1 DEF Suspend, Resume, Seeded, Quiet
<1>20. CASE RemoveEngine \/ Unmap
  <2>1. regs' \in Regs
    BY <1>20 DEF RemoveEngine, Unmap, Quiet, Regs
  <2> QED BY <1>20, <2>1 DEF RemoveEngine, Unmap, Quiet
<1>21. CASE ProbeBegins
  BY <1>0, <1>21 DEF ProbeBegins
<1>22. CASE ProbeMaps
  <2>1. regs' \in Regs
    BY <1>22 DEF ProbeMaps, Seeded, Regs
  <2> QED BY <1>22, <2>1 DEF ProbeMaps, Seeded
<1>23. CASE ProbeRegisters
  BY <1>0, <1>23 DEF ProbeRegisters
<1>24. CASE ProbeFails
  <2>1. regs' \in Regs
    BY <1>24 DEF ProbeFails, Regs
  <2> QED BY <1>24, <2>1 DEF ProbeFails
<1>25. CASE UNCHANGED scVars
  BY <1>25 DEF scVars
<1> QED BY <1>1, <1>2, <1>3, <1>4, <1>5, <1>6, <1>7, <1>8, <1>9, <1>10,
           <1>11, <1>12, <1>13, <1>14, <1>15, <1>16, <1>17, <1>18, <1>19,
           <1>20, <1>21, <1>22, <1>23, <1>24, <1>25 DEF ScNext, TimeoutReset

LEMMA LifetimeHolds ==
  ASSUME ~Rebind, ScInv, [ScNext]_scVars
  PROVE  Lifetime'
<1> USE DEF ScInv, ScTypes, Regs, Lifetime, Fetched, At, lifecycle
<1>0. NoOp \notin Op /\ Nobody \notin Thread
  BY NobodyAssumption, NoOpAssumption
<1>1. CASE EngineDone
  BY <1>0, <1>1 DEF EngineDone
<1>2. CASE HandlerReads
  BY <1>0, <1>2 DEF HandlerReads
<1>3. CASE HandlerAcks
  BY <1>0, <1>3 DEF HandlerAcks
<1>4. CASE HandlerCompletes
  BY <1>0, <1>4 DEF HandlerCompletes
<1>5. ASSUME NEW t \in Thread, Start(t) PROVE Lifetime'
  BY <1>0, <1>5 DEF Start
<1>6. CASE Program
  BY <1>0, <1>6 DEF Program
<1>7. CASE Trigger
  BY <1>0, <1>7 DEF Trigger
<1>8. CASE Completes
  BY <1>0, <1>8 DEF Completes
<1>9. CASE Returns
  BY <1>0, <1>9 DEF Returns
<1>10. CASE Expires
  BY <1>0, <1>10 DEF Expires
<1>11. CASE Mask("mask", "sync") \/ Mask("mask2", "clear")
  BY <1>0, <1>11 DEF Mask
<1>12. CASE Sync("sync", "gate") \/ Sync("sync2", "reinit")
  BY <1>0, <1>12 DEF Sync
<1>13. CASE GateOff
  BY <1>0, <1>13 DEF GateOff
<1>14. CASE Seed
  BY <1>0, <1>14 DEF Seed, Seeded
<1>15. CASE ClearStatus
  BY <1>0, <1>15 DEF ClearStatus
<1>16. CASE Reinit
  BY <1>0, <1>16 DEF Reinit
<1>17. CASE Unmask
  BY <1>0, <1>17 DEF Unmask
<1>18. ASSUME NEW t \in Thread, OpenNode(t) \/ CloseNode(t) PROVE Lifetime'
  BY <1>0, <1>18 DEF OpenNode, CloseNode
<1>19. CASE Suspend \/ Resume
  BY <1>0, <1>19 DEF Suspend, Resume, Seeded, Quiet
<1>20. CASE RemoveEngine \/ Unmap
  BY <1>0, <1>20 DEF RemoveEngine, Unmap, Quiet
<1>21. CASE ProbeBegins
  BY <1>0, <1>21 DEF ProbeBegins
<1>22. CASE ProbeMaps
  BY <1>0, <1>22 DEF ProbeMaps, Seeded
<1>23. CASE ProbeRegisters
  BY <1>0, <1>23 DEF ProbeRegisters
<1>24. CASE ProbeFails
  BY <1>0, <1>24 DEF ProbeFails
<1>25. CASE UNCHANGED scVars
  BY <1>25 DEF scVars
<1> QED BY <1>1, <1>2, <1>3, <1>4, <1>5, <1>6, <1>7, <1>8, <1>9, <1>10,
           <1>11, <1>12, <1>13, <1>14, <1>15, <1>16, <1>17, <1>18, <1>19,
           <1>20, <1>21, <1>22, <1>23, <1>24, <1>25 DEF ScNext, TimeoutReset

LEMMA FetchedHolds ==
  ASSUME ~Rebind, ScInv, [ScNext]_scVars
  PROVE  Fetched'
<1> USE DEF ScInv, ScTypes, Regs, Lifetime, Fetched, At, lifecycle
<1>0. NoOp \notin Op /\ Nobody \notin Thread
  BY NobodyAssumption, NoOpAssumption
<1>1. CASE EngineDone
  BY <1>0, <1>1 DEF EngineDone
<1>2. CASE HandlerReads
  BY <1>0, <1>2 DEF HandlerReads
<1>3. CASE HandlerAcks
  BY <1>0, <1>3 DEF HandlerAcks
<1>4. CASE HandlerCompletes
  BY <1>0, <1>4 DEF HandlerCompletes
<1>5. ASSUME NEW t \in Thread, Start(t) PROVE Fetched'
  <2>1. PICK b \in BOOLEAN :
          sc_op' = [by |-> t, n |-> IF sc_op = NoOp THEN 0 ELSE 1 - sc_op.n,
                    batch |-> b]
    BY <1>5 DEF Start
  <2>2. sc_op # NoOp => sc_op.n \in 0..1
    BY DEF Op, OpOrNone
  <2>3. sc_op' \in Op
    BY <2>1, <2>2 DEF Op
  <2> QED BY <1>5, <2>3 DEF Start
<1>6. CASE Program
  BY <1>0, <1>6 DEF Program
<1>7. CASE Trigger
  BY <1>0, <1>7 DEF Trigger
<1>8. CASE Completes
  BY <1>0, <1>8 DEF Completes
<1>9. CASE Returns
  BY <1>0, <1>9 DEF Returns
<1>10. CASE Expires
  BY <1>0, <1>10 DEF Expires
<1>11. CASE Mask("mask", "sync") \/ Mask("mask2", "clear")
  BY <1>0, <1>11 DEF Mask
<1>12. CASE Sync("sync", "gate") \/ Sync("sync2", "reinit")
  BY <1>0, <1>12 DEF Sync
<1>13. CASE GateOff
  BY <1>0, <1>13 DEF GateOff
<1>14. CASE Seed
  BY <1>0, <1>14 DEF Seed, Seeded
<1>15. CASE ClearStatus
  BY <1>0, <1>15 DEF ClearStatus
<1>16. CASE Reinit
  BY <1>0, <1>16 DEF Reinit
<1>17. CASE Unmask
  BY <1>0, <1>17 DEF Unmask
<1>18. ASSUME NEW t \in Thread, OpenNode(t) \/ CloseNode(t) PROVE Fetched'
  BY <1>0, <1>18 DEF OpenNode, CloseNode
<1>19. CASE Suspend \/ Resume
  BY <1>0, <1>19 DEF Suspend, Resume, Seeded, Quiet
<1>20. CASE RemoveEngine \/ Unmap
  BY <1>0, <1>20 DEF RemoveEngine, Unmap, Quiet
<1>21. CASE ProbeBegins
  BY <1>0, <1>21 DEF ProbeBegins
<1>22. CASE ProbeMaps
  BY <1>0, <1>22 DEF ProbeMaps, Seeded
<1>23. CASE ProbeRegisters
  BY <1>0, <1>23 DEF ProbeRegisters
<1>24. CASE ProbeFails
  BY <1>0, <1>24 DEF ProbeFails
<1>25. CASE UNCHANGED scVars
  BY <1>25 DEF scVars
<1> QED BY <1>1, <1>2, <1>3, <1>4, <1>5, <1>6, <1>7, <1>8, <1>9, <1>10,
           <1>11, <1>12, <1>13, <1>14, <1>15, <1>16, <1>17, <1>18, <1>19,
           <1>20, <1>21, <1>22, <1>23, <1>24, <1>25 DEF ScNext, TimeoutReset

LEMMA HandshakeHolds ==
  ASSUME ~Rebind, ScInv, [ScNext]_scVars
  PROVE  Handshake'
<1> USE DEF ScInv, ScTypes, Regs, Lifetime, Fetched, Handshake, Clean, OneAnswer, At,
            lifecycle
<1>0. NoOp \notin Op /\ Nobody \notin Thread
  BY NobodyAssumption, NoOpAssumption
<1>1. CASE EngineDone
  BY <1>0, <1>1 DEF EngineDone
<1>2. CASE HandlerReads
  BY <1>0, <1>2 DEF HandlerReads
<1>3. CASE HandlerAcks
  BY <1>0, <1>3 DEF HandlerAcks
<1>4. CASE HandlerCompletes
  BY <1>0, <1>4 DEF HandlerCompletes
<1>5. ASSUME NEW t \in Thread, Start(t) PROVE Handshake'
  BY <1>0, <1>5 DEF Start
<1>6. CASE Program
  BY <1>0, <1>6 DEF Program
<1>7. CASE Trigger
  BY <1>0, <1>7 DEF Trigger
<1>8. CASE Completes
  BY <1>0, <1>8 DEF Completes
<1>9. CASE Returns
  BY <1>0, <1>9 DEF Returns
<1>10. CASE Expires
  BY <1>0, <1>10 DEF Expires
<1>11. CASE Mask("mask", "sync") \/ Mask("mask2", "clear")
  BY <1>0, <1>11 DEF Mask
<1>12. CASE Sync("sync", "gate") \/ Sync("sync2", "reinit")
  BY <1>0, <1>12 DEF Sync
<1>13. CASE GateOff
  BY <1>0, <1>13 DEF GateOff
<1>14. CASE Seed
  BY <1>0, <1>14 DEF Seed, Seeded
<1>15. CASE ClearStatus
  BY <1>0, <1>15 DEF ClearStatus
<1>16. CASE Reinit
  BY <1>0, <1>16 DEF Reinit
<1>17. CASE Unmask
  BY <1>0, <1>17 DEF Unmask
<1>18. ASSUME NEW t \in Thread, OpenNode(t) \/ CloseNode(t) PROVE Handshake'
  BY <1>0, <1>18 DEF OpenNode, CloseNode
<1>19. CASE Suspend \/ Resume
  BY <1>0, <1>19 DEF Suspend, Resume, Seeded, Quiet
<1>20. CASE RemoveEngine \/ Unmap
  BY <1>0, <1>20 DEF RemoveEngine, Unmap, Quiet
<1>21. CASE ProbeBegins
  BY <1>0, <1>21 DEF ProbeBegins
<1>22. CASE ProbeMaps
  BY <1>0, <1>22 DEF ProbeMaps, Seeded
<1>23. CASE ProbeRegisters
  BY <1>0, <1>23 DEF ProbeRegisters
<1>24. CASE ProbeFails
  BY <1>0, <1>24 DEF ProbeFails
<1>25. CASE UNCHANGED scVars
  BY <1>25 DEF scVars
<1> QED BY <1>1, <1>2, <1>3, <1>4, <1>5, <1>6, <1>7, <1>8, <1>9, <1>10,
           <1>11, <1>12, <1>13, <1>14, <1>15, <1>16, <1>17, <1>18, <1>19,
           <1>20, <1>21, <1>22, <1>23, <1>24, <1>25 DEF ScNext, TimeoutReset

LEMMA ScInvStarts == ScInit => ScInv
<1> SUFFICES ASSUME ScInit PROVE ScInv
  OBVIOUS
<1> USE DEF ScInit
<1>1. regs \in Regs
  BY DEF OpOrNone, Regs
<1>2. ScTypes
  BY <1>1 DEF ScTypes, OpOrNone
<1>3. Lifetime /\ Fetched /\ Handshake
  BY DEF Lifetime, Fetched, Handshake, Clean
<1> QED BY <1>2, <1>3 DEF ScInv

LEMMA ScInvHolds == ASSUME ~Rebind PROVE ScSpec => []ScInv
<1>1. ASSUME ScInv, [ScNext]_scVars PROVE ScInv'
  BY <1>1, ScTypesHold, LifetimeHolds, FetchedHolds, HandshakeHolds DEF ScInv
<1> QED BY ScInvStarts, <1>1, PTL DEF ScSpec

\* ar_scaler_run returns 0 only after the engine ran the descriptor of that
\* call, whatever the calls before it left in the registers.
THEOREM OwnOpIsRun == ASSUME ~Rebind PROVE ScSpec => []OwnOpRan
<1>1. ScInv => OwnOpRan
  BY DEF ScInv, Handshake, OwnOpRan
<1> QED BY ScInvHolds, <1>1, PTL

\* The engine runs with its clock and its registers, and a call that ends, or
\* ar_scaler_timeout_reset after one that did not, leaves no operation, status,
\* handler or completion to the next one.
THEOREM EngineIsQuiet == ASSUME ~Rebind PROVE ScSpec => []EngineQuiet
<1>1. ScInv => EngineQuiet
  <2> SUFFICES ASSUME ScInv PROVE EngineQuiet
    OBVIOUS
  <2> USE DEF ScInv, ScTypes, Lifetime, Handshake, Clean
  <2>1. EngineUp
    BY DEF EngineUp
  <2> QED BY <2>1 DEF EngineQuiet
<1> QED BY ScInvHolds, <1>1, PTL

-----------------------------------------------------------------------------
(* The scaler's mapping cache.                                             *)

Entry == [buf : Buf, dir : Dir]

BufTypes ==
  /\ cache \in [Client -> Seq(Entry)]
  /\ want \in [Client -> Seq(Lookup)]
  /\ resolved \in [Client -> SUBSET Lookup]
  /\ serving \in [Client -> {"idle", "lookup", "ready", "run"}]

Bounded(c) == Len(cache[c]) =< Entries

\* Between two calls no address is kept, and a call is of an open descriptor.
Rests(c) ==
  /\ serving[c] = "idle" => resolved[c] = {}
  /\ serving[c] = "lookup" => want[c] # <<>>
  /\ c \notin open => serving[c] = "idle"

\* One of the n entries stamped last of s serves lookup r.
Among(s, r, n) ==
  \E i \in DOMAIN s : i + n > Len(s) /\ s[i].buf = r.buf /\ Serves(s[i].dir, r.dir)

\* What the call resolved is among the entries stamped last, and the lookups
\* it has still to do do not reach them.
Recent(c) ==
  \E n \in Nat :
    /\ n + Len(want[c]) =< 2 * BatchMax
    /\ \A r \in resolved[c] : Among(cache[c], r, n)

BufInv == BufTypes /\ \A c \in Client : Bounded(c) /\ Rests(c) /\ Recent(c)

-----------------------------------------------------------------------------
(* What a call looks up.                                                   *)

LEMMA CallsAreLookups ==
  ASSUME NEW s \in Buf, NEW d \in Buf, NEW e \in Buf, NEW asked \in Calls(s, d, e)
  PROVE  asked \in Seq(Lookup) /\ asked # <<>>
<1>1. ASSUME NEW b \in Buf, NEW a \in Buf
      PROVE  Pair(b, a) \in Seq(Lookup) /\ Pair(b, a) # <<>>
  BY DEF Pair, Lookup, Dir
<1>2. Copies(d, s) \in Seq(Lookup) /\ Copies(d, s) # <<>>
  BY DEF Copies, Lookup, Dir
<1>3. Maintain(d) \in Seq(Lookup) /\ Maintain(d) # <<>>
  BY DEF Maintain, Lookup, Dir
<1>4. ASSUME NEW p \in Seq(Lookup), NEW q \in Seq(Lookup), p # <<>>
      PROVE  p \o q \in Seq(Lookup) /\ p \o q # <<>>
  BY <1>4, ConcatProperties, EmptySeq
<1> QED BY <1>1, <1>2, <1>3, <1>4 DEF Calls

-----------------------------------------------------------------------------
(* What a lookup does to the order of the entries.                         *)

\* An entry that is stamped serves the lookup from the newest place, and one
\* more place holds all that was resolved before.
LEMMA StampKeeps ==
  ASSUME NEW s \in Seq(Entry), NEW n \in Nat, NEW i \in DOMAIN s, NEW dir \in Dir,
         dir \in {s[i].dir, "both"}
  PROVE  LET t == Append(RemoveAt(s, i), [buf |-> s[i].buf, dir |-> dir]) IN
         /\ t \in Seq(Entry) /\ Len(t) = Len(s)
         /\ \A r \in Lookup : Among(s, r, n) => Among(t, r, n + 1)
         /\ \A r \in Lookup : r.buf = s[i].buf /\ Serves(dir, r.dir) => Among(t, r, n + 1)
<1> DEFINE e == [buf |-> s[i].buf, dir |-> dir]
           u == RemoveAt(s, i)
           t == Append(u, e)
<1>1. i \in 1..Len(s) /\ Len(s) \in Nat /\ s[i] \in Entry /\ e \in Entry
  <2>1. i \in 1..Len(s) /\ Len(s) \in Nat /\ s[i] \in Entry
    OBVIOUS
  <2> QED BY <2>1 DEF Entry
<1>2. /\ u \in Seq(Entry) /\ Len(u) = Len(s) - 1
      /\ \A j \in 1..(i - 1) : u[j] = s[j]
      /\ \A j \in (i + 1)..Len(s) : u[j - 1] = s[j]
  BY RemoveAtFacts
<1> HIDE DEF u
<1>3. /\ t \in Seq(Entry) /\ Len(t) = Len(s) /\ DOMAIN t = 1..Len(s)
      /\ t[Len(s)] = e
      /\ \A j \in 1..(Len(s) - 1) : t[j] = u[j]
  BY <1>1, <1>2, AppendProperties
<1> HIDE DEF t
<1>4. ASSUME NEW r \in Lookup, r.buf = s[i].buf, Serves(dir, r.dir)
      PROVE  Among(t, r, n + 1)
  <2>1. e.buf = r.buf /\ Serves(e.dir, r.dir)
    BY <1>4
  <2>2. Len(s) \in DOMAIN t /\ Len(s) + (n + 1) > Len(t)
    BY <1>1, <1>3
  <2> QED BY <1>3, <2>1, <2>2 DEF Among
<1>5. ASSUME NEW r \in Lookup, Among(s, r, n)
      PROVE  Among(t, r, n + 1)
  <2>1. PICK j \in DOMAIN s :
          j + n > Len(s) /\ s[j].buf = r.buf /\ Serves(s[j].dir, r.dir)
    BY <1>5 DEF Among
  <2>2. j \in 1..Len(s)
    OBVIOUS
  <2>3. CASE j < i
    <3>1. j \in 1..(i - 1) /\ j \in 1..(Len(s) - 1) /\ j \in DOMAIN t
          /\ j + (n + 1) > Len(t)
      BY <1>1, <1>3, <2>1, <2>2, <2>3
    <3>2. t[j] = s[j]
      BY <1>2, <1>3, <3>1
    <3> QED BY <2>1, <3>1, <3>2 DEF Among
  <2>4. CASE j > i
    <3>1. j \in (i + 1)..Len(s) /\ j - 1 \in 1..(Len(s) - 1) /\ j - 1 \in DOMAIN t
          /\ (j - 1) + (n + 1) > Len(t)
      BY <1>1, <1>3, <2>1, <2>2, <2>4
    <3>2. t[j - 1] = s[j]
      BY <1>2, <1>3, <3>1
    <3> QED BY <2>1, <3>1, <3>2 DEF Among
  <2>5. CASE j = i
    <3>1. r.buf = s[i].buf /\ Serves(dir, r.dir)
      BY <2>1, <2>5 DEF Serves
    <3> QED BY <1>4, <3>1
  <2> QED BY <1>1, <2>2, <2>3, <2>4, <2>5
<1>6. t = Append(RemoveAt(s, i), [buf |-> s[i].buf, dir |-> dir])
  BY DEF t, u
<1> QED BY <1>3, <1>4, <1>5, <1>6

\* An entry added at the end is the newest; making room for it takes none of
\* the n newest, when there are fewer than Entries of those.
LEMMA MissKeeps ==
  ASSUME NEW c \in Client, cache[c] \in Seq(Entry), Bounded(c),
         NEW n \in Nat, n < Entries, NEW e \in Entry
  PROVE  LET t == Append(Room(c), e) IN
         /\ Room(c) \in Seq(Entry) /\ Len(Room(c)) =< Entries
         /\ t \in Seq(Entry) /\ Len(t) =< Entries
         /\ \A r \in Lookup : Among(cache[c], r, n) => Among(t, r, n + 1)
         /\ Among(t, e, n + 1)
<1> DEFINE s == cache[c]
           u == Room(c)
           t == Append(u, e)
<1>1. s \in Seq(Entry) /\ Len(s) \in Nat /\ Len(s) =< Entries /\ Entries \in Nat
  BY CacheHoldsBatch DEF Bounded
<1>2. /\ u \in Seq(Entry) /\ Len(u) \in Nat /\ Len(u) < Entries
      /\ \A r \in Lookup : Among(s, r, n) => Among(u, r, n)
  <2>1. CASE Len(s) = Entries
    <3>1. s # <<>> /\ u = Tail(s)
      BY <1>1, <2>1 DEF Room
    <3>2. u \in Seq(Entry) /\ Len(u) = Len(s) - 1 /\ DOMAIN u = 1..(Len(s) - 1)
          /\ \A j \in 1..(Len(s) - 1) : u[j] = s[j + 1]
      BY <1>1, <3>1
    <3> HIDE DEF u, s
    <3>3. ASSUME NEW r \in Lookup, Among(s, r, n)
          PROVE  Among(u, r, n)
      <4>1. PICK j \in DOMAIN s :
              j + n > Len(s) /\ s[j].buf = r.buf /\ Serves(s[j].dir, r.dir)
        BY <3>3 DEF Among
      <4>2. j \in 1..Len(s) /\ j > 1
        BY <1>1, <2>1, <4>1
      <4>3. j - 1 \in DOMAIN u /\ j - 1 \in 1..(Len(s) - 1) /\ (j - 1) + n > Len(u)
        BY <1>1, <3>2, <4>1, <4>2
      <4>4. u[j - 1] = s[j]
        BY <3>2, <4>2, <4>3
      <4> QED BY <4>1, <4>3, <4>4 DEF Among
    <3> QED BY <1>1, <2>1, <3>2, <3>3
  <2>2. CASE Len(s) # Entries
    BY <1>1, <2>2 DEF Room
  <2> QED BY <2>1, <2>2
<1> HIDE DEF u
<1>3. /\ t \in Seq(Entry) /\ Len(t) = Len(u) + 1 /\ DOMAIN t = 1..(Len(u) + 1)
      /\ t[Len(u) + 1] = e
      /\ \A j \in 1..Len(u) : t[j] = u[j]
  BY <1>2, AppendProperties
<1> HIDE DEF t
<1>4. Among(t, e, n + 1)
  BY <1>2, <1>3 DEF Among, Serves
<1>5. ASSUME NEW r \in Lookup, Among(s, r, n)
      PROVE  Among(t, r, n + 1)
  <2>1. PICK j \in DOMAIN u :
          j + n > Len(u) /\ u[j].buf = r.buf /\ Serves(u[j].dir, r.dir)
    BY <1>2, <1>5 DEF Among
  <2>2. j \in DOMAIN t /\ j \in 1..Len(u) /\ j + (n + 1) > Len(t)
    BY <1>2, <1>3, <2>1
  <2> QED BY <1>3, <2>1, <2>2 DEF Among
<1>6. t = Append(Room(c), e) /\ u = Room(c)
  BY DEF t, u
<1> QED BY <1>1, <1>2, <1>3, <1>4, <1>5, <1>6
-----------------------------------------------------------------------------
(* Every step keeps the invariant.                                         *)

\* A client whose call does not move, and whose cache stays, is as before.
LEMMA OthersKeep ==
  ASSUME NEW d \in Client, Bounded(d), Rests(d), Recent(d),
         cache'[d] = cache[d], want'[d] = want[d], resolved'[d] = resolved[d],
         serving'[d] = serving[d], (d \in open) = (d \in open')
  PROVE  Bounded(d)' /\ Rests(d)' /\ Recent(d)'
<1>1. Bounded(d)'
  BY DEF Bounded
<1>2. Rests(d)'
  BY DEF Rests
<1>3. Recent(d)'
  BY DEF Recent
<1> QED BY <1>1, <1>2, <1>3

\* A call that ends keeps no address.
LEMMA FinishKeeps ==
  ASSUME BufInv, NEW c \in Client, Finish(c),
         cache' \in [Client -> Seq(Entry)], UNCHANGED open,
         Len(cache'[c]) =< Entries,
         \A d \in Client : d # c => cache'[d] = cache[d]
  PROVE  BufInv'
<1>1. BufTypes'
  <2>1. <<>> \in Seq(Lookup)
    OBVIOUS
  <2>2. want' \in [Client -> Seq(Lookup)]
    BY <2>1 DEF BufInv, BufTypes, Finish
  <2>3. /\ resolved' \in [Client -> SUBSET Lookup]
        /\ serving' \in [Client -> {"idle", "lookup", "ready", "run"}]
    BY DEF BufInv, BufTypes, Finish
  <2> QED BY <2>2, <2>3 DEF BufTypes
<1>2. ASSUME NEW d \in Client
      PROVE  Bounded(d)' /\ Rests(d)' /\ Recent(d)'
  <2>1. CASE d # c
    <3>1. /\ cache'[d] = cache[d] /\ want'[d] = want[d] /\ resolved'[d] = resolved[d]
          /\ serving'[d] = serving[d]
      BY <2>1 DEF BufInv, BufTypes, Finish
    <3> QED BY <3>1, OthersKeep DEF BufInv
  <2>2. CASE d = c
    <3>1. want'[c] = <<>> /\ resolved'[c] = {} /\ serving'[c] = "idle"
      BY DEF BufInv, BufTypes, Finish
    <3>2. Bounded(c)' /\ Rests(c)'
      BY <3>1 DEF Bounded, Rests
    <3>3. 0 + Len(want'[c]) =< 2 * BatchMax
      BY <3>1, CacheHoldsBatch
    <3>4. Recent(c)'
      BY <3>1, <3>3 DEF Recent
    <3> QED BY <2>2, <3>2, <3>4
  <2> QED BY <2>1, <2>2
<1> QED BY <1>1, <1>2 DEF BufInv

\* A lookup that gets its address, from an entry that is now the newest.
LEMMA ResolvedKeeps ==
  ASSUME BufInv, NEW c \in Client, serving[c] = "lookup", Resolved(c), UNCHANGED open,
         NEW t \in Seq(Entry), Len(t) =< Entries, cache' = [cache EXCEPT ![c] = t],
         \A n \in Nat : n < Entries =>
           \A r \in Lookup :
             Among(cache[c], r, n) \/ r = Head(want[c]) => Among(t, r, n + 1)
  PROVE  BufInv'
<1>1. /\ want[c] \in Seq(Lookup) /\ want[c] # <<>> /\ Head(want[c]) \in Lookup
      /\ Tail(want[c]) \in Seq(Lookup) /\ Len(want[c]) \in Nat \ {0}
      /\ Len(Tail(want[c])) = Len(want[c]) - 1
      /\ Len(want[c]) # 1 => Tail(want[c]) # <<>>
  <2>1. want[c] \in Seq(Lookup) /\ want[c] # <<>>
    BY DEF BufInv, BufTypes, Rests
  <2> QED BY <2>1, TailFacts
<1>2. /\ cache'[c] = t /\ want'[c] = Tail(want[c])
      /\ resolved'[c] = resolved[c] \cup {Head(want[c])}
      /\ serving'[c] = IF Len(want[c]) = 1 THEN "ready" ELSE "lookup"
  BY DEF BufInv, BufTypes, Resolved
<1>3. BufTypes'
  BY <1>1 DEF BufInv, BufTypes, Resolved
<1>4. ASSUME NEW d \in Client
      PROVE  Bounded(d)' /\ Rests(d)' /\ Recent(d)'
  <2>1. CASE d # c
    <3>1. /\ cache'[d] = cache[d] /\ want'[d] = want[d] /\ resolved'[d] = resolved[d]
          /\ serving'[d] = serving[d]
      BY <2>1 DEF BufInv, BufTypes, Resolved
    <3> QED BY <3>1, OthersKeep DEF BufInv
  <2>2. CASE d = c
    <3>1. Bounded(c)'
      BY <1>2 DEF Bounded
    <3>2. Rests(c)'
      <4>1. c \in open
        BY DEF BufInv, Rests
      <4> QED BY <1>1, <1>2, <4>1 DEF Rests
    <3>3. PICK n \in Nat : /\ n + Len(want[c]) =< 2 * BatchMax
                           /\ \A r \in resolved[c] : Among(cache[c], r, n)
      BY DEF BufInv, Recent
    <3>4. n < Entries /\ n + 1 \in Nat /\ (n + 1) + Len(want'[c]) =< 2 * BatchMax
      <4>1. Len(want'[c]) = Len(want[c]) - 1
        BY <1>1, <1>2
      <4> DEFINE k == Len(want[c])
      <4>2. k \in Nat \ {0} /\ n + k =< 2 * BatchMax
        BY <1>1, <3>3
      <4> HIDE DEF k
      <4>3. n < Entries /\ n + 1 \in Nat /\ (n + 1) + (k - 1) =< 2 * BatchMax
        BY <4>2, CacheHoldsBatch
      <4> QED BY <4>1, <4>3 DEF k
    <3>5. \A r \in resolved'[c] : Among(cache'[c], r, n + 1)
      <4>1. resolved[c] \subseteq Lookup
        BY DEF BufInv, BufTypes
      <4> QED BY <1>1, <1>2, <3>3, <3>4, <4>1
    <3>6. Recent(c)'
      BY <3>4, <3>5 DEF Recent
    <3> QED BY <2>2, <3>1, <3>2, <3>6
  <2> QED BY <2>1, <2>2
<1> QED BY <1>3, <1>4 DEF BufInv

LEMMA BufInvSteps == BufInv /\ [BufNext]_bufVars => BufInv'
<1> SUFFICES ASSUME BufInv, [BufNext]_bufVars
             PROVE  BufInv'
  OBVIOUS
<1>1. CASE UNCHANGED bufVars
  BY <1>1 DEF bufVars, BufInv, BufTypes, Bounded, Rests, Recent, Among
<1>2. ASSUME NEW c \in Client, OpenFd(c) \/ Release(c)
      PROVE  BufInv'
  <2>1. /\ cache' = [cache EXCEPT ![c] = <<>>] /\ serving[c] = "idle"
        /\ UNCHANGED <<want, resolved, serving>>
        /\ \A d \in Client : d # c => (d \in open) = (d \in open')
    BY <1>2 DEF OpenFd, Release, BufInv, Rests
  <2>2. BufTypes'
    BY <2>1 DEF BufInv, BufTypes
  <2>3. ASSUME NEW d \in Client
        PROVE  Bounded(d)' /\ Rests(d)' /\ Recent(d)'
    <3>1. CASE d # c
      <4>1. cache'[d] = cache[d]
        BY <2>1, <3>1 DEF BufInv, BufTypes
      <4> QED BY <2>1, <3>1, <4>1, OthersKeep DEF BufInv
    <3>2. CASE d = c
      <4>1. cache'[c] = <<>> /\ resolved'[c] = {} /\ want'[c] = want[c]
            /\ serving'[c] = "idle"
        BY <2>1 DEF BufInv, BufTypes, Rests
      <4>2. Bounded(c)' /\ Rests(c)'
        BY <4>1, CacheHoldsBatch DEF Bounded, Rests
      <4>3. Recent(c)'
        BY <4>1 DEF BufInv, Recent
      <4> QED BY <3>2, <4>2, <4>3
    <3> QED BY <3>1, <3>2
  <2> QED BY <2>2, <2>3 DEF BufInv
<1>3. ASSUME NEW c \in Client, Begin(c)
      PROVE  BufInv'
  <2>1. PICK asked \in Seq(Lookup) :
          /\ asked # <<>> /\ Len(asked) =< 2 * BatchMax
          /\ want' = [want EXCEPT ![c] = asked]
    BY <1>3, CallsAreLookups DEF Begin
  <2>2. /\ serving' = [serving EXCEPT ![c] = "lookup"] /\ c \in open
        /\ serving[c] = "idle" /\ UNCHANGED <<cache, resolved, open>>
    BY <1>3 DEF Begin
  <2>3. BufTypes'
    BY <2>1, <2>2 DEF BufInv, BufTypes
  <2>4. ASSUME NEW d \in Client
        PROVE  Bounded(d)' /\ Rests(d)' /\ Recent(d)'
    <3>1. CASE d # c
      <4>1. want'[d] = want[d] /\ serving'[d] = serving[d]
        BY <2>1, <2>2, <3>1 DEF BufInv, BufTypes
      <4> QED BY <2>2, <4>1, OthersKeep DEF BufInv
    <3>2. CASE d = c
      <4>1. want'[c] = asked /\ serving'[c] = "lookup" /\ resolved'[c] = {}
        BY <2>1, <2>2 DEF BufInv, BufTypes, Rests
      <4>2. Bounded(c)' /\ Rests(c)'
        BY <2>1, <2>2, <4>1 DEF BufInv, Bounded, Rests
      <4>3. 0 + Len(want'[c]) =< 2 * BatchMax
        BY <2>1, <4>1
      <4>4. Recent(c)'
        BY <4>1, <4>3 DEF Recent
      <4> QED BY <3>2, <4>2, <4>4
    <3> QED BY <3>1, <3>2
  <2> QED BY <2>3, <2>4 DEF BufInv
<1>4. ASSUME NEW c \in Client, Hit(c) \/ Remap(c)
      PROVE  BufInv'
  <2>1. PICK i \in DOMAIN cache[c] :
          /\ cache[c][i].buf = Head(want[c]).buf
          /\ \/ /\ Serves(cache[c][i].dir, Head(want[c]).dir)
                /\ Stamp(c, i, cache[c][i].dir) /\ Resolved(c)
             \/ Stamp(c, i, "both") /\ Resolved(c)
             \/ Drop(c, i) /\ Finish(c)
    BY <1>4 DEF Hit, Remap, Held
  <2>2. /\ serving[c] = "lookup" /\ UNCHANGED open /\ cache \in [Client -> Seq(Entry)]
        /\ cache[c] \in Seq(Entry) /\ Len(cache[c]) =< Entries
        /\ want[c] # <<>> /\ Head(want[c]) \in Lookup
    <3>1. /\ serving[c] = "lookup" /\ UNCHANGED open /\ cache \in [Client -> Seq(Entry)]
          /\ want[c] \in Seq(Lookup) /\ want[c] # <<>> /\ Len(cache[c]) =< Entries
      BY <1>4 DEF Hit, Remap, BufInv, BufTypes, Rests, Bounded
    <3> QED BY <3>1
  <2>3. CASE Drop(c, i) /\ Finish(c)
    <3>1. RemoveAt(cache[c], i) \in Seq(Entry) /\ Len(RemoveAt(cache[c], i)) =< Entries
      <4>1. /\ RemoveAt(cache[c], i) \in Seq(Entry)
            /\ Len(RemoveAt(cache[c], i)) = Len(cache[c]) - 1
        BY <2>2, RemoveAtFacts
      <4> QED BY <2>2, <4>1, CacheHoldsBatch
    <3>2. cache' = [cache EXCEPT ![c] = RemoveAt(cache[c], i)]
      BY <2>3 DEF Drop
    <3>3. /\ cache' \in [Client -> Seq(Entry)] /\ Len(cache'[c]) =< Entries
          /\ \A d \in Client : d # c => cache'[d] = cache[d]
      BY <2>2, <3>1, <3>2
    <3> QED BY <2>2, <2>3, <3>3, FinishKeeps
  <2>4. ASSUME NEW dir \in {cache[c][i].dir, "both"}, Serves(dir, Head(want[c]).dir),
               Stamp(c, i, dir), Resolved(c)
        PROVE  BufInv'
    <3> DEFINE t == Append(RemoveAt(cache[c], i), [buf |-> cache[c][i].buf, dir |-> dir])
    <3>1. cache[c][i] \in Entry /\ dir \in Dir
      <4>1. cache[c][i] \in Entry
        BY <2>2
      <4> QED BY <4>1 DEF Entry, Dir
    <3>2. ASSUME NEW n \in Nat
          PROVE  /\ t \in Seq(Entry) /\ Len(t) = Len(cache[c])
                 /\ \A r \in Lookup : Among(cache[c], r, n) => Among(t, r, n + 1)
                 /\ \A r \in Lookup : r.buf = cache[c][i].buf /\ Serves(dir, r.dir)
                                        => Among(t, r, n + 1)
      BY <2>2, <3>1, StampKeeps
    <3>3. cache' = [cache EXCEPT ![c] = t]
      BY <2>4 DEF Stamp
    <3> HIDE DEF t
    <3>4. t \in Seq(Entry) /\ Len(t) =< Entries
      BY <2>2, <3>2
    <3>5. \A n \in Nat : n < Entries =>
            \A r \in Lookup :
              Among(cache[c], r, n) \/ r = Head(want[c]) => Among(t, r, n + 1)
      BY <2>1, <2>2, <2>4, <3>2
    <3> QED BY <2>2, <2>4, <3>3, <3>4, <3>5, ResolvedKeeps
  <2> QED BY <2>1, <2>3, <2>4 DEF Serves
<1>5. ASSUME NEW c \in Client, Miss(c)
      PROVE  BufInv'
  <2>1. /\ serving[c] = "lookup" /\ UNCHANGED open /\ cache \in [Client -> Seq(Entry)]
        /\ cache[c] \in Seq(Entry) /\ Bounded(c)
        /\ want[c] # <<>> /\ Head(want[c]) \in Entry /\ Head(want[c]) \in Lookup
    <3>1. /\ serving[c] = "lookup" /\ UNCHANGED open /\ cache \in [Client -> Seq(Entry)]
          /\ want[c] \in Seq(Lookup) /\ want[c] # <<>> /\ Bounded(c)
      BY <1>5 DEF Miss, BufInv, BufTypes, Rests
    <3>2. Entry = Lookup
      BY DEF Entry, Lookup
    <3> QED BY <3>1, <3>2
  <2> DEFINE t == Append(Room(c), Head(want[c]))
  <2>2. ASSUME NEW n \in Nat, n < Entries
        PROVE  /\ Room(c) \in Seq(Entry) /\ Len(Room(c)) =< Entries
               /\ t \in Seq(Entry) /\ Len(t) =< Entries
               /\ \A r \in Lookup : Among(cache[c], r, n) => Among(t, r, n + 1)
               /\ Among(t, Head(want[c]), n + 1)
    BY <2>1, <2>2, MissKeeps
  <2> HIDE DEF t
  <2>3. 0 \in Nat /\ 0 < Entries
    BY CacheHoldsBatch
  <2>4. /\ Room(c) \in Seq(Entry) /\ Len(Room(c)) =< Entries
        /\ t \in Seq(Entry) /\ Len(t) =< Entries
    BY <2>2, <2>3
  <2>5. CASE cache' = [cache EXCEPT ![c] = t] /\ Resolved(c)
    <3>1. \A n \in Nat : n < Entries =>
            \A r \in Lookup :
              Among(cache[c], r, n) \/ r = Head(want[c]) => Among(t, r, n + 1)
      BY <2>2
    <3> QED BY <2>1, <2>4, <2>5, <3>1, ResolvedKeeps
  <2>6. CASE cache' = [cache EXCEPT ![c] = Room(c)] /\ Finish(c)
    <3>1. /\ cache' \in [Client -> Seq(Entry)] /\ Len(cache'[c]) =< Entries
          /\ \A d \in Client : d # c => cache'[d] = cache[d]
      BY <2>1, <2>4, <2>6
    <3> QED BY <2>1, <2>6, <3>1, FinishKeeps
  <2> QED BY <1>5, <2>5, <2>6 DEF Miss, t
<1>6. ASSUME NEW c \in Client, Refuse(c) \/ RunReturns(c)
      PROVE  BufInv'
  <2>1. Finish(c) /\ UNCHANGED <<cache, open>>
    BY <1>6 DEF Refuse, RunReturns
  <2>2. cache' \in [Client -> Seq(Entry)] /\ Len(cache'[c]) =< Entries
    BY <2>1 DEF BufInv, BufTypes, Bounded
  <2> QED BY <2>1, <2>2, FinishKeeps
<1>7. ASSUME NEW c \in Client, Run(c)
      PROVE  BufInv'
  <2>1. BufTypes'
    BY <1>7 DEF Run, BufInv, BufTypes
  <2>2. ASSUME NEW d \in Client
        PROVE  Bounded(d)' /\ Rests(d)' /\ Recent(d)'
    BY <1>7 DEF Run, BufInv, BufTypes, Bounded, Rests, Recent
  <2> QED BY <2>1, <2>2 DEF BufInv
<1> QED BY <1>1, <1>2, <1>3, <1>4, <1>5, <1>6, <1>7 DEF BufNext

LEMMA BufInvStarts == BufInit => BufInv
<1> SUFFICES ASSUME BufInit PROVE BufInv
  OBVIOUS
<1>1. BufTypes
  BY DEF BufInit, BufTypes
<1>2. ASSUME NEW c \in Client
      PROVE  Bounded(c) /\ Rests(c) /\ Recent(c)
  <2>1. cache[c] = <<>> /\ want[c] = <<>> /\ resolved[c] = {} /\ serving[c] = "idle"
    BY DEF BufInit
  <2>2. Bounded(c) /\ Rests(c)
    BY <2>1, CacheHoldsBatch DEF Bounded, Rests
  <2>3. 0 + Len(want[c]) =< 2 * BatchMax
    BY <2>1, CacheHoldsBatch
  <2>4. Recent(c)
    BY <2>1, <2>3 DEF Recent
  <2> QED BY <2>2, <2>4
<1> QED BY <1>1, <1>2 DEF BufInv

\* The engine reads and writes only buffers that are still mapped, each in a
\* direction that serves every use the call makes of it, whatever the caches
\* of other clients do (ml_bufcache_get, held under the client's lock).
THEOREM RunsArePinned == BufSpec => []EnginePinned
<1>1. BufInv => EnginePinned
  BY DEF BufInv, Recent, Among, EnginePinned
<1> QED BY <1>1, BufInvStarts, BufInvSteps, PTL DEF BufSpec

-----------------------------------------------------------------------------
(* The zone's list of blocks: what the gap walk finds in it, and what      *)
(* putting a block in and taking one out leave of it.                      *)

BlockNames == Process \cup PoolId \cup {SelfTest}
MmbBlocks  == [phys : Nat, size : Nat \ {0}, name : BlockNames, refcount : Int, user_kref : Nat]

\* BlocksApart, of any list
Ordered(list) ==
  /\ \A i \in 1..Len(list) : list[i].phys >= Base /\ End(list[i]) =< Base + Pages
  /\ \A i, j \in 1..Len(list) : i < j => End(list[i]) =< list[j].phys

LEMMA EndTypes ==
  ASSUME NEW b \in MmbBlocks
  PROVE  /\ b.phys \in Nat /\ b.size \in Nat \ {0} /\ b.user_kref \in Nat
         /\ b.name \in BlockNames /\ b.refcount \in Int
         /\ End(b) \in Nat /\ b.phys < End(b)
BY DEF MmbBlocks, End

\* Align(x, a) is the least multiple of a that is not below x.
LEMMA AlignFacts ==
  ASSUME NEW x \in Nat, NEW a, IsPow2(a)
  PROVE  /\ a \in Nat \ {0} /\ Align(x, a) \in Nat /\ Align(x, a) >= x
         /\ Align(x, a) % a = 0
         /\ \A p \in Nat : p >= x /\ p % a = 0 => p >= Align(x, a)
<1>1. CASE a = 1
  BY <1>1 DEF Align
<1>2. CASE a = 2
  BY <1>2 DEF Align
<1>3. CASE a = 4
  BY <1>3 DEF Align
<1>4. CASE a = 8
  BY <1>4 DEF Align
<1>5. CASE a = 16
  BY <1>5 DEF Align
<1> QED BY <1>1, <1>2, <1>3, <1>4, <1>5 DEF IsPow2

LEMMA GapTypes ==
  ASSUME NEW list \in Seq(MmbBlocks), NEW a, IsPow2(a), NEW i \in 0..Len(list)
  PROVE  /\ Len(list) \in Nat /\ GapStart(list, i, a) \in Nat
         /\ GapStart(list, i, a) % a = 0
         /\ i = 0 => GapStart(list, i, a) >= Base
         /\ i # 0 => GapStart(list, i, a) >= End(list[i])
<1>1. Len(list) \in Nat
  OBVIOUS
<1>2. CASE i = 0
  BY <1>1, <1>2, AlignFacts, HeapAssumption DEF GapStart
<1>3. CASE i # 0
  <2>1. i \in 1..Len(list)
    BY <1>1, <1>3
  <2>2. End(list[i]) \in Nat
    BY <2>1, EndTypes
  <2> QED BY <1>1, <1>3, <2>2, AlignFacts DEF GapStart
<1> QED BY <1>2, <1>3

LEMMA WalkStops ==
  ASSUME NEW list \in Seq(MmbBlocks), NEW size \in Nat, NEW a, IsPow2(a)
  PROVE  \E i \in 0..Len(list) : StopsAt(list, size, a, i)
<1> DEFINE T == {k \in 0..Len(list) :
                   k = Len(list) \/ GapStart(list, k, a) + size =< list[k + 1].phys}
<1>1. Len(list) \in Nat
  OBVIOUS
<1>2. T \subseteq Nat /\ Len(list) \in T
  BY <1>1
<1>3. PICK i \in T : \A k \in T : i =< k
  <2> HIDE DEF T
  <2> QED BY <1>2, Least
<1>4. ASSUME NEW j \in 0..(i - 1)
      PROVE  GapStart(list, j, a) + size > list[j + 1].phys
  <2>1. j \in 0..Len(list) /\ j \notin T /\ j + 1 \in 1..Len(list)
    BY <1>1, <1>3
  <2>2. ~(GapStart(list, j, a) + size =< list[j + 1].phys)
    BY <2>1
  <2>3. GapStart(list, j, a) \in Nat
    BY <2>1, GapTypes
  <2>4. list[j + 1].phys \in Nat
    BY <2>1, EndTypes
  <2> QED BY <2>2, <2>3, <2>4
<1> QED BY <1>3, <1>4 DEF StopsAt

\* Later blocks lie above earlier ones.
LEMMA OrderedEnds ==
  ASSUME NEW list \in Seq(MmbBlocks), Ordered(list),
         NEW i \in 1..Len(list), NEW j \in 1..Len(list), i =< j
  PROVE  End(list[i]) =< End(list[j]) /\ list[i].phys =< list[j].phys
<1>1. CASE i = j
  <2>1. End(list[i]) \in Nat /\ list[i].phys \in Nat
    BY EndTypes
  <2> QED BY <1>1, <2>1
<1>2. CASE i # j
  <2>1. /\ End(list[i]) \in Nat /\ list[i].phys \in Nat /\ list[i].phys < End(list[i])
        /\ End(list[j]) \in Nat /\ list[j].phys \in Nat /\ list[j].phys < End(list[j])
    BY EndTypes
  <2>2. i < j
    BY <1>2
  <2>3. End(list[i]) =< list[j].phys
    BY <2>2 DEF Ordered
  <2> QED BY <2>1, <2>3
<1> QED BY <1>1, <1>2

LEMMA FirstFitFacts ==
  ASSUME NEW list \in Seq(MmbBlocks), Ordered(list), NEW size \in Nat,
         NEW align \in Nat, FirstFit(list, size, align) # NoFit
  PROVE  /\ FirstFit(list, size, align) \in Nat /\ size # 0
         /\ FirstFit(list, size, align) >= Base
         /\ FirstFit(list, size, align) + size =< Base + Pages
         /\ FirstFit(list, size, align) % PageAlign(align) = 0
         /\ \E i \in 0..Len(list) :
              /\ \A j \in 1..i : End(list[j]) =< FirstFit(list, size, align)
              /\ \A j \in (i + 1)..Len(list) :
                   FirstFit(list, size, align) + size =< list[j].phys
<1> DEFINE a   == PageAlign(align)
           i   == CHOOSE k \in 0..Len(list) : StopsAt(list, size, a, k)
           cur == GapStart(list, i, a)
<1>1. /\ Acceptable(size, a) /\ cur + size =< Base + Pages
      /\ FirstFit(list, size, align) = cur
  BY DEF FirstFit
<1>2. IsPow2(a) /\ size # 0 /\ Len(list) \in Nat
  BY <1>1 DEF Acceptable
<1> HIDE DEF a
<1>3. i \in 0..Len(list) /\ StopsAt(list, size, a, i)
  BY <1>2, WalkStops
<1> HIDE DEF i
<1>4. /\ cur \in Nat /\ cur % a = 0
      /\ i = 0 => cur >= Base
      /\ i # 0 => cur >= End(list[i])
  BY <1>2, <1>3, GapTypes
<1>5. cur >= Base
  <2>1. CASE i = 0
    BY <1>4, <2>1
  <2>2. CASE i # 0
    <3>1. i \in 1..Len(list)
      BY <1>3, <2>2
    <3>2. list[i].phys >= Base
      BY <3>1 DEF Ordered
    <3>3. list[i].phys \in Nat /\ End(list[i]) \in Nat /\ list[i].phys < End(list[i])
      BY <3>1, EndTypes
    <3> QED BY <1>4, <2>2, <3>2, <3>3, HeapAssumption
  <2> QED BY <2>1, <2>2
<1>6. ASSUME NEW j \in 1..i PROVE End(list[j]) =< cur
  <2>1. i \in 1..Len(list) /\ j \in 1..Len(list) /\ j =< i /\ i # 0
    BY <1>2, <1>3
  <2>2. list[i] \in MmbBlocks /\ list[j] \in MmbBlocks
    BY <2>1
  <2>3. End(list[j]) \in Nat /\ End(list[i]) \in Nat
    BY <2>2, EndTypes
  <2>4. End(list[j]) =< End(list[i])
    BY <2>1, OrderedEnds
  <2> QED BY <1>4, <2>1, <2>3, <2>4
<1>7. ASSUME NEW j \in (i + 1)..Len(list) PROVE cur + size =< list[j].phys
  <2>1. i # Len(list) /\ i + 1 \in 1..Len(list) /\ j \in 1..Len(list) /\ i + 1 =< j
    BY <1>2, <1>3
  <2>2. cur + size =< list[i + 1].phys
    BY <1>3, <2>1 DEF StopsAt
  <2>3. list[i + 1].phys =< list[j].phys
    BY <2>1, OrderedEnds
  <2>4. list[i + 1].phys \in Nat /\ list[j].phys \in Nat
    BY <2>1, EndTypes
  <2> QED BY <1>4, <2>2, <2>3, <2>4
<1> HIDE DEF cur
<1> QED BY <1>1, <1>2, <1>3, <1>4, <1>5, <1>6, <1>7 DEF a

\* A free aligned range p is not passed over: the walk has stopped by then.
LEMMA FreeRangeFound ==
  ASSUME NEW list \in Seq(MmbBlocks), Ordered(list), NEW size \in Nat \ {0}, NEW a,
         IsPow2(a), a # 0, a =< Pages, size =< Pages,
         NEW p \in Nat, p >= Base, p + size =< Base + Pages, p % a = 0,
         \A i \in 1..Len(list) : p + size =< list[i].phys \/ p >= End(list[i])
  PROVE  FirstFit(list, size, a) # NoFit
<1> DEFINE i   == CHOOSE k \in 0..Len(list) : StopsAt(list, size, a, k)
           cur == GapStart(list, i, a)
<1>1. Len(list) \in Nat /\ a \in Nat /\ PageAlign(a) = a
  <2>1. a \in Nat
    BY AlignFacts
  <2> QED BY <2>1 DEF PageAlign
<1>2. i \in 0..Len(list) /\ StopsAt(list, size, a, i)
  BY WalkStops
<1>3. FirstFit(list, size, a) = IF Acceptable(size, a) /\ cur + size =< Base + Pages
                                  THEN cur ELSE NoFit
  BY <1>1 DEF FirstFit
<1> HIDE DEF i
<1>4. \A k \in 0..Len(list) : GapStart(list, k, a) \in Nat
  BY GapTypes
<1>5. ASSUME NEW k \in 0..Len(list), k # 0 => p >= End(list[k])
      PROVE  GapStart(list, k, a) =< p
  <2>1. CASE k = 0
    BY <2>1, AlignFacts, HeapAssumption DEF GapStart
  <2>2. CASE k # 0
    <3>1. End(list[k]) \in Nat
      BY <1>1, <2>2, EndTypes
    <3> QED BY <1>5, <2>2, <3>1, AlignFacts DEF GapStart
  <2> QED BY <2>1, <2>2
<1>6. ASSUME i # 0 PROVE p >= End(list[i])
  <2> SUFFICES ASSUME ~(p >= End(list[i])) PROVE FALSE
    OBVIOUS
  <2> DEFINE T == {k \in 1..Len(list) : p + size =< list[k].phys}
  <2>1. i \in 1..Len(list)
    BY <1>1, <1>2, <1>6
  <2>2. i \in T /\ T \subseteq Nat
    BY <1>1, <2>1
  <2>3. PICK k \in T : \A m \in T : k =< m
    <3> HIDE DEF T
    <3> QED BY <2>2, Least
  <2>4. k - 1 \in 0..Len(list) /\ k - 1 \in 0..(i - 1) /\ (k - 1) + 1 = k /\ k \in 1..Len(list)
    BY <1>1, <2>1, <2>2, <2>3
  <2>5. k - 1 # 0 => p >= End(list[k - 1])
    <3> SUFFICES ASSUME k - 1 # 0 PROVE p >= End(list[k - 1])
      OBVIOUS
    <3>1. k - 1 \in 1..Len(list) /\ k - 1 \notin T
      BY <2>3, <2>4
    <3>2. ~(p + size =< list[k - 1].phys)
      BY <3>1
    <3> QED BY <3>1, <3>2
  <2>6. GapStart(list, k - 1, a) =< p
    BY <1>5, <2>4, <2>5
  <2>7. GapStart(list, k - 1, a) + size > list[k].phys
    BY <1>2, <2>4 DEF StopsAt
  <2>8. list[k].phys \in Nat /\ GapStart(list, k - 1, a) \in Nat /\ p + size =< list[k].phys
    BY <1>4, <2>3, <2>4, EndTypes
  <2> QED BY <2>6, <2>7, <2>8
<1>7. cur =< p /\ cur \in Nat
  BY <1>2, <1>4, <1>5, <1>6
<1>8. Acceptable(size, a)
  BY DEF Acceptable
<1>9. cur + size =< Base + Pages
  <2> HIDE DEF cur
  <2> QED BY <1>7, HeapAssumption
<1> HIDE DEF cur
<1> QED BY <1>3, <1>7, <1>8, <1>9 DEF NoFit

\* zone_alloc_locked refuses a request only when no aligned range is free.
LEMMA WalkIsComplete ==
  ASSUME mmb_list \in Seq(MmbBlocks), BlocksApart
  PROVE  FirstFitComplete
<1> SUFFICES ASSUME NEW size \in 1..Pages, NEW a \in {1, 2, 4}, a =< Pages
             PROVE  (FirstFit(mmb_list, size, a) = NoFit) <=> ~RangeFree(size, a)
  BY DEF FirstFitComplete
<1> DEFINE cur == FirstFit(mmb_list, size, a)
<1>1. Ordered(mmb_list) /\ IsPow2(a) /\ a # 0 /\ a \in Nat /\ size \in Nat \ {0}
      /\ PageAlign(a) = a /\ size =< Pages /\ Len(mmb_list) \in Nat
  BY HeapAssumption DEF BlocksApart, Ordered, IsPow2, PageAlign
<1>2. ASSUME cur # NoFit PROVE RangeFree(size, a)
  <2>1. /\ cur \in Nat /\ cur >= Base /\ cur + size =< Base + Pages /\ cur % a = 0
        /\ \E i \in 0..Len(mmb_list) :
             /\ \A j \in 1..i : End(mmb_list[j]) =< cur
             /\ \A j \in (i + 1)..Len(mmb_list) : cur + size =< mmb_list[j].phys
    <3>1. size \in Nat /\ cur # NoFit /\ PageAlign(a) = a
      BY <1>1, <1>2
    <3>2. /\ cur \in Nat /\ cur >= Base /\ cur + size =< Base + Pages
          /\ cur % PageAlign(a) = 0
          /\ \E i \in 0..Len(mmb_list) :
               /\ \A j \in 1..i : End(mmb_list[j]) =< cur
               /\ \A j \in (i + 1)..Len(mmb_list) : cur + size =< mmb_list[j].phys
      BY ONLY FirstFitFacts, <1>1, <3>1, mmb_list \in Seq(MmbBlocks)
    <3> QED BY ONLY <3>1, <3>2
  <2> HIDE DEF cur
  <2>2. cur \in Base..(Base + Pages - size)
    BY <1>1, <2>1, HeapAssumption
  <2>3. PICK i \in 0..Len(mmb_list) :
          /\ \A j \in 1..i : End(mmb_list[j]) =< cur
          /\ \A j \in (i + 1)..Len(mmb_list) : cur + size =< mmb_list[j].phys
    BY <2>1
  <2>4. ASSUME NEW j \in 1..Len(mmb_list)
        PROVE  cur + size =< mmb_list[j].phys \/ cur >= End(mmb_list[j])
    <3>1. End(mmb_list[j]) \in Nat
      BY EndTypes
    <3>2. CASE j =< i
      BY <2>1, <2>3, <3>1, <3>2
    <3>3. CASE j > i
      BY <1>1, <2>3, <3>3
    <3> QED BY <3>2, <3>3
  <2> QED BY <2>1, <2>2, <2>4 DEF RangeFree
<1>3. ASSUME RangeFree(size, a) PROVE cur # NoFit
  <2>1. PICK p \in Base..(Base + Pages - size) :
          /\ p % a = 0
          /\ \A i \in 1..Len(mmb_list) :
               p + size =< mmb_list[i].phys \/ p >= End(mmb_list[i])
    BY <1>3 DEF RangeFree
  <2>2. p \in Nat /\ p >= Base /\ p + size =< Base + Pages
    BY <1>1, HeapAssumption
  <2> QED BY <1>1, <2>1, <2>2, FreeRangeFound
<1> QED BY <1>2, <1>3

\* The block goes where the walk stopped, and the list stays in order.
LEMMA InsertAtFacts ==
  ASSUME NEW S, NEW s \in Seq(S), NEW i \in 1..(Len(s) + 1), NEW e \in S
  PROVE  /\ InsertAt(s, i, e) \in Seq(S) /\ Len(InsertAt(s, i, e)) = Len(s) + 1
         /\ \A j \in 1..(i - 1) : InsertAt(s, i, e)[j] = s[j]
         /\ InsertAt(s, i, e)[i] = e
         /\ \A j \in i..Len(s) : InsertAt(s, i, e)[j + 1] = s[j]
<1>1. Len(s) \in Nat
  OBVIOUS
<1> DEFINE a == SubSeq(s, 1, i - 1)
           b == SubSeq(s, i, Len(s))
           t == a \o <<e>>
<1>2. a \in Seq(S) /\ Len(a) = i - 1 /\ \A j \in 1..(i - 1) : a[j] = s[j]
  BY <1>1, SubSeqProperties
<1>3. b \in Seq(S) /\ Len(b) = Len(s) - i + 1
      /\ \A j \in 1..(Len(s) - i + 1) : b[j] = s[i + j - 1]
  <2>1. CASE i = Len(s) + 1
    <3>1. b = <<>>
      BY <1>1, <2>1, SubSeqProperties
    <3> QED BY <1>1, <2>1, <3>1
  <2>2. CASE i # Len(s) + 1
    BY <1>1, <2>2, SubSeqProperties
  <2> QED BY <2>1, <2>2
<1>4. InsertAt(s, i, e) = t \o b
  BY DEF InsertAt
<1> HIDE DEF a, b
<1>5. /\ t \in Seq(S) /\ Len(t) = i
      /\ \A j \in 1..(i - 1) : t[j] = s[j]
      /\ t[i] = e
  <2>1. t = Append(a, e)
    BY <1>2
  <2> QED BY <1>1, <1>2, <2>1, AppendProperties
<1> HIDE DEF t
<1>6. /\ t \o b \in Seq(S) /\ Len(t \o b) = Len(s) + 1
      /\ \A j \in 1..(Len(s) + 1) :
           (t \o b)[j] = IF j =< i THEN t[j] ELSE b[j - i]
  <2>1. /\ t \o b \in Seq(S) /\ Len(t \o b) = Len(t) + Len(b)
        /\ \A j \in 1..(Len(t) + Len(b)) :
             (t \o b)[j] = IF j =< Len(t) THEN t[j] ELSE b[j - Len(t)]
    BY <1>3, <1>5, ConcatProperties
  <2>2. Len(t) + Len(b) = Len(s) + 1 /\ Len(t) = i
    BY <1>1, <1>3, <1>5
  <2> QED BY <2>1, <2>2
<1>7. \A j \in 1..i : (t \o b)[j] = t[j]
  BY <1>1, <1>6
<1>8. ASSUME NEW j \in i..Len(s) PROVE (t \o b)[j + 1] = s[j]
  <2>1. j + 1 \in 1..(Len(s) + 1) /\ ~(j + 1 =< i) /\ j + 1 - i \in 1..(Len(s) - i + 1)
        /\ i + (j + 1 - i) - 1 = j
    BY <1>1
  <2>2. (t \o b)[j + 1] = b[j + 1 - i]
    BY <1>6, <2>1
  <2> QED BY <1>3, <2>1, <2>2
<1>9. (\A j \in 1..(i - 1) : (t \o b)[j] = s[j]) /\ (t \o b)[i] = e
  BY <1>1, <1>5, <1>7
<1> QED BY <1>4, <1>6, <1>8, <1>9

LEMMA InsertedFacts ==
  ASSUME NEW list \in Seq(MmbBlocks), Ordered(list), NEW b \in MmbBlocks,
         b.phys >= Base, End(b) =< Base + Pages, NEW i \in 0..Len(list),
         \A j \in 1..i : End(list[j]) =< b.phys,
         \A j \in (i + 1)..Len(list) : End(b) =< list[j].phys
  PROVE  /\ Inserted(list, b) \in Seq(MmbBlocks) /\ Len(Inserted(list, b)) = Len(list) + 1
         /\ \A j \in 1..i : Inserted(list, b)[j] = list[j]
         /\ Inserted(list, b)[i + 1] = b
         /\ \A j \in (i + 1)..Len(list) : Inserted(list, b)[j + 1] = list[j]
         /\ Ordered(Inserted(list, b))
<1> DEFINE above == {j \in 1..Len(list) : list[j].phys > b.phys}
           place == IF above = {} THEN Len(list) + 1
                      ELSE CHOOSE j \in above : \A k \in above : j =< k
           t     == Inserted(list, b)
<1>1. Len(list) \in Nat /\ b.phys \in Nat /\ End(b) \in Nat /\ b.phys < End(b)
  BY EndTypes
<1>2. \A j \in 1..Len(list) : /\ list[j].phys \in Nat /\ End(list[j]) \in Nat
                              /\ list[j].phys < End(list[j])
  BY EndTypes
<1>3. above = (i + 1)..Len(list)
  <2>1. ASSUME NEW j \in 1..i PROVE j \notin above
    BY <1>1, <1>2
  <2>2. ASSUME NEW j \in (i + 1)..Len(list) PROVE j \in above
    BY <1>1, <1>2
  <2> QED BY <1>1, <2>1, <2>2
<1>4. place = i + 1
  <2>1. CASE above = {}
    BY <1>1, <1>3, <2>1
  <2>2. CASE above # {}
    <3>1. i + 1 \in above /\ \A k \in above : i + 1 =< k
      BY <1>1, <1>3, <2>2
    <3>2. \A j \in above : (\A k \in above : j =< k) => j = i + 1
      BY <1>1, <1>3, <3>1
    <3> HIDE DEF above
    <3> QED BY <2>2, <3>1, <3>2
  <2> QED BY <2>1, <2>2
<1>5. t = InsertAt(list, place, b)
  BY DEF Inserted
<1> HIDE DEF place
<1>6. /\ t \in Seq(MmbBlocks) /\ Len(t) = Len(list) + 1
      /\ \A j \in 1..i : t[j] = list[j]
      /\ t[i + 1] = b
      /\ \A j \in (i + 1)..Len(list) : t[j + 1] = list[j]
  <2>1. i + 1 \in 1..(Len(list) + 1) /\ (i + 1) - 1 = i
    BY <1>1
  <2>2. PICK p \in 1..(Len(list) + 1) : p = i + 1
    BY <2>1
  <2> DEFINE u == InsertAt(list, p, b)
  <2>3. /\ u \in Seq(MmbBlocks) /\ Len(u) = Len(list) + 1
        /\ \A j \in 1..(p - 1) : u[j] = list[j]
        /\ u[p] = b
        /\ \A j \in p..Len(list) : u[j + 1] = list[j]
    BY ONLY InsertAtFacts, list \in Seq(MmbBlocks), p \in 1..(Len(list) + 1), b \in MmbBlocks
  <2>4. t = u
    BY <1>4, <1>5, <2>2
  <2> HIDE DEF u, t
  <2> QED BY <2>1, <2>3, <2>4, <2>2
<1> HIDE DEF t, above
<1> DEFINE from(j) == IF j =< i THEN j ELSE j - 1
<1>7. ASSUME NEW j \in 1..Len(t), j # i + 1
      PROVE  from(j) \in 1..Len(list) /\ t[j] = list[from(j)]
  <2>1. CASE j =< i
    <3>1. j \in 1..i
      BY <2>1
    <3> QED BY <1>1, <1>6, <2>1, <3>1
  <2>2. CASE ~(j =< i)
    <3>1. j - 1 \in (i + 1)..Len(list) /\ (j - 1) + 1 = j
      BY <1>1, <1>6, <1>7, <2>2
    <3>2. t[(j - 1) + 1] = list[j - 1]
      BY <1>6, <3>1
    <3> QED BY <1>1, <2>2, <3>1, <3>2
  <2> QED BY <2>1, <2>2
<1>8. \A j \in 1..Len(t) : t[j].phys >= Base /\ End(t[j]) =< Base + Pages
  <2> SUFFICES ASSUME NEW j \in 1..Len(t)
               PROVE  t[j].phys >= Base /\ End(t[j]) =< Base + Pages
    OBVIOUS
  <2>1. CASE j = i + 1
    BY <1>6, <2>1
  <2>2. CASE j # i + 1
    <3> HIDE DEF from
    <3> QED BY <1>7, <2>2 DEF Ordered
  <2> QED BY <2>1, <2>2
<1>9. ASSUME NEW j \in 1..Len(t), NEW k \in 1..Len(t), j < k
      PROVE  End(t[j]) =< t[k].phys
  <2>1. CASE j # i + 1 /\ k # i + 1
    <3>1. /\ from(j) \in 1..Len(list) /\ t[j] = list[from(j)]
          /\ from(k) \in 1..Len(list) /\ t[k] = list[from(k)]
      <4> HIDE DEF from
      <4> QED BY <1>7, <2>1
    <3>2. from(j) < from(k)
      BY <1>1, <1>6, <1>9, <2>1
    <3> HIDE DEF from
    <3> QED BY <3>1, <3>2 DEF Ordered
  <2>2. CASE j = i + 1
    <3>1. k - 1 \in (i + 1)..Len(list) /\ (k - 1) + 1 = k
      BY <1>1, <1>6, <1>9, <2>2
    <3>2. t[(k - 1) + 1] = list[k - 1]
      BY <1>6, <3>1
    <3> QED BY <1>6, <2>2, <3>1, <3>2
  <2>3. CASE k = i + 1
    <3>1. j \in 1..i
      BY <1>1, <1>6, <1>9, <2>3
    <3> QED BY <1>6, <2>3, <3>1
  <2> QED BY <2>1, <2>2, <2>3
<1>10. Ordered(t)
  BY <1>8, <1>9 DEF Ordered
<1> QED BY <1>6, <1>10 DEF t

\* A page lies in one block at most, and that is the one looked up.
LEMMA BlockAtFacts ==
  ASSUME NEW list \in Seq(MmbBlocks), Ordered(list), NEW phys \in Nat, Found(list, phys)
  PROVE  /\ BlockAt(list, phys) \in 1..Len(list) /\ Holds(list[BlockAt(list, phys)], phys)
         /\ \A j \in 1..Len(list) : Holds(list[j], phys) => j = BlockAt(list, phys)
<1>1. Len(list) \in Nat
  OBVIOUS
<1>2. PICK i \in 1..Len(list) : Holds(list[i], phys)
  BY DEF Found
<1>3. ASSUME NEW j \in 1..Len(list), NEW k \in 1..Len(list), j < k,
             Holds(list[j], phys), Holds(list[k], phys)
      PROVE  FALSE
  <2>1. End(list[j]) =< list[k].phys
    BY <1>3 DEF Ordered
  <2>2. End(list[j]) \in Nat /\ list[k].phys \in Nat
    BY EndTypes
  <2> QED BY <1>3, <2>1, <2>2 DEF Holds
<1>4. \A j \in 1..Len(list) : Holds(list[j], phys) => j = i
  <2> SUFFICES ASSUME NEW j \in 1..Len(list), Holds(list[j], phys), j # i PROVE FALSE
    OBVIOUS
  <2>1. j < i \/ i < j
    BY <1>1
  <2> QED BY <1>2, <1>3, <2>1
<1>5. \A j \in 1..(i - 1) : ~Holds(list[j], phys)
  <2> SUFFICES ASSUME NEW j \in 1..(i - 1) PROVE ~Holds(list[j], phys)
    OBVIOUS
  <2>1. j \in 1..Len(list) /\ j # i
    BY <1>1
  <2> QED BY <1>4, <2>1
<1> DEFINE P(k) == Holds(list[k], phys) /\ \A j \in 1..(k - 1) : ~Holds(list[j], phys)
<1>6. P(i)
  BY <1>2, <1>5
<1>7. \A k \in 1..Len(list) : P(k) => k = i
  BY <1>4
<1>8. BlockAt(list, phys) = CHOOSE k \in 1..Len(list) : P(k)
  BY DEF BlockAt
<1> HIDE DEF P
<1>9. BlockAt(list, phys) = i
  BY <1>6, <1>7, <1>8
<1> QED BY <1>2, <1>4, <1>9

\* What is left when the block that holds a page goes
LEMMA WithoutFacts ==
  ASSUME NEW list \in Seq(MmbBlocks), Ordered(list), NEW phys \in Nat, Found(list, phys)
  PROVE  /\ Without(list, phys) \in Seq(MmbBlocks) /\ Ordered(Without(list, phys))
         /\ \A i \in 1..Len(Without(list, phys)) :
              \E j \in 1..Len(list) : Without(list, phys)[i] = list[j]
         /\ \A j \in 1..Len(list) : j # BlockAt(list, phys) =>
              \E i \in 1..Len(Without(list, phys)) : Without(list, phys)[i] = list[j]
<1> DEFINE k == BlockAt(list, phys)
           t == Without(list, phys)
<1>1. k \in 1..Len(list) /\ Len(list) \in Nat
  BY BlockAtFacts
<1>2. t = RemoveAt(list, k)
  BY DEF Without
<1> HIDE DEF k, t
<1>3. /\ t \in Seq(MmbBlocks) /\ Len(t) = Len(list) - 1
      /\ \A j \in 1..(k - 1) : t[j] = list[j]
      /\ \A j \in (k + 1)..Len(list) : t[j - 1] = list[j]
  <2>1. k \in DOMAIN list
    BY <1>1
  <2> QED BY <1>2, <2>1, RemoveAtFacts
<1> DEFINE from(j) == IF j < k THEN j ELSE j + 1
<1>4. ASSUME NEW j \in 1..Len(t)
      PROVE  from(j) \in 1..Len(list) /\ t[j] = list[from(j)]
  <2>1. CASE j < k
    <3>1. j \in 1..(k - 1) /\ j \in 1..Len(list)
      BY <1>1, <2>1
    <3>2. t[j] = list[j]
      BY <1>3, <3>1
    <3> QED BY <2>1, <3>1, <3>2
  <2>2. CASE ~(j < k)
    <3>1. j + 1 \in (k + 1)..Len(list) /\ (j + 1) - 1 = j
      BY <1>1, <1>3, <2>2
    <3>2. t[(j + 1) - 1] = list[j + 1]
      BY <1>3, <3>1
    <3> QED BY <1>1, <2>2, <3>1, <3>2
  <2> QED BY <2>1, <2>2
<1>5. \A i \in 1..Len(t) : \E j \in 1..Len(list) : t[i] = list[j]
  <2> HIDE DEF from
  <2> QED BY <1>4
<1>6. ASSUME NEW j \in 1..Len(list), j # k PROVE \E i \in 1..Len(t) : t[i] = list[j]
  <2>1. CASE j < k
    <3>1. j \in 1..(k - 1) /\ j \in 1..Len(t)
      BY <1>1, <1>3, <2>1
    <3> QED BY <1>3, <3>1
  <2>2. CASE ~(j < k)
    <3>1. j \in (k + 1)..Len(list) /\ j - 1 \in 1..Len(t)
      BY <1>1, <1>3, <1>6, <2>2
    <3> QED BY <1>3, <3>1
  <2> QED BY <2>1, <2>2
<1>7. Ordered(t)
  <2>1. \A i \in 1..Len(t) : t[i].phys >= Base /\ End(t[i]) =< Base + Pages
    BY <1>5 DEF Ordered
  <2>2. ASSUME NEW i \in 1..Len(t), NEW j \in 1..Len(t), i < j
        PROVE  End(t[i]) =< t[j].phys
    <3>1. from(i) < from(j)
      BY <1>1, <1>3, <2>2
    <3> HIDE DEF from
    <3>2. /\ from(i) \in 1..Len(list) /\ t[i] = list[from(i)]
          /\ from(j) \in 1..Len(list) /\ t[j] = list[from(j)]
      BY <1>4
    <3> QED BY <3>1, <3>2 DEF Ordered
  <2> QED BY <2>1, <2>2 DEF Ordered
<1> QED BY <1>3, <1>5, <1>6, <1>7 DEF k, t

-----------------------------------------------------------------------------
(* The registry of user mappings and the pins it accounts for.             *)

Mappings == [uvaddr : Addr, phys : Nat]

\* The registered mappings that lie in block b
Pins(b, maps) == {k \in 1..Len(maps) : Holds(b, maps[k].phys)}

\* PinnedByMaps, of any list and registry
Pinned(list, maps) ==
  \A i \in 1..Len(list) : list[i].user_kref =< Cardinality(Pins(list[i], maps))

LEMMA PinsFinite ==
  ASSUME NEW maps \in Seq(Mappings), NEW b
  PROVE  IsFiniteSet(Pins(b, maps)) /\ Cardinality(Pins(b, maps)) \in Nat
<1>1. Len(maps) \in Nat
  OBVIOUS
<1>2. IsFiniteSet(1..Len(maps))
  BY <1>1, FS_Interval
<1>3. Pins(b, maps) \in SUBSET (1..Len(maps))
  BY DEF Pins
<1> QED BY <1>2, <1>3, FS_Subset, FS_CardinalityType

LEMMA PinAdded ==
  ASSUME NEW maps \in Seq(Mappings), NEW e \in Mappings, NEW b
  PROVE  /\ <<e>> \o maps \in Seq(Mappings)
         /\ Cardinality(Pins(b, <<e>> \o maps)) >=
              Cardinality(Pins(b, maps)) + IF Holds(b, e.phys) THEN 1 ELSE 0
<1> DEFINE new == <<e>> \o maps
           old == Pins(b, maps)
           rest == Pins(b, new) \ {1}
           f    == [k \in old |-> k + 1]
<1>1. /\ new \in Seq(Mappings) /\ Len(new) = Len(maps) + 1 /\ new[1] = e
      /\ \A k \in 1..Len(maps) : new[k + 1] = maps[k]
      /\ Len(maps) \in Nat
  <2>1. <<e>> \in Seq(Mappings) /\ Len(<<e>>) = 1
    OBVIOUS
  <2>2. /\ new \in Seq(Mappings) /\ Len(new) = Len(maps) + 1 /\ Len(maps) \in Nat
        /\ \A k \in 1..(Len(maps) + 1) :
             new[k] = IF k =< 1 THEN <<e>>[k] ELSE maps[k - 1]
    BY <2>1, ConcatProperties
  <2>3. new[1] = e
    BY <2>2
  <2>4. ASSUME NEW k \in 1..Len(maps) PROVE new[k + 1] = maps[k]
    <3>1. k + 1 \in 1..(Len(maps) + 1) /\ ~(k + 1 =< 1) /\ (k + 1) - 1 = k
      BY <2>2
    <3> QED BY <2>2, <3>1
  <2> QED BY <2>2, <2>3, <2>4
<1> HIDE DEF new
<1>2. /\ IsFiniteSet(old) /\ Cardinality(old) \in Nat
      /\ IsFiniteSet(Pins(b, new)) /\ Cardinality(Pins(b, new)) \in Nat
  BY <1>1, PinsFinite
<1>3. IsFiniteSet(rest) /\ Cardinality(rest) = IF 1 \in Pins(b, new)
                                                 THEN Cardinality(Pins(b, new)) - 1
                                                 ELSE Cardinality(Pins(b, new))
  BY <1>2, FS_RemoveElement
<1>4. ASSUME NEW k \in old PROVE k \in Nat \ {0} /\ k + 1 \in rest
  BY <1>1, <1>4 DEF Pins
<1> HIDE DEF old, rest
<1>5. f \in Injection(old, rest)
  <2>1. f \in [old -> rest]
    BY <1>4
  <2>2. \A j, k \in old : f[j] = f[k] => j = k
    BY <1>4
  <2> QED BY <2>1, <2>2 DEF Injection, IsInjective
<1>6. Cardinality(old) =< Cardinality(rest)
  BY <1>3, <1>5, FS_Injection
<1>7. Holds(b, e.phys) => 1 \in Pins(b, new)
  BY <1>1 DEF Pins
<1> QED BY <1>1, <1>2, <1>3, <1>6, <1>7 DEF new, old

LEMMA PinDropped ==
  ASSUME NEW maps \in Seq(Mappings), NEW k \in 1..Len(maps), NEW b
  PROVE  /\ RemoveAt(maps, k) \in Seq(Mappings)
         /\ Cardinality(Pins(b, RemoveAt(maps, k))) >=
              Cardinality(Pins(b, maps)) - IF Holds(b, maps[k].phys) THEN 1 ELSE 0
<1> DEFINE new  == RemoveAt(maps, k)
           rest == Pins(b, maps) \ {k}
           left == Pins(b, new)
           f    == [j \in rest |-> IF j < k THEN j ELSE j - 1]
<1>1. /\ new \in Seq(Mappings) /\ Len(new) = Len(maps) - 1 /\ Len(maps) \in Nat
      /\ \A j \in 1..(k - 1) : new[j] = maps[j]
      /\ \A j \in (k + 1)..Len(maps) : new[j - 1] = maps[j]
  <2>1. k \in DOMAIN maps /\ Len(maps) \in Nat
    OBVIOUS
  <2>2. /\ new \in Seq(Mappings) /\ Len(new) = Len(maps) - 1
        /\ \A j \in 1..(k - 1) : new[j] = maps[j]
        /\ \A j \in (k + 1)..Len(maps) : new[j - 1] = maps[j]
    BY <2>1, RemoveAtFacts, Zenon
  <2> QED BY <2>1, <2>2
<1> HIDE DEF new
<1>2. /\ IsFiniteSet(Pins(b, maps)) /\ Cardinality(Pins(b, maps)) \in Nat
      /\ IsFiniteSet(left) /\ Cardinality(left) \in Nat
  BY <1>1, PinsFinite
<1>3. IsFiniteSet(rest) /\ Cardinality(rest) = IF k \in Pins(b, maps)
                                                 THEN Cardinality(Pins(b, maps)) - 1
                                                 ELSE Cardinality(Pins(b, maps))
  BY <1>2, FS_RemoveElement
<1>4. ASSUME NEW j \in rest
      PROVE  j \in Nat /\ j # k /\ (IF j < k THEN j ELSE j - 1) \in left
  <2>1. j \in 1..Len(maps) /\ j # k /\ Holds(b, maps[j].phys)
    BY DEF Pins
  <2>2. CASE j < k
    <3>1. j \in 1..(k - 1) /\ j \in 1..Len(new)
      BY <1>1, <2>1, <2>2
    <3>2. new[j] = maps[j]
      BY <1>1, <3>1
    <3> QED BY <2>1, <2>2, <3>1, <3>2 DEF Pins
  <2>3. CASE ~(j < k)
    <3>1. j \in (k + 1)..Len(maps) /\ j - 1 \in 1..Len(new)
      BY <1>1, <2>1, <2>3
    <3>2. new[j - 1] = maps[j]
      BY <1>1, <3>1
    <3> QED BY <2>1, <2>3, <3>1, <3>2 DEF Pins
  <2> QED BY <2>2, <2>3
<1> HIDE DEF rest, left
<1>5. f \in Injection(rest, left)
  <2>1. f \in [rest -> left]
    BY <1>4
  <2>2. \A i, j \in rest : f[i] = f[j] => i = j
    BY <1>4
  <2> QED BY <2>1, <2>2 DEF Injection, IsInjective
<1>6. Cardinality(rest) =< Cardinality(left)
  BY <1>2, <1>5, FS_Injection
<1>7. k \in Pins(b, maps) => Holds(b, maps[k].phys)
  BY DEF Pins
<1> QED BY <1>1, <1>2, <1>3, <1>6, <1>7 DEF new, left

-----------------------------------------------------------------------------
(* What an operation may do to the list and the registry: the zone stays   *)
(* in order, pins stay accounted for, and only blocks of given names go.   *)

Sound(list, maps) ==
  /\ list \in Seq(MmbBlocks) /\ maps \in Seq(Mappings)
  /\ Ordered(list) /\ Pinned(list, maps)

Alike(b, c) == b.phys = c.phys /\ b.size = c.size /\ b.name = c.name

\* A block of list whose name is not in gone is still in list2.
Keeps(list, list2, gone) ==
  \A i \in 1..Len(list) :
    list[i].name \notin gone => \E j \in 1..Len(list2) : Alike(list[i], list2[j])

LEMMA BlockTaken ==
  ASSUME NEW list, NEW maps, Sound(list, maps),
         NEW size \in Nat, NEW align \in Nat, NEW name \in BlockNames,
         FirstFit(list, size, align) # NoFit
  PROVE  LET b == NewBlock(FirstFit(list, size, align), size, name)
         IN  /\ Sound(Inserted(list, b), maps) /\ Keeps(list, Inserted(list, b), {})
             /\ b.phys \in Nat /\ b.name = name /\ End(b) = b.phys + size /\ size # 0
             /\ \E i \in 1..Len(Inserted(list, b)) : Inserted(list, b)[i] = b
<1> DEFINE cur == FirstFit(list, size, align)
           b   == NewBlock(cur, size, name)
           t   == Inserted(list, b)
<1>1. list \in Seq(MmbBlocks) /\ maps \in Seq(Mappings) /\ Ordered(list) /\ Pinned(list, maps)
      /\ Len(list) \in Nat
  BY DEF Sound
<1>2. /\ cur \in Nat /\ size # 0 /\ cur >= Base /\ cur + size =< Base + Pages
      /\ \E i \in 0..Len(list) :
           /\ \A j \in 1..i : End(list[j]) =< cur
           /\ \A j \in (i + 1)..Len(list) : cur + size =< list[j].phys
  BY <1>1, FirstFitFacts
<1> HIDE DEF cur
<1>3. /\ b \in MmbBlocks /\ b.phys = cur /\ b.size = size /\ b.name = name
      /\ b.user_kref = 0 /\ End(b) = cur + size
  BY <1>2 DEF NewBlock, MmbBlocks, End
<1> HIDE DEF b
<1>4. PICK i \in 0..Len(list) :
        /\ \A j \in 1..i : End(list[j]) =< b.phys
        /\ \A j \in (i + 1)..Len(list) : End(b) =< list[j].phys
  BY <1>2, <1>3
<1>5. /\ t \in Seq(MmbBlocks) /\ Len(t) = Len(list) + 1
      /\ \A j \in 1..i : t[j] = list[j]
      /\ t[i + 1] = b
      /\ \A j \in (i + 1)..Len(list) : t[j + 1] = list[j]
      /\ Ordered(t)
  <2>1. b.phys >= Base /\ End(b) =< Base + Pages
    BY <1>2, <1>3
  <2> QED BY <1>1, <1>3, <1>4, <2>1, InsertedFacts
<1> HIDE DEF t
<1>6. ASSUME NEW j \in 1..Len(t) PROVE t[j] = b \/ \E k \in 1..Len(list) : t[j] = list[k]
  <2>1. CASE j =< i
    <3>1. j \in 1..i /\ j \in 1..Len(list)
      BY <1>1, <2>1
    <3> QED BY <1>5, <3>1
  <2>2. CASE j = i + 1
    BY <1>5, <2>2
  <2>3. CASE j > i + 1
    <3>1. j - 1 \in (i + 1)..Len(list) /\ (j - 1) + 1 = j /\ j - 1 \in 1..Len(list)
      BY <1>1, <1>5, <2>3
    <3>2. t[(j - 1) + 1] = list[j - 1]
      BY <1>5, <3>1
    <3> QED BY <3>1, <3>2
  <2> QED BY <2>1, <2>2, <2>3
<1>7. Pinned(t, maps)
  <2> SUFFICES ASSUME NEW j \in 1..Len(t)
               PROVE  t[j].user_kref =< Cardinality(Pins(t[j], maps))
    BY DEF Pinned
  <2>1. CASE t[j] = b
    <3>1. Cardinality(Pins(b, maps)) \in Nat
      BY <1>1, PinsFinite
    <3> QED BY <1>3, <2>1, <3>1
  <2>2. CASE t[j] # b
    BY <1>1, <1>6, <2>2 DEF Pinned
  <2> QED BY <2>1, <2>2
<1>8. Keeps(list, t, {})
  <2> SUFFICES ASSUME NEW j \in 1..Len(list) PROVE \E k \in 1..Len(t) : t[k] = list[j]
    BY DEF Keeps, Alike
  <2>1. CASE j =< i
    <3>1. j \in 1..i /\ j \in 1..Len(t)
      BY <1>1, <1>5, <2>1
    <3> QED BY <1>5, <3>1
  <2>2. CASE j > i
    <3>1. j \in (i + 1)..Len(list) /\ j + 1 \in 1..Len(t)
      BY <1>1, <1>5, <2>2
    <3> QED BY <1>5, <3>1
  <2> QED BY <1>1, <2>1, <2>2
<1>9. i + 1 \in 1..Len(t)
  BY <1>1, <1>5
<1>10. Sound(t, maps)
  BY <1>1, <1>5, <1>7 DEF Sound
<1>11. \E j \in 1..Len(t) : t[j] = b
  BY <1>5, <1>9
<1> QED BY <1>2, <1>3, <1>8, <1>10, <1>11 DEF t, b, cur

LEMMA BlockGone ==
  ASSUME NEW list, NEW maps, Sound(list, maps), NEW phys \in Nat, Found(list, phys)
  PROVE  /\ Sound(Without(list, phys), maps)
         /\ Keeps(list, Without(list, phys), {list[BlockAt(list, phys)].name})
<1> DEFINE t == Without(list, phys)
           k == BlockAt(list, phys)
<1>1. list \in Seq(MmbBlocks) /\ maps \in Seq(Mappings) /\ Ordered(list) /\ Pinned(list, maps)
  BY DEF Sound
<1>2. /\ t \in Seq(MmbBlocks) /\ Ordered(t)
      /\ \A i \in 1..Len(t) : \E j \in 1..Len(list) : t[i] = list[j]
      /\ \A j \in 1..Len(list) : j # k => \E i \in 1..Len(t) : t[i] = list[j]
  BY <1>1, WithoutFacts
<1> HIDE DEF t, k
<1>3. Pinned(t, maps)
  BY <1>1, <1>2 DEF Pinned
<1>4. Keeps(list, t, {list[k].name})
  BY <1>2 DEF Keeps, Alike
<1> QED BY <1>1, <1>2, <1>3, <1>4 DEF Sound, t, k

\* A counter of one block changes.
LEMMA BlockCounted ==
  ASSUME NEW list \in Seq(MmbBlocks), Ordered(list), NEW i \in 1..Len(list),
         NEW c \in MmbBlocks, Alike(list[i], c)
  PROVE  /\ [list EXCEPT ![i] = c] \in Seq(MmbBlocks)
         /\ Ordered([list EXCEPT ![i] = c]) /\ Keeps(list, [list EXCEPT ![i] = c], {})
<1> DEFINE t == [list EXCEPT ![i] = c]
<1>1. /\ t \in Seq(MmbBlocks) /\ Len(t) = Len(list) /\ Len(list) \in Nat
      /\ t[i] = c /\ \A j \in 1..Len(list) : j # i => t[j] = list[j]
  OBVIOUS
<1> HIDE DEF t
<1>2. \A j \in 1..Len(list) : Alike(list[j], t[j])
  BY <1>1 DEF Alike
<1>3. \A j \in 1..Len(list) : list[j].phys = t[j].phys /\ End(list[j]) = End(t[j])
  BY <1>2 DEF Alike, End
<1>4. Ordered(t)
  BY <1>1, <1>3 DEF Ordered
<1>5. Keeps(list, t, {})
  BY <1>1, <1>2 DEF Keeps
<1> QED BY <1>1, <1>4, <1>5 DEF t

LEMMA PinsAlike ==
  ASSUME NEW maps, NEW b, NEW c, Alike(b, c)
  PROVE  Pins(b, maps) = Pins(c, maps) /\ \A phys : Holds(b, phys) <=> Holds(c, phys)
BY DEF Pins, Alike, Holds, End

\* hil_mmb_get, and a hil_mmb_put that is not the last
LEMMA RefCounted ==
  ASSUME NEW list, NEW maps, Sound(list, maps), NEW i \in 1..Len(list), NEW n \in Int
  PROVE  /\ Sound([list EXCEPT ![i].refcount = n], maps)
         /\ Keeps(list, [list EXCEPT ![i].refcount = n], {})
<1> DEFINE c == [list[i] EXCEPT !.refcount = n]
           t == [list EXCEPT ![i] = c]
<1>1. list \in Seq(MmbBlocks) /\ maps \in Seq(Mappings) /\ Ordered(list) /\ Pinned(list, maps)
      /\ Len(list) \in Nat
  BY DEF Sound
<1>2. list[i] \in MmbBlocks
  BY <1>1
<1>3. c \in MmbBlocks /\ Alike(list[i], c) /\ c.user_kref = list[i].user_kref
  BY <1>2 DEF MmbBlocks, Alike
<1> HIDE DEF c
<1>4. t \in Seq(MmbBlocks) /\ Ordered(t) /\ Keeps(list, t, {})
  BY <1>1, <1>3, BlockCounted
<1>5. Pinned(t, maps)
  <2> SUFFICES ASSUME NEW j \in 1..Len(t)
               PROVE  t[j].user_kref =< Cardinality(Pins(t[j], maps))
    BY DEF Pinned
  <2>1. j \in 1..Len(list)
    BY <1>1
  <2>2. CASE j = i
    <3>1. t[j] = c
      BY <1>1, <2>1, <2>2
    <3>2. Pins(c, maps) = Pins(list[i], maps)
      BY <1>3, PinsAlike
    <3> QED BY <1>1, <1>3, <2>2, <3>1, <3>2 DEF Pinned
  <2>3. CASE j # i
    <3>1. t[j] = list[j]
      BY <1>1, <2>1, <2>3
    <3> QED BY <1>1, <2>1, <3>1 DEF Pinned
  <2> QED BY <2>2, <2>3
<1>6. [list EXCEPT ![i].refcount = n] = t
  BY DEF c
<1> HIDE DEF t
<1> QED BY <1>1, <1>4, <1>5, <1>6 DEF Sound

\* The list and the registry after ar_mmz_user_map_add and ar_mmz_user_map_del
PinAt(list, phys, n) ==
  IF Found(list, phys) THEN [list EXCEPT ![BlockAt(list, phys)].user_kref = n] ELSE list

\* A pin more or less, for a mapping more or less of one page: only the block
\* that holds the page is counted anew.
LEMMA BlockPinned ==
  ASSUME NEW list, NEW maps, Sound(list, maps), NEW maps2 \in Seq(Mappings),
         NEW phys \in Nat, NEW n \in Nat,
         \A b : ~Holds(b, phys) => Cardinality(Pins(b, maps2)) >= Cardinality(Pins(b, maps)),
         Found(list, phys) => n =< Cardinality(Pins(list[BlockAt(list, phys)], maps2))
  PROVE  /\ Sound(PinAt(list, phys, n), maps2)
         /\ Keeps(list, PinAt(list, phys, n), {})
<1> DEFINE k == BlockAt(list, phys)
           t == PinAt(list, phys, n)
<1>1. list \in Seq(MmbBlocks) /\ maps \in Seq(Mappings) /\ Ordered(list) /\ Pinned(list, maps)
      /\ Len(list) \in Nat
  BY DEF Sound
<1>2. \A b : Cardinality(Pins(b, maps)) \in Nat /\ Cardinality(Pins(b, maps2)) \in Nat
  BY <1>1, PinsFinite
<1>3. ASSUME NEW j \in 1..Len(list), ~Holds(list[j], phys)
      PROVE  list[j].user_kref =< Cardinality(Pins(list[j], maps2))
  <2>1. list[j].user_kref \in Nat
    BY <1>1, EndTypes
  <2>2. list[j].user_kref =< Cardinality(Pins(list[j], maps))
    BY <1>1 DEF Pinned
  <2>3. Cardinality(Pins(list[j], maps2)) >= Cardinality(Pins(list[j], maps))
    BY <1>3
  <2> QED BY <1>2, <2>1, <2>2, <2>3
<1>4. CASE ~Found(list, phys)
  <2>1. t = list
    BY <1>4 DEF PinAt
  <2>2. Pinned(list, maps2)
    BY <1>3, <1>4 DEF Pinned, Found
  <2>3. Keeps(list, list, {})
    BY DEF Keeps, Alike
  <2> HIDE DEF t
  <2> QED BY <1>1, <2>1, <2>2, <2>3 DEF Sound, t
<1>5. CASE Found(list, phys)
  <2>1. k \in 1..Len(list) /\ Holds(list[k], phys)
        /\ \A j \in 1..Len(list) : Holds(list[j], phys) => j = k
    BY <1>1, <1>5, BlockAtFacts
  <2> HIDE DEF k
  <2> DEFINE c == [list[k] EXCEPT !.user_kref = n]
             u == [list EXCEPT ![k] = c]
  <2>2. list[k] \in MmbBlocks
    BY <1>1, <2>1
  <2>3. c \in MmbBlocks /\ Alike(list[k], c) /\ c.user_kref = n
    BY <2>2 DEF MmbBlocks, Alike
  <2>4. t = u
    BY <1>5 DEF PinAt, k
  <2> HIDE DEF c, t
  <2>5. u \in Seq(MmbBlocks) /\ Ordered(u) /\ Keeps(list, u, {})
    BY <1>1, <2>1, <2>3, BlockCounted
  <2>6. Pinned(u, maps2)
    <3> SUFFICES ASSUME NEW j \in 1..Len(u)
                 PROVE  u[j].user_kref =< Cardinality(Pins(u[j], maps2))
      BY DEF Pinned
    <3>1. j \in 1..Len(list)
      BY <1>1
    <3>2. CASE j = k
      <4>1. u[j] = c
        BY <1>1, <3>1, <3>2
      <4>2. Pins(c, maps2) = Pins(list[k], maps2)
        BY <2>3, PinsAlike
      <4>3. n =< Cardinality(Pins(list[k], maps2))
        BY <1>5 DEF k
      <4> QED BY <2>3, <4>1, <4>2, <4>3
    <3>3. CASE j # k
      <4>1. u[j] = list[j]
        BY <1>1, <3>1, <3>3
      <4>2. ~Holds(list[j], phys)
        BY <2>1, <3>1, <3>3
      <4> QED BY <1>3, <3>1, <4>1, <4>2
    <3> QED BY <3>2, <3>3
  <2> HIDE DEF u
  <2> QED BY <2>4, <2>5, <2>6 DEF Sound, t
<1> QED BY <1>4, <1>5

LEMMA MapAdded ==
  ASSUME Sound(mmb_list, g_user_maps), NEW uvaddr \in Addr, NEW phys \in Nat,
         user_map_add(uvaddr, phys)
  PROVE  Sound(mmb_list, g_user_maps)' /\ Keeps(mmb_list, mmb_list', {})
<1> DEFINE e == [uvaddr |-> uvaddr, phys |-> phys]
           maps2 == <<e>> \o g_user_maps
           k == BlockAt(mmb_list, phys)
<1>1. /\ mmb_list \in Seq(MmbBlocks) /\ g_user_maps \in Seq(Mappings)
      /\ Ordered(mmb_list) /\ Pinned(mmb_list, g_user_maps)
  BY DEF Sound
<1>2. e \in Mappings /\ e.phys = phys
  BY DEF Mappings
<1>3. g_user_maps' = maps2
  BY DEF user_map_add
<1> HIDE DEF e
<1>4. /\ maps2 \in Seq(Mappings)
      /\ \A b : Cardinality(Pins(b, maps2)) >=
                  Cardinality(Pins(b, g_user_maps)) + IF Holds(b, phys) THEN 1 ELSE 0
  BY <1>1, <1>2, PinAdded
<1> HIDE DEF maps2
<1>5. \A b : Cardinality(Pins(b, g_user_maps)) \in Nat /\ Cardinality(Pins(b, maps2)) \in Nat
  BY <1>1, <1>4, PinsFinite
<1>6. \A b : ~Holds(b, phys) => Cardinality(Pins(b, maps2)) >= Cardinality(Pins(b, g_user_maps))
  BY <1>4, <1>5
<1>7. CASE Found(mmb_list, phys)
  <2>1. k \in 1..Len(mmb_list) /\ Holds(mmb_list[k], phys)
    BY <1>1, <1>7, BlockAtFacts
  <2> DEFINE n == mmb_list[k].user_kref + 1
  <2>2. mmb_list' = PinAt(mmb_list, phys, n)
    BY <1>7 DEF user_map_add, PinAt
  <2> HIDE DEF k
  <2>3. mmb_list[k].user_kref \in Nat
    BY <1>1, <2>1, EndTypes
  <2>4. mmb_list[k].user_kref =< Cardinality(Pins(mmb_list[k], g_user_maps))
    BY <1>1, <2>1 DEF Pinned
  <2>5. n \in Nat /\ n =< Cardinality(Pins(mmb_list[k], maps2))
    BY <1>4, <1>5, <2>1, <2>3, <2>4
  <2> HIDE DEF n
  <2> QED BY <1>3, <1>4, <1>6, <2>2, <2>5, BlockPinned DEF k
<1>8. CASE ~Found(mmb_list, phys)
  <2>1. mmb_list' = PinAt(mmb_list, phys, 0)
    BY <1>8 DEF user_map_add, PinAt
  <2> QED BY <1>3, <1>4, <1>6, <1>8, <2>1, BlockPinned
<1> QED BY <1>7, <1>8

LEMMA MapDeleted ==
  ASSUME Sound(mmb_list, g_user_maps), NEW uvaddr, user_map_del(uvaddr)
  PROVE  Sound(mmb_list, g_user_maps)' /\ Keeps(mmb_list, mmb_list', {})
<1>1. /\ mmb_list \in Seq(MmbBlocks) /\ g_user_maps \in Seq(Mappings)
      /\ Ordered(mmb_list) /\ Pinned(mmb_list, g_user_maps) /\ Len(g_user_maps) \in Nat
  BY DEF Sound
<1>2. CASE Registered(uvaddr) = {}
  <2>1. UNCHANGED <<g_user_maps, mmb_list>>
    BY <1>2 DEF user_map_del
  <2>2. Keeps(mmb_list, mmb_list, {})
    BY DEF Keeps, Alike
  <2> QED BY <2>1, <2>2
<1>3. CASE Registered(uvaddr) # {}
  <2> DEFINE m == CHOOSE i \in Registered(uvaddr) : \A j \in Registered(uvaddr) : i =< j
  <2>1. m \in 1..Len(g_user_maps)
    <3>1. Registered(uvaddr) \subseteq 1..Len(g_user_maps)
      BY DEF Registered
    <3>2. \E i \in Registered(uvaddr) : \A j \in Registered(uvaddr) : i =< j
      <4>1. Registered(uvaddr) \subseteq Nat
        BY <1>1, <3>1
      <4> QED BY <1>3, <4>1, Least
    <3> QED BY <3>1, <3>2
  <2> DEFINE phys == g_user_maps[m].phys
             maps2 == RemoveAt(g_user_maps, m)
             k == BlockAt(mmb_list, phys)
  <2>2. /\ g_user_maps' = maps2
        /\ mmb_list' = IF Found(mmb_list, phys) /\ mmb_list[k].user_kref > 0
                         THEN [mmb_list EXCEPT ![k].user_kref = @ - 1]
                         ELSE mmb_list
    BY <1>3 DEF user_map_del
  <2> HIDE DEF m
  <2>3. phys \in Nat
    <3>1. g_user_maps[m] \in Mappings
      BY <1>1, <2>1
    <3> QED BY <3>1 DEF Mappings
  <2>4. /\ maps2 \in Seq(Mappings)
        /\ \A b : Cardinality(Pins(b, maps2)) >=
                    Cardinality(Pins(b, g_user_maps)) - IF Holds(b, phys) THEN 1 ELSE 0
    BY <1>1, <2>1, PinDropped
  <2> HIDE DEF phys, maps2
  <2>5. \A b : Cardinality(Pins(b, g_user_maps)) \in Nat /\ Cardinality(Pins(b, maps2)) \in Nat
    BY <1>1, <2>4, PinsFinite
  <2>6. \A b : ~Holds(b, phys) => Cardinality(Pins(b, maps2)) >= Cardinality(Pins(b, g_user_maps))
    BY <2>4, <2>5
  <2>7. CASE Found(mmb_list, phys)
    <3>1. k \in 1..Len(mmb_list) /\ Holds(mmb_list[k], phys)
      BY <1>1, <2>3, <2>7, BlockAtFacts
    <3> DEFINE n == IF mmb_list[k].user_kref > 0 THEN mmb_list[k].user_kref - 1
                      ELSE mmb_list[k].user_kref
    <3>2. mmb_list' = PinAt(mmb_list, phys, n)
      <4>1. CASE mmb_list[k].user_kref > 0
        BY <2>2, <2>7, <4>1 DEF PinAt
      <4>2. CASE ~(mmb_list[k].user_kref > 0)
        <5>1. mmb_list[k] \in MmbBlocks
          BY <1>1, <3>1
        <5>2. [mmb_list[k] EXCEPT !.user_kref = mmb_list[k].user_kref] = mmb_list[k]
          BY <5>1 DEF MmbBlocks
        <5>3. [mmb_list EXCEPT ![k] = mmb_list[k]] = mmb_list
          BY <1>1, <3>1
        <5>4. PinAt(mmb_list, phys, n) =
                [mmb_list EXCEPT ![k] = [mmb_list[k] EXCEPT !.user_kref = mmb_list[k].user_kref]]
          BY <2>7, <4>2 DEF PinAt
        <5> QED BY <2>2, <4>2, <5>2, <5>3, <5>4
      <4> QED BY <4>1, <4>2
    <3> HIDE DEF k
    <3>3. mmb_list[k].user_kref \in Nat
      BY <1>1, <3>1, EndTypes
    <3>4. mmb_list[k].user_kref =< Cardinality(Pins(mmb_list[k], g_user_maps))
      BY <1>1, <3>1 DEF Pinned
    <3>5. n \in Nat /\ n =< Cardinality(Pins(mmb_list[k], maps2))
      BY <2>4, <2>5, <3>1, <3>3, <3>4
    <3> HIDE DEF n
    <3> QED BY <2>2, <2>3, <2>4, <2>6, <3>2, <3>5, BlockPinned DEF k
  <2>8. CASE ~Found(mmb_list, phys)
    <3>1. mmb_list' = PinAt(mmb_list, phys, 0)
      BY <2>2, <2>8 DEF PinAt
    <3> QED BY <2>2, <2>3, <2>4, <2>6, <2>8, <3>1, BlockPinned
  <2> QED BY <2>7, <2>8
<1> QED BY <1>2, <1>3

-----------------------------------------------------------------------------
(* The invariant, and the steps of /dev/mmz_userdev.                       *)

Opened == [op : {"mmap"}, uvaddr : Addr, phys : Nat]
Closed == [op : {"unmap"}, uvaddr : Addr]

PoolStates ==
  {Unused} \cup [used : {TRUE}, base : Nat, blk_size : Nat \ {0}, blk_cnt : Nat \ {0},
                 free_map : SUBSET Nat]

HeapTypes ==
  /\ vmas \subseteq [mm : Process \cup {Child}, uvaddr : Addr, phys : Nat]
  /\ half \in [Process -> {Through} \cup Opened \cup Closed]
  /\ g_pools \in [PoolId -> PoolStates]
  /\ test \in Nat \cup {NoFit}

\* A pool in use, and the self-test, have their block in the list.
BackedBy(list, p, pool) ==
  \E i \in 1..Len(list) :
    /\ list[i].name = p /\ list[i].phys = pool.base
    /\ End(list[i]) >= pool.base + pool.blk_size * pool.blk_cnt

Backed(list, pools) == \A p \in PoolId : pools[p].used => BackedBy(list, p, pools[p])

TestBacked(list, phys) ==
  phys # NoFit => \E i \in 1..Len(list) : list[i].name = SelfTest /\ list[i].phys = phys

HeapInv ==
  /\ Sound(mmb_list, g_user_maps)
  /\ HeapTypes /\ Backed(mmb_list, g_pools) /\ TestBacked(mmb_list, test)

LEMMA KeptBacked ==
  ASSUME NEW list, NEW list2, NEW gone, Keeps(list, list2, gone),
         NEW p, p \notin gone, NEW pool, BackedBy(list, p, pool)
  PROVE  BackedBy(list2, p, pool)
<1>1. PICK i \in 1..Len(list) :
        /\ list[i].name = p /\ list[i].phys = pool.base
        /\ End(list[i]) >= pool.base + pool.blk_size * pool.blk_cnt
  BY DEF BackedBy
<1>2. PICK j \in 1..Len(list2) : Alike(list[i], list2[j])
  BY <1>1 DEF Keeps
<1> QED BY <1>1, <1>2 DEF Alike, End, BackedBy

LEMMA KeptTest ==
  ASSUME NEW list, NEW list2, NEW gone, Keeps(list, list2, gone),
         SelfTest \notin gone, NEW phys, TestBacked(list, phys)
  PROVE  TestBacked(list2, phys)
<1> SUFFICES ASSUME phys # NoFit
             PROVE  \E j \in 1..Len(list2) : list2[j].name = SelfTest /\ list2[j].phys = phys
  BY DEF TestBacked
<1>1. PICK i \in 1..Len(list) : list[i].name = SelfTest /\ list[i].phys = phys
  BY DEF TestBacked
<1>2. PICK j \in 1..Len(list2) : Alike(list[i], list2[j])
  BY <1>1 DEF Keeps
<1> QED BY <1>1, <1>2 DEF Alike

\* An operation of a client leaves the blocks of others where they are.
LEMMA OthersKept ==
  ASSUME HeapInv, UNCHANGED vbVars, NEW gone \in SUBSET Process,
         Keeps(mmb_list, mmb_list', gone)
  PROVE  Backed(mmb_list, g_pools)' /\ TestBacked(mmb_list, test)'
<1>1. g_pools' = g_pools /\ test' = test
  BY DEF vbVars
<1>2. \A p \in PoolId : p \notin gone
  BY NameAssumption
<1>3. SelfTest \notin gone
  BY NameAssumption
<1>4. TestBacked(mmb_list', test)
  BY <1>3, KeptTest DEF HeapInv
<1>5. Backed(mmb_list', g_pools)
  BY <1>2, KeptBacked DEF HeapInv, Backed
<1> QED BY <1>1, <1>4, <1>5 DEF Backed, TestBacked

\* The block an ioctl frees or counts is one the client allocated.
LEMMA OwnBlock ==
  ASSUME Sound(mmb_list, g_user_maps), NEW c \in Process, NEW i \in 1..Len(mmb_list),
         Owned(c, mmb_list[i].phys)
  PROVE  /\ mmb_list[i].phys \in Nat /\ Found(mmb_list, mmb_list[i].phys)
         /\ BlockAt(mmb_list, mmb_list[i].phys) \in 1..Len(mmb_list)
         /\ {mmb_list[BlockAt(mmb_list, mmb_list[i].phys)].name} \in SUBSET Process
         /\ mmb_list[BlockAt(mmb_list, mmb_list[i].phys)].refcount \in Int
<1>1. mmb_list \in Seq(MmbBlocks) /\ Ordered(mmb_list)
  BY DEF Sound
<1>2. mmb_list[i].phys \in Nat
  BY <1>1, EndTypes
<1>3. BlockAt(mmb_list, mmb_list[i].phys) \in 1..Len(mmb_list)
  BY <1>1, <1>2, BlockAtFacts DEF Owned
<1>4. mmb_list[BlockAt(mmb_list, mmb_list[i].phys)].refcount \in Int
  BY <1>1, <1>3, EndTypes
<1> QED BY <1>2, <1>3, <1>4 DEF Owned

\* The parts of the invariant the heap's own operations touch
ListStep ==
  /\ Sound(mmb_list, g_user_maps)'
  /\ \E gone \in SUBSET Process : Keeps(mmb_list, mmb_list', gone)

LEMMA SameList ==
  ASSUME Sound(mmb_list, g_user_maps), UNCHANGED <<mmb_list, g_user_maps>>
  PROVE  ListStep
<1>1. Keeps(mmb_list, mmb_list, {})
  BY DEF Keeps, Alike
<1> QED BY <1>1 DEF ListStep

LEMMA BlockSteps ==
  ASSUME HeapInv, NEW c \in Process,
         \/ MmbAlloc(c)
         \/ \E i \in 1..Len(mmb_list) : \/ MmbFree(c, mmb_list[i].phys)
                                        \/ MmbGet(c, mmb_list[i].phys)
                                        \/ MmbPut(c, mmb_list[i].phys)
  PROVE  ListStep /\ UNCHANGED <<vmas, half>>
<1>1. Sound(mmb_list, g_user_maps)
  BY DEF HeapInv
<1>2. CASE MmbAlloc(c)
  <2>1. PICK size \in Sizes, align \in Aligns : hil_mmb_alloc(size, align, c)
    BY <1>2 DEF MmbAlloc
  <2> DEFINE b == NewBlock(FirstFit(mmb_list, size, align), size, c)
  <2>2. /\ size \in Nat /\ align \in Nat /\ c \in BlockNames
        /\ FirstFit(mmb_list, size, align) # NoFit
        /\ mmb_list' = Inserted(mmb_list, b)
    BY <2>1, HeapAssumption DEF hil_mmb_alloc, BlockNames
  <2>3. Sound(Inserted(mmb_list, b), g_user_maps) /\ Keeps(mmb_list, Inserted(mmb_list, b), {})
    BY <1>1, <2>2, BlockTaken
  <2> HIDE DEF b
  <2> QED BY <1>2, <2>2, <2>3 DEF MmbAlloc, ListStep
<1>3. ASSUME NEW i \in 1..Len(mmb_list),
             \/ MmbFree(c, mmb_list[i].phys)
             \/ MmbGet(c, mmb_list[i].phys)
             \/ MmbPut(c, mmb_list[i].phys)
      PROVE  ListStep /\ UNCHANGED <<vmas, half>>
  <2> DEFINE phys == mmb_list[i].phys
             k    == BlockAt(mmb_list, phys)
  <2>1. UNCHANGED <<vmas, half, g_user_maps>> /\ Owned(c, phys)
    BY <1>3 DEF MmbFree, MmbGet, MmbPut
  <2>2. /\ phys \in Nat /\ Found(mmb_list, phys) /\ k \in 1..Len(mmb_list)
        /\ {mmb_list[k].name} \in SUBSET Process /\ mmb_list[k].refcount \in Int
    BY <1>1, <2>1, OwnBlock
  <2>3. \/ mmb_list' = Without(mmb_list, phys)
        \/ \E n \in Int : mmb_list' = [mmb_list EXCEPT ![k].refcount = n]
    <3>1. CASE MmbFree(c, phys)
      BY <3>1 DEF MmbFree
    <3>2. CASE MmbGet(c, phys)
      <4>1. mmb_list' = [mmb_list EXCEPT ![k].refcount = mmb_list[k].refcount + 1]
        BY <3>2 DEF MmbGet
      <4>2. mmb_list[k].refcount + 1 \in Int
        BY <2>2
      <4> QED BY <4>1, <4>2
    <3>3. CASE MmbPut(c, phys)
      <4>1. \/ mmb_list' = Without(mmb_list, phys)
            \/ mmb_list' = [mmb_list EXCEPT ![k].refcount = mmb_list[k].refcount - 1]
        BY <3>3 DEF MmbPut
      <4>2. mmb_list[k].refcount - 1 \in Int
        BY <2>2
      <4> QED BY <4>1, <4>2
    <3> QED BY <1>3, <3>1, <3>2, <3>3
  <2> HIDE DEF phys, k
  <2>4. CASE mmb_list' = Without(mmb_list, phys)
    <3>1. /\ Sound(Without(mmb_list, phys), g_user_maps)
          /\ Keeps(mmb_list, Without(mmb_list, phys), {mmb_list[k].name})
      BY <1>1, <2>2, BlockGone DEF k
    <3> QED BY <2>1, <2>2, <2>4, <3>1 DEF ListStep
  <2>5. CASE \E n \in Int : mmb_list' = [mmb_list EXCEPT ![k].refcount = n]
    <3>1. PICK n \in Int : mmb_list' = [mmb_list EXCEPT ![k].refcount = n]
      BY <2>5
    <3>2. /\ Sound([mmb_list EXCEPT ![k].refcount = n], g_user_maps)
          /\ Keeps(mmb_list, [mmb_list EXCEPT ![k].refcount = n], {})
      BY <1>1, <2>2, RefCounted
    <3> QED BY <2>1, <3>1, <3>2 DEF ListStep
  <2> QED BY <2>3, <2>4, <2>5
<1> QED BY <1>2, <1>3

\* mmap, its registration, munmap, the unmap ioctl, fork and exit
LEMMA MapSteps ==
  ASSUME HeapInv,
         \/ \E c \in Process :
              \/ MmapRegister(c) \/ UserUnmapDel(c) \/ Fork(c)
              \/ \E uvaddr \in Addr, phys \in Base..(Base + Pages - 1) :
                   MmapPages(c, uvaddr, phys)
              \/ \E v \in vmas : Munmap(c, v) \/ UserUnmap(c, v)
         \/ \E v \in vmas : ChildExits(v)
  PROVE  /\ ListStep
         /\ vmas' \subseteq [mm : Process \cup {Child}, uvaddr : Addr, phys : Nat]
         /\ half' \in [Process -> {Through} \cup Opened \cup Closed]
<1> DEFINE Vmas == [mm : Process \cup {Child}, uvaddr : Addr, phys : Nat]
           Outcomes == {Through} \cup Opened \cup Closed
<1>1. Sound(mmb_list, g_user_maps) /\ vmas \subseteq Vmas /\ half \in [Process -> Outcomes]
  BY DEF HeapInv, HeapTypes
<1>2. {} \in SUBSET Process
  OBVIOUS
<1>3. ASSUME NEW c \in Process, MmapRegister(c)
      PROVE  ListStep /\ vmas' \subseteq Vmas /\ half' \in [Process -> Outcomes]
  <2>1. half[c] \in Opened
    <3>1. half[c].op = "mmap" /\ half[c] \in Outcomes
      BY <1>1, <1>3 DEF MmapRegister
    <3> QED BY <3>1 DEF Through, Opened, Closed
  <2>2. half[c].uvaddr \in Addr /\ half[c].phys \in Nat
    BY <2>1 DEF Opened
  <2>3. ListStep
    <3>1. CASE user_map_add(half[c].uvaddr, half[c].phys)
      BY <1>1, <1>2, <2>2, <3>1, MapAdded DEF ListStep
    <3>2. CASE UNCHANGED <<g_user_maps, mmb_list>>
      BY <1>1, <3>2, SameList
    <3> QED BY <1>3, <3>1, <3>2 DEF MmapRegister
  <2> QED BY <1>1, <1>3, <2>3 DEF MmapRegister
<1>4. ASSUME NEW c \in Process, UserUnmapDel(c)
      PROVE  ListStep /\ vmas' \subseteq Vmas /\ half' \in [Process -> Outcomes]
  <2>1. ListStep
    BY <1>1, <1>2, <1>4, MapDeleted DEF UserUnmapDel, ListStep
  <2> QED BY <1>1, <1>4, <2>1 DEF UserUnmapDel
<1>5. ASSUME NEW c \in Process, Fork(c)
      PROVE  ListStep /\ vmas' \subseteq Vmas /\ half' \in [Process -> Outcomes]
  <2>1. ListStep
    BY <1>1, <1>5, SameList DEF Fork
  <2>2. \A v \in vmas : [v EXCEPT !.mm = Child] \in Vmas
    BY <1>1
  <2> QED BY <1>1, <1>5, <2>1, <2>2 DEF Fork
<1>6. ASSUME NEW c \in Process, NEW uvaddr \in Addr, NEW phys \in Base..(Base + Pages - 1),
             MmapPages(c, uvaddr, phys)
      PROVE  ListStep /\ vmas' \subseteq Vmas /\ half' \in [Process -> Outcomes]
  <2>1. ListStep
    BY <1>1, <1>6, SameList DEF MmapPages
  <2>2. phys \in Nat
    BY HeapAssumption
  <2>3. [mm |-> c, uvaddr |-> uvaddr, phys |-> phys] \in Vmas
    BY <2>2
  <2>4. [op |-> "mmap", uvaddr |-> uvaddr, phys |-> phys] \in Outcomes
    BY <2>2 DEF Opened
  <2> QED BY <1>1, <1>6, <2>1, <2>3, <2>4 DEF MmapPages
<1>7. ASSUME NEW v \in vmas, VmaClose(v)
      PROVE  ListStep /\ vmas' \subseteq Vmas
  <2>1. ListStep
    BY <1>1, <1>2, <1>7, MapDeleted DEF VmaClose, ListStep
  <2> QED BY <1>1, <1>7, <2>1 DEF VmaClose
<1>8. ASSUME NEW c \in Process, NEW v \in vmas, Munmap(c, v) \/ UserUnmap(c, v)
      PROVE  ListStep /\ vmas' \subseteq Vmas /\ half' \in [Process -> Outcomes]
  <2>1. VmaClose(v)
    BY <1>8 DEF Munmap, UserUnmap
  <2>2. [op |-> "unmap", uvaddr |-> v.uvaddr] \in Outcomes
    BY <1>1 DEF Closed
  <2>3. half' \in [Process -> Outcomes]
    BY <1>1, <1>8, <2>2 DEF Munmap, UserUnmap
  <2> QED BY <1>7, <2>1, <2>3
<1>9. ASSUME NEW v \in vmas, ChildExits(v)
      PROVE  ListStep /\ vmas' \subseteq Vmas /\ half' \in [Process -> Outcomes]
  <2>1. VmaClose(v) /\ UNCHANGED half
    BY <1>9 DEF ChildExits
  <2> QED BY <1>1, <1>7, <2>1
<1> QED BY <1>3, <1>4, <1>5, <1>6, <1>8, <1>9

LEMMA MemStep ==
  ASSUME HeapInv, MemNext, UNCHANGED vbVars
  PROVE  HeapInv'
<1>1. /\ ListStep
      /\ vmas' \subseteq [mm : Process \cup {Child}, uvaddr : Addr, phys : Nat]
      /\ half' \in [Process -> {Through} \cup Opened \cup Closed]
  <2>1. CASE \E c \in Process :
               \/ MmbAlloc(c)
               \/ \E i \in 1..Len(mmb_list) : \/ MmbFree(c, mmb_list[i].phys)
                                              \/ MmbGet(c, mmb_list[i].phys)
                                              \/ MmbPut(c, mmb_list[i].phys)
    <3>1. ListStep /\ UNCHANGED <<vmas, half>>
      BY <2>1, BlockSteps
    <3> QED BY <3>1 DEF HeapInv, HeapTypes
  <2>2. CASE \/ \E c \in Process :
                  \/ MmapRegister(c) \/ UserUnmapDel(c) \/ Fork(c)
                  \/ \E uvaddr \in Addr, phys \in Base..(Base + Pages - 1) :
                       MmapPages(c, uvaddr, phys)
                  \/ \E v \in vmas : Munmap(c, v) \/ UserUnmap(c, v)
             \/ \E v \in vmas : ChildExits(v)
    BY <2>2, MapSteps
  <2> QED BY <2>1, <2>2 DEF MemNext
<1>2. Backed(mmb_list, g_pools)' /\ TestBacked(mmb_list, test)'
  BY <1>1, OthersKept DEF ListStep
<1>3. HeapTypes'
  BY <1>1 DEF HeapInv, HeapTypes, vbVars
<1> QED BY <1>1, <1>2, <1>3 DEF HeapInv, ListStep

-----------------------------------------------------------------------------
(* The steps of /dev/ar_vb.                                                *)

LEMMA PoolFields ==
  ASSUME HeapTypes, NEW p \in PoolId, g_pools[p].used
  PROVE  g_pools[p] \in [used : {TRUE}, base : Nat, blk_size : Nat \ {0},
                         blk_cnt : Nat \ {0}, free_map : SUBSET Nat]
<1>1. g_pools[p] \in PoolStates
  BY DEF HeapTypes
<1>2. ~Unused.used
  BY DEF Unused
<1>3. g_pools[p] # Unused
  BY <1>2
<1> QED BY <1>1, <1>3 DEF PoolStates

LEMMA PoolCreated ==
  ASSUME HeapInv, NEW size \in BlkSizes, NEW cnt \in BlkCnts, vb_crtpl(size, cnt)
  PROVE  HeapInv'
<1> DEFINE fit == FirstFit(mmb_list, size * cnt, 1)
<1>1. PICK p \in PoolId :
        /\ hil_mmb_alloc(size * cnt, 1, p)
        /\ g_pools' = [g_pools EXCEPT ![p] =
             [used |-> TRUE, base |-> fit, blk_size |-> size, blk_cnt |-> cnt,
              free_map |-> 0..(cnt - 1)]]
  BY DEF vb_crtpl
<1>2. /\ UNCHANGED <<g_user_maps, vmas, half, test>> /\ size > 0 /\ cnt > 0
      /\ size \in Nat \ {0} /\ cnt \in Nat \ {0} /\ p \in BlockNames
  BY PoolAssumption DEF vb_crtpl, BlockNames
<1>3. PICK n \in Nat : n = size * cnt
  BY <1>2
<1> DEFINE b == NewBlock(FirstFit(mmb_list, n, 1), n, p)
           t == Inserted(mmb_list, b)
<1>4. FirstFit(mmb_list, n, 1) # NoFit /\ mmb_list' = t
  BY <1>1, <1>3 DEF hil_mmb_alloc
<1>5. /\ Sound(t, g_user_maps) /\ Keeps(mmb_list, t, {})
      /\ b.phys \in Nat /\ b.name = p /\ End(b) = b.phys + n
      /\ \E i \in 1..Len(t) : t[i] = b
  <2>1. Sound(mmb_list, g_user_maps)
    BY DEF HeapInv
  <2> HIDE DEF fit
  <2> QED BY <1>2, <1>4, <2>1, BlockTaken
<1>6. b.phys = fit
  BY <1>3 DEF NewBlock
<1> HIDE DEF t, b, fit
<1> DEFINE pool == [used |-> TRUE, base |-> fit, blk_size |-> size, blk_cnt |-> cnt,
                    free_map |-> 0..(cnt - 1)]
<1>7. pool \in PoolStates
  BY <1>2, <1>5, <1>6 DEF PoolStates
<1>8. BackedBy(t, p, pool)
  <2>1. pool.base = fit /\ pool.blk_size = size /\ pool.blk_cnt = cnt
    OBVIOUS
  <2>2. PICK i \in 1..Len(t) : t[i] = b
    BY <1>5
  <2>3. End(b) >= fit + size * cnt
    BY <1>3, <1>5, <1>6
  <2> HIDE DEF pool
  <2> QED BY <1>5, <1>6, <2>1, <2>2, <2>3 DEF BackedBy
<1> HIDE DEF pool
<1>9. g_pools \in [PoolId -> PoolStates] /\ g_pools' = [g_pools EXCEPT ![p] = pool]
  BY <1>1 DEF HeapInv, HeapTypes, pool
<1>10. Backed(t, g_pools')
  <2> SUFFICES ASSUME NEW q \in PoolId, g_pools'[q].used PROVE BackedBy(t, q, g_pools'[q])
    BY DEF Backed
  <2>1. CASE q = p
    <3>1. g_pools'[q] = pool
      BY <1>9, <2>1
    <3> QED BY <1>8, <2>1, <3>1
  <2>2. CASE q # p
    <3>1. g_pools'[q] = g_pools[q]
      BY <1>9, <2>2
    <3>2. BackedBy(mmb_list, q, g_pools[q])
      BY <3>1 DEF HeapInv, Backed
    <3>3. q \notin {} /\ Keeps(mmb_list, t, {})
      BY <1>5
    <3>4. BackedBy(t, q, g_pools[q])
      BY ONLY <3>2, <3>3, KeptBacked
    <3> QED BY <3>1, <3>4
  <2> QED BY <2>1, <2>2
<1>11. TestBacked(t, test)
  BY <1>5, KeptTest DEF HeapInv
<1>12. HeapTypes'
  <2>1. g_pools' \in [PoolId -> PoolStates]
    BY <1>7, <1>9
  <2> QED BY <1>2, <2>1 DEF HeapInv, HeapTypes
<1> QED BY <1>2, <1>4, <1>5, <1>10, <1>11, <1>12 DEF HeapInv

\* The pool's block is the one found at its base, so no other goes.
LEMMA PoolDestroyed ==
  ASSUME HeapInv, NEW p \in PoolId, vb_destpl(p)
  PROVE  HeapInv'
<1> DEFINE pool == g_pools[p]
           t    == Without(mmb_list, pool.base)
<1>1. /\ pool.used /\ mmb_list' = t /\ g_pools' = [g_pools EXCEPT ![p] = Unused]
      /\ UNCHANGED <<g_user_maps, vmas, half, test>>
  BY DEF vb_destpl, hil_mmb_free
<1>2. /\ Sound(mmb_list, g_user_maps) /\ HeapTypes
      /\ Backed(mmb_list, g_pools) /\ TestBacked(mmb_list, test)
  BY DEF HeapInv
<1>3. pool.base \in Nat
  BY <1>1, <1>2, PoolFields
<1>4. PICK i \in 1..Len(mmb_list) : mmb_list[i].name = p /\ mmb_list[i].phys = pool.base
  BY <1>1, <1>2 DEF Backed, BackedBy
<1>5. Holds(mmb_list[i], pool.base)
  <2>1. mmb_list[i].phys < End(mmb_list[i]) /\ mmb_list[i].phys \in Nat
    BY <1>2, EndTypes DEF Sound
  <2> QED BY <1>4, <2>1 DEF Holds
<1>6. Found(mmb_list, pool.base) /\ mmb_list[BlockAt(mmb_list, pool.base)].name = p
  <2>1. Found(mmb_list, pool.base)
    BY <1>5 DEF Found
  <2>2. i = BlockAt(mmb_list, pool.base)
    BY <1>2, <1>3, <1>5, <2>1, BlockAtFacts DEF Sound
  <2> QED BY <1>4, <2>1, <2>2
<1>7. Sound(t, g_user_maps) /\ Keeps(mmb_list, t, {p})
  BY <1>2, <1>3, <1>6, BlockGone
<1> HIDE DEF t, pool
<1>8. Backed(t, g_pools')
  <2> SUFFICES ASSUME NEW q \in PoolId, g_pools'[q].used PROVE BackedBy(t, q, g_pools'[q])
    BY DEF Backed
  <2>1. g_pools \in [PoolId -> PoolStates]
    BY <1>2 DEF HeapTypes
  <2>2. q # p
    BY <1>1, <2>1 DEF Unused
  <2>3. g_pools'[q] = g_pools[q]
    BY <1>1, <2>1, <2>2
  <2>4. BackedBy(mmb_list, q, g_pools[q]) /\ q \notin {p}
    BY <1>2, <2>2, <2>3 DEF Backed
  <2>5. BackedBy(t, q, g_pools[q])
    BY ONLY <1>7, <2>4, KeptBacked
  <2> QED BY <2>3, <2>5
<1>9. TestBacked(t, test)
  <2>1. SelfTest \notin {p}
    BY PoolAssumption DEF SelfTest
  <2> QED BY <1>2, <1>7, <2>1, KeptTest
<1>10. HeapTypes'
  <2>1. Unused \in PoolStates
    BY DEF PoolStates
  <2>2. g_pools' \in [PoolId -> PoolStates]
    BY <1>1, <1>2, <2>1 DEF HeapTypes
  <2> QED BY <1>1, <1>2, <2>2 DEF HeapTypes
<1> QED BY <1>1, <1>7, <1>8, <1>9, <1>10 DEF HeapInv

\* Blocks of a pool are handed out and given back.
LEMMA BlocksHanded ==
  ASSUME HeapInv, NEW p \in PoolId, g_pools[p].used, NEW free \in SUBSET Nat,
         g_pools' = [g_pools EXCEPT ![p].free_map = free],
         UNCHANGED <<mmb_list, g_user_maps, vmas, half, test>>
  PROVE  HeapInv'
<1> DEFINE pool == [g_pools[p] EXCEPT !.free_map = free]
<1>1. /\ Sound(mmb_list, g_user_maps) /\ HeapTypes
      /\ Backed(mmb_list, g_pools) /\ TestBacked(mmb_list, test)
  BY DEF HeapInv
<1>2. g_pools[p] \in [used : {TRUE}, base : Nat, blk_size : Nat \ {0},
                      blk_cnt : Nat \ {0}, free_map : SUBSET Nat]
  BY <1>1, PoolFields
<1>3. /\ pool \in PoolStates /\ pool.base = g_pools[p].base
      /\ pool.blk_size = g_pools[p].blk_size /\ pool.blk_cnt = g_pools[p].blk_cnt
  BY <1>2 DEF PoolStates
<1>4. g_pools \in [PoolId -> PoolStates] /\ g_pools' = [g_pools EXCEPT ![p] = pool]
  BY <1>1 DEF HeapTypes
<1> HIDE DEF pool
<1>5. Backed(mmb_list, g_pools')
  <2> SUFFICES ASSUME NEW q \in PoolId, g_pools'[q].used
               PROVE  BackedBy(mmb_list, q, g_pools'[q])
    BY DEF Backed
  <2>1. CASE q = p
    <3>1. g_pools'[q] = pool
      BY <1>4, <2>1
    <3>2. BackedBy(mmb_list, p, g_pools[p])
      BY <1>1 DEF Backed
    <3> QED BY <1>3, <2>1, <3>1, <3>2 DEF BackedBy
  <2>2. CASE q # p
    <3>1. g_pools'[q] = g_pools[q]
      BY <1>4, <2>2
    <3> QED BY <1>1, <3>1 DEF Backed
  <2> QED BY <2>1, <2>2
<1>6. HeapTypes'
  <2>1. g_pools' \in [PoolId -> PoolStates]
    BY <1>3, <1>4
  <2> QED BY <1>1, <2>1 DEF HeapTypes
<1> QED BY <1>1, <1>5, <1>6 DEF HeapInv

LEMMA BlockHandedOut ==
  ASSUME HeapInv, NEW p \in PoolId, g_pools[p].used, TakeFrom(p),
         UNCHANGED <<mmb_list, g_user_maps, vmas, half, test>>
  PROVE  HeapInv'
<1> DEFINE free == g_pools[p].free_map \ {First(g_pools[p].free_map)}
<1>1. g_pools[p].free_map \in SUBSET Nat
  BY PoolFields DEF HeapInv
<1>2. free \in SUBSET Nat
  BY <1>1
<1>3. g_pools' = [g_pools EXCEPT ![p].free_map = free]
  BY DEF TakeFrom
<1> HIDE DEF free
<1> QED BY <1>2, <1>3, BlocksHanded

LEMMA TestSteps ==
  ASSUME HeapInv, TestAlloc \/ TestFree
  PROVE  HeapInv'
<1>1. /\ Sound(mmb_list, g_user_maps) /\ HeapTypes
      /\ Backed(mmb_list, g_pools) /\ TestBacked(mmb_list, test)
      /\ UNCHANGED <<g_user_maps, vmas, half, g_pools>>
  BY DEF HeapInv, TestAlloc, TestFree
<1>2. \A p \in PoolId : p # SelfTest
  BY PoolAssumption DEF SelfTest
<1>3. CASE hil_mmb_alloc(1, 1, SelfTest) /\ test' = FirstFit(mmb_list, 1, 1)
  <2> DEFINE fit == FirstFit(mmb_list, 1, 1)
             b   == NewBlock(fit, 1, SelfTest)
             t   == Inserted(mmb_list, b)
  <2>1. fit # NoFit /\ mmb_list' = t /\ test' = fit
    BY <1>3 DEF hil_mmb_alloc
  <2>2. /\ Sound(t, g_user_maps) /\ Keeps(mmb_list, t, {})
        /\ b.phys \in Nat /\ b.name = SelfTest /\ \E i \in 1..Len(t) : t[i] = b
    <3>1. SelfTest \in BlockNames
      BY DEF BlockNames
    <3> QED BY <1>1, <2>1, <3>1, BlockTaken
  <2>3. b.phys = fit
    BY DEF NewBlock
  <2> HIDE DEF t, b, fit
  <2>4. \A p \in PoolId : g_pools[p].used => BackedBy(t, p, g_pools[p])
    <3> SUFFICES ASSUME NEW p \in PoolId, g_pools[p].used PROVE BackedBy(t, p, g_pools[p])
      OBVIOUS
    <3>1. BackedBy(mmb_list, p, g_pools[p]) /\ p \notin {} /\ Keeps(mmb_list, t, {})
      BY <1>1, <2>2 DEF Backed
    <3> QED BY ONLY <3>1, KeptBacked
  <2>5. TestBacked(t, fit)
    BY <2>2, <2>3 DEF TestBacked
  <2>6. HeapTypes'
    BY <1>1, <2>1, <2>2, <2>3 DEF HeapTypes
  <2> QED BY <1>1, <2>1, <2>2, <2>4, <2>5, <2>6 DEF HeapInv, Backed
<1>4. CASE UNCHANGED mmb_list /\ test' = NoFit
  BY <1>1, <1>4 DEF HeapInv, HeapTypes, Backed, TestBacked
<1>5. CASE TestFree
  <2> DEFINE t == Without(mmb_list, test)
  <2>1. test # NoFit /\ mmb_list' = t /\ test' = NoFit /\ test \in Nat
    BY <1>1, <1>5 DEF TestFree, hil_mmb_free, HeapTypes
  <2>2. PICK i \in 1..Len(mmb_list) : mmb_list[i].name = SelfTest /\ mmb_list[i].phys = test
    BY <1>1, <2>1 DEF TestBacked
  <2>3. Holds(mmb_list[i], test)
    <3>1. mmb_list[i].phys < End(mmb_list[i]) /\ mmb_list[i].phys \in Nat
      BY <1>1, EndTypes DEF Sound
    <3> QED BY <2>2, <3>1 DEF Holds
  <2>4. Found(mmb_list, test) /\ mmb_list[BlockAt(mmb_list, test)].name = SelfTest
    <3>1. Found(mmb_list, test)
      BY <2>3 DEF Found
    <3>2. i = BlockAt(mmb_list, test)
      BY <1>1, <2>1, <2>3, <3>1, BlockAtFacts DEF Sound
    <3> QED BY <2>2, <3>1, <3>2
  <2>5. Sound(t, g_user_maps) /\ Keeps(mmb_list, t, {SelfTest})
    BY <1>1, <2>1, <2>4, BlockGone
  <2> HIDE DEF t
  <2>6. \A p \in PoolId : g_pools[p].used => BackedBy(t, p, g_pools[p])
    <3> SUFFICES ASSUME NEW p \in PoolId, g_pools[p].used PROVE BackedBy(t, p, g_pools[p])
      OBVIOUS
    <3>1. BackedBy(mmb_list, p, g_pools[p]) /\ p \notin {SelfTest}
      BY <1>1, <1>2 DEF Backed
    <3> QED BY ONLY <2>5, <3>1, KeptBacked
  <2>7. HeapTypes' /\ TestBacked(t, NoFit)
    BY <1>1, <2>1 DEF HeapTypes, TestBacked
  <2> QED BY <1>1, <2>1, <2>5, <2>6, <2>7 DEF HeapInv, Backed
<1> QED BY <1>3, <1>4, <1>5 DEF TestAlloc

LEMMA VbStep ==
  ASSUME HeapInv, VbIoctl
  PROVE  HeapInv'
<1>1. CASE \E size \in BlkSizes, cnt \in BlkCnts : vb_crtpl(size, cnt)
  BY <1>1, PoolCreated
<1>2. CASE \E size \in BlkSizes : vb_getblk(size)
  <2>1. PICK size \in BlkSizes : vb_getblk(size)
    BY <1>2
  <2>2. UNCHANGED <<mmb_list, g_user_maps, vmas, half, test>>
    BY <2>1 DEF vb_getblk
  <2> DEFINE able == {p \in PoolId : Fits(p, size) /\ g_pools[p].free_map # {}}
  <2>3. \/ \E p \in PoolId : Fits(p, size) /\ TakeFrom(p)
        \/ able # {} /\ TakeFrom(First(able))
    BY <2>1 DEF vb_getblk
  <2>4. able # {} => First(able) \in able
    <3> SUFFICES ASSUME able # {} PROVE First(able) \in able
      OBVIOUS
    <3>1. able \subseteq Nat
      BY PoolAssumption
    <3> HIDE DEF able
    <3>2. \E n \in able : \A m \in able : n =< m
      BY <3>1, Least
    <3> QED BY <3>2 DEF First
  <2>5. \E p \in PoolId : Fits(p, size) /\ TakeFrom(p)
    BY <2>3, <2>4
  <2> QED BY <2>2, <2>5, BlockHandedOut DEF Fits
<1>3. CASE \E p \in PoolId : vb_destpl(p)
  BY <1>3, PoolDestroyed
<1>4. CASE \E p \in PoolId, idx \in 0..3 : vb_rlsblk(p, idx)
  <2>1. PICK p \in PoolId, idx \in 0..3 : vb_rlsblk(p, idx)
    BY <1>4
  <2> DEFINE free == g_pools[p].free_map \cup {idx}
  <2>2. /\ g_pools[p].used /\ g_pools' = [g_pools EXCEPT ![p].free_map = free]
        /\ UNCHANGED <<mmb_list, g_user_maps, vmas, half, test>>
    BY <2>1 DEF vb_rlsblk
  <2>3. free \in SUBSET Nat
    <3>1. g_pools[p].free_map \in SUBSET Nat
      BY <2>2, PoolFields DEF HeapInv
    <3> QED BY <3>1
  <2> HIDE DEF free
  <2> QED BY <2>2, <2>3, BlocksHanded
<1>5. CASE TestAlloc \/ TestFree
  BY <1>5, TestSteps
<1> QED BY <1>1, <1>2, <1>3, <1>4, <1>5 DEF VbIoctl

LEMMA HeapInit == PoolInit => HeapInv
<1> SUFFICES ASSUME PoolInit PROVE HeapInv
  OBVIOUS
<1>1. /\ mmb_list = <<>> /\ g_user_maps = <<>> /\ vmas = {}
      /\ half = [c \in Process |-> Through]
      /\ g_pools = [p \in PoolId |-> Unused] /\ test = NoFit
  BY DEF PoolInit, MemInit
<1>2. Len(mmb_list) = 0 /\ mmb_list \in Seq(MmbBlocks) /\ g_user_maps \in Seq(Mappings)
  BY <1>1
<1>3. Sound(mmb_list, g_user_maps)
  BY <1>2 DEF Sound, Ordered, Pinned
<1>4. HeapTypes
  BY <1>1 DEF HeapTypes, PoolStates
<1>5. Backed(mmb_list, g_pools)
  BY <1>1 DEF Backed, Unused
<1>6. TestBacked(mmb_list, test)
  BY <1>1 DEF TestBacked
<1> QED BY <1>3, <1>4, <1>5, <1>6 DEF HeapInv

LEMMA HeapStep == HeapInv /\ [PoolNext]_<<memVars, vbVars>> => HeapInv'
<1> SUFFICES ASSUME HeapInv, [PoolNext]_<<memVars, vbVars>> PROVE HeapInv'
  OBVIOUS
<1>1. CASE MemNext /\ UNCHANGED vbVars
  BY <1>1, MemStep
<1>2. CASE VbIoctl
  BY <1>2, VbStep
<1>3. CASE UNCHANGED <<memVars, vbVars>>
  BY <1>3 DEF memVars, vbVars, HeapInv, HeapTypes
<1> QED BY <1>1, <1>2, <1>3 DEF PoolNext

-----------------------------------------------------------------------------
(* What follows from the invariant.                                        *)

\* Block i of a pool lies in it and before block i + 1.
LEMMA BlockOffsets ==
  ASSUME NEW size \in Nat \ {0}, NEW cnt \in Nat \ {0}, NEW i \in 0..(cnt - 1)
  PROVE  /\ i * size \in Nat /\ i * size + size =< size * cnt
         /\ (i * size) \div size = i
         /\ \A j \in Nat : i < j => i * size + size =< j * size
<1>1. i \in Nat /\ i * size \in Nat
  OBVIOUS
<1>2. ASSUME NEW j \in Nat, i < j PROVE i * size + size =< j * size
  <2>1. PICK d \in Nat : j = i + 1 + d
    <3>1. j - i - 1 \in Nat /\ j = i + 1 + (j - i - 1)
      BY <1>1, <1>2
    <3> QED BY <3>1
  <2>2. j * size = i * size + size + d * size
    BY <1>1, <2>1
  <2>3. d * size \in Nat
    OBVIOUS
  <2> QED BY <1>1, <2>2, <2>3
<1>3. i * size + size =< size * cnt
  <2>1. i * size + size =< cnt * size
    BY <1>2
  <2>2. cnt * size = size * cnt
    OBVIOUS
  <2> QED BY <2>1, <2>2
<1>4. (i * size) \div size = i
  BY <1>1
<1> QED BY <1>1, <1>2, <1>3, <1>4

\* Two pools in use have different blocks of the zone, so they do not overlap.
LEMMA PoolsApart ==
  ASSUME HeapInv, NEW p \in PoolId, NEW q \in PoolId, p # q,
         g_pools[p].used, g_pools[q].used
  PROVE  PoolEnd(p) =< g_pools[q].base \/ PoolEnd(q) =< g_pools[p].base
<1>1. mmb_list \in Seq(MmbBlocks) /\ Ordered(mmb_list) /\ Backed(mmb_list, g_pools)
      /\ HeapTypes /\ Len(mmb_list) \in Nat
  BY DEF HeapInv, Sound
<1>2. PICK i \in 1..Len(mmb_list) :
        /\ mmb_list[i].name = p /\ mmb_list[i].phys = g_pools[p].base
        /\ End(mmb_list[i]) >= PoolEnd(p)
  BY <1>1 DEF Backed, BackedBy, PoolEnd
<1>3. PICK j \in 1..Len(mmb_list) :
        /\ mmb_list[j].name = q /\ mmb_list[j].phys = g_pools[q].base
        /\ End(mmb_list[j]) >= PoolEnd(q)
  BY <1>1 DEF Backed, BackedBy, PoolEnd
<1>4. i < j \/ j < i
  BY <1>1, <1>2, <1>3
<1>5. /\ g_pools[p].base \in Nat /\ g_pools[q].base \in Nat
      /\ PoolEnd(p) \in Nat /\ PoolEnd(q) \in Nat
  <2>1. ASSUME NEW r \in PoolId, g_pools[r].used
        PROVE  g_pools[r].base \in Nat /\ PoolEnd(r) \in Nat
    <3>1. /\ g_pools[r].base \in Nat /\ g_pools[r].blk_size \in Nat
          /\ g_pools[r].blk_cnt \in Nat
      BY <1>1, <2>1, PoolFields
    <3>2. \A x, y, z \in Nat : x + y * z \in Nat
      OBVIOUS
    <3> QED BY <3>1, <3>2 DEF PoolEnd
  <2> QED BY <2>1
<1>6. End(mmb_list[i]) \in Nat /\ End(mmb_list[j]) \in Nat
  BY <1>1, EndTypes
<1>7. CASE i < j
  <2>1. End(mmb_list[i]) =< mmb_list[j].phys
    BY <1>1, <1>7 DEF Ordered
  <2> QED BY <1>2, <1>3, <1>5, <1>6, <2>1
<1>8. CASE j < i
  <2>1. End(mmb_list[j]) =< mmb_list[i].phys
    BY <1>1, <1>8 DEF Ordered
  <2> QED BY <1>2, <1>3, <1>5, <1>6, <2>1
<1> QED BY <1>4, <1>7, <1>8

LEMMA HandlesStayApart == HeapInv => HandlesApart
<1> SUFFICES ASSUME HeapInv PROVE HandlesApart
  OBVIOUS
<1>1. BlocksApart /\ PoolBacked
  BY DEF HeapInv, Sound, Ordered, BlocksApart, Backed, BackedBy, PoolBacked, PoolEnd
<1>2. ASSUME NEW p \in PoolId, g_pools[p].used, NEW i \in 0..(g_pools[p].blk_cnt - 1)
      PROVE  /\ hl2pa(p, i) \in Nat /\ hl2pa(p, i) = g_pools[p].base + i * g_pools[p].blk_size
             /\ g_pools[p].blk_size \in Nat \ {0}
             /\ hl2pa(p, i) >= g_pools[p].base
             /\ hl2pa(p, i) + g_pools[p].blk_size =< PoolEnd(p)
             /\ g_pools[p].base \in Nat /\ PoolEnd(p) \in Nat
             /\ (hl2pa(p, i) - g_pools[p].base) \div g_pools[p].blk_size = i
             /\ \A j \in Nat : i < j =>
                  hl2pa(p, i) + g_pools[p].blk_size =< hl2pa(p, j)
  <2> DEFINE base == g_pools[p].base
             size == g_pools[p].blk_size
             cnt  == g_pools[p].blk_cnt
  <2>1. base \in Nat /\ size \in Nat \ {0} /\ cnt \in Nat \ {0}
    BY <1>2, PoolFields DEF HeapInv
  <2>2. PoolEnd(p) = base + size * cnt /\ \A j : hl2pa(p, j) = base + j * size
    BY DEF PoolEnd, hl2pa
  <2>3. i \in 0..(cnt - 1)
    BY <1>2
  <2> HIDE DEF base, size, cnt
  <2>4. /\ i * size \in Nat /\ i * size + size =< size * cnt
        /\ (i * size) \div size = i
        /\ \A j \in Nat : i < j => i * size + size =< j * size
    BY <2>1, <2>3, BlockOffsets
  <2>5. size * cnt \in Nat /\ \A j \in Nat : j * size \in Nat
    BY <2>1
  <2>6. (base + i * size) - base = i * size
    BY <2>1, <2>4
  <2>7. (hl2pa(p, i) - base) \div size = i
    BY <2>2, <2>4, <2>6
  <2>8. ASSUME NEW j \in Nat, i < j PROVE hl2pa(p, i) + size =< hl2pa(p, j)
    <3>1. i * size + size =< j * size /\ j * size \in Nat
      BY <2>4, <2>5, <2>8
    <3> QED BY <2>1, <2>2, <2>4, <3>1
  <2>9. /\ hl2pa(p, i) \in Nat /\ hl2pa(p, i) >= base
        /\ hl2pa(p, i) + size =< PoolEnd(p) /\ PoolEnd(p) \in Nat
    BY <2>1, <2>2, <2>4, <2>5
  <2> QED BY <2>1, <2>2, <2>7, <2>8, <2>9 DEF base, size
<1>3. ASSUME NEW p \in PoolId, g_pools[p].used, NEW q \in PoolId, g_pools[q].used,
             NEW i \in 0..(g_pools[p].blk_cnt - 1), NEW j \in 0..(g_pools[q].blk_cnt - 1),
             <<p, i>> # <<q, j>>
      PROVE  \/ hl2pa(p, i) + g_pools[p].blk_size =< hl2pa(q, j)
             \/ hl2pa(q, j) + g_pools[q].blk_size =< hl2pa(p, i)
  <2>1. CASE p # q
    <3>1. PoolEnd(p) =< g_pools[q].base \/ PoolEnd(q) =< g_pools[p].base
      BY <1>3, <2>1, PoolsApart
    <3>2. /\ hl2pa(p, i) >= g_pools[p].base /\ hl2pa(p, i) + g_pools[p].blk_size =< PoolEnd(p)
          /\ hl2pa(p, i) \in Nat /\ g_pools[p].blk_size \in Nat
          /\ g_pools[p].base \in Nat /\ PoolEnd(p) \in Nat
      BY <1>2, <1>3
    <3>3. /\ hl2pa(q, j) >= g_pools[q].base /\ hl2pa(q, j) + g_pools[q].blk_size =< PoolEnd(q)
          /\ hl2pa(q, j) \in Nat /\ g_pools[q].blk_size \in Nat
          /\ g_pools[q].base \in Nat /\ PoolEnd(q) \in Nat
      BY <1>2, <1>3
    <3> QED BY <3>1, <3>2, <3>3
  <2>2. CASE p = q
    <3>1. i \in Nat /\ j \in Nat /\ (i < j \/ j < i)
      <4>1. g_pools[p].blk_cnt \in Nat
        BY <1>3, PoolFields DEF HeapInv
      <4> QED BY <1>3, <2>2, <4>1
    <3> QED BY <1>2, <1>3, <2>2, <3>1
  <2> QED BY <2>1, <2>2
<1>4. ASSUME NEW p \in PoolId, g_pools[p].used, NEW i \in 0..(g_pools[p].blk_cnt - 1)
      PROVE  pa2hl(hl2pa(p, i)) = <<p, i>>
  <2> DEFINE phys == hl2pa(p, i)
             holding == {r \in PoolId : g_pools[r].used
                           /\ phys >= g_pools[r].base /\ phys < PoolEnd(r)}
  <2>1. /\ phys \in Nat /\ g_pools[p].base \in Nat /\ PoolEnd(p) \in Nat
        /\ g_pools[p].blk_size \in Nat \ {0}
        /\ phys >= g_pools[p].base /\ phys + g_pools[p].blk_size =< PoolEnd(p)
        /\ (phys - g_pools[p].base) \div g_pools[p].blk_size = i
    BY <1>2, <1>4
  <2> HIDE DEF phys
  <2>2. p \in holding
    BY <1>4, <2>1
  <2>3. ASSUME NEW r \in holding, r # p PROVE FALSE
    <3>1. PoolEnd(p) =< g_pools[r].base \/ PoolEnd(r) =< g_pools[p].base
      BY <1>4, <2>3, PoolsApart
    <3>2. g_pools[r].base \in Nat /\ g_pools[r].blk_size \in Nat /\ g_pools[r].blk_cnt \in Nat
      BY <2>3, PoolFields DEF HeapInv
    <3>3. PoolEnd(r) \in Nat
      BY <3>2 DEF PoolEnd
    <3> QED BY <2>1, <2>3, <3>1, <3>2, <3>3
  <2>4. holding = {p}
    <3> HIDE DEF holding
    <3> QED BY <2>2, <2>3
  <2>5. pool_by_phys(phys) = p
    <3>1. pool_by_phys(phys) = IF holding = {} THEN NoFit ELSE First(holding)
      BY DEF pool_by_phys
    <3>2. First({p}) = p
      <4>1. p \in Nat
        BY PoolAssumption
      <4> QED BY <4>1 DEF First
    <3> HIDE DEF holding
    <3> QED BY <2>4, <3>1, <3>2
  <2>6. pa2hl(phys) = <<p, i>>
    BY <2>1, <2>5 DEF pa2hl
  <2> QED BY <2>6 DEF phys
<1> QED BY <1>1, <1>3, <1>4 DEF HandlesApart

\* The zone gives memory out once, serves every request that fits, leads an address
\* back to its handle, and pins a block for registered mappings only: for any zone,
\* any clients, pools and requests, and whichever registrations fail
\* (zone_alloc_locked, ar_mmz_user_map_add and _del, ar_vb.c).
THEOREM HeapIsSound == PoolSpec => []HeapSound
<1>1. HeapInv => HeapSound
  <2> SUFFICES ASSUME HeapInv PROVE HeapSound
    OBVIOUS
  <2>1. HandlesApart
    BY HandlesStayApart
  <2>2. FirstFitComplete
    BY <2>1, WalkIsComplete DEF HeapInv, Sound, HandlesApart
  <2>3. PinnedByMaps
    BY DEF HeapInv, Sound, Pinned, Pins, PinnedByMaps
  <2> QED BY <2>1, <2>2, <2>3 DEF HeapSound
<1> QED BY <1>1, HeapInit, HeapStep, PTL DEF PoolSpec
=============================================================================
