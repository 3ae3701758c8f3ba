---------------------------- MODULE CaptureNode ----------------------------
(***************************************************************************)
(* The capture node of ar-cvisp.c: the buffers of its vb2 queue, the frame *)
(* tick that rotates them through the block's write pointer, and the       *)
(* vendor's own ring that the block writes when the node does not stream.  *)
(*                                                                         *)
(* The tick runs in the ISP's interrupt, under the ISP's hook lock.  Ioctls *)
(* are serialised by cv->lock, and share buffer_lock with the tick: each   *)
(* section under that lock is a step, and so is the tick's last statement, *)
(* which runs after it.                                                    *)
(***************************************************************************)
EXTENDS Naturals, Sequences, FiniteSets, SequencesExt

CONSTANTS
  Frame,       \* the node's buffers
  NoFrame,
  Depth,       \* depth: ticks a buffer is held before it is handed back
  RingSlots,   \* the vendor's ring has slots 0..RingSlots - 1
  PromptTick   \* a tick ends before a STREAMOFF that overlaps it does

\* ar_cvisp_probe refuses a depth of 0; the registers point to a buffer or to
\* a ring slot.
ASSUME RingAndFrames ==
  /\ Depth \in Nat \ {0} /\ RingSlots \in Nat \ {0}
  /\ NoFrame \notin Frame
  /\ Frame \cap 0..(RingSlots - 1) = {}

VARIABLES
  node,        \* "off", "up", "leaving" or "gone"
  hook,        \* the ISP calls the tick
  vb2,         \* the queue of the vb2 core, see VbIdle
  buffer_list, \* buffers to arm, in the order queued
  held,        \* 1..Depth -> a buffer the block may write, youngest first
  giving,      \* the buffer a running tick is about to hand back
  armed,       \* what the block's plane registers point to
  next,        \* the ring slot to arm next
  configured, streaming,
  v_at         \* the step of the ioctl under cv->lock

nodeVars == <<node, hook, vb2, buffer_list, held, giving, armed, next,
              configured, streaming, v_at>>

\* q->min_queued_buffers
MinQueued == Depth + 1

NoneHeld == [i \in 1..Depth |-> NoFrame]

\* state: whose a buffer is; queued: every buffer not with the user, in the
\* order queued; done: those to be dequeued; on: STREAMON was issued;
\* started: start_streaming was called; by: the QBUF that starts the stream.
VbIdle == [state |-> [b \in Frame |-> "user"], queued |-> <<>>, done |-> <<>>,
           on |-> FALSE, started |-> FALSE, by |-> NoFrame]

(***************************************************************************)
(* The frame tick.                                                         *)
(***************************************************************************)

\* Mutant: the youngest buffer is handed back.
OldestYoungest == held[1]

\* What a tick hands back: the block is done with it for Depth ticks.
Oldest == held[Depth]

\* Mutant: the block is left writing the last buffer armed.
BackToRingNot == UNCHANGED <<armed, next>>

BackToRing == armed' = 0 /\ next' = 1 % RingSlots

\* ar_cvisp_cycle
Cycled == (next + 1) % RingSlots

\* The node does not stream: the next ring slot is armed, by the tick or by
\* a write to debugfs, which wants the block configured.
RingTick ==
  /\ ~streaming
  /\ \/ hook /\ giving = NoFrame
     \/ node \in {"up", "leaving"} /\ configured
  /\ armed' = next /\ next' = Cycled
  /\ UNCHANGED <<node, hook, vb2, buffer_list, held, giving, configured,
                 streaming, v_at>>

\* It streams: the first buffer of the list is armed and the oldest held one
\* leaves.  With the list empty the tick counts a drop, and no more.
FrameTick ==
  /\ hook /\ giving = NoFrame
  /\ streaming /\ buffer_list # <<>>
  /\ buffer_list' = Tail(buffer_list)
  /\ giving' = Oldest
  /\ held' = [i \in 1..Depth |->
                IF i = 1 THEN Head(buffer_list) ELSE held[i - 1]]
  /\ armed' = Head(buffer_list) /\ next' = Cycled
  /\ UNCHANGED <<node, hook, vb2, configured, streaming, v_at>>

\* vb2_buffer_done, which ignores a buffer the driver does not own
TickGives ==
  /\ giving # NoFrame
  /\ vb2' = IF vb2.state[giving] # "active" THEN vb2
            ELSE [vb2 EXCEPT !.state[giving] = "done",
                             !.done = Append(@, giving)]
  /\ giving' = NoFrame
  /\ UNCHANGED <<node, hook, buffer_list, held, armed, next, configured,
                 streaming, v_at>>

(***************************************************************************)
(* QBUF, DQBUF and STREAMON.                                               *)
(***************************************************************************)

Ioctl == node \in {"up", "leaving"} /\ v_at = "none"

\* vb2_start_streaming gives the driver every queued buffer and calls
\* ar_cvisp_start_streaming.
Starting(vb, by) ==
  /\ vb2' = [vb EXCEPT !.started = TRUE, !.by = by,
               !.state = [b \in Frame |-> IF @[b] = "queued" THEN "active"
                                                              ELSE @[b]]]
  /\ buffer_list' = vb.queued
  /\ v_at' = "start"

Qbuf(b) ==
  LET vb == [vb2 EXCEPT !.state[b] = "queued", !.queued = Append(@, b)] IN
  /\ Ioctl
  /\ vb2.state[b] = "user"
  /\ \/ /\ vb2.started
        /\ vb2' = [vb EXCEPT !.state[b] = "active"]
        /\ buffer_list' = Append(buffer_list, b)
        /\ UNCHANGED v_at
     \/ /\ ~vb2.started /\ vb2.on /\ Len(vb.queued) >= MinQueued
        /\ Starting(vb, b)
     \/ /\ ~vb2.started /\ (vb2.on => Len(vb.queued) < MinQueued)
        /\ vb2' = vb
        /\ UNCHANGED <<buffer_list, v_at>>
  /\ UNCHANGED <<node, hook, held, giving, armed, next, configured, streaming>>

Dqbuf ==
  /\ Ioctl
  /\ vb2.done # <<>>
  /\ vb2' = [vb2 EXCEPT !.done = Tail(@),
               !.queued = RemoveFirst(@, Head(vb2.done)),
               !.state[Head(vb2.done)] = "user"]
  /\ UNCHANGED <<node, hook, buffer_list, held, giving, armed, next,
                 configured, streaming, v_at>>

StreamOn ==
  /\ Ioctl /\ ~vb2.on
  /\ \/ /\ Len(vb2.queued) >= MinQueued
        /\ Starting([vb2 EXCEPT !.on = TRUE], NoFrame)
     \/ /\ Len(vb2.queued) < MinQueued
        /\ vb2' = [vb2 EXCEPT !.on = TRUE]
        /\ UNCHANGED <<buffer_list, v_at>>
  /\ UNCHANGED <<node, hook, held, giving, armed, next, configured, streaming>>

\* ar_cvisp_configure leaves ring slot 0 armed.  It takes no lock.
Configure ==
  BackToRing /\ configured' = TRUE

\* The chain is up, and the block configured if it was not ...
StartConfigures ==
  /\ v_at = "start"
  /\ \/ configured /\ UNCHANGED <<armed, next, configured>>
     \/ ~configured /\ Configure
  /\ v_at' = "arm"
  /\ UNCHANGED <<node, hook, vb2, buffer_list, held, giving, streaming>>

\* ... then the first buffer is armed, streaming set last.
StartArms ==
  /\ v_at = "arm"
  /\ buffer_list # <<>>
  /\ buffer_list' = Tail(buffer_list)
  /\ held' = [NoneHeld EXCEPT ![1] = Head(buffer_list)]
  /\ armed' = Head(buffer_list)
  /\ streaming' = TRUE
  /\ vb2' = [vb2 EXCEPT !.by = NoFrame]
  /\ v_at' = "none"
  /\ UNCHANGED <<node, hook, giving, next, configured>>

\* rotate is off, or the chain does not come up: every buffer goes back to
\* the queue, and the QBUF that started the stream takes its own back.  A
\* STREAMON that fails is not in force.
StartFails ==
  /\ v_at = "start"
  /\ buffer_list' = <<>> /\ held' = NoneHeld
  /\ vb2' = [vb2 EXCEPT
       !.state = [b \in Frame |->
                    CASE b = vb2.by -> "user"
                      [] b # vb2.by /\ @[b] = "active" -> "queued"
                      [] OTHER -> @[b]],
       !.queued = RemoveFirst(@, vb2.by),
       !.started = FALSE, !.on = (vb2.by # NoFrame), !.by = NoFrame]
  /\ v_at' = "none"
  /\ UNCHANGED <<node, hook, giving, armed, next, configured, streaming>>

(***************************************************************************)
(* STREAMOFF, the close of the streaming file, and remove.                 *)
(***************************************************************************)

StreamOff ==
  /\ Ioctl
  /\ v_at' = IF vb2.started THEN "stop" ELSE "cancel"
  /\ UNCHANGED <<node, hook, vb2, buffer_list, held, giving, armed, next,
                 configured, streaming>>

\* ar_cvisp_stop_streaming puts the ring back under the block ...
StopRings ==
  /\ v_at = "stop"
  /\ streaming' = FALSE
  /\ BackToRing
  /\ v_at' = "return"
  /\ UNCHANGED <<node, hook, vb2, buffer_list, held, giving, configured>>

\* ... and ar_cvisp_return_buffers takes what the driver holds.
StopReturns ==
  /\ v_at = "return"
  /\ buffer_list' = <<>> /\ held' = NoneHeld
  /\ v_at' = "cancel"
  /\ UNCHANGED <<node, hook, vb2, giving, armed, next, configured, streaming>>

\* The buffers are done with an error, and __vb2_queue_cancel gives all of
\* them to the user, one the driver kept included.
Cancel ==
  /\ v_at = "cancel"
  /\ PromptTick => giving = NoFrame
  /\ vb2' = VbIdle
  /\ v_at' = "none"
  /\ node' = IF node = "gone" THEN "off" ELSE node
  /\ UNCHANGED <<hook, buffer_list, held, giving, armed, next, configured,
                 streaming>>

DebugConfigure ==
  /\ node \in {"up", "leaving"}
  /\ Configure
  /\ UNCHANGED <<node, hook, vb2, buffer_list, held, giving, streaming, v_at>>

(***************************************************************************)
(* Probe and remove: the hook is set last, and taken back first; the hook  *)
(* lock makes the latter wait for a running tick.                          *)
(***************************************************************************)

Probe ==
  /\ node = "off"
  /\ node' = "up"
  /\ configured' = FALSE /\ next' = 0
  /\ UNCHANGED <<hook, vb2, buffer_list, held, giving, armed, streaming, v_at>>

ProbeHooks ==
  /\ node = "up" /\ ~hook
  /\ hook' = TRUE
  /\ UNCHANGED <<node, vb2, buffer_list, held, giving, armed, next, configured,
                 streaming, v_at>>

RemoveUnhooks ==
  /\ node = "up" /\ hook
  /\ giving = NoFrame
  /\ hook' = FALSE /\ node' = "leaving"
  /\ UNCHANGED <<vb2, buffer_list, held, giving, armed, next, configured,
                 streaming, v_at>>

\* vb2_video_unregister_device: no ioctl starts any more, and a stream is
\* stopped.
RemoveUnregisters ==
  /\ node = "leaving" /\ v_at = "none"
  /\ node' = "gone"
  /\ v_at' = IF vb2.started THEN "stop" ELSE "cancel"
  /\ UNCHANGED <<hook, vb2, buffer_list, held, giving, armed, next, configured,
                 streaming>>

NodeInit ==
  /\ node = "off" /\ hook = FALSE /\ vb2 = VbIdle
  /\ buffer_list = <<>> /\ held = NoneHeld /\ giving = NoFrame
  /\ armed = 0 /\ next = 0 /\ configured = FALSE /\ streaming = FALSE
  /\ v_at = "none"

NodeNext ==
  \/ RingTick \/ FrameTick \/ TickGives
  \/ \E b \in Frame : Qbuf(b)
  \/ Dqbuf \/ StreamOn \/ StartConfigures \/ StartArms \/ StartFails
  \/ StreamOff \/ StopRings \/ StopReturns \/ Cancel \/ DebugConfigure
  \/ Probe \/ ProbeHooks \/ RemoveUnhooks \/ RemoveUnregisters

NodeSpec == NodeInit /\ [][NodeNext]_nodeVars

(***************************************************************************)
(* Properties.                                                             *)
(***************************************************************************)

\* The block never writes a buffer that is with the user or was handed back:
\* whatever its plane registers point to is the ring or is the driver's.
ArmedByDriver == armed \in Frame => vb2.state[armed] = "active"

Present(b) == IF b = NoFrame THEN <<>> ELSE <<b>>

\* The block may write k buffers, the youngest in the first place.
Filled(k) == \A i \in 1..Depth : held[i] # NoFrame <=> i =< k

\* The buffers the driver has, oldest first, when k are held.
Rotation(k) == Present(giving) \o [i \in 1..k |-> held[k + 1 - i]] \o buffer_list

\* No buffer is lost, had twice or overtaken: while the stream runs, those
\* done and those in the rotation are the queued ones, in the order queued;
\* and when it has stopped or failed to start, the driver has none.
BuffersConserved ==
  v_at = "none" =>
    \E k \in 0..Depth :
      /\ Filled(k)
      /\ IF vb2.started THEN vb2.queued = vb2.done \o Rotation(k)
                        ELSE Rotation(k) = <<>>

\* The buffers of the node: the two above.
BuffersKept == ArmedByDriver /\ BuffersConserved
=============================================================================
