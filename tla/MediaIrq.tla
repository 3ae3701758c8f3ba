------------------------------ MODULE MediaIrq ------------------------------
(***************************************************************************)
(* The interrupt forwarder of ar_mpp_drv.c.  A client registers the        *)
(* interrupt line of an engine it drives from userspace; the handler masks *)
(* the line and queues an event in the ring of the client's descriptor;    *)
(* the client waits for the event and enables the line again.              *)
(*                                                                         *)
(* reg_lock guards the table of slots, but request_irq, free_irq,          *)
(* disable_irq and enable_irq run after it is dropped, and the handler     *)
(* takes no lock to read its slot's owner: each is a step of its own.      *)
(***************************************************************************)
EXTENDS Naturals, FiniteSets

CONSTANTS
  Virq,      \* the interrupt lines of the table built at probe
  Slot,      \* the engines[] table: 1..MAX_ENGINES
  Fd,        \* descriptors, each opened once
  Task,      \* the threads that issue ioctls
  FdOf,      \* thread -> the descriptor it uses
  RingSize,  \* MPP_RING_SZ: a ring holds one event less
  NoFd, NoEngine, NoEvent,
  MaxDepth   \* bound: a line is disabled so often at most

\* The ring of a descriptor has room for every line of the table
\* (MPP_RING_SZ is 64, MAX_ENGINES 32).
ASSUME RingHoldsTable ==
  /\ IsFiniteSet(Virq) /\ NoEvent \notin Virq
  /\ RingSize \in Nat /\ Cardinality(Virq) < RingSize
  /\ NoEngine \notin Slot /\ NoFd \notin Fd
  /\ FdOf \in [Task -> Fd]

VARIABLES
  engines,   \* slot -> [active, freeing, virq, owner]
  line,      \* virq -> the slot its handler was requested for
  depth,     \* virq -> how often the line is disabled
  raised,    \* virq -> the engine signals completion
  handler,   \* virq -> where a running handler is: [at, slot, fd]
  fds,       \* fd -> [open, freed, ring, head, tail]
  call,      \* thread -> the ioctl it is in: [at, virq, slot]
  owed       \* fd -> virq -> enables the client still has to issue

irqVars == <<engines, line, depth, raised, handler, fds, call, owed>>

Vacant == [active |-> FALSE, freeing |-> FALSE, virq |-> NoEvent,
           owner |-> NoFd]
NoHandler == [at |-> "none", slot |-> NoEngine, fd |-> NoFd]
Empty == [i \in 0..(RingSize - 1) |-> NoEvent]
NoCall == [at |-> "none", virq |-> NoEvent, slot |-> NoEngine]

InCall(t, at, v, s) ==
  call' = [call EXCEPT ![t] = [at |-> at, virq |-> v, slot |-> s]]
IrqReturn(t) == call' = [call EXCEPT ![t] = NoCall]

\* The tables are searched from the front.
IsFirst(n, S) == n \in S /\ \A m \in S : n =< m

(***************************************************************************)
(* The handler, in interrupt context.                                      *)
(***************************************************************************)

\* Mutant: the handler does not mask the line.
MaskedNot(v) == depth

\* disable_irq_nosync, on a line that is enabled
Masked(v) == [depth EXCEPT ![v] = 1]

\* mpp_irq_handler masks the line and reads the owner ...
HandlerMasks(v) ==
  /\ raised[v] /\ depth[v] = 0 /\ line[v] # NoEngine
  /\ handler[v] = NoHandler
  /\ raised' = [raised EXCEPT ![v] = FALSE]
  /\ depth' = Masked(v)
  /\ handler' = [handler EXCEPT ![v] =
                   [at |-> "queue", slot |-> line[v],
                    fd |-> engines[line[v]].owner]]
  /\ UNCHANGED <<engines, line, fds, call, owed>>

\* ... and queues an event, unless the ring is full.
Next1(n) == (n + 1) % RingSize

HandlerQueues(v) ==
  /\ handler[v].at = "queue"
  /\ LET fd == handler[v].fd
         r == fds[fd]
     IN  fds' = IF fd # NoFd /\ Next1(r.head) # r.tail
                  THEN [fds EXCEPT
                          ![fd].ring[r.head] = engines[handler[v].slot].virq,
                          ![fd].head = Next1(r.head)]
                  ELSE fds
  /\ handler' = [handler EXCEPT ![v] = NoHandler]
  /\ UNCHANGED <<engines, line, depth, raised, call, owed>>

EngineCompletes(v) ==
  /\ ~raised[v]
  /\ raised' = [raised EXCEPT ![v] = TRUE]
  /\ UNCHANGED <<engines, line, depth, handler, fds, call, owed>>

(***************************************************************************)
(* REGISTER: the slot is published, then the line requested.               *)
(***************************************************************************)

Events(fd) ==
  LET r == fds[fd] IN
  {i \in 0..(RingSize - 1) :
     IF r.tail =< r.head THEN r.tail =< i /\ i < r.head
                         ELSE r.tail =< i \/ i < r.head}

EventsOf(fd, v) == {i \in Events(fd) : fds[fd].ring[i] = v}

Idle(t) == call[t] = NoCall /\ fds[FdOf[t]].open

\* A client asks for a line anew once it has read what the line queued.
RegisterSlot(t, v) ==
  /\ Idle(t)
  /\ EventsOf(FdOf[t], v) = {}
  /\ \E s \in Slot :
       /\ IsFirst(s, {x \in Slot : ~engines[x].active})
       /\ engines' = [engines EXCEPT ![s] =
            [active |-> TRUE, freeing |-> @.freeing, virq |-> v,
             owner |-> FdOf[t]]]
       /\ InCall(t, "request", v, s)
  /\ UNCHANGED <<line, depth, raised, handler, fds, owed>>

\* request_irq refuses a line that has a handler, or fails for want of
\* memory.
RequestIrq(t) ==
  LET v == call[t].virq  s == call[t].slot IN
  /\ call[t].at = "request"
  /\ line[v] = NoEngine
  /\ line' = [line EXCEPT ![v] = s]
  /\ depth' = [depth EXCEPT ![v] = 0]
  /\ owed' = [owed EXCEPT ![FdOf[t]][v] = 0]
  /\ IrqReturn(t)
  /\ UNCHANGED <<engines, raised, handler, fds>>

RequestFails(t) ==
  /\ call[t].at = "request"
  /\ engines' = [engines EXCEPT ![call[t].slot].active = FALSE,
                                ![call[t].slot].owner = NoFd]
  /\ IrqReturn(t)
  /\ UNCHANGED <<line, depth, raised, handler, fds, owed>>

(***************************************************************************)
(* FREE, DISABLE and ENABLE: the slot is looked up under reg_lock, its     *)
(* line used after.                                                        *)
(***************************************************************************)

ByHwirq(fd, v) ==
  {s \in Slot : engines[s].active /\ ~engines[s].freeing
                  /\ engines[s].owner = fd /\ engines[s].virq = v}

FindSlot(t, v, at, s) ==
  /\ Idle(t)
  /\ IsFirst(s, ByHwirq(FdOf[t], v))
  /\ InCall(t, at, v, s)

Detach(s) ==
  engines' = [engines EXCEPT ![s].freeing = TRUE, ![s].owner = NoFd]

FreeLookup(t, v, s) ==
  /\ FindSlot(t, v, "free", s)
  /\ Detach(s)
  /\ UNCHANGED <<line, depth, raised, handler, fds, owed>>

\* Mutant: it does not wait.
FreeIrqEarly(v, s) ==
  line' = IF line[v] = s THEN [line EXCEPT ![v] = NoEngine] ELSE line

\* free_irq waits for the handler; a line requested for another slot is not
\* this caller's to free.
FreeIrq(v, s) ==
  /\ line[v] = s => handler[v] = NoHandler
  /\ line' = IF line[v] = s THEN [line EXCEPT ![v] = NoEngine] ELSE line

FreeCall(t) ==
  /\ call[t].at = "free"
  /\ FreeIrq(call[t].virq, call[t].slot)
  /\ InCall(t, "freed", call[t].virq, call[t].slot)
  /\ UNCHANGED <<engines, depth, raised, handler, fds, owed>>

Clear(s) ==
  engines' = [engines EXCEPT ![s].active = FALSE, ![s].freeing = FALSE]

FreeDone(t) ==
  /\ call[t].at = "freed"
  /\ Clear(call[t].slot)
  /\ IrqReturn(t)
  /\ UNCHANGED <<line, depth, raised, handler, fds, owed>>

DisableLookup(t, v, s) ==
  /\ depth[v] < MaxDepth
  /\ FindSlot(t, v, "disable", s)
  /\ UNCHANGED <<engines, line, depth, raised, handler, fds, owed>>

\* disable_irq masks at once and waits for the handler
DisableIrq(t) ==
  LET v == call[t].virq IN
  /\ call[t].at = "disable"
  /\ depth' = [depth EXCEPT ![v] = @ + 1]
  /\ owed' = [owed EXCEPT ![FdOf[t]][v] = @ + 1]
  /\ InCall(t, "disabled", v, call[t].slot)
  /\ UNCHANGED <<engines, line, raised, handler, fds>>

DisableWaits(t) ==
  /\ call[t].at = "disabled"
  /\ handler[call[t].virq] = NoHandler
  /\ IrqReturn(t)
  /\ UNCHANGED <<engines, line, depth, raised, handler, fds, owed>>

\* A client enables a line for each event it read and each DISABLE.
EnableLookup(t, v, s) ==
  /\ owed[FdOf[t]][v] > 0
  /\ FindSlot(t, v, "enable", s)
  /\ UNCHANGED <<engines, line, depth, raised, handler, fds, owed>>

EnableIrq(t) ==
  LET v == call[t].virq IN
  /\ call[t].at = "enable"
  /\ depth' = [depth EXCEPT ![v] = IF @ > 0 THEN @ - 1 ELSE 0]
  /\ owed' = [owed EXCEPT ![FdOf[t]][v] = @ - 1]
  /\ IrqReturn(t)
  /\ UNCHANGED <<engines, line, raised, handler, fds>>

(***************************************************************************)
(* WAIT_EVENT: the ring is seen filled, and read under the lock after.     *)
(***************************************************************************)

WaitWakes(t) ==
  /\ Idle(t)
  /\ fds[FdOf[t]].head # fds[FdOf[t]].tail
  /\ InCall(t, "read", NoEvent, NoEngine)
  /\ UNCHANGED <<engines, line, depth, raised, handler, fds, owed>>

WaitReads(t) ==
  LET fd == FdOf[t]
      v == fds[fd].ring[fds[fd].tail]
  IN  /\ call[t].at = "read"
      /\ fds' = [fds EXCEPT ![fd].tail = Next1(@)]
      /\ owed' = IF v = NoEvent THEN owed
                                ELSE [owed EXCEPT ![fd][v] = @ + 1]
      /\ IrqReturn(t)
      /\ UNCHANGED <<engines, line, depth, raised, handler>>

(***************************************************************************)
(* release: the last close frees what the descriptor registered, slot by   *)
(* slot, and then the descriptor itself.  No ioctl is under way on it.     *)
(***************************************************************************)

LastCall(t) ==
  \A u \in Task : FdOf[u] = FdOf[t] => u = t \/ call[u] = NoCall

Mine(fd) ==
  {s \in Slot : engines[s].active /\ ~engines[s].freeing
                  /\ engines[s].owner = fd}

ReleaseDetach(t, s) ==
  /\ LastCall(t)
  /\ Idle(t) \/ call[t].at = "close"
  /\ IsFirst(s, Mine(FdOf[t]))
  /\ Detach(s)
  /\ InCall(t, "close_free", engines[s].virq, s)
  /\ fds' = [fds EXCEPT ![FdOf[t]].open = FALSE]
  /\ UNCHANGED <<line, depth, raised, handler, owed>>

ReleaseFree(t) ==
  /\ call[t].at = "close_free"
  /\ FreeIrq(call[t].virq, call[t].slot)
  /\ InCall(t, "close_freed", call[t].virq, call[t].slot)
  /\ UNCHANGED <<engines, depth, raised, handler, fds, owed>>

ReleaseClear(t) ==
  /\ call[t].at = "close_freed"
  /\ Clear(call[t].slot)
  /\ InCall(t, "close", NoEvent, NoEngine)
  /\ UNCHANGED <<line, depth, raised, handler, fds, owed>>

\* kfree(fd): the ring is no more
ReleaseDone(t) ==
  /\ LastCall(t)
  /\ Idle(t) \/ call[t].at = "close"
  /\ Mine(FdOf[t]) = {}
  /\ fds' = [fds EXCEPT ![FdOf[t]] =
               [open |-> FALSE, freed |-> TRUE, ring |-> Empty,
                head |-> 0, tail |-> 0]]
  /\ InCall(t, "closed", NoEvent, NoEngine)
  /\ UNCHANGED <<engines, line, depth, raised, handler, owed>>

IrqInit ==
  /\ engines = [s \in Slot |-> Vacant]
  /\ line = [v \in Virq |-> NoEngine]
  /\ depth = [v \in Virq |-> 0] /\ raised = [v \in Virq |-> FALSE]
  /\ handler = [v \in Virq |-> NoHandler]
  /\ fds = [f \in Fd |-> [open |-> TRUE, freed |-> FALSE, ring |-> Empty,
                          head |-> 0, tail |-> 0]]
  /\ call = [t \in Task |-> NoCall]
  /\ owed = [f \in Fd |-> [v \in Virq |-> 0]]

IrqNext ==
  \/ \E v \in Virq :
       \/ HandlerMasks(v) \/ HandlerQueues(v) \/ EngineCompletes(v)
  \/ \E t \in Task :
       \/ RequestIrq(t) \/ RequestFails(t) \/ FreeCall(t) \/ FreeDone(t)
       \/ DisableIrq(t) \/ DisableWaits(t) \/ EnableIrq(t)
       \/ WaitWakes(t) \/ WaitReads(t)
       \/ ReleaseFree(t) \/ ReleaseClear(t) \/ ReleaseDone(t)
       \/ \E s \in Slot :
            \/ ReleaseDetach(t, s)
            \/ \E v \in Virq : \/ FreeLookup(t, v, s)
                              \/ DisableLookup(t, v, s) \/ EnableLookup(t, v, s)
       \/ \E v \in Virq : RegisterSlot(t, v)

IrqSpec == IrqInit /\ [][IrqNext]_irqVars

\* As in the daemon, a descriptor is used by one thread.
OneEach == \A t, u \in Task : FdOf[t] = FdOf[u] => t = u

(***************************************************************************)
(* Properties.                                                             *)
(***************************************************************************)

\* The handler queues into a descriptor that is still there: free_irq waits
\* for it before the descriptor is freed.
HandlerFdAlive ==
  \A v \in Virq :
    handler[v].fd # NoFd => ~fds[handler[v].fd].freed

\* A line is disabled once for each event on its way to the client and each
\* enable the client owes: no event is lost, made up, or left masking a
\* line nobody will enable.
DepthAccounted ==
  \A v \in Virq :
    line[v] # NoEngine =>
      LET fd == engines[line[v]].owner IN
      fd # NoFd /\ fds[fd].open =>
        depth[v] = owed[fd][v] + Cardinality(EventsOf(fd, v))
                     + Cardinality({h \in {handler[v]} : h.at = "queue"})

\* Every interrupt of an engine reaches the client that registered its line,
\* once, and nobody else (mpp_irq_handler against register, free and close).
InterruptsForwarded == HandlerFdAlive /\ DepthAccounted
=============================================================================
