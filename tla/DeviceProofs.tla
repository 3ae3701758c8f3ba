---------------------------- MODULE DeviceProofs ----------------------------
(***************************************************************************)
(* Proofs about MediaIrq, for any number of lines, slots and descriptors,  *)
(* a ring with room for each line, and one thread for each descriptor: no  *)
(* event is lost or made up, none reaches a descriptor that is gone.  Then *)
(* ScalerJob: the operations of the scaler touch what they name; MmzZones: *)
(* the kernel mappings of the heap's blocks are counted; and MppServices:  *)
(* messages, suspend arbitration and time stamps are true to their users.  *)
(***************************************************************************)
EXTENDS MediaIrq, ScalerJob, MmzZones, MppServices, FiniteSetTheorems, SequenceFacts, TLAPS

Places == 0..(RingSize - 1)

Ring == [open : BOOLEAN, freed : BOOLEAN, ring : [Places -> Virq \cup {NoEvent}],
         head : Places, tail : Places]

\* The places of a ring that hold an event, and whether one is of line v.
Occupied(r) ==
  {i \in Places : IF r.tail =< r.head THEN r.tail =< i /\ i < r.head
                                      ELSE r.tail =< i \/ i < r.head}

Has(r, v) == \E i \in Occupied(r) : r.ring[i] = v

\* A ring holds lines, each once.
Filled(r) ==
  /\ \A i \in Occupied(r) : r.ring[i] \in Virq
  /\ \A i, j \in Occupied(r) : r.ring[i] = r.ring[j] => i = j

Engine == [active : BOOLEAN, freeing : BOOLEAN, virq : Virq \cup {NoEvent},
           owner : Fd \cup {NoFd}]

Handler == [at : {"none", "queue"}, slot : Slot \cup {NoEngine}, fd : Fd \cup {NoFd}]

\* Where a thread is: inside a call it looked a slot up for, inside a release,
\* or nowhere.
Detached == {"free", "close_free"}
Freed == {"freed", "close_freed"}
Using == {"disable", "disabled", "enable"}
Closing == {"close", "close_free", "close_freed", "closed"}

Call == [at : {"none", "request", "read"} \cup Detached \cup Freed \cup Using \cup Closing,
         virq : Virq \cup {NoEvent}, slot : Slot \cup {NoEngine}]

IrqTypes ==
  /\ engines \in [Slot -> Engine]
  /\ line \in [Virq -> Slot \cup {NoEngine}]
  /\ depth \in [Virq -> Nat]
  /\ handler \in [Virq -> Handler]
  /\ fds \in [Fd -> Ring]
  /\ call \in [Task -> Call]
  /\ owed \in [Fd -> [Virq -> Nat]]

\* A slot that a line was requested for is in use for that line, one that has
\* an owner is neither free nor being freed.
Slots ==
  /\ \A s \in Slot : engines[s].owner # NoFd => engines[s].active /\ ~engines[s].freeing
  /\ \A s \in Slot : engines[s].freeing => engines[s].active
  /\ \A v \in Virq : line[v] # NoEngine =>
       engines[line[v]].active /\ engines[line[v]].virq = v

\* A slot with an owner has its line, unless the request is still to be made.
Requested ==
  \A s \in Slot : engines[s].owner # NoFd =>
    \/ engines[s].virq \in Virq /\ line[engines[s].virq] = s
    \/ \E t \in Task : /\ call[t].at = "request" /\ call[t].slot = s
                       /\ FdOf[t] = engines[s].owner

\* What a thread knows of the slot that it found or took before it dropped the
\* lock.
Knows(t) ==
  LET c == call[t]
      e == engines[c.slot]
  IN  /\ c.at = "request" =>
           /\ c.slot \in Slot /\ c.virq \in Virq
           /\ e.owner = FdOf[t] /\ e.virq = c.virq /\ line[c.virq] # c.slot
           /\ \/ ~Has(fds[FdOf[t]], c.virq)
              \/ line[c.virq] # NoEngine /\ engines[line[c.virq]].owner = FdOf[t]
      /\ c.at \in Detached =>
           /\ c.slot \in Slot /\ c.virq \in Virq
           /\ e.freeing /\ e.virq = c.virq /\ line[c.virq] = c.slot
      /\ c.at \in Freed =>
           /\ c.slot \in Slot /\ c.virq \in Virq
           /\ e.freeing /\ e.virq = c.virq /\ line[c.virq] # c.slot
      /\ c.at \in Using =>
           /\ c.slot \in Slot /\ c.virq \in Virq
           /\ e.owner = FdOf[t] /\ e.virq = c.virq /\ line[c.virq] = c.slot
      /\ c.at = "enable" => owed[FdOf[t]][c.virq] > 0
      /\ c.at = "read" => fds[FdOf[t]].head # fds[FdOf[t]].tail

\* Two threads do not free one slot.
Apart ==
  \A t, u \in Task :
    /\ call[t].at \in Detached \cup Freed /\ call[u].at \in Detached \cup Freed
    /\ call[t].slot = call[u].slot
    => t = u

\* Nothing goes on with a descriptor that is closed but its release.
Shut ==
  /\ \A t \in Task :
       /\ call[t].at \in Closing => ~fds[FdOf[t]].open
       /\ ~fds[FdOf[t]].open => call[t].at \in Closing
  /\ \A f \in Fd : fds[f].freed => ~fds[f].open /\ \A s \in Slot : engines[s].owner # f

\* A handler that runs is that of the slot its line was requested for, and its
\* descriptor owns the slot or waits in free_irq.
Handlers ==
  \A v \in Virq :
    LET h == handler[v]
        e == engines[line[v]]
    IN  h # NoHandler =>
          /\ h.at = "queue" /\ line[v] # NoEngine /\ h.slot = line[v]
          /\ e.owner # NoFd => h.fd = e.owner
          /\ h.fd # NoFd =>
               \/ e.owner = h.fd
               \/ \E t \in Task : /\ FdOf[t] = h.fd /\ call[t].at \in Detached
                                  /\ call[t].slot = line[v]

\* No ring holds a line whose handler is about to add it.
Single ==
  \A f \in Fd : /\ Filled(fds[f])
                /\ \A v \in Virq : handler[v].fd = f => ~Has(fds[f], v)

One(p) == IF p THEN 1 ELSE 0

\* Who will enable a line that is disabled.
Depth(v, f) ==
  owed[f][v] + One(Has(fds[f], v)) + One(handler[v].at = "queue")

Accounted ==
  \A v \in Virq : line[v] # NoEngine /\ engines[line[v]].owner # NoFd =>
    depth[v] = Depth(v, engines[line[v]].owner)

IrqInv ==
  /\ IrqTypes /\ Slots /\ Requested /\ (\A t \in Task : Knows(t))
  /\ Apart /\ Shut /\ Handlers /\ Single /\ Accounted

-----------------------------------------------------------------------------
(* The ring.                                                               *)

LEMMA RingSizes ==
  /\ RingSize \in Nat \ {0} /\ Cardinality(Virq) \in Nat
  /\ \A n \in Places : Next1(n) = IF n = RingSize - 1 THEN 0 ELSE n + 1
<1>1. Cardinality(Virq) \in Nat
  BY RingHoldsTable, FS_CardinalityType
<1>2. RingSize \in Nat \ {0}
  BY <1>1, RingHoldsTable
<1>3. ASSUME NEW n \in Places PROVE Next1(n) = IF n = RingSize - 1 THEN 0 ELSE n + 1
  <2>1. CASE n = RingSize - 1
    BY <1>2, <2>1 DEF Next1
  <2>2. CASE n # RingSize - 1
    <3>1. n \in Nat /\ n + 1 < RingSize
      BY <1>2, <2>2 DEF Places
    <3> QED BY <1>2, <2>2, <3>1 DEF Next1
  <2> QED BY <2>1, <2>2
<1> QED BY <1>1, <1>2, <1>3

\* A ring whose next place is its tail has a single place left.
LEMMA FullRing ==
  ASSUME NEW r \in Ring, Next1(r.head) = r.tail
  PROVE  Occupied(r) = Places \ {r.head}
<1>1. r.head \in Places /\ r.tail \in Places
  BY DEF Ring
<1>2. r.tail = IF r.head = RingSize - 1 THEN 0 ELSE r.head + 1
  BY <1>1, RingSizes
<1> QED BY <1>1, <1>2, RingSizes DEF Occupied, Places

\* The ring has room for a line that it does not hold yet.
LEMMA RoomInRing ==
  ASSUME NEW r \in Ring, Filled(r), NEW v \in Virq, ~Has(r, v)
  PROVE  Next1(r.head) # r.tail
<1> SUFFICES ASSUME Next1(r.head) = r.tail PROVE FALSE
  OBVIOUS
<1>1. Occupied(r) = Places \ {r.head} /\ r.head \in Places
  BY FullRing DEF Ring
<1>2. IsFiniteSet(Places) /\ Cardinality(Places) = RingSize
  BY RingSizes, FS_Interval DEF Places
<1>3. IsFiniteSet(Occupied(r)) /\ Cardinality(Occupied(r)) = RingSize - 1
  BY <1>1, <1>2, FS_RemoveElement
<1> DEFINE others == Virq \ {v}
<1>4. IsFiniteSet(others) /\ Cardinality(others) = Cardinality(Virq) - 1
  BY RingHoldsTable, FS_RemoveElement
<1>5. Cardinality(others) < Cardinality(Occupied(r))
  BY <1>3, <1>4, RingSizes, RingHoldsTable
<1> DEFINE holds == [i \in Occupied(r) |-> r.ring[i]]
<1>6. holds \in [Occupied(r) -> others]
  BY DEF Filled, Has
<1>7. \E i, j \in Occupied(r) : i # j /\ holds[i] = holds[j]
  <2> HIDE DEF holds, others
  <2> QED BY <1>3, <1>4, <1>5, <1>6, FS_PigeonHole
<1> QED BY <1>7 DEF Filled

LEMMA RingAdds ==
  ASSUME NEW r \in Ring, Filled(r), NEW v \in Virq, ~Has(r, v),
         NEW q, q = [r EXCEPT !.ring[r.head] = v, !.head = Next1(r.head)]
  PROVE  /\ q \in Ring /\ Filled(q) /\ Has(q, v) /\ q.head # q.tail
         /\ \A w \in Virq : w # v => (Has(q, w) <=> Has(r, w))
         /\ q.open = r.open /\ q.freed = r.freed
<1>1. /\ r.head \in Places /\ r.tail \in Places /\ r.ring \in [Places -> Virq \cup {NoEvent}]
      /\ r.open \in BOOLEAN /\ r.freed \in BOOLEAN
  BY DEF Ring
<1>2. Next1(r.head) # r.tail
  BY RoomInRing
<1>3. Next1(r.head) = IF r.head = RingSize - 1 THEN 0 ELSE r.head + 1
  BY <1>1, RingSizes
<1>4. Next1(r.head) \in Places
  BY <1>1, <1>3, RingSizes DEF Places
<1>5. /\ q.ring = [r.ring EXCEPT ![r.head] = v] /\ q.head = Next1(r.head)
      /\ q.tail = r.tail /\ q.open = r.open /\ q.freed = r.freed
  BY DEF Ring
<1>6. q \in Ring
  BY <1>1, <1>4 DEF Ring
<1>7. Occupied(q) = Occupied(r) \cup {r.head} /\ r.head \notin Occupied(r)
  BY <1>1, <1>2, <1>3, <1>5, RingSizes DEF Occupied, Places
<1>8. q.ring[r.head] = v /\ \A i \in Occupied(r) : q.ring[i] = r.ring[i] /\ r.ring[i] # v
  BY <1>1, <1>5, <1>7 DEF Has
<1>9. Filled(q) /\ Has(q, v) /\ \A w \in Virq : w # v => (Has(q, w) <=> Has(r, w))
  BY <1>7, <1>8 DEF Filled, Has
<1> QED BY <1>2, <1>5, <1>6, <1>9

LEMMA RingTakes ==
  ASSUME NEW r \in Ring, Filled(r), r.head # r.tail,
         NEW q, q = [r EXCEPT !.tail = Next1(r.tail)], NEW v, v = r.ring[r.tail]
  PROVE  /\ v \in Virq /\ q \in Ring /\ Filled(q) /\ Has(r, v) /\ ~Has(q, v)
         /\ \A w \in Virq : w # v => (Has(q, w) <=> Has(r, w))
         /\ q.open = r.open /\ q.freed = r.freed
<1>1. /\ r.head \in Places /\ r.tail \in Places /\ r.ring \in [Places -> Virq \cup {NoEvent}]
      /\ r.open \in BOOLEAN /\ r.freed \in BOOLEAN
  BY DEF Ring
<1>3. Next1(r.tail) = IF r.tail = RingSize - 1 THEN 0 ELSE r.tail + 1
  BY <1>1, RingSizes
<1>4. Next1(r.tail) \in Places
  BY <1>1, <1>3, RingSizes DEF Places
<1>5. /\ q.ring = r.ring /\ q.tail = Next1(r.tail)
      /\ q.head = r.head /\ q.open = r.open /\ q.freed = r.freed
  BY DEF Ring
<1>6. q \in Ring
  BY <1>1, <1>4 DEF Ring
<1>7. Occupied(q) = Occupied(r) \ {r.tail} /\ r.tail \in Occupied(r)
  BY <1>1, <1>3, <1>5, RingSizes DEF Occupied, Places
<1>8. v \in Virq /\ \A i \in Occupied(q) : r.ring[i] # v /\ i \in Occupied(r)
  BY <1>7 DEF Filled
<1>9. Filled(q) /\ Has(r, v) /\ ~Has(q, v)
  BY <1>5, <1>7, <1>8 DEF Filled, Has
<1>10. \A w \in Virq : w # v => (Has(q, w) <=> Has(r, w))
  BY <1>5, <1>7 DEF Has
<1> QED BY <1>5, <1>6, <1>8, <1>9, <1>10

\* A ring that is only marked closed holds what it held.
LEMMA RingShut ==
  ASSUME NEW r \in Ring, NEW q, q = [r EXCEPT !.open = FALSE]
  PROVE  /\ q \in Ring /\ (Filled(r) => Filled(q)) /\ ~q.open /\ q.freed = r.freed
         /\ \A w \in Virq : Has(q, w) <=> Has(r, w)
<1>1. /\ r.head \in Places /\ r.tail \in Places /\ r.ring \in [Places -> Virq \cup {NoEvent}]
      /\ r.open \in BOOLEAN /\ r.freed \in BOOLEAN
  BY DEF Ring
<1>2. q \in Ring
  BY <1>1 DEF Ring
<1>3. q.ring = r.ring /\ q.tail = r.tail /\ q.head = r.head /\ ~q.open /\ q.freed = r.freed
  BY DEF Ring
<1>4. Occupied(q) = Occupied(r)
  BY <1>3 DEF Occupied
<1>5. Filled(r) => Filled(q)
  BY <1>3, <1>4 DEF Filled
<1>6. \A w \in Virq : Has(q, w) <=> Has(r, w)
  BY <1>3, <1>4 DEF Has
<1> QED BY <1>2, <1>3, <1>5, <1>6

LEMMA RingEmpty ==
  ASSUME NEW r, r.head = 0, r.tail = 0
  PROVE  Filled(r) /\ \A w \in Virq : ~Has(r, w)
<1>1. Occupied(r) = {}
  BY RingSizes DEF Occupied, Places
<1> QED BY <1>1 DEF Filled, Has

LEMMA EventsAreHeld ==
  /\ \A f, v : EventsOf(f, v) = {i \in Occupied(fds[f]) : fds[f].ring[i] = v}
  /\ \A f, v : EventsOf(f, v) = {} <=> ~Has(fds[f], v)
BY DEF EventsOf, Events, Occupied, Places, Has

-----------------------------------------------------------------------------
(* The handler.                                                            *)

LEMMA HandlerMasksKeeps == ASSUME NEW v \in Virq, IrqInv, HandlerMasks(v) PROVE IrqInv'
<1> DEFINE s == line[v]
           f == engines[s].owner
<1>1. /\ depth[v] = 0 /\ s # NoEngine /\ handler[v] = NoHandler
      /\ depth' = [depth EXCEPT ![v] = 1]
      /\ handler' = [handler EXCEPT ![v] = [at |-> "queue", slot |-> s, fd |-> f]]
      /\ UNCHANGED <<engines, line, fds, call, owed>>
  BY DEF HandlerMasks, Masked
<1>2. s \in Slot /\ f \in Fd \cup {NoFd}
  BY <1>1 DEF IrqInv, IrqTypes, Engine
<1>3. IrqTypes'
  BY <1>1, <1>2 DEF IrqInv, IrqTypes, Handler
<1>4. Slots' /\ Requested' /\ Apart' /\ Shut'
  BY <1>1 DEF IrqInv, Slots, Requested, Apart, Shut
<1>5. \A t \in Task : Knows(t)'
  BY <1>1 DEF IrqInv, Knows
<1>6. Handlers'
  BY <1>1, <1>2 DEF IrqInv, IrqTypes, Handlers
<1>7. f # NoFd => ~Has(fds[f], v) /\ owed[f][v] = 0
  <2> SUFFICES ASSUME f # NoFd PROVE ~Has(fds[f], v) /\ owed[f][v] = 0
    OBVIOUS
  <2>1. depth[v] = Depth(v, f)
    BY <1>1 DEF IrqInv, Accounted
  <2>2. owed[f][v] \in Nat
    BY <1>2 DEF IrqInv, IrqTypes
  <2>3. One(handler[v].at = "queue") = 0
    BY <1>1 DEF One, NoHandler
  <2>4. 0 = owed[f][v] + One(Has(fds[f], v)) + 0
    BY <1>1, <2>1, <2>3 DEF Depth
  <2>5. One(Has(fds[f], v)) = 0
    BY <2>2, <2>4 DEF One
  <2>6. owed[f][v] = 0
    BY <2>2, <2>4, <2>5
  <2>7. ~Has(fds[f], v)
    BY <2>5 DEF One
  <2> QED BY <2>6, <2>7
<1>8. Single'
  <2>1. handler'[v].fd = f /\ \A w \in Virq : w # v => handler'[w] = handler[w]
    BY <1>1 DEF IrqInv, IrqTypes
  <2> SUFFICES ASSUME NEW g \in Fd
               PROVE  /\ Filled(fds[g])
                      /\ \A w \in Virq : handler'[w].fd = g => ~Has(fds[g], w)
    BY <1>1, Zenon DEF Single
  <2>2. g # NoFd
    BY RingHoldsTable
  <2> QED BY <1>7, <2>1, <2>2 DEF IrqInv, Single
<1>9. Accounted'
  <2> SUFFICES ASSUME NEW w \in Virq, line[w] # NoEngine, engines[line[w]].owner # NoFd
               PROVE  depth'[w] = Depth(w, engines[line[w]].owner)'
    BY <1>1 DEF Accounted
  <2> DEFINE g == engines[line[w]].owner
  <2>1. depth[w] = Depth(w, g)
    BY DEF IrqInv, Accounted
  <2>2. CASE w # v
    BY <1>1, <2>1, <2>2 DEF Depth, One, IrqInv, IrqTypes
  <2>3. CASE w = v
    <3>1. depth'[v] = 1 /\ handler'[v].at = "queue"
      BY <1>1 DEF IrqInv, IrqTypes
    <3> QED BY <1>1, <1>7, <2>3, <3>1 DEF Depth, One
  <2> QED BY <2>2, <2>3
<1> QED BY <1>3, <1>4, <1>5, <1>6, <1>8, <1>9 DEF IrqInv

LEMMA HandlerQueuesKeeps == ASSUME NEW v \in Virq, OneEach, IrqInv, HandlerQueues(v)
        PROVE IrqInv'
<1> DEFINE h == handler[v]
           f == h.fd
<1>1. /\ h.at = "queue" /\ handler' = [handler EXCEPT ![v] = NoHandler]
      /\ UNCHANGED <<engines, line, depth, call, owed>>
  BY DEF HandlerQueues
<1>2. h # NoHandler /\ f \in Fd \cup {NoFd}
  BY <1>1 DEF NoHandler, IrqInv, IrqTypes, Handler
<1>3. line[v] # NoEngine /\ h.slot = line[v] /\ line[v] \in Slot /\ engines[line[v]].virq = v
  BY <1>2 DEF IrqInv, IrqTypes, Handlers, Slots
<1>4. \E q : /\ f # NoFd => /\ q \in Ring /\ Filled(q) /\ Has(q, v) /\ q.head # q.tail
                            /\ \A w \in Virq : w # v => (Has(q, w) <=> Has(fds[f], w))
                            /\ q.open = fds[f].open /\ q.freed = fds[f].freed
                            /\ fds' = [fds EXCEPT ![f] = q]
             /\ f = NoFd => fds' = fds
  <2>1. CASE f = NoFd
    BY <2>1 DEF HandlerQueues
  <2>2. CASE f # NoFd
    <3> DEFINE r == fds[f]
               q == [r EXCEPT !.ring[r.head] = v, !.head = Next1(r.head)]
    <3>1. f \in Fd /\ r \in Ring /\ Filled(r) /\ ~Has(r, v)
      BY <1>2, <2>2 DEF IrqInv, IrqTypes, Single
    <3>2. Next1(r.head) # r.tail
      BY <3>1, RoomInRing
    <3>3. fds' = [fds EXCEPT ![f] = q]
      BY <1>3, <2>2, <3>1, <3>2 DEF HandlerQueues, IrqInv, IrqTypes, Ring
    <3>4. /\ q \in Ring /\ Filled(q) /\ Has(q, v) /\ q.head # q.tail
          /\ \A w \in Virq : w # v => (Has(q, w) <=> Has(r, w))
          /\ q.open = r.open /\ q.freed = r.freed
      <4> HIDE DEF r
      <4> QED BY <3>1, RingAdds, ZenonT(60)
    <3> QED BY <2>2, <3>3, <3>4
  <2> QED BY <2>1, <2>2
<1>5. PICK q : /\ f # NoFd => /\ q \in Ring /\ Filled(q) /\ Has(q, v) /\ q.head # q.tail
                              /\ \A w \in Virq : w # v => (Has(q, w) <=> Has(fds[f], w))
                              /\ q.open = fds[f].open /\ q.freed = fds[f].freed
                              /\ fds' = [fds EXCEPT ![f] = q]
               /\ f = NoFd => fds' = fds
  BY <1>4
<1>6. NoHandler \in Handler /\ NoFd \notin Fd
  BY RingHoldsTable DEF NoHandler, Handler
<1>7. IrqTypes'
  BY <1>1, <1>2, <1>5, <1>6 DEF IrqInv, IrqTypes
<1>8. /\ \A g \in Fd : fds'[g].open = fds[g].open /\ fds'[g].freed = fds[g].freed
      /\ \A g \in Fd : fds[g].head # fds[g].tail => fds'[g].head # fds'[g].tail
      /\ \A g \in Fd, w \in Virq : g # f \/ w # v => (Has(fds'[g], w) <=> Has(fds[g], w))
      /\ \A g \in Fd : Filled(fds[g]) => Filled(fds'[g])
      /\ f # NoFd => Has(fds'[f], v)
  BY <1>2, <1>5 DEF IrqInv, IrqTypes
<1>9. Slots' /\ Requested' /\ Apart'
  BY <1>1 DEF IrqInv, Slots, Requested, Apart
<1>10. Shut'
  BY <1>1, <1>8, RingHoldsTable DEF IrqInv, Shut
<1>11. ASSUME NEW t \in Task PROVE Knows(t)'
  <2>1. FdOf[t] \in Fd /\ FdOf[t] # NoFd
    BY RingHoldsTable
  <2>2. call[t].at = "request" /\ FdOf[t] = f /\ call[t].virq = v =>
          engines[line[v]].owner = f
    <3> SUFFICES ASSUME call[t].at = "request", FdOf[t] = f, call[t].virq = v,
                        engines[line[v]].owner # f
                 PROVE  FALSE
      OBVIOUS
    <3>1. PICK u \in Task : FdOf[u] = f /\ call[u].at \in Detached
      BY <1>2, <2>1 DEF IrqInv, Handlers
    <3> QED BY <3>1 DEF OneEach, Detached
  <2> QED BY <1>1, <1>3, <1>8, <2>1, <2>2 DEF IrqInv, Knows
<1>12. Handlers'
  BY <1>1, <1>6 DEF IrqInv, IrqTypes, Handlers
<1>13. Single'
  <2> SUFFICES ASSUME NEW g \in Fd
               PROVE  Filled(fds'[g]) /\ \A w \in Virq : handler'[w].fd = g => ~Has(fds'[g], w)
    BY DEF Single
  <2>1. Filled(fds'[g])
    BY <1>8 DEF IrqInv, Single
  <2>2. ASSUME NEW w \in Virq, handler'[w].fd = g PROVE ~Has(fds'[g], w)
    <3>1. w # v
      BY <1>1, <1>6, <2>2 DEF IrqInv, IrqTypes, NoHandler
    <3> QED BY <1>1, <1>8, <2>2, <3>1 DEF IrqInv, IrqTypes, Single
  <2> QED BY <2>1, <2>2
<1>14. Accounted'
  <2> SUFFICES ASSUME NEW w \in Virq, line[w] # NoEngine, engines[line[w]].owner # NoFd
               PROVE  depth[w] = Depth(w, engines[line[w]].owner)'
    BY <1>1 DEF Accounted
  <2> DEFINE g == engines[line[w]].owner
  <2>1. depth[w] = Depth(w, g) /\ g \in Fd
    BY DEF IrqInv, IrqTypes, Engine, Accounted
  <2>2. CASE w # v
    BY <1>1, <1>8, <2>1, <2>2 DEF Depth, One, IrqInv, IrqTypes
  <2>3. CASE w = v
    <3>1. g = f
      BY <1>2, <2>3 DEF IrqInv, Handlers
    <3>2. handler[v].at = "queue" /\ ~Has(fds[f], v)
      BY <1>1, <2>1, <3>1 DEF IrqInv, Single
    <3>3. handler'[v].at = "none" /\ Has(fds'[f], v)
      BY <1>1, <1>8, <2>1, <3>1, RingHoldsTable DEF IrqInv, IrqTypes, NoHandler
    <3>4. owed[g][w] \in Nat
      BY <2>1 DEF IrqInv, IrqTypes
    <3> QED BY <1>1, <2>1, <2>3, <3>1, <3>2, <3>3, <3>4 DEF Depth, One
  <2> QED BY <2>2, <2>3
<1> QED BY <1>7, <1>9, <1>10, <1>11, <1>12, <1>13, <1>14 DEF IrqInv

-----------------------------------------------------------------------------
(* The table of slots.                                                     *)

\* Where the rings, the handlers and the lines stay as they are.
LEMMA SameRings ==
  ASSUME Single, Accounted, UNCHANGED <<depth, handler, fds, owed, line>>,
         \A v \in Virq : line[v] # NoEngine /\ engines'[line[v]].owner # NoFd =>
                           engines'[line[v]].owner = engines[line[v]].owner
  PROVE  Single' /\ Accounted'
<1>1. Single'
  BY DEF Single
<1>2. Accounted'
  BY DEF Accounted, Depth
<1> QED BY <1>1, <1>2

LEMMA RegisterSlotKeeps ==
  ASSUME OneEach, NEW t \in Task, NEW v \in Virq, IrqInv, RegisterSlot(t, v)
  PROVE  IrqInv'
<1> DEFINE f == FdOf[t]
<1>1. PICK s \in Slot :
        /\ ~engines[s].active
        /\ engines' = [engines EXCEPT ![s] = [active |-> TRUE, freeing |-> @.freeing,
                                             virq |-> v, owner |-> f]]
        /\ call' = [call EXCEPT ![t] = [at |-> "request", virq |-> v, slot |-> s]]
  BY DEF RegisterSlot, IsFirst, InCall
<1>2. /\ UNCHANGED <<line, depth, handler, fds, owed>>
      /\ call[t] = NoCall /\ fds[f].open /\ ~Has(fds[f], v)
  BY EventsAreHeld DEF RegisterSlot, Idle
<1>3. f \in Fd /\ f # NoFd /\ NoEngine # s
  BY RingHoldsTable
<1>4. /\ engines[s].owner = NoFd /\ ~engines[s].freeing
      /\ \A w \in Virq : line[w] # s
  BY <1>1, <1>3 DEF IrqInv, IrqTypes, Engine, Slots
<1> DEFINE e == [active |-> TRUE, freeing |-> FALSE, virq |-> v, owner |-> f]
           c == [at |-> "request", virq |-> v, slot |-> s]
<1>5. /\ engines' = [engines EXCEPT ![s] = e] /\ engines'[s] = e
      /\ \A x \in Slot : x # s => engines'[x] = engines[x]
      /\ call'[t] = c
      /\ \A u \in Task : u # t => call'[u] = call[u]
      /\ call[t].at = "none"
  <2>1. engines' = [engines EXCEPT ![s] = e]
    BY <1>1, <1>4 DEF IrqInv, IrqTypes, Engine
  <2>2. engines'[s] = e /\ \A x \in Slot : x # s => engines'[x] = engines[x]
    BY <2>1 DEF IrqInv, IrqTypes
  <2>3. call'[t] = c /\ \A u \in Task : u # t => call'[u] = call[u]
    BY <1>1 DEF IrqInv, IrqTypes
  <2>4. call[t].at = "none"
    BY <1>2 DEF NoCall
  <2> QED BY <2>1, <2>2, <2>3, <2>4
<1>6. IrqTypes'
  <2>1. e \in Engine /\ c \in Call
    BY <1>3 DEF Engine, Call
  <2> HIDE DEF e, c
  <2> QED BY <1>1, <1>2, <1>5, <2>1 DEF IrqInv, IrqTypes
<1>7. Slots'
  <2>1. e.active /\ ~e.freeing
    OBVIOUS
  <2> HIDE DEF e
  <2> QED BY <1>2, <1>4, <1>5, <2>1 DEF IrqInv, IrqTypes, Slots
<1>8. Requested'
  <2> SUFFICES ASSUME NEW x \in Slot, engines'[x].owner # NoFd
               PROVE  \/ /\ engines'[x].virq \in Virq
                         /\ line[engines'[x].virq] = x
                      \/ \E u \in Task : /\ call'[u].at = "request"
                                         /\ call'[u].slot = x
                                         /\ FdOf[u] = engines'[x].owner
    BY <1>2 DEF Requested
  <2>1. CASE x = s
    BY <1>5, <2>1
  <2>2. CASE x # s
    <3>1. engines'[x] = engines[x]
      BY <1>5, <2>2
    <3>2. \A u \in Task : call[u].at = "request" => call'[u] = call[u]
      BY <1>5
    <3> QED BY <3>1, <3>2 DEF IrqInv, Requested
  <2> QED BY <2>1, <2>2
<1>9. ASSUME NEW u \in Task PROVE Knows(u)'
  <2>1. CASE u = t
    BY <1>2, <1>3, <1>4, <1>5, <2>1 DEF Knows, Detached, Freed, Using
  <2>2. CASE u # t
    <3>1. FdOf[u] \in Fd
      BY RingHoldsTable
    <3>2. call[u].at \in {"request"} \cup Detached \cup Freed \cup Using => call[u].slot # s
      BY <1>3, <1>4, <3>1, RingHoldsTable DEF IrqInv, Knows
    <3>3. \A w \in Virq : line[w] # NoEngine => engines'[line[w]] = engines[line[w]]
      BY <1>4, <1>5 DEF IrqInv, IrqTypes
    <3>4. call'[u] = call[u]
      BY <1>5, <2>2
    <3> QED BY <1>2, <1>5, <3>2, <3>3, <3>4 DEF IrqInv, Knows, Detached, Freed, Using
  <2> QED BY <2>1, <2>2
<1>10. Apart'
  BY <1>5 DEF IrqInv, Apart, Detached, Freed
<1>11. Shut'
  <2>1. \A u \in Task : /\ call'[u].at \in Closing => ~fds[FdOf[u]].open
                        /\ ~fds[FdOf[u]].open => call'[u].at \in Closing
    BY <1>2, <1>5 DEF IrqInv, Shut, Closing
  <2>2. \A g \in Fd : fds[g].freed => ~fds[g].open /\ g # f
    BY <1>2 DEF IrqInv, Shut
  <2>3. \A x \in Slot : engines'[x].owner \in {engines[x].owner, f}
    BY <1>5
  <2>4. ASSUME NEW g \in Fd, fds[g].freed, NEW x \in Slot
        PROVE  engines'[x].owner # g
    <3>1. g # f /\ engines[x].owner # g
      BY <2>2, <2>4 DEF IrqInv, Shut
    <3> QED BY <2>3, <3>1
  <2>5. fds' = fds
    BY <1>2
  <2> QED BY <2>1, <2>2, <2>4, <2>5 DEF Shut
<1>12. Handlers'
  <2>1. \A w \in Virq : line[w] # NoEngine => engines'[line[w]] = engines[line[w]]
    BY <1>4, <1>5 DEF IrqInv, IrqTypes
  <2>2. \A u \in Task : call[u].at \in Detached => call'[u] = call[u]
    BY <1>5 DEF Detached
  <2>3. line' = line /\ handler' = handler
    BY <1>2
  <2> QED BY <2>1, <2>2, <2>3 DEF IrqInv, Handlers
<1>13. Single' /\ Accounted'
  BY <1>2, <1>4, <1>5, SameRings DEF IrqInv, IrqTypes
<1> QED BY <1>6, <1>7, <1>8, <1>9, <1>10, <1>11, <1>12, <1>13 DEF IrqInv

LEMMA RequestFailsKeeps ==
  ASSUME OneEach, NEW t \in Task, IrqInv, RequestFails(t)
  PROVE  IrqInv'
<1> DEFINE s == call[t].slot
           f == FdOf[t]
<1>1. /\ call[t].at = "request" /\ call' = [call EXCEPT ![t] = NoCall]
      /\ engines' = [engines EXCEPT ![s].active = FALSE, ![s].owner = NoFd]
      /\ UNCHANGED <<line, depth, handler, fds, owed>>
  BY DEF RequestFails, IrqReturn
<1>2. /\ s \in Slot /\ engines[s].owner = f /\ f \in Fd /\ f # NoFd
      /\ engines[s].virq \in Virq /\ line[engines[s].virq] # s
  BY <1>1, RingHoldsTable DEF IrqInv, Knows
<1>3. ~engines[s].freeing /\ \A w \in Virq : line[w] # s
  BY <1>2, RingHoldsTable DEF IrqInv, IrqTypes, Slots
<1>4. NoCall \in Call /\ NoCall.at = "none"
  BY DEF NoCall, Call
<1>5. /\ ~engines'[s].active /\ ~engines'[s].freeing /\ engines'[s].owner = NoFd
      /\ engines'[s] \in Engine
      /\ \A x \in Slot : x # s => engines'[x] = engines[x]
      /\ call'[t] = NoCall /\ \A u \in Task : u # t => call'[u] = call[u]
  BY <1>1, <1>2, <1>3 DEF IrqInv, IrqTypes, Engine
<1>6. IrqTypes'
  BY <1>1, <1>4, <1>5 DEF IrqInv, IrqTypes
<1>7. Slots'
  BY <1>1, <1>3, <1>5 DEF IrqInv, IrqTypes, Slots
<1>8. Requested'
  BY <1>1, <1>4, <1>5 DEF IrqInv, IrqTypes, Requested
<1>9. ASSUME NEW u \in Task PROVE Knows(u)'
  <2>1. CASE u = t
    BY <1>4, <1>5, <2>1 DEF Knows, Detached, Freed, Using
  <2>2. CASE u # t
    <3>1. FdOf[u] # f
      BY <2>2 DEF OneEach
    <3>2. call[u].at \in {"request"} \cup Detached \cup Freed \cup Using => call[u].slot # s
      BY <1>2, <1>3, <3>1 DEF IrqInv, Knows
    <3>3. /\ call'[u] = call[u] /\ fds' = fds /\ line' = line /\ owed' = owed
          /\ Knows(u)
      BY <1>1, <1>5, <2>2 DEF IrqInv
    <3>4. \A w \in Virq : line[w] # NoEngine => engines'[line[w]] = engines[line[w]]
      BY <1>3, <1>5 DEF IrqInv, IrqTypes
    <3>5. call[u].at \in {"request"} \cup Detached \cup Freed \cup Using =>
            engines'[call[u].slot] = engines[call[u].slot]
      BY <1>5, <3>2, <3>3 DEF Knows
    <3> QED BY <3>3, <3>4, <3>5 DEF Knows
  <2> QED BY <2>1, <2>2
<1>10. Apart'
  BY <1>4, <1>5 DEF IrqInv, Apart, Detached, Freed
<1>11. Shut'
  <2>1. fds[f].open
    BY <1>1 DEF IrqInv, Shut, Closing
  <2>2. \A u \in Task : /\ call'[u].at \in Closing => ~fds[FdOf[u]].open
                        /\ ~fds[FdOf[u]].open => call'[u].at \in Closing
    BY <1>4, <1>5, <2>1 DEF IrqInv, Shut, Closing
  <2>3. ASSUME NEW g \in Fd, fds[g].freed
        PROVE  ~fds[g].open /\ \A x \in Slot : engines'[x].owner # g
    <3>1. ~fds[g].open /\ \A x \in Slot : engines[x].owner # g
      BY <2>3 DEF IrqInv, Shut
    <3>2. \A x \in Slot : engines'[x].owner \in {engines[x].owner, NoFd}
      BY <1>5
    <3> QED BY <3>1, <3>2, RingHoldsTable
  <2>4. fds' = fds
    BY <1>1
  <2> QED BY <2>2, <2>3, <2>4 DEF Shut
<1>12. Handlers'
  BY <1>1, <1>3, <1>5 DEF IrqInv, IrqTypes, Handlers, Detached
<1>13. Single' /\ Accounted'
  BY <1>1, <1>3, <1>5, SameRings DEF IrqInv, IrqTypes
<1> QED BY <1>6, <1>7, <1>8, <1>9, <1>10, <1>11, <1>12, <1>13 DEF IrqInv

\* FREE, and each slot of a release.
Detaches(t, s, at) ==
  /\ engines[s].active /\ ~engines[s].freeing /\ engines[s].owner = FdOf[t]
  /\ call[t].at \in {"none", "close"}
  /\ Detach(s) /\ InCall(t, at, engines[s].virq, s)
  /\ UNCHANGED <<line, depth, handler, owed>>
  /\ fds' = IF at = "free" THEN fds ELSE [fds EXCEPT ![FdOf[t]].open = FALSE]
  /\ at = "free" => call[t].at = "none" /\ fds[FdOf[t]].open

LEMMA DetachesKeeps ==
  ASSUME OneEach, NEW t \in Task, NEW s \in Slot, NEW at \in Detached, IrqInv,
         Detaches(t, s, at)
  PROVE  IrqInv'
<1> DEFINE f == FdOf[t]
           v == engines[s].virq
<1>1. /\ engines' = [engines EXCEPT ![s].freeing = TRUE, ![s].owner = NoFd]
      /\ call' = [call EXCEPT ![t] = [at |-> at, virq |-> v, slot |-> s]]
      /\ UNCHANGED <<line, depth, handler, owed>>
      /\ engines[s].active /\ ~engines[s].freeing /\ engines[s].owner = f
      /\ call[t].at \in {"none", "close"}
  BY DEF Detaches, Detach, InCall
<1>2. f \in Fd /\ f # NoFd
  BY RingHoldsTable
<1>3. v \in Virq /\ line[v] = s
  <2>1. ASSUME NEW u \in Task, call[u].at = "request", FdOf[u] = f PROVE FALSE
    BY <1>1, <2>1 DEF OneEach
  <2> QED BY <1>1, <1>2, <2>1 DEF IrqInv, Requested
<1>4. /\ engines'[s].freeing /\ engines'[s].active /\ engines'[s].owner = NoFd
      /\ engines'[s].virq = v /\ engines'[s] \in Engine
      /\ \A x \in Slot : x # s => engines'[x] = engines[x]
      /\ call'[t] = [at |-> at, virq |-> v, slot |-> s]
      /\ \A u \in Task : u # t => call'[u] = call[u]
  BY <1>1 DEF IrqInv, IrqTypes, Engine
<1>5. /\ fds' \in [Fd -> Ring]
      /\ \A g \in Fd : /\ fds'[g].freed = fds[g].freed
                       /\ fds'[g].open = IF g = f /\ at = "close_free" THEN FALSE ELSE fds[g].open
                       /\ g # f => fds'[g] = fds[g]
                       /\ Filled(fds[g]) => Filled(fds'[g])
                       /\ \A w \in Virq : Has(fds'[g], w) <=> Has(fds[g], w)
  <2>1. fds \in [Fd -> Ring] /\ fds[f] \in Ring
    BY <1>2 DEF IrqInv, IrqTypes
  <2>2. CASE at = "free"
    BY <2>1, <2>2 DEF Detaches
  <2>3. CASE at = "close_free"
    <3> DEFINE q == [fds[f] EXCEPT !.open = FALSE]
    <3>1. fds' = [fds EXCEPT ![f] = q]
      BY <2>1, <2>3 DEF Detaches
    <3>2. q \in Ring /\ (Filled(fds[f]) => Filled(q)) /\ ~q.open /\ q.freed = fds[f].freed
          /\ \A w \in Virq : Has(q, w) <=> Has(fds[f], w)
      BY <2>1, RingShut
    <3> HIDE DEF q
    <3>3. fds'[f] = q /\ \A g \in Fd : g # f => fds'[g] = fds[g]
      BY <1>2, <2>1, <3>1
    <3>4. fds' \in [Fd -> Ring]
      BY <2>1, <3>1, <3>2
    <3>5. ASSUME NEW g \in Fd
          PROVE  /\ fds'[g].freed = fds[g].freed
                 /\ fds'[g].open = IF g = f THEN FALSE ELSE fds[g].open
                 /\ Filled(fds[g]) => Filled(fds'[g])
                 /\ \A w \in Virq : Has(fds'[g], w) <=> Has(fds[g], w)
      <4>1. CASE g = f
        <5>1. fds'[g] = q /\ fds[g] = fds[f]
          BY <3>3, <4>1
        <5>2. q.open = FALSE
          BY <2>1 DEF q, Ring
        <5> QED BY <3>2, <4>1, <5>1, <5>2
      <4>2. CASE g # f
        BY <3>3, <4>2
      <4> QED BY <4>1, <4>2
    <3> QED BY <2>3, <3>3, <3>4, <3>5
  <2> QED BY <2>2, <2>3 DEF Detached
<1>6. IrqTypes'
  BY <1>1, <1>3, <1>4, <1>5 DEF IrqInv, IrqTypes, Call
<1>7. Slots'
  BY <1>1, <1>4, RingHoldsTable DEF IrqInv, IrqTypes, Slots
<1>8. Requested'
  BY <1>1, <1>4 DEF IrqInv, IrqTypes, Requested, Detached
<1>9. ASSUME NEW u \in Task PROVE Knows(u)'
  <2>1. CASE u = t
    <3>1. call'[u].at = at /\ call'[u].virq = v /\ call'[u].slot = s
      BY <1>4, <2>1
    <3>2. line'[v] = s
      BY <1>1, <1>3
    <3> QED BY <1>3, <1>4, <3>1, <3>2 DEF Knows, Detached, Freed, Using
  <2>2. CASE u # t
    <3>1. FdOf[u] # f /\ FdOf[u] \in Fd
      BY <2>2, RingHoldsTable DEF OneEach
    <3>2. call[u].at \in {"request"} \cup Detached \cup Freed \cup Using => call[u].slot # s
      BY <1>1, <3>1 DEF IrqInv, Knows
    <3>3. call'[u] = call[u] /\ fds'[FdOf[u]] = fds[FdOf[u]] /\ line' = line /\ owed' = owed
      BY <1>1, <1>4, <1>5, <2>2, <3>1
    <3>4. ASSUME NEW w \in Virq, line[w] # NoEngine, engines[line[w]].owner = FdOf[u]
          PROVE  engines'[line[w]] = engines[line[w]]
      <4>1. line[w] # s /\ line[w] \in Slot
        BY <1>1, <3>1, <3>4 DEF IrqInv, IrqTypes
      <4> QED BY <1>4, <4>1
    <3>5. call[u].at \in {"request"} \cup Detached \cup Freed \cup Using =>
            call[u].slot \in Slot /\ engines'[call[u].slot] = engines[call[u].slot]
      BY <1>4, <3>2 DEF IrqInv, Knows
    <3> QED BY <3>3, <3>4, <3>5 DEF IrqInv, Knows, Detached, Freed, Using
  <2> QED BY <2>1, <2>2
<1>10. Apart'
  <2>1. ASSUME NEW u \in Task, call[u].at \in Detached \cup Freed PROVE call[u].slot # s
    BY <1>1, <2>1 DEF IrqInv, Knows
  <2> QED BY <1>4, <2>1 DEF IrqInv, Apart
<1>11. Shut'
  <2>1. ASSUME NEW u \in Task
        PROVE  /\ call'[u].at \in Closing => ~fds'[FdOf[u]].open
               /\ ~fds'[FdOf[u]].open => call'[u].at \in Closing
    <3>1. CASE u # t
      <4>1. FdOf[u] # f /\ FdOf[u] \in Fd
        BY <3>1, RingHoldsTable DEF OneEach
      <4>2. fds'[FdOf[u]] = fds[FdOf[u]] /\ call'[u] = call[u]
        BY <1>4, <1>5, <3>1, <4>1
      <4> QED BY <4>2 DEF IrqInv, Shut
    <3>2. CASE u = t /\ at = "free"
      <4>1. fds[f].open /\ fds' = fds /\ call'[u].at = "free"
        BY <1>4, <3>2 DEF Detaches
      <4> QED BY <3>2, <4>1 DEF Closing
    <3>3. CASE u = t /\ at = "close_free"
      <4>1. fds'[f].open = FALSE
        BY <1>2, <1>5, <3>3
      <4>2. call'[u].at = "close_free"
        BY <1>4, <3>3
      <4> QED BY <3>3, <4>1, <4>2 DEF Closing
    <3> QED BY <3>1, <3>2, <3>3 DEF Detached
  <2>2. ASSUME NEW g \in Fd, fds'[g].freed
        PROVE  ~fds'[g].open /\ \A x \in Slot : engines'[x].owner # g
    <3>1. ~fds[g].open /\ \A x \in Slot : engines[x].owner # g
      BY <1>5, <2>2 DEF IrqInv, Shut
    <3>2. \A x \in Slot : engines'[x].owner \in {engines[x].owner, NoFd}
      BY <1>4
    <3> QED BY <1>5, <3>1, <3>2, RingHoldsTable
  <2> QED BY <2>1, <2>2 DEF Shut
<1>12. Handlers'
  <2> SUFFICES ASSUME NEW w \in Virq, handler[w] # NoHandler
               PROVE  LET h == handler[w]
                          e == engines'[line[w]]
                      IN  /\ h.at = "queue" /\ line[w] # NoEngine /\ h.slot = line[w]
                          /\ e.owner # NoFd => h.fd = e.owner
                          /\ h.fd # NoFd =>
                               \/ e.owner = h.fd
                               \/ \E u \in Task : /\ FdOf[u] = h.fd
                                                  /\ call'[u].at \in Detached
                                                  /\ call'[u].slot = line[w]
    BY <1>1, ZenonT(60) DEF Handlers
  <2>1. /\ handler[w].at = "queue" /\ line[w] # NoEngine /\ handler[w].slot = line[w]
        /\ engines[line[w]].owner # NoFd => handler[w].fd = engines[line[w]].owner
        /\ line[w] \in Slot
    BY DEF IrqInv, IrqTypes, Handlers
  <2>2. CASE line[w] = s
    BY <1>1, <1>2, <1>4, <2>1, <2>2
  <2>3. CASE line[w] # s
    <3>1. engines'[line[w]] = engines[line[w]]
      BY <1>4, <2>1, <2>3
    <3>2. \A u \in Task : call[u].at \in Detached => call'[u] = call[u]
      BY <1>1, <1>4 DEF Detached
    <3> QED BY <2>1, <3>1, <3>2 DEF IrqInv, Handlers
  <2> QED BY <2>2, <2>3
<1>13. Single'
  BY <1>1, <1>5 DEF IrqInv, IrqTypes, Handler, Single
<1>14. Accounted'
  <2> SUFFICES ASSUME NEW w \in Virq, line[w] # NoEngine, engines'[line[w]].owner # NoFd
               PROVE  depth[w] = Depth(w, engines[line[w]].owner)'
    BY <1>1 DEF Accounted
  <2>1. engines'[line[w]] = engines[line[w]] /\ engines[line[w]].owner \in Fd
    BY <1>4 DEF IrqInv, IrqTypes, Engine
  <2>2. depth[w] = Depth(w, engines[line[w]].owner)
    BY <2>1, RingHoldsTable DEF IrqInv, Accounted
  <2> DEFINE g == engines[line[w]].owner
  <2>3. One(Has(fds'[g], w)) = One(Has(fds[g], w))
    BY <1>5, <2>1 DEF One
  <2>4. engines'[line'[w]].owner = g /\ owed' = owed /\ handler' = handler
    BY <1>1, <2>1
  <2>5. Depth(w, g) = owed[g][w] + One(Has(fds'[g], w)) + One(handler[w].at = "queue")
    BY <2>3 DEF Depth
  <2> HIDE DEF g
  <2> QED BY <2>2, <2>4, <2>5 DEF Depth, g
<1> QED BY <1>6, <1>7, <1>8, <1>9, <1>10, <1>11, <1>12, <1>13, <1>14 DEF IrqInv
-----------------------------------------------------------------------------
(* request_irq and free_irq.                                               *)

LEMMA RequestIrqKeeps ==
  ASSUME OneEach, NEW t \in Task, IrqInv, RequestIrq(t)
  PROVE  IrqInv'
<1> DEFINE s == call[t].slot
           v == call[t].virq
           f == FdOf[t]
<1>1. /\ call[t].at = "request" /\ line[v] = NoEngine
      /\ line' = [line EXCEPT ![v] = s] /\ depth' = [depth EXCEPT ![v] = 0]
      /\ owed' = [owed EXCEPT ![f][v] = 0] /\ call' = [call EXCEPT ![t] = NoCall]
      /\ UNCHANGED <<engines, handler, fds>>
  BY DEF RequestIrq, IrqReturn
<1>2. /\ s \in Slot /\ v \in Virq /\ f \in Fd /\ f # NoFd /\ s # NoEngine
      /\ engines[s].owner = f /\ engines[s].virq = v /\ ~Has(fds[f], v)
  BY <1>1, RingHoldsTable DEF IrqInv, Knows
<1>3. engines[s].active /\ ~engines[s].freeing
  BY <1>2 DEF IrqInv, Slots
<1>4. NoCall \in Call /\ NoCall.at = "none"
  BY DEF NoCall, Call
<1>5. /\ line'[v] = s /\ \A w \in Virq : w # v => line'[w] = line[w]
      /\ depth'[v] = 0 /\ \A w \in Virq : w # v => depth'[w] = depth[w]
      /\ owed'[f][v] = 0
      /\ \A g \in Fd, w \in Virq : g # f \/ w # v => owed'[g][w] = owed[g][w]
      /\ call'[t] = NoCall /\ \A u \in Task : u # t => call'[u] = call[u]
  BY <1>1, <1>2 DEF IrqInv, IrqTypes
<1>6. IrqTypes'
  <2>1. [owed[f] EXCEPT ![v] = 0] \in [Virq -> Nat]
    BY <1>2 DEF IrqInv, IrqTypes
  <2>2. owed' \in [Fd -> [Virq -> Nat]]
    BY <1>1, <1>2, <2>1 DEF IrqInv, IrqTypes
  <2> QED BY <1>1, <1>2, <1>4, <2>2 DEF IrqInv, IrqTypes
<1>7. Slots'
  BY <1>1, <1>2, <1>3, <1>5 DEF IrqInv, Slots
<1>8. Requested'
  <2> SUFFICES ASSUME NEW x \in Slot, engines[x].owner # NoFd
               PROVE  \/ engines[x].virq \in Virq /\ line'[engines[x].virq] = x
                      \/ \E u \in Task : /\ call'[u].at = "request" /\ call'[u].slot = x
                                         /\ FdOf[u] = engines[x].owner
    BY <1>1 DEF Requested
  <2>1. CASE x = s
    BY <1>2, <1>5, <2>1
  <2>2. CASE x # s
    <3>1. \A u \in Task : call[u].slot = x => call'[u] = call[u]
      BY <1>5, <2>2
    <3>2. \A w \in Virq : line[w] = x => line'[w] = x
      BY <1>1, <1>5, RingHoldsTable
    <3> QED BY <3>1, <3>2 DEF IrqInv, Requested
  <2> QED BY <2>1, <2>2
<1>9. ASSUME NEW u \in Task PROVE Knows(u)'
  <2>1. CASE u = t
    BY <1>4, <1>5, <2>1 DEF Knows, Detached, Freed, Using
  <2>2. CASE u # t
    <3>1. FdOf[u] # f /\ FdOf[u] \in Fd
      BY <2>2, RingHoldsTable DEF OneEach
    <3>2. call[u].at \in {"request"} \cup Freed => call[u].slot # s
      BY <1>2, <1>3, <3>1 DEF IrqInv, Knows
    <3>3. \A w \in Virq : line[w] # NoEngine => line'[w] = line[w]
      BY <1>1, <1>5
    <3>4. \A w \in Virq : line'[w] \in {line[w], s}
      BY <1>5
    <3>5. call'[u] = call[u] /\ owed'[FdOf[u]] = owed[FdOf[u]]
      BY <1>1, <1>2, <1>5, <2>2, <3>1 DEF IrqInv, IrqTypes
    <3>6. Knows(u)
      BY DEF IrqInv
    <3> QED BY <1>1, <3>2, <3>3, <3>4, <3>5, <3>6, RingHoldsTable DEF Knows, Detached, Freed, Using
  <2> QED BY <2>1, <2>2
<1>10. Apart'
  BY <1>4, <1>5 DEF IrqInv, Apart, Detached, Freed
<1>11. Shut'
  <2>1. fds[f].open
    BY <1>1 DEF IrqInv, Shut, Closing
  <2> QED BY <1>1, <1>4, <1>5, <2>1 DEF IrqInv, Shut, Closing
<1>12. Handlers'
  <2>1. \A w \in Virq : line[w] # NoEngine => line'[w] = line[w]
    BY <1>1, <1>5
  <2>2. \A u \in Task : call[u].at \in Detached => call'[u] = call[u]
    BY <1>1, <1>5 DEF Detached
  <2>3. handler' = handler /\ engines' = engines
    BY <1>1
  <2> QED BY <2>1, <2>2, <2>3 DEF IrqInv, Handlers
<1>13. Single'
  BY <1>1 DEF IrqInv, Single
<1>14. Accounted'
  <2> SUFFICES ASSUME NEW w \in Virq, line'[w] # NoEngine, engines[line'[w]].owner # NoFd
               PROVE  depth'[w] = Depth(w, engines[line[w]].owner)'
    BY <1>1 DEF Accounted
  <2>1. CASE w = v
    <3>1. handler[v].at # "queue"
      BY <1>1, <1>2 DEF IrqInv, Handlers, NoHandler
    <3>2. engines'[line'[w]].owner = f
      BY <1>1, <1>2, <1>5, <2>1
    <3> QED BY <1>1, <1>2, <1>5, <2>1, <3>1, <3>2 DEF Depth, One
  <2>2. CASE w # v
    <3>1. line'[w] = line[w] /\ engines[line[w]].owner \in Fd
      BY <1>5, <2>2 DEF IrqInv, IrqTypes, Engine
    <3>2. depth[w] = Depth(w, engines[line[w]].owner)
      BY <3>1, RingHoldsTable DEF IrqInv, Accounted
    <3> QED BY <1>1, <1>5, <2>2, <3>1, <3>2 DEF Depth
  <2> QED BY <2>1, <2>2
<1> QED BY <1>6, <1>7, <1>8, <1>9, <1>10, <1>11, <1>12, <1>13, <1>14 DEF IrqInv

\* free_irq, for FREE and for a release.
Frees(t, to) ==
  /\ \/ call[t].at = "free" /\ to = "freed"
     \/ call[t].at = "close_free" /\ to = "close_freed"
  /\ FreeIrq(call[t].virq, call[t].slot)
  /\ InCall(t, to, call[t].virq, call[t].slot)
  /\ UNCHANGED <<engines, depth, handler, fds, owed>>

LEMMA FreesKeeps ==
  ASSUME OneEach, NEW t \in Task, NEW to, IrqInv, Frees(t, to)
  PROVE  IrqInv'
<1> DEFINE s == call[t].slot
           v == call[t].virq
           c == [at |-> to, virq |-> v, slot |-> s]
<1>1. /\ call[t].at \in Detached /\ to \in Freed
      /\ call[t].at \in Closing <=> to \in Closing
      /\ call' = [call EXCEPT ![t] = c]
      /\ UNCHANGED <<engines, depth, handler, fds, owed>>
  BY DEF Frees, InCall, Detached, Freed, Closing
<1>2. /\ s \in Slot /\ v \in Virq /\ s # NoEngine /\ line[v] = s
      /\ engines[s].freeing /\ engines[s].virq = v
  BY <1>1, RingHoldsTable DEF IrqInv, Knows
<1>3. engines[s].owner = NoFd /\ \A w \in Virq : line[w] = s => w = v
  BY <1>2 DEF IrqInv, Slots
<1>4. handler[v] = NoHandler /\ line' = [line EXCEPT ![v] = NoEngine]
  BY <1>2 DEF Frees, FreeIrq
<1>5. /\ line'[v] = NoEngine /\ \A w \in Virq : w # v => line'[w] = line[w]
      /\ call'[t] = c /\ \A u \in Task : u # t => call'[u] = call[u]
  BY <1>1, <1>2, <1>4 DEF IrqInv, IrqTypes
<1>6. IrqTypes'
  <2>1. c \in Call
    BY <1>1, <1>2 DEF Call
  <2> HIDE DEF c
  <2> QED BY <1>1, <1>4, <2>1 DEF IrqInv, IrqTypes
<1>7. Slots'
  BY <1>1, <1>5 DEF IrqInv, Slots
<1>8. Requested'
  <2>1. \A u \in Task : call[u].at = "request" => call'[u] = call[u]
    BY <1>1, <1>5 DEF Detached
  <2>2. \A x \in Slot, w \in Virq : engines[x].owner # NoFd /\ line[w] = x => line'[w] = x
    BY <1>2, <1>3, <1>5
  <2> QED BY <1>1, <2>1, <2>2 DEF IrqInv, Requested
<1>9. ASSUME NEW u \in Task PROVE Knows(u)'
  <2>1. CASE u = t
    BY <1>1, <1>2, <1>5, <2>1 DEF Knows, Detached, Freed, Using
  <2>2. CASE u # t
    <3>1. FdOf[u] # NoFd
      BY RingHoldsTable
    <3>2. call[u].at \in Detached \cup Using => call[u].virq # v
      BY <1>1, <1>2, <1>3, <2>2, <3>1 DEF IrqInv, Knows, Apart
    <3>3. \A w \in Virq : line[w] # NoEngine /\ engines[line[w]].owner = FdOf[u] =>
                            line'[w] = line[w]
      BY <1>2, <1>3, <1>5, <3>1
    <3>4. \A w \in Virq : line'[w] \in {line[w], NoEngine}
      BY <1>5
    <3>5. call'[u] = call[u] /\ Knows(u)
      BY <1>5, <2>2 DEF IrqInv
    <3> QED BY <1>1, <1>5, <3>2, <3>3, <3>4, <3>5, RingHoldsTable DEF Knows, Detached, Freed, Using
  <2> QED BY <2>1, <2>2
<1>10. Apart'
  <2>1. \A u \in Task : /\ call'[u].slot = call[u].slot
                        /\ call'[u].at \in Detached \cup Freed => call[u].at \in Detached \cup Freed
    BY <1>1, <1>5
  <2> QED BY <2>1 DEF IrqInv, Apart
<1>11. Shut'
  <2>1. \A u \in Task : call'[u].at \in Closing <=> call[u].at \in Closing
    BY <1>1, <1>5
  <2> QED BY <1>1, <2>1 DEF IrqInv, Shut
<1>12. Handlers'
  <2> SUFFICES ASSUME NEW w \in Virq, handler[w] # NoHandler
               PROVE  LET h == handler[w]
                          e == engines[line'[w]]
                      IN  /\ h.at = "queue" /\ line'[w] # NoEngine /\ h.slot = line'[w]
                          /\ e.owner # NoFd => h.fd = e.owner
                          /\ h.fd # NoFd =>
                               \/ e.owner = h.fd
                               \/ \E u \in Task : /\ FdOf[u] = h.fd
                                                  /\ call'[u].at \in Detached
                                                  /\ call'[u].slot = line'[w]
    BY <1>1 DEF Handlers
  <2>1. w # v /\ line'[w] = line[w] /\ line[w] # s
    BY <1>2, <1>3, <1>4, <1>5
  <2>2. \A u \in Task : call[u].slot = line[w] => call'[u] = call[u]
    BY <1>5, <2>1
  <2> QED BY <2>1, <2>2 DEF IrqInv, Handlers
<1>13. Single'
  BY <1>1 DEF IrqInv, Single
<1>14. Accounted'
  <2>1. \A w \in Virq : line'[w] # NoEngine => line'[w] = line[w]
    BY <1>5
  <2> QED BY <1>1, <2>1 DEF IrqInv, Accounted, Depth
<1> QED BY <1>6, <1>7, <1>8, <1>9, <1>10, <1>11, <1>12, <1>13, <1>14 DEF IrqInv

\* The slot is given back.
Clears(t, c) ==
  /\ \/ call[t].at = "freed" /\ c = NoCall
     \/ call[t].at = "close_freed" /\ c = [at |-> "close", virq |-> NoEvent, slot |-> NoEngine]
  /\ Clear(call[t].slot)
  /\ call' = [call EXCEPT ![t] = c]
  /\ UNCHANGED <<line, depth, handler, fds, owed>>

LEMMA ClearsKeeps ==
  ASSUME OneEach, NEW t \in Task, NEW c, IrqInv, Clears(t, c)
  PROVE  IrqInv'
<1> DEFINE s == call[t].slot
<1>1. /\ call[t].at \in Freed
      /\ engines' = [engines EXCEPT ![s].active = FALSE, ![s].freeing = FALSE]
      /\ call' = [call EXCEPT ![t] = c]
      /\ UNCHANGED <<line, depth, handler, fds, owed>>
  BY DEF Clears, Clear, Freed
<1>2. /\ c \in Call /\ c.at \in {"none", "close"}
      /\ c.at \in Closing <=> call[t].at \in Closing
  BY DEF Clears, NoCall, Call, Closing
<1>3. /\ s \in Slot /\ call[t].virq \in Virq /\ engines[s].freeing
      /\ engines[s].virq = call[t].virq /\ line[call[t].virq] # s
  BY <1>1 DEF IrqInv, Knows
<1>4. engines[s].owner = NoFd /\ \A w \in Virq : line[w] # s
  BY <1>3, RingHoldsTable DEF IrqInv, Slots
<1>5. /\ ~engines'[s].active /\ ~engines'[s].freeing /\ engines'[s].owner = NoFd
      /\ engines'[s] \in Engine
      /\ \A x \in Slot : x # s => engines'[x] = engines[x]
      /\ call'[t] = c /\ \A u \in Task : u # t => call'[u] = call[u]
  BY <1>1, <1>3, <1>4 DEF IrqInv, IrqTypes, Engine
<1>6. IrqTypes'
  BY <1>1, <1>2, <1>5 DEF IrqInv, IrqTypes
<1>7. \A w \in Virq : line[w] # NoEngine => engines'[line[w]] = engines[line[w]]
  BY <1>4, <1>5 DEF IrqInv, IrqTypes
<1>8. Slots'
  <2>1. ASSUME NEW x \in Slot
        PROVE  /\ engines'[x].owner # NoFd => engines'[x].active /\ ~engines'[x].freeing
               /\ engines'[x].freeing => engines'[x].active
    <3>1. CASE x = s
      BY <1>5, <3>1
    <3>2. CASE x # s
      BY <1>5, <3>2 DEF IrqInv, Slots
    <3> QED BY <3>1, <3>2
  <2>2. \A w \in Virq : line[w] # NoEngine =>
          engines'[line[w]].active /\ engines'[line[w]].virq = w
    BY <1>7 DEF IrqInv, Slots
  <2>3. line' = line
    BY <1>1
  <2> QED BY <2>1, <2>2, <2>3 DEF Slots
<1>9. Requested'
  <2>1. \A u \in Task : call[u].at = "request" => call'[u] = call[u]
    BY <1>1, <1>5 DEF Freed
  <2>2. \A x \in Slot : engines'[x].owner # NoFd => engines'[x] = engines[x]
    BY <1>5
  <2>3. line' = line
    BY <1>1
  <2> SUFFICES ASSUME NEW x \in Slot, engines'[x].owner # NoFd
               PROVE  \/ engines[x].virq \in Virq /\ line[engines[x].virq] = x
                      \/ \E u \in Task : /\ call'[u].at = "request" /\ call'[u].slot = x
                                         /\ FdOf[u] = engines[x].owner
    BY <2>2, <2>3 DEF Requested
  <2> QED BY <2>1, <2>2 DEF IrqInv, Requested
<1>10. ASSUME NEW u \in Task PROVE Knows(u)'
  <2>1. CASE u = t
    BY <1>2, <1>5, <2>1 DEF Knows, Detached, Freed, Using
  <2>2. CASE u # t
    <3>1. FdOf[u] # NoFd
      BY RingHoldsTable
    <3>2. call[u].at \in {"request"} \cup Detached \cup Freed \cup Using =>
            call[u].slot \in Slot /\ call[u].slot # s
      BY <1>1, <1>4, <2>2, <3>1 DEF IrqInv, Knows, Apart
    <3>3. call'[u] = call[u] /\ Knows(u)
      BY <1>5, <2>2 DEF IrqInv
    <3>4. call[u].at \in {"request"} \cup Detached \cup Freed \cup Using =>
            engines'[call[u].slot] = engines[call[u].slot]
      BY <1>5, <3>2
    <3>5. line' = line /\ fds' = fds /\ owed' = owed
      BY <1>1
    <3> QED BY <1>7, <3>3, <3>4, <3>5 DEF Knows
  <2> QED BY <2>1, <2>2
<1>11. Apart'
  BY <1>2, <1>5 DEF IrqInv, Apart, Detached, Freed
<1>12. Shut'
  <2>1. \A u \in Task : call'[u].at \in Closing <=> call[u].at \in Closing
    BY <1>2, <1>5
  <2>2. \A x \in Slot : engines'[x].owner = engines[x].owner
    BY <1>4, <1>5
  <2> QED BY <1>1, <2>1, <2>2 DEF IrqInv, Shut
<1>13. Handlers'
  <2>1. \A u \in Task : call[u].at \in Detached => call'[u] = call[u]
    BY <1>1, <1>5 DEF Detached, Freed
  <2>2. line' = line /\ handler' = handler
    BY <1>1
  <2> QED BY <1>7, <2>1, <2>2 DEF IrqInv, Handlers
<1>14. Single' /\ Accounted'
  BY <1>1, <1>7, SameRings DEF IrqInv
<1> QED BY <1>6, <1>8, <1>9, <1>10, <1>11, <1>12, <1>13, <1>14 DEF IrqInv

-----------------------------------------------------------------------------
(* The calls that leave the table as it is.                                *)

\* A thread that frees nothing and requests nothing moves on.
LEMMA CallMoves ==
  ASSUME NEW t \in Task, NEW c \in Call, IrqInv,
         call' = [call EXCEPT ![t] = c], UNCHANGED <<engines, line, handler>>,
         call[t].at \notin {"request"} \cup Detached, c.at \notin Detached \cup Freed
  PROVE  Slots' /\ Requested' /\ Apart' /\ Handlers'
<1>1. /\ call'[t] = c /\ \A u \in Task : u # t => call'[u] = call[u]
      /\ \A u \in Task : call[u].at \in {"request"} \cup Detached => call'[u] = call[u]
      /\ engines' = engines /\ line' = line /\ handler' = handler
  BY DEF IrqInv, IrqTypes
<1>2. Slots'
  BY <1>1 DEF IrqInv, Slots
<1>3. Requested'
  BY <1>1 DEF IrqInv, Requested
<1>4. Apart'
  BY <1>1 DEF IrqInv, Apart
<1>5. Handlers'
  BY <1>1 DEF IrqInv, Handlers
<1> QED BY <1>2, <1>3, <1>4, <1>5

LEMMA CallOnlyKeeps ==
  ASSUME NEW t \in Task, NEW c \in Call, IrqInv,
         call' = [call EXCEPT ![t] = c],
         UNCHANGED <<engines, line, depth, handler, fds, owed>>,
         call[t].at \notin {"request"} \cup Detached, c.at \notin Detached \cup Freed,
         call[t].at \notin Closing, c.at \notin Closing, Knows(t)'
  PROVE  IrqInv'
<1>1. call'[t] = c /\ \A u \in Task : u # t => call'[u] = call[u]
  BY DEF IrqInv, IrqTypes
<1>2. IrqTypes'
  BY DEF IrqInv, IrqTypes
<1>3. Slots' /\ Requested' /\ Apart' /\ Handlers'
  BY CallMoves
<1>4. ASSUME NEW u \in Task PROVE Knows(u)'
  <2>1. CASE u # t
    BY <1>1, <2>1 DEF IrqInv, Knows
  <2> QED BY <2>1
<1>5. Shut'
  BY <1>1 DEF IrqInv, Shut
<1>6. Single' /\ Accounted'
  BY SameRings DEF IrqInv
<1> QED BY <1>2, <1>3, <1>4, <1>5, <1>6 DEF IrqInv

\* DISABLE and ENABLE move the depth of a line and what its client owes alike.
LEMMA DepthMovesKeeps ==
  ASSUME OneEach, NEW t \in Task, NEW c \in Call, NEW n \in Nat, NEW m \in Nat, IrqInv,
         NEW v, v = call[t].virq, NEW f, f = FdOf[t],
         call[t].at \in Using, c.at \in {"none", "disabled"},
         call' = [call EXCEPT ![t] = c],
         depth' = [depth EXCEPT ![v] = n], owed' = [owed EXCEPT ![f][v] = m],
         n + owed[f][v] = m + depth[v],
         UNCHANGED <<engines, line, handler, fds>>, Knows(t)'
  PROVE  IrqInv'
<1>1. /\ v \in Virq /\ f \in Fd /\ line[v] = call[t].slot
      /\ engines[line[v]].owner = f /\ line[v] # NoEngine
  BY RingHoldsTable DEF IrqInv, Knows
<1>2. /\ call'[t] = c /\ \A u \in Task : u # t => call'[u] = call[u]
      /\ depth'[v] = n /\ \A w \in Virq : w # v => depth'[w] = depth[w]
      /\ owed'[f][v] = m
      /\ \A g \in Fd, w \in Virq : g # f \/ w # v => owed'[g][w] = owed[g][w]
      /\ \A g \in Fd : g # f => owed'[g] = owed[g]
  BY <1>1 DEF IrqInv, IrqTypes
<1>3. IrqTypes'
  <2>1. [owed[f] EXCEPT ![v] = m] \in [Virq -> Nat]
    BY <1>1 DEF IrqInv, IrqTypes
  <2>2. owed' \in [Fd -> [Virq -> Nat]]
    BY <1>1, <2>1 DEF IrqInv, IrqTypes
  <2> QED BY <2>2 DEF IrqInv, IrqTypes
<1>4. Slots' /\ Requested' /\ Apart' /\ Handlers'
  BY CallMoves DEF Using, Detached, Freed
<1>5. ASSUME NEW u \in Task PROVE Knows(u)'
  <2>1. CASE u # t
    <3>1. FdOf[u] # f /\ FdOf[u] \in Fd
      BY <2>1, RingHoldsTable DEF OneEach
    <3>2. owed'[FdOf[u]] = owed[FdOf[u]] /\ call'[u] = call[u] /\ Knows(u)
      BY <1>2, <2>1, <3>1 DEF IrqInv
    <3> QED BY <3>2 DEF Knows
  <2> QED BY <2>1
<1>6. Shut'
  BY <1>2 DEF IrqInv, Shut, Using, Closing
<1>7. Single'
  BY DEF IrqInv, Single
<1>8. Accounted'
  <2> SUFFICES ASSUME NEW w \in Virq, line[w] # NoEngine, engines[line[w]].owner # NoFd
               PROVE  depth'[w] = Depth(w, engines[line[w]].owner)'
    BY DEF Accounted
  <2> DEFINE g == engines[line[w]].owner
  <2>1. depth[w] = Depth(w, g) /\ g \in Fd
    BY DEF IrqInv, IrqTypes, Engine, Accounted
  <2>2. CASE w # v
    BY <1>2, <2>1, <2>2 DEF Depth
  <2>3. CASE w = v
    <3> DEFINE k == One(Has(fds[f], v)) + One(handler[v].at = "queue")
    <3>1. k \in Nat /\ k = One(Has(fds[f], v)) + One(handler[v].at = "queue")
      BY DEF One
    <3>2. owed[f][v] \in Nat /\ depth[v] \in Nat
      BY <1>1 DEF IrqInv, IrqTypes
    <3>3. One(Has(fds[f], v)) \in Nat /\ One(handler[v].at = "queue") \in Nat
      BY DEF One
    <3>4. depth[v] = owed[f][v] + One(Has(fds[f], v)) + One(handler[v].at = "queue")
      BY <1>1, <2>1, <2>3 DEF Depth
    <3>5. n = m + One(Has(fds[f], v)) + One(handler[v].at = "queue")
      BY <3>2, <3>3, <3>4
    <3>6. /\ depth'[w] = n /\ owed'[f][v] = m
          /\ fds' = fds /\ handler' = handler /\ engines' = engines /\ line' = line
      BY <1>2, <2>3
    <3> QED BY <1>1, <2>3, <3>5, <3>6 DEF Depth
  <2> QED BY <2>2, <2>3
<1> QED BY <1>3, <1>4, <1>5, <1>6, <1>7, <1>8 DEF IrqInv

LEMMA DisableIrqKeeps ==
  ASSUME OneEach, NEW t \in Task, IrqInv, DisableIrq(t)
  PROVE  IrqInv'
<1> DEFINE v == call[t].virq
           f == FdOf[t]
           c == [at |-> "disabled", virq |-> v, slot |-> call[t].slot]
<1>1. /\ call[t].at = "disable" /\ call' = [call EXCEPT ![t] = c]
      /\ depth' = [depth EXCEPT ![v] = depth[v] + 1]
      /\ owed' = [owed EXCEPT ![f][v] = owed[f][v] + 1]
      /\ UNCHANGED <<engines, line, handler, fds>>
  BY DEF DisableIrq, InCall
<1>2. /\ v \in Virq /\ f \in Fd /\ call[t].slot \in Slot /\ line[v] = call[t].slot
      /\ engines[call[t].slot].owner = f /\ engines[call[t].slot].virq = v
  BY <1>1, RingHoldsTable DEF IrqInv, Knows, Using
<1>3. depth[v] \in Nat /\ owed[f][v] \in Nat
  BY <1>2 DEF IrqInv, IrqTypes
<1>4. c \in Call
  BY <1>2 DEF Call, Using
<1>5. Knows(t)'
  <2>1. call'[t] = c
    BY <1>1 DEF IrqInv, IrqTypes
  <2> QED BY <1>1, <1>2, <2>1 DEF Knows, Using, Detached, Freed
<1>6. depth[v] + 1 \in Nat /\ owed[f][v] + 1 \in Nat
      /\ depth[v] + 1 + owed[f][v] = owed[f][v] + 1 + depth[v]
  BY <1>3
<1>7. call[t].at \in Using /\ c.at \in {"none", "disabled"}
  BY <1>1 DEF Using
<1> HIDE DEF c
<1> QED BY <1>1, <1>4, <1>5, <1>6, <1>7, DepthMovesKeeps

LEMMA EnableIrqKeeps ==
  ASSUME OneEach, NEW t \in Task, IrqInv, EnableIrq(t)
  PROVE  IrqInv'
<1> DEFINE v == call[t].virq
           f == FdOf[t]
<1>1. /\ call[t].at = "enable" /\ call' = [call EXCEPT ![t] = NoCall]
      /\ depth' = [depth EXCEPT ![v] = IF depth[v] > 0 THEN depth[v] - 1 ELSE 0]
      /\ owed' = [owed EXCEPT ![f][v] = owed[f][v] - 1]
      /\ UNCHANGED <<engines, line, handler, fds>>
  BY DEF EnableIrq, IrqReturn
<1>2. /\ v \in Virq /\ f \in Fd /\ f # NoFd /\ line[v] # NoEngine
      /\ engines[line[v]].owner = f /\ owed[f][v] > 0
  BY <1>1, RingHoldsTable DEF IrqInv, Knows, Using
<1>3. depth[v] \in Nat /\ owed[f][v] \in Nat
  BY <1>2 DEF IrqInv, IrqTypes
<1>4. depth[v] > 0
  <2>1. depth[v] = owed[f][v] + One(Has(fds[f], v)) + One(handler[v].at = "queue")
    BY <1>2 DEF IrqInv, Accounted, Depth
  <2>2. One(Has(fds[f], v)) \in Nat /\ One(handler[v].at = "queue") \in Nat
    BY DEF One
  <2> QED BY <1>2, <1>3, <2>1, <2>2
<1>5. /\ depth' = [depth EXCEPT ![v] = depth[v] - 1]
      /\ depth[v] - 1 \in Nat /\ owed[f][v] - 1 \in Nat
      /\ depth[v] - 1 + owed[f][v] = owed[f][v] - 1 + depth[v]
  <2>1. (IF depth[v] > 0 THEN depth[v] - 1 ELSE 0) = depth[v] - 1
    BY <1>4
  <2>2. depth' = [depth EXCEPT ![v] = depth[v] - 1]
    BY <1>1, <2>1
  <2>3. depth[v] - 1 \in Nat /\ owed[f][v] - 1 \in Nat
    BY <1>2, <1>3, <1>4
  <2>4. depth[v] - 1 + owed[f][v] = owed[f][v] - 1 + depth[v]
    BY <1>3
  <2> QED BY <2>2, <2>3, <2>4
<1>6. /\ NoCall \in Call /\ NoCall.at \in {"none", "disabled"}
      /\ call[t].at \in Using
  BY <1>1 DEF NoCall, Call, Using
<1>7. Knows(t)'
  <2>1. call'[t] = NoCall
    BY <1>1 DEF IrqInv, IrqTypes
  <2> QED BY <2>1 DEF NoCall, Knows, Using, Detached, Freed
<1> QED BY <1>1, <1>5, <1>6, <1>7, DepthMovesKeeps

\* DISABLE and ENABLE look the slot up.
LEMMA FindSlotKeeps ==
  ASSUME OneEach, NEW t \in Task, NEW v \in Virq, NEW s \in Slot, NEW at \in {"disable", "enable"},
         IrqInv, FindSlot(t, v, at, s), at = "enable" => owed[FdOf[t]][v] > 0,
         UNCHANGED <<engines, line, depth, handler, fds, owed>>
  PROVE  IrqInv'
<1> DEFINE c == [at |-> at, virq |-> v, slot |-> s]
<1>1. /\ call[t].at = "none" /\ call' = [call EXCEPT ![t] = c]
      /\ engines[s].owner = FdOf[t] /\ engines[s].virq = v
  BY DEF FindSlot, Idle, NoCall, InCall, IsFirst, ByHwirq
<1>2. line[v] = s
  <2>1. FdOf[t] # NoFd
    BY RingHoldsTable
  <2>2. ASSUME NEW u \in Task, call[u].at = "request", FdOf[u] = FdOf[t] PROVE FALSE
    BY <1>1, <2>2 DEF OneEach
  <2> QED BY <1>1, <2>1, <2>2 DEF IrqInv, Requested
<1>3. c \in Call
  BY DEF Call, Using
<1>4. Knows(t)'
  <2>1. call'[t] = c
    BY <1>1 DEF IrqInv, IrqTypes
  <2> QED BY <1>1, <1>2, <2>1 DEF Knows, Using, Detached, Freed
<1>5. /\ call[t].at \notin {"request"} \cup Detached /\ c.at \notin Detached \cup Freed
      /\ call[t].at \notin Closing /\ c.at \notin Closing
  BY <1>1 DEF Detached, Freed, Closing
<1> HIDE DEF c
<1> QED BY <1>1, <1>3, <1>4, <1>5, CallOnlyKeeps

LEMMA DisableWaitsKeeps ==
  ASSUME NEW t \in Task, IrqInv, DisableWaits(t)
  PROVE  IrqInv'
<1>1. /\ call[t].at = "disabled" /\ call' = [call EXCEPT ![t] = NoCall]
      /\ UNCHANGED <<engines, line, depth, handler, fds, owed>>
  BY DEF DisableWaits, IrqReturn
<1>2. /\ NoCall \in Call /\ NoCall.at \notin Detached \cup Freed /\ NoCall.at \notin Closing
      /\ call[t].at \notin {"request"} \cup Detached /\ call[t].at \notin Closing
  BY <1>1 DEF NoCall, Call, Detached, Freed, Closing
<1>3. Knows(t)'
  <2>1. call'[t] = NoCall
    BY <1>1 DEF IrqInv, IrqTypes
  <2> QED BY <2>1 DEF NoCall, Knows, Using, Detached, Freed
<1> QED BY <1>1, <1>2, <1>3, CallOnlyKeeps

LEMMA WaitWakesKeeps ==
  ASSUME NEW t \in Task, IrqInv, WaitWakes(t)
  PROVE  IrqInv'
<1> DEFINE c == [at |-> "read", virq |-> NoEvent, slot |-> NoEngine]
<1>1. /\ call[t].at = "none" /\ call' = [call EXCEPT ![t] = c]
      /\ fds[FdOf[t]].head # fds[FdOf[t]].tail
      /\ UNCHANGED <<engines, line, depth, handler, fds, owed>>
  BY DEF WaitWakes, Idle, NoCall, InCall
<1>2. /\ c \in Call /\ c.at \notin Detached \cup Freed /\ c.at \notin Closing
      /\ call[t].at \notin {"request"} \cup Detached /\ call[t].at \notin Closing
  BY <1>1 DEF Call, Detached, Freed, Closing
<1>3. Knows(t)'
  <2>1. call'[t] = c
    BY <1>1 DEF IrqInv, IrqTypes
  <2> QED BY <1>1, <2>1 DEF Knows, Using, Detached, Freed
<1> HIDE DEF c
<1> QED BY <1>1, <1>2, <1>3, CallOnlyKeeps

-----------------------------------------------------------------------------
(* WAIT_EVENT and the end of a release: a ring changes.                    *)

LEMMA WaitReadsKeeps ==
  ASSUME OneEach, NEW t \in Task, IrqInv, WaitReads(t)
  PROVE  IrqInv'
<1> DEFINE f == FdOf[t]
           r == fds[f]
           v == r.ring[r.tail]
           q == [r EXCEPT !.tail = Next1(r.tail)]
<1>1. f \in Fd /\ f # NoFd /\ r \in Ring /\ Filled(r)
  BY RingHoldsTable DEF IrqInv, IrqTypes, Single
<1>2. /\ call[t].at = "read" /\ call' = [call EXCEPT ![t] = NoCall]
      /\ UNCHANGED <<engines, line, depth, handler>>
      /\ r.head # r.tail
  BY DEF WaitReads, IrqReturn, IrqInv, Knows
<1>3. /\ v \in Virq /\ q \in Ring /\ Filled(q) /\ Has(r, v) /\ ~Has(q, v)
      /\ \A w \in Virq : w # v => (Has(q, w) <=> Has(r, w))
      /\ q.open = r.open /\ q.freed = r.freed
  <2> HIDE DEF r
  <2> QED BY <1>1, <1>2, RingTakes
<1>4. fds' = [fds EXCEPT ![f] = q] /\ owed' = [owed EXCEPT ![f][v] = owed[f][v] + 1]
  BY <1>3, RingHoldsTable DEF WaitReads
<1>5. owed[f][v] \in Nat /\ [owed[f] EXCEPT ![v] = owed[f][v] + 1] \in [Virq -> Nat]
  <2>1. owed[f] \in [Virq -> Nat]
    BY <1>1 DEF IrqInv, IrqTypes
  <2>2. owed[f][v] \in Nat
    BY <1>3, <2>1
  <2> HIDE DEF v
  <2> QED BY <1>3, <2>1, <2>2
<1> HIDE DEF q, v, r
<1>6. /\ fds'[f] = q /\ \A g \in Fd : g # f => fds'[g] = fds[g]
      /\ owed'[f][v] = owed[f][v] + 1
      /\ \A g \in Fd, w \in Virq : g # f \/ w # v => owed'[g][w] = owed[g][w]
      /\ \A g \in Fd : g # f => owed'[g] = owed[g]
      /\ call'[t] = NoCall /\ \A u \in Task : u # t => call'[u] = call[u]
  BY <1>1, <1>2, <1>3, <1>4, <1>5 DEF IrqInv, IrqTypes
<1>7. NoCall \in Call /\ NoCall.at = "none"
  BY DEF NoCall, Call
<1>8. IrqTypes'
  <2>1. owed' \in [Fd -> [Virq -> Nat]]
    BY <1>1, <1>4, <1>5 DEF IrqInv, IrqTypes
  <2> QED BY <1>1, <1>2, <1>3, <1>4, <1>7, <2>1 DEF IrqInv, IrqTypes
<1>9. Slots' /\ Requested' /\ Apart' /\ Handlers'
  BY <1>2, <1>7, CallMoves DEF Detached, Freed
<1>10. ASSUME NEW u \in Task PROVE Knows(u)'
  <2>1. CASE u = t
    BY <1>6, <1>7, <2>1 DEF Knows, Detached, Freed, Using
  <2>2. CASE u # t
    <3>1. FdOf[u] # f /\ FdOf[u] \in Fd
      BY <2>2, RingHoldsTable DEF OneEach
    <3>2. /\ owed'[FdOf[u]] = owed[FdOf[u]] /\ fds'[FdOf[u]] = fds[FdOf[u]]
          /\ call'[u] = call[u] /\ Knows(u)
      BY <1>6, <2>2, <3>1 DEF IrqInv
    <3> QED BY <1>2, <3>2 DEF Knows
  <2> QED BY <2>1, <2>2
<1>11. Shut'
  <2>1. \A g \in Fd : fds'[g].open = fds[g].open /\ fds'[g].freed = fds[g].freed
    BY <1>3, <1>6 DEF r
  <2>2. \A u \in Task : /\ call'[u].at \in Closing <=> call[u].at \in Closing
                        /\ FdOf[u] \in Fd
    BY <1>2, <1>6, <1>7, RingHoldsTable DEF Closing
  <2> QED BY <1>2, <2>1, <2>2 DEF IrqInv, Shut
<1>12. Single'
  <2> SUFFICES ASSUME NEW g \in Fd
               PROVE  /\ Filled(fds'[g])
                      /\ \A w \in Virq : handler[w].fd = g => ~Has(fds'[g], w)
    BY <1>2 DEF Single
  <2>1. CASE g = f
    BY <1>3, <1>6, <2>1 DEF IrqInv, Single, r
  <2>2. CASE g # f
    BY <1>6, <2>2 DEF IrqInv, Single
  <2> QED BY <2>1, <2>2
<1>13. Accounted'
  <2> SUFFICES ASSUME NEW w \in Virq, line[w] # NoEngine, engines[line[w]].owner # NoFd
               PROVE  depth[w] = Depth(w, engines[line[w]].owner)'
    BY <1>2 DEF Accounted
  <2> DEFINE g == engines[line[w]].owner
  <2>1. depth[w] = Depth(w, g) /\ g \in Fd /\ engines' = engines /\ line' = line
    BY <1>2 DEF IrqInv, IrqTypes, Engine, Accounted
  <2>2. CASE g # f
    BY <1>2, <1>6, <2>1, <2>2 DEF Depth
  <2>3. CASE g = f /\ w # v
    <3>1. One(Has(fds'[f], w)) = One(Has(fds[f], w))
      BY <1>3, <1>6, <2>3 DEF One, r
    <3>2. owed'[f][w] = owed[f][w]
      BY <1>1, <1>6, <2>3
    <3> QED BY <1>2, <2>1, <2>3, <3>1, <3>2 DEF Depth
  <2>4. CASE g = f /\ w = v
    <3>1. One(Has(fds'[f], w)) = 0 /\ One(Has(fds[f], w)) = 1
      BY <1>3, <1>6, <2>4 DEF One, r
    <3>2. One(handler[w].at = "queue") \in Nat /\ handler' = handler
      BY <1>2 DEF One
    <3>3. depth[w] = owed[f][v] + 1 + One(handler[w].at = "queue")
      BY <2>1, <2>4, <3>1 DEF Depth
    <3>4. owed'[f][w] + 0 = owed[f][v] + 1
      BY <1>5, <1>6, <2>4
    <3> QED BY <2>1, <2>4, <3>1, <3>2, <3>3, <3>4 DEF Depth
  <2> QED BY <2>2, <2>3, <2>4
<1> QED BY <1>8, <1>9, <1>10, <1>11, <1>12, <1>13 DEF IrqInv

LEMMA ReleaseDoneKeeps ==
  ASSUME OneEach, NEW t \in Task, IrqInv, ReleaseDone(t)
  PROVE  IrqInv'
<1> DEFINE f == FdOf[t]
           c == [at |-> "closed", virq |-> NoEvent, slot |-> NoEngine]
           q == [open |-> FALSE, freed |-> TRUE, ring |-> Empty, head |-> 0, tail |-> 0]
<1>1. /\ call[t].at \in {"none", "close"} /\ call' = [call EXCEPT ![t] = c]
      /\ fds' = [fds EXCEPT ![f] = q]
      /\ UNCHANGED <<engines, line, depth, handler, owed>>
      /\ Mine(f) = {}
  BY DEF ReleaseDone, Idle, NoCall, InCall
<1>2. f \in Fd /\ f # NoFd
  BY RingHoldsTable
<1>3. \A s \in Slot : engines[s].owner # f
  BY <1>1, <1>2 DEF Mine, IrqInv, Slots
<1>4. /\ q \in Ring /\ Filled(q) /\ \A w \in Virq : ~Has(q, w)
      /\ q.open = FALSE /\ q.freed = TRUE
  <2>1. Empty \in [Places -> Virq \cup {NoEvent}] /\ 0 \in Places
    BY RingSizes DEF Empty, Places
  <2>2. q \in Ring /\ q.head = 0 /\ q.tail = 0 /\ q.open = FALSE /\ q.freed = TRUE
    BY <2>1 DEF Ring
  <2> HIDE DEF q
  <2> QED BY <2>2, RingEmpty
<1>5. c \in Call /\ c.at = "closed"
  BY DEF Call, Closing
<1> HIDE DEF q, c
<1>6. /\ fds'[f] = q /\ \A g \in Fd : g # f => fds'[g] = fds[g]
      /\ call'[t] = c /\ \A u \in Task : u # t => call'[u] = call[u]
  BY <1>1, <1>2 DEF IrqInv, IrqTypes
<1>7. IrqTypes'
  BY <1>1, <1>4, <1>5 DEF IrqInv, IrqTypes
<1>8. Slots' /\ Requested' /\ Apart' /\ Handlers'
  <2>1. /\ call[t].at \notin {"request"} \cup Detached
        /\ c.at \notin Detached \cup Freed
    BY <1>1, <1>5 DEF Detached, Freed
  <2> QED BY <1>1, <1>5, <2>1, CallMoves
<1>9. ASSUME NEW u \in Task PROVE Knows(u)'
  <2>1. CASE u = t
    BY <1>5, <1>6, <2>1 DEF Knows, Detached, Freed, Using
  <2>2. CASE u # t
    <3>1. FdOf[u] # f /\ FdOf[u] \in Fd
      BY <2>2, RingHoldsTable DEF OneEach
    <3>2. fds'[FdOf[u]] = fds[FdOf[u]] /\ call'[u] = call[u] /\ Knows(u)
      BY <1>6, <2>2, <3>1 DEF IrqInv
    <3> QED BY <1>1, <3>2 DEF Knows
  <2> QED BY <2>1, <2>2
<1>10. Shut'
  <2>1. ASSUME NEW u \in Task
        PROVE  /\ call'[u].at \in Closing => ~fds'[FdOf[u]].open
               /\ ~fds'[FdOf[u]].open => call'[u].at \in Closing
    <3>1. CASE u = t
      BY <1>4, <1>5, <1>6, <3>1 DEF Closing
    <3>2. CASE u # t
      <4>1. FdOf[u] # f /\ FdOf[u] \in Fd
        BY <3>2, RingHoldsTable DEF OneEach
      <4> QED BY <1>6, <3>2, <4>1 DEF IrqInv, Shut
    <3> QED BY <3>1, <3>2
  <2>2. ASSUME NEW g \in Fd, fds'[g].freed
        PROVE  ~fds'[g].open /\ \A s \in Slot : engines'[s].owner # g
    <3>1. CASE g = f
      BY <1>1, <1>3, <1>4, <1>6, <3>1
    <3>2. CASE g # f
      BY <1>1, <1>6, <2>2, <3>2 DEF IrqInv, Shut
    <3> QED BY <3>1, <3>2
  <2> QED BY <2>1, <2>2 DEF Shut
<1>11. Single'
  <2> SUFFICES ASSUME NEW g \in Fd
               PROVE  /\ Filled(fds'[g])
                      /\ \A w \in Virq : handler[w].fd = g => ~Has(fds'[g], w)
    BY <1>1 DEF Single
  <2>1. CASE g = f
    BY <1>4, <1>6, <2>1
  <2>2. CASE g # f
    BY <1>6, <2>2 DEF IrqInv, Single
  <2> QED BY <2>1, <2>2
<1>12. Accounted'
  <2> SUFFICES ASSUME NEW w \in Virq, line[w] # NoEngine, engines[line[w]].owner # NoFd
               PROVE  depth[w] = Depth(w, engines[line[w]].owner)'
    BY <1>1 DEF Accounted
  <2>1. line[w] \in Slot /\ engines[line[w]].owner \in Fd
    BY DEF IrqInv, IrqTypes, Engine
  <2>2. depth[w] = Depth(w, engines[line[w]].owner) /\ engines[line[w]].owner # f
    BY <1>3, <2>1 DEF IrqInv, Accounted
  <2> QED BY <1>1, <1>6, <2>1, <2>2 DEF Depth
<1> QED BY <1>7, <1>8, <1>9, <1>10, <1>11, <1>12 DEF IrqInv

-----------------------------------------------------------------------------
(* The specification.                                                      *)

LEMMA IrqInvStart == IrqInit => IrqInv
<1> SUFFICES ASSUME IrqInit PROVE IrqInv
  OBVIOUS
<1>1. /\ Vacant \in Engine /\ ~Vacant.active /\ ~Vacant.freeing /\ Vacant.owner = NoFd
      /\ NoHandler \in Handler /\ NoHandler.at = "none" /\ NoHandler.fd = NoFd
      /\ NoCall \in Call /\ NoCall.at = "none"
  BY DEF Vacant, Engine, NoHandler, Handler, NoCall, Call
<1> DEFINE q == [open |-> TRUE, freed |-> FALSE, ring |-> Empty, head |-> 0, tail |-> 0]
<1>2. /\ q \in Ring /\ Filled(q) /\ \A w \in Virq : ~Has(q, w)
      /\ q.open = TRUE /\ q.freed = FALSE
  <2>1. Empty \in [Places -> Virq \cup {NoEvent}] /\ 0 \in Places
    BY RingSizes DEF Empty, Places
  <2>2. q \in Ring /\ q.head = 0 /\ q.tail = 0 /\ q.open = TRUE /\ q.freed = FALSE
    BY <2>1 DEF Ring
  <2> HIDE DEF q
  <2> QED BY <2>2, RingEmpty
<1>3. /\ engines = [s \in Slot |-> Vacant] /\ line = [v \in Virq |-> NoEngine]
      /\ depth = [v \in Virq |-> 0] /\ handler = [v \in Virq |-> NoHandler]
      /\ fds = [f \in Fd |-> q] /\ call = [t \in Task |-> NoCall]
      /\ owed = [f \in Fd |-> [v \in Virq |-> 0]]
  BY DEF IrqInit
<1> HIDE DEF q
<1>4. IrqTypes
  BY <1>1, <1>2, <1>3 DEF IrqTypes
<1>5. Slots /\ Requested /\ Handlers /\ Accounted
  BY <1>1, <1>3 DEF Slots, Requested, Handlers, Accounted
<1>6. (\A t \in Task : Knows(t)) /\ Apart
  BY <1>1, <1>3 DEF Knows, Apart, Detached, Freed, Using
<1>7. Shut
  BY <1>1, <1>2, <1>3, RingHoldsTable DEF Shut, Closing
<1>8. Single
  BY <1>1, <1>2, <1>3, RingHoldsTable DEF Single
<1> QED BY <1>4, <1>5, <1>6, <1>7, <1>8 DEF IrqInv

LEMMA IrqInvStep == ASSUME OneEach, IrqInv, [IrqNext]_irqVars PROVE IrqInv'
<1>1. CASE UNCHANGED irqVars
  <2>1. /\ engines' = engines /\ line' = line /\ depth' = depth /\ handler' = handler
        /\ fds' = fds /\ call' = call /\ owed' = owed
    BY <1>1 DEF irqVars
  <2> QED BY <2>1 DEF IrqInv, IrqTypes, Slots, Requested, Knows, Apart, Shut, Handlers,
                      Single, Accounted, Depth
<1>2. CASE IrqNext
  <2>1. ASSUME NEW v \in Virq, HandlerMasks(v) PROVE IrqInv'
    BY <2>1, HandlerMasksKeeps
  <2>2. ASSUME NEW v \in Virq, HandlerQueues(v) PROVE IrqInv'
    BY <2>2, HandlerQueuesKeeps
  <2>3. ASSUME NEW v \in Virq, EngineCompletes(v) PROVE IrqInv'
    <3>1. /\ engines' = engines /\ line' = line /\ depth' = depth /\ handler' = handler
          /\ fds' = fds /\ call' = call /\ owed' = owed
      BY <2>3 DEF EngineCompletes
    <3> QED BY <3>1 DEF IrqInv, IrqTypes, Slots, Requested, Knows, Apart, Shut, Handlers,
                        Single, Accounted, Depth
  <2>4. ASSUME NEW t \in Task, RequestIrq(t) PROVE IrqInv'
    BY <2>4, RequestIrqKeeps
  <2>5. ASSUME NEW t \in Task, RequestFails(t) PROVE IrqInv'
    BY <2>5, RequestFailsKeeps
  <2>6. ASSUME NEW t \in Task, FreeCall(t) PROVE IrqInv'
    <3>1. Frees(t, "freed")
      BY <2>6 DEF FreeCall, Frees
    <3> QED BY <3>1, FreesKeeps
  <2>7. ASSUME NEW t \in Task, FreeDone(t) PROVE IrqInv'
    <3>1. Clears(t, NoCall)
      BY <2>7 DEF FreeDone, Clears, IrqReturn
    <3> QED BY <3>1, ClearsKeeps
  <2>8. ASSUME NEW t \in Task, DisableIrq(t) PROVE IrqInv'
    BY <2>8, DisableIrqKeeps
  <2>9. ASSUME NEW t \in Task, DisableWaits(t) PROVE IrqInv'
    BY <2>9, DisableWaitsKeeps
  <2>10. ASSUME NEW t \in Task, EnableIrq(t) PROVE IrqInv'
    BY <2>10, EnableIrqKeeps
  <2>11. ASSUME NEW t \in Task, WaitWakes(t) PROVE IrqInv'
    BY <2>11, WaitWakesKeeps
  <2>12. ASSUME NEW t \in Task, WaitReads(t) PROVE IrqInv'
    BY <2>12, WaitReadsKeeps
  <2>13. ASSUME NEW t \in Task, ReleaseFree(t) PROVE IrqInv'
    <3>1. Frees(t, "close_freed")
      BY <2>13 DEF ReleaseFree, Frees
    <3> QED BY <3>1, FreesKeeps
  <2>14. ASSUME NEW t \in Task, ReleaseClear(t) PROVE IrqInv'
    <3>1. Clears(t, [at |-> "close", virq |-> NoEvent, slot |-> NoEngine])
      BY <2>14 DEF ReleaseClear, Clears, InCall
    <3> QED BY <3>1, ClearsKeeps
  <2>15. ASSUME NEW t \in Task, ReleaseDone(t) PROVE IrqInv'
    BY <2>15, ReleaseDoneKeeps
  <2>16. ASSUME NEW t \in Task, NEW s \in Slot, ReleaseDetach(t, s) PROVE IrqInv'
    <3>1. Detaches(t, s, "close_free")
      BY <2>16 DEF ReleaseDetach, Detaches, Idle, NoCall, IsFirst, Mine
    <3> QED BY <3>1, DetachesKeeps DEF Detached
  <2>17. ASSUME NEW t \in Task, NEW s \in Slot, NEW v \in Virq, FreeLookup(t, v, s) PROVE IrqInv'
    <3>1. /\ engines[s].active /\ ~engines[s].freeing /\ engines[s].owner = FdOf[t]
          /\ engines[s].virq = v /\ call[t].at = "none" /\ fds[FdOf[t]].open
      BY <2>17 DEF FreeLookup, FindSlot, IsFirst, ByHwirq, Idle, NoCall
    <3>2. Detaches(t, s, "free")
      BY <2>17, <3>1 DEF FreeLookup, FindSlot, Detaches
    <3> QED BY <3>2, DetachesKeeps DEF Detached
  <2>18. ASSUME NEW t \in Task, NEW s \in Slot, NEW v \in Virq, DisableLookup(t, v, s)
         PROVE  IrqInv'
    <3>1. FindSlot(t, v, "disable", s) /\ UNCHANGED <<engines, line, depth, handler, fds, owed>>
      BY <2>18 DEF DisableLookup
    <3> QED BY <3>1, FindSlotKeeps
  <2>19. ASSUME NEW t \in Task, NEW s \in Slot, NEW v \in Virq, EnableLookup(t, v, s)
         PROVE  IrqInv'
    <3>1. /\ FindSlot(t, v, "enable", s) /\ owed[FdOf[t]][v] > 0
          /\ UNCHANGED <<engines, line, depth, handler, fds, owed>>
      BY <2>19 DEF EnableLookup
    <3> QED BY <3>1, FindSlotKeeps
  <2>20. ASSUME NEW t \in Task, NEW v \in Virq, RegisterSlot(t, v) PROVE IrqInv'
    BY <2>20, RegisterSlotKeeps
  <2> QED BY <1>2, <2>1, <2>2, <2>3, <2>4, <2>5, <2>6, <2>7, <2>8, <2>9, <2>10, <2>11, <2>12,
             <2>13, <2>14, <2>15, <2>16, <2>17, <2>18, <2>19, <2>20 DEF IrqNext
<1> QED BY <1>1, <1>2

\* A thread whose descriptor is gone does nothing more.
Gone == \A t \in Task : fds[FdOf[t]].freed => call[t].at = "closed"

LEMMA GoneStep == ASSUME OneEach, IrqInv, Gone, [IrqNext]_irqVars PROVE Gone'
<1> SUFFICES ASSUME NEW u \in Task, fds'[FdOf[u]].freed PROVE call'[u].at = "closed"
  BY DEF Gone
<1>1. FdOf[u] \in Fd /\ fds \in [Fd -> Ring] /\ call \in [Task -> Call]
  BY RingHoldsTable DEF IrqInv, IrqTypes
<1>2. CASE \E t \in Task : ReleaseDone(t) /\ FdOf[t] = FdOf[u]
  <2>1. ReleaseDone(u)
    BY <1>2 DEF OneEach
  <2> QED BY <1>1, <2>1 DEF ReleaseDone, InCall
<1>3. CASE ~\E t \in Task : ReleaseDone(t) /\ FdOf[t] = FdOf[u]
  <2>1. fds'[FdOf[u]].freed = fds[FdOf[u]].freed
    <3>1. ASSUME NEW v \in Virq, HandlerQueues(v)
          PROVE  fds'[FdOf[u]].freed = fds[FdOf[u]].freed
      BY <1>1, <3>1 DEF HandlerQueues, Ring
    <3>2. ASSUME NEW t \in Task, WaitReads(t)
          PROVE  fds'[FdOf[u]].freed = fds[FdOf[u]].freed
      BY <1>1, <3>2 DEF WaitReads, Ring
    <3>3. ASSUME NEW t \in Task, NEW s \in Slot, ReleaseDetach(t, s)
          PROVE  fds'[FdOf[u]].freed = fds[FdOf[u]].freed
      BY <1>1, <3>3 DEF ReleaseDetach, Ring
    <3>4. ASSUME NEW t \in Task, ReleaseDone(t)
          PROVE  fds'[FdOf[u]].freed = fds[FdOf[u]].freed
      BY <1>1, <1>3, <3>4 DEF ReleaseDone
    <3>5. CASE UNCHANGED fds
      BY <3>5
    <3> QED BY <3>1, <3>2, <3>3, <3>4, <3>5 DEF IrqNext, irqVars, HandlerMasks, EngineCompletes,
               RequestIrq, RequestFails, FreeCall, FreeDone, DisableIrq, DisableWaits, EnableIrq,
               WaitWakes, ReleaseFree, ReleaseClear, FreeLookup, DisableLookup, EnableLookup,
               RegisterSlot
  <2>2. call[u].at = "closed" => call'[u] = call[u]
    <3> DEFINE Moves(t) == call[t].at # "closed" /\ \E c : call' = [call EXCEPT ![t] = c]
    <3>1. ASSUME NEW t \in Task,
                 \/ RequestIrq(t) \/ RequestFails(t) \/ FreeCall(t) \/ FreeDone(t)
                 \/ DisableIrq(t) \/ DisableWaits(t) \/ EnableIrq(t)
                 \/ WaitReads(t) \/ ReleaseFree(t) \/ ReleaseClear(t)
          PROVE  Moves(t)
      <4>1. call[t].at # "closed"
        BY <3>1 DEF RequestIrq, RequestFails, FreeCall, FreeDone, DisableIrq, DisableWaits,
                    EnableIrq, WaitReads, ReleaseFree, ReleaseClear
      <4>2. \E c : call' = [call EXCEPT ![t] = c]
        BY <3>1, Zenon DEF RequestIrq, RequestFails, FreeCall, FreeDone, DisableIrq, DisableWaits,
                    EnableIrq, WaitReads, ReleaseFree, ReleaseClear, InCall, IrqReturn
      <4> QED BY <4>1, <4>2
    <3>2. ASSUME NEW t \in Task, WaitWakes(t) \/ ReleaseDone(t) PROVE Moves(t)
      <4>1. call[t].at # "closed"
        BY <3>2 DEF WaitWakes, ReleaseDone, Idle, NoCall
      <4>2. \E c : call' = [call EXCEPT ![t] = c]
        BY <3>2, Zenon DEF WaitWakes, ReleaseDone, InCall
      <4> QED BY <4>1, <4>2
    <3>3. ASSUME NEW t \in Task, NEW s \in Slot, ReleaseDetach(t, s) PROVE Moves(t)
      <4>1. call[t].at # "closed"
        BY <3>3 DEF ReleaseDetach, Idle, NoCall
      <4>2. \E c : call' = [call EXCEPT ![t] = c]
        BY <3>3, Zenon DEF ReleaseDetach, InCall
      <4> QED BY <4>1, <4>2
    <3>4. ASSUME NEW t \in Task, NEW s \in Slot, NEW v \in Virq,
                 FreeLookup(t, v, s) \/ DisableLookup(t, v, s) \/ EnableLookup(t, v, s)
          PROVE  Moves(t)
      <4>1. \E at : FindSlot(t, v, at, s)
        BY <3>4 DEF FreeLookup, DisableLookup, EnableLookup
      <4>2. call[t].at # "closed"
        BY <4>1 DEF FindSlot, Idle, NoCall
      <4>3. \E c : call' = [call EXCEPT ![t] = c]
        BY <4>1, Zenon DEF FindSlot, InCall
      <4> QED BY <4>2, <4>3
    <3>5. ASSUME NEW t \in Task, NEW v \in Virq, RegisterSlot(t, v) PROVE Moves(t)
      <4>1. call[t].at # "closed"
        BY <3>5 DEF RegisterSlot, Idle, NoCall
      <4>2. \E c : call' = [call EXCEPT ![t] = c]
        BY <3>5, Zenon DEF RegisterSlot, InCall
      <4> QED BY <4>1, <4>2
    <3>6. ASSUME NEW v \in Virq, HandlerMasks(v) \/ HandlerQueues(v) \/ EngineCompletes(v)
          PROVE  call' = call
      BY <3>6 DEF HandlerMasks, HandlerQueues, EngineCompletes
    <3>7. call' = call \/ \E t \in Task : Moves(t)
      <4> HIDE DEF Moves
      <4> QED BY <3>1, <3>2, <3>3, <3>4, <3>5, <3>6 DEF IrqNext, irqVars
    <3> QED BY <1>1, <3>7
  <2> QED BY <2>1, <2>2 DEF Gone
<1> QED BY <1>2, <1>3

\* The events of a line in a ring, and its handler that runs, as numbers.
LEMMA Counted ==
  ASSUME NEW f \in Fd, NEW v \in Virq, Filled(fds[f])
  PROVE  /\ Cardinality(EventsOf(f, v)) = One(Has(fds[f], v))
         /\ Cardinality({h \in {handler[v]} : h.at = "queue"}) = One(handler[v].at = "queue")
<1> DEFINE E == EventsOf(f, v)
           H == {h \in {handler[v]} : h.at = "queue"}
<1>1. E = {i \in Occupied(fds[f]) : fds[f].ring[i] = v}
  BY EventsAreHeld
<1>2. Cardinality(E) = One(Has(fds[f], v))
  <2>1. ASSUME Has(fds[f], v) PROVE Cardinality(E) = 1
    <3>1. PICK i \in Occupied(fds[f]) : fds[f].ring[i] = v
      BY <2>1 DEF Has
    <3>2. E = {i}
      BY <1>1, <3>1 DEF Filled
    <3> QED BY <3>2, FS_Singleton
  <2>2. ASSUME ~Has(fds[f], v) PROVE Cardinality(E) = 0
    <3>1. E = {}
      BY <1>1, <2>2 DEF Has
    <3> QED BY <3>1, FS_EmptySet
  <2> HIDE DEF E
  <2> QED BY <2>1, <2>2 DEF One
<1>3. Cardinality(H) = One(handler[v].at = "queue")
  <2>1. ASSUME handler[v].at = "queue" PROVE Cardinality(H) = 1
    <3>1. H = {handler[v]}
      BY <2>1
    <3> QED BY <3>1, FS_Singleton
  <2>2. ASSUME handler[v].at # "queue" PROVE Cardinality(H) = 0
    <3>1. H = {}
      BY <2>2
    <3> QED BY <3>1, FS_EmptySet
  <2> HIDE DEF H
  <2> QED BY <2>1, <2>2 DEF One
<1> QED BY <1>2, <1>3

LEMMA IrqInvForwards == ASSUME OneEach, IrqInv, Gone PROVE InterruptsForwarded
<1>1. HandlerFdAlive
  <2> SUFFICES ASSUME NEW v \in Virq, handler[v].fd # NoFd PROVE ~fds[handler[v].fd].freed
    BY DEF HandlerFdAlive
  <2> DEFINE f == handler[v].fd
  <2>1. f \in Fd /\ handler[v] # NoHandler /\ line[v] \in Slot
    BY DEF IrqInv, IrqTypes, Handler, NoHandler, Handlers
  <2>2. CASE engines[line[v]].owner = f
    BY <2>1, <2>2 DEF IrqInv, Shut
  <2>3. CASE \E t \in Task : FdOf[t] = f /\ call[t].at \in Detached /\ call[t].slot = line[v]
    BY <2>1, <2>3 DEF Gone, Detached
  <2> QED BY <2>1, <2>2, <2>3 DEF IrqInv, Handlers
<1>2. DepthAccounted
  <2> SUFFICES ASSUME NEW v \in Virq, line[v] # NoEngine, engines[line[v]].owner # NoFd
               PROVE  LET f == engines[line[v]].owner IN
                        depth[v] = owed[f][v] + Cardinality(EventsOf(f, v))
                                     + Cardinality({h \in {handler[v]} : h.at = "queue"})
    BY DEF DepthAccounted
  <2> DEFINE f == engines[line[v]].owner
  <2>1. f \in Fd /\ depth[v] = Depth(v, f)
    BY DEF IrqInv, IrqTypes, Engine, Accounted
  <2>2. Filled(fds[f])
    BY <2>1 DEF IrqInv, Single
  <2> QED BY <2>1, <2>2, Counted DEF Depth
<1> QED BY <1>1, <1>2 DEF InterruptsForwarded

\* However REGISTER, FREE, DISABLE, ENABLE, WAIT_EVENT and close interleave
\* with the handler, a line is masked once for each event its client is still
\* to see and each enable it owes, and the handler never queues into a
\* descriptor that is gone (ar_mpp_drv.c).
THEOREM InterruptsAreForwarded ==
  ASSUME OneEach PROVE IrqSpec => []InterruptsForwarded
<1>1. IrqInit => IrqInv /\ Gone
  <2>1. IrqInit => Gone
    BY RingHoldsTable DEF IrqInit, Gone
  <2> QED BY <2>1, IrqInvStart
<1>2. IrqInv /\ Gone /\ [IrqNext]_irqVars => (IrqInv /\ Gone)'
  BY IrqInvStep, GoneStep
<1>3. IrqInv /\ Gone => InterruptsForwarded
  BY IrqInvForwards
<1> QED BY <1>1, <1>2, <1>3, PTL DEF IrqSpec

(***************************************************************************)
(* The operations of the scaler.                                           *)
(***************************************************************************)
\* A product grows with its factors; a part of a number with its whole.
LEMMA ProductGrows ==
  ASSUME NEW a \in Nat, NEW b \in Nat, NEW c \in Nat, NEW d \in Nat, a =< b, c =< d
  PROVE  a * c =< b * d /\ a * c \in Nat /\ b * d \in Nat
OBVIOUS

\* A field keeps a number, or a smaller one.
LEMMA FieldShrinks ==
  ASSUME NEW n \in Nat, NEW end \in Nat \ {0}
  PROVE  Trunc(n, end) \in Nat /\ Trunc(n, end) =< n
BY DEF Trunc

\* What fits in a field is kept.
LEMMA FieldKeeps ==
  ASSUME NEW end \in Nat \ {0}, NEW n \in Nat, n < end
  PROVE  Trunc(n, end) = n
BY DEF Trunc

\* A row more is a stride more.
LEMMA RowAdds ==
  ASSUME NEW row \in Nat, NEW rows \in Nat, NEW stride \in Nat, row < rows
  PROVE  row * stride + stride =< rows * stride
<1>1. (row + 1) * stride =< rows * stride
  BY ProductGrows
<1>2. (row + 1) * stride = row * stride + stride
  OBVIOUS
<1> QED BY <1>1, <1>2

\* A byte of a picture of so many rows and columns lies in what its rows take,
\* also with a stride and channels that are smaller than the picture's.
LEMMA ByteInPicture ==
  ASSUME NEW row \in Nat, NEW rows \in Nat, row < rows,
         NEW col \in Nat, NEW cols \in Nat, col < cols,
         NEW st \in Nat, NEW stride \in Nat, st =< stride,
         NEW ch \in Nat, NEW chs \in Nat, ch =< chs,
         NEW k \in Nat, k < ch, cols * chs =< stride
  PROVE  row * st + col * ch + k < rows * stride /\ row * st + col * ch + k \in Nat
<1>1. row * st =< row * stride
  BY ProductGrows
<1>2. col * ch =< col * chs
  BY ProductGrows
<1>3. col * chs + chs =< cols * chs
  BY RowAdds
<1>4. row * stride + stride =< rows * stride
  BY RowAdds
<1>5. /\ row * st \in Nat /\ row * stride \in Nat /\ rows * stride \in Nat
      /\ col * ch \in Nat /\ col * chs \in Nat /\ cols * chs \in Nat
  BY ProductGrows
<1> QED BY <1>1, <1>2, <1>3, <1>4, <1>5

\* A picture of so many rows and columns at an offset of a segment lies in it, a
\* row in its stride (Inside and Geometry).
Holds(b, off, rows, cols, stride, chs) ==
  /\ b \in Segment /\ off \in Nat
  /\ rows \in Nat /\ cols \in Nat /\ stride \in Nat /\ chs \in Nat
  /\ off + rows * stride =< b.size /\ cols * chs =< stride

\* A rectangle that lies in such a picture, with what is left of its stride and
\* channels
CutFrom(rows, cols, stride, chs, x, y, w, h, st, ch) ==
  /\ x \in Nat /\ y \in Nat /\ w \in Nat /\ h \in Nat /\ st \in Nat /\ ch \in Nat
  /\ x + w =< cols /\ y + h =< rows /\ st =< stride /\ ch =< chs

\* The rectangle of a descriptor lies in the picture it was cut from, and with
\* it in the segment (Bytes of scaler_build_image).
LEMMA RectangleInside ==
  ASSUME NEW b, NEW off, NEW rows, NEW cols, NEW stride, NEW chs,
         Holds(b, off, rows, cols, stride, chs),
         NEW x, NEW y, NEW w, NEW h, NEW st, NEW ch,
         CutFrom(rows, cols, stride, chs, x, y, w, h, st, ch)
  PROVE  \A from : from = b.base + off =>
           \A a \in Bytes(from, st, x, y, w, h, ch) : b.base =< a /\ a < b.base + b.size
<1> SUFFICES ASSUME NEW from, from = b.base + off,
                    NEW a \in Bytes(from, st, x, y, w, h, ch)
             PROVE  b.base =< a /\ a < b.base + b.size
  OBVIOUS
<1>0. /\ b \in Segment /\ off \in Nat
      /\ rows \in Nat /\ cols \in Nat /\ stride \in Nat /\ chs \in Nat
      /\ off + rows * stride =< b.size /\ cols * chs =< stride
      /\ x \in Nat /\ y \in Nat /\ w \in Nat /\ h \in Nat /\ st \in Nat /\ ch \in Nat
      /\ x + w =< cols /\ y + h =< rows /\ st =< stride /\ ch =< chs
  BY DEF Holds, CutFrom
<1>1. PICK r \in 0..(h - 1), c \in 0..(w - 1), k \in 0..(ch - 1) :
        a = from + (y + r) * st + (x + c) * ch + k
  BY DEF Bytes
<1> DEFINE row == y + r
           col == x + c
<1>2. /\ row \in Nat /\ col \in Nat /\ k \in Nat
      /\ row < rows /\ col < cols /\ k < ch
  BY <1>0
<1>3. b.base \in Nat /\ b.size \in Nat
  BY <1>0 DEF Segment
<1>4. a = b.base + off + row * st + col * ch + k
  BY <1>1
<1> HIDE DEF row, col
<1>5. row * st + col * ch + k < rows * stride /\ row * st + col * ch + k \in Nat
  BY <1>0, <1>2, ByteInPicture
<1>6. rows * stride \in Nat /\ row * st \in Nat /\ col * ch \in Nat
  BY <1>0, <1>2, ProductGrows
<1> QED BY <1>0, <1>2, <1>3, <1>4, <1>5, <1>6

\* What an accepted operation satisfies of the checks (ar_scaler_resolve_dmabuf_op,
\* ar_scaler_validate)
LEMMA AcceptedFits ==
  ASSUME NEW o \in Ops, Accepted(o)
  PROVE  /\ o.src \in Segment /\ o.dst \in Segment
         /\ {o.srcw, o.srch, o.srcstride, o.src_off, o.crop_x, o.crop_y, o.cropw,
             o.croph, o.dstw, o.dsth, o.dststride, o.dst_off, o.channels} \subseteq Nat
         /\ o.src_off + o.srch * o.srcstride =< o.src.size
         /\ o.dst_off + o.dsth * o.dststride =< o.dst.size
         /\ o.srcw * o.channels =< o.srcstride /\ o.dstw * o.channels =< o.dststride
         /\ o.crop_x + o.cropw =< o.srcw /\ o.crop_y + o.croph =< o.srch
         /\ o.dstw # 0 /\ o.dsth # 0
<1>1. o \in [srcw : Nat, srch : Nat, srcstride : Nat, src : Segment, src_off : Nat,
             crop_x : Nat, crop_y : Nat, cropw : Nat, croph : Nat,
             dstw : Nat, dsth : Nat, dststride : Nat, dst : Segment, dst_off : Nat,
             channels : Nat]
  BY JobAssumption
<1>2. Geometry(o) /\ Inside(o) /\ o.dstw # 0 /\ o.dsth # 0
  BY DEF Accepted, ar_scaler_validate
<1> QED BY <1>1, <1>2 DEF Geometry, Inside

\* A full batch has room in its block.
LEMMA BatchFits == \A n \in 0..(2 * BatchMax) : Staged(n) =< BatchBuf
<1> SUFFICES ASSUME NEW n \in 0..(2 * BatchMax)
             PROVE  Staged(n) =< BatchBuf
  OBVIOUS
<1>1. /\ BatchMax \in Nat /\ DescStride \in Nat /\ BatchBuf \in Nat
      /\ BatchMax * DescStride =< BatchBuf
  BY JobAssumption
<1>2. CASE n \in 1..BatchMax
  <2>1. n * DescStride =< BatchMax * DescStride /\ n * DescStride \in Nat
        /\ BatchMax * DescStride \in Nat
    BY <1>1, <1>2, ProductGrows
  <2> QED BY <1>1, <1>2, <2>1 DEF Staged
<1>3. CASE n \notin 1..BatchMax
  BY <1>1, <1>3 DEF Staged
<1> QED BY <1>2, <1>3

\* What the engine reads and writes lies in the buffers that were named.
LEMMA OperationInside ==
  ASSUME NEW o \in Ops, Accepted(o)
  PROVE  LET i == scaler_build_image(o)
             within(b, set) == \A a \in set : b.base =< a /\ a < b.base + b.size
         IN /\ within(o.src, Bytes(i.srcphy, i.srcstr, i.crop_x, i.crop_y,
                                   i.cropw, i.croph, i.channels))
            /\ within(o.dst, Bytes(i.dstphy, i.dststr, 0, 0, i.dstw, i.dsth, i.channels))
<1> DEFINE i == scaler_build_image(o)
<1>1. /\ o.src \in Segment /\ o.dst \in Segment
      /\ {o.srcw, o.srch, o.srcstride, o.src_off, o.crop_x, o.crop_y, o.cropw,
          o.croph, o.dstw, o.dsth, o.dststride, o.dst_off, o.channels} \subseteq Nat
      /\ o.src_off + o.srch * o.srcstride =< o.src.size
      /\ o.dst_off + o.dsth * o.dststride =< o.dst.size
      /\ o.srcw * o.channels =< o.srcstride /\ o.dstw * o.channels =< o.dststride
      /\ o.crop_x + o.cropw =< o.srcw /\ o.crop_y + o.croph =< o.srch
  BY AcceptedFits
<1>2. /\ i.srcphy = o.src.base + o.src_off /\ i.dstphy = o.dst.base + o.dst_off
      /\ i.srcstr = Trunc(o.srcstride, StrideEnd) /\ i.dststr = o.dststride
      /\ i.crop_x = Trunc(o.crop_x, WidthEnd) /\ i.crop_y = Trunc(o.crop_y, HeightEnd)
      /\ i.cropw = Trunc(o.cropw, WidthEnd) /\ i.croph = Trunc(o.croph, HeightEnd)
      /\ i.dstw = Trunc(o.dstw, WidthEnd) /\ i.dsth = Trunc(o.dsth, HeightEnd)
      /\ i.channels = Trunc(o.channels, ChanEnd)
  BY DEF scaler_build_image, Src, Dst
<1> HIDE DEF i
<1>3. {WidthEnd, HeightEnd, ChanEnd, StrideEnd} \subseteq Nat \ {0}
  BY JobAssumption
<1>4. /\ i.srcstr \in Nat /\ i.srcstr =< o.srcstride
      /\ i.channels \in Nat /\ i.channels =< o.channels
  BY <1>1, <1>2, <1>3, FieldShrinks
<1>5. /\ i.crop_x \in Nat /\ i.crop_x =< o.crop_x /\ i.crop_y \in Nat /\ i.crop_y =< o.crop_y
      /\ i.cropw \in Nat /\ i.cropw =< o.cropw /\ i.croph \in Nat /\ i.croph =< o.croph
  BY <1>1, <1>2, <1>3, FieldShrinks
<1>6. /\ i.dstw \in Nat /\ i.dstw =< o.dstw /\ i.dsth \in Nat /\ i.dsth =< o.dsth
  BY <1>1, <1>2, <1>3, FieldShrinks
<1>7. i.crop_x + i.cropw =< o.srcw /\ i.crop_y + i.croph =< o.srch
  BY <1>1, <1>5
<1>8. \A a \in Bytes(i.srcphy, i.srcstr, i.crop_x, i.crop_y,
                     i.cropw, i.croph, i.channels) :
        o.src.base =< a /\ a < o.src.base + o.src.size
  <2>1. Holds(o.src, o.src_off, o.srch, o.srcw, o.srcstride, o.channels)
    BY <1>1 DEF Holds
  <2>2. CutFrom(o.srch, o.srcw, o.srcstride, o.channels, i.crop_x, i.crop_y,
                i.cropw, i.croph, i.srcstr, i.channels)
    BY <1>4, <1>5, <1>7 DEF CutFrom
  <2>3. i.srcphy = o.src.base + o.src_off
    BY <1>2
  <2> QED BY <2>1, <2>2, <2>3, RectangleInside
<1>9. \A a \in Bytes(i.dstphy, i.dststr, 0, 0, i.dstw, i.dsth, i.channels) :
        o.dst.base =< a /\ a < o.dst.base + o.dst.size
  <2>1. Holds(o.dst, o.dst_off, o.dsth, o.dstw, o.dststride, o.channels)
    BY <1>1 DEF Holds
  <2>2. CutFrom(o.dsth, o.dstw, o.dststride, o.channels, 0, 0, i.dstw, i.dsth,
                i.dststr, i.channels)
    BY <1>1, <1>2, <1>4, <1>6 DEF CutFrom
  <2>3. i.dstphy = o.dst.base + o.dst_off
    BY <1>2
  <2> QED BY <2>1, <2>2, <2>3, RectangleInside
<1> QED BY <1>2, <1>8, <1>9 DEF i

\* A ratio that a field with a sign can tell from one by
Signable(ratio) == 2 * ratio < DeltaEnd + 2 * QOne

\* The dimensions of an operation leave the sign of a word clear, and each is less
\* than 2^20 times the one it becomes.
RatiosFit ==
  \A o \in Ops : Accepted(o) =>
    /\ \A n \in {o.cropw, o.croph, o.dstw, o.dsth} : 2 * n < LowEnd
    /\ Signable((o.cropw * QOne) \div o.dstw)
    /\ Signable((o.croph * QOne) \div o.dsth)

\* The number that a difference of ratios stands for
Signed(d) ==
  LET n == d.hi * LowEnd + d.lo
  IN IF 2 * n < DeltaEnd THEN n + QOne ELSE n + QOne - DeltaEnd

\* Both words of a difference give the ratio back (coordinate_convert).
LEMMA RatioSigned ==
  ASSUME NEW src \in Nat, NEW dst \in Nat \ {0}, Signable((src * QOne) \div dst)
  PROVE  Signed(coordinate_convert(src, dst)) = (src * QOne) \div dst
<1> DEFINE ratio == (src * QOne) \div dst
           delta == IF ratio < QOne THEN ratio + DeltaEnd - QOne ELSE ratio - QOne
           lo == delta % LowEnd
           hi == delta \div LowEnd
<1>1. /\ QOne \in Nat \ {0} /\ LowEnd \in Nat \ {0} /\ HighEnd \in Nat \ {0}
      /\ 2 * QOne =< DeltaEnd
  BY JobAssumption
<1>2. DeltaEnd \in Nat
  BY <1>1 DEF DeltaEnd
<1>3. ratio \in Nat
  <2>1. src * QOne \in Nat
    BY <1>1
  <2> QED BY <2>1
<1>4. 2 * ratio < DeltaEnd + 2 * QOne
  BY DEF Signable
<1> HIDE DEF ratio
<1>5. /\ delta \in Nat /\ delta < DeltaEnd
      /\ IF 2 * delta < DeltaEnd THEN delta + QOne = ratio ELSE delta + QOne - DeltaEnd = ratio
  BY <1>1, <1>2, <1>3, <1>4
<1>6. coordinate_convert(src, dst).lo = Trunc(delta, LowEnd)
      /\ coordinate_convert(src, dst).hi = Trunc(delta \div LowEnd, HighEnd)
  BY DEF coordinate_convert, ratio
<1> HIDE DEF delta
<1>7. /\ hi \in Nat /\ lo \in Nat /\ hi < HighEnd /\ hi * LowEnd + lo = delta
  <2>1. delta < LowEnd * HighEnd
    BY <1>5 DEF DeltaEnd
  <2>2. hi \in Nat /\ lo \in Nat
    BY <1>1, <1>5
  <2>3. hi * LowEnd + lo = delta
    BY <1>1, <1>5
  <2>4. hi < HighEnd
    BY <1>1, <1>5, <2>1
  <2> QED BY <2>2, <2>3, <2>4
<1> HIDE DEF hi
<1>8. Trunc(hi, HighEnd) = hi
  BY <1>1, <1>7, FieldKeeps
<1>9. coordinate_convert(src, dst).lo = lo /\ coordinate_convert(src, dst).hi = hi
  BY <1>6, <1>8 DEF Trunc, hi
<1> HIDE DEF lo
<1>10. Signed(coordinate_convert(src, dst))
         = IF 2 * delta < DeltaEnd THEN delta + QOne ELSE delta + QOne - DeltaEnd
  BY <1>7, <1>9 DEF Signed
<1> QED BY <1>5, <1>10 DEF ratio

\* Every operation's ratios
LEMMA OperationSigned ==
  ASSUME RatiosFit, NEW o \in Ops, Accepted(o)
  PROVE  LET i == scaler_build_image(o)
         IN /\ Signed(i.h) = (o.cropw * QOne) \div o.dstw
            /\ Signed(i.v) = (o.croph * QOne) \div o.dsth
<1>1. /\ o.cropw \in Nat /\ o.croph \in Nat
      /\ o.dstw \in Nat \ {0} /\ o.dsth \in Nat \ {0}
  BY AcceptedFits
<1>2. /\ Signable((o.cropw * QOne) \div o.dstw)
      /\ Signable((o.croph * QOne) \div o.dsth)
  BY DEF RatiosFit
<1>3. /\ scaler_build_image(o).h = coordinate_convert(o.cropw, o.dstw)
      /\ scaler_build_image(o).v = coordinate_convert(o.croph, o.dsth)
  BY DEF scaler_build_image
<1>4. /\ Signed(coordinate_convert(o.cropw, o.dstw)) = (o.cropw * QOne) \div o.dstw
      /\ Signed(coordinate_convert(o.croph, o.dsth)) = (o.croph * QOne) \div o.dsth
  BY <1>1, <1>2, RatioSigned
<1> QED BY <1>3, <1>4

\* The inductive invariant: an operation is one of those that can be asked for;
\* the divider is that of the last rate, and so is the frequency that a reset
\* takes it from, unless it is zero.
JobInv ==
  /\ job = NoJob \/ \E o \in Ops : job = [kind |-> "job", op |-> o]
  /\ rate # 0 => divider = scaler_freq_to_div(rate)
  /\ frequency # 0 => frequency = rate

\* It holds at the start, every step keeps it, and it says what JobsTrue does.
LEMMA JobStarts == JobInit => JobInv
BY DEF JobInit, JobInv

LEMMA JobSteps == JobInv /\ [JobNext]_jobVars => JobInv'
<1> SUFFICES ASSUME JobInv, [JobNext]_jobVars
             PROVE  JobInv'
  OBVIOUS
<1>1. ASSUME NEW f \in Frequencies, SetFrequency(f)
      PROVE  JobInv'
  BY <1>1 DEF JobInv, SetFrequency
<1>2. CASE HwInit
  BY <1>2 DEF JobInv, HwInit
<1>3. CASE UNCHANGED jobVars
  BY <1>3 DEF JobInv, jobVars
<1> QED BY <1>1, <1>2, <1>3 DEF JobNext

LEMMA JobInvBounds == JobInv => JobsInside /\ DividerFollows
<1> SUFFICES ASSUME JobInv
             PROVE  JobsInside /\ DividerFollows
  OBVIOUS
<1>1. ASSUME job.kind = "job", Accepted(job.op)
      PROVE  job.op \in Ops
  BY <1>1 DEF JobInv, NoJob
<1>2. JobsInside
  BY <1>1, BatchFits, OperationInside DEF JobsInside
<1> QED BY <1>2 DEF JobInv, DividerFollows

LEMMA JobInvSays == ASSUME RatiosFit, JobInv PROVE JobsTrue
<1>1. ASSUME job.kind = "job", Accepted(job.op)
      PROVE  job.op \in Ops
  BY <1>1 DEF JobInv, NoJob
<1>2. RatiosSigned
  BY <1>1, OperationSigned DEF RatiosSigned, Signed
<1> QED BY <1>2, JobInvBounds DEF JobsTrue

\* What the engine reads and writes lies in the buffers an operation names, and the
\* clock runs at the last rate asked for, whatever the dimensions
\* (ar_scaler_resolve_dmabuf_op, ar_scaler_set_freq_div).
THEOREM JobsStayInside == JobSpec => [](JobsInside /\ DividerFollows)
<1>1. JobInv => JobsInside /\ DividerFollows
  BY JobInvBounds
<1> QED BY JobStarts, JobSteps, <1>1, PTL DEF JobSpec

\* What the engine reads and writes lies in the buffers an operation names, also
\* where the fields of the descriptor cut its numbers; a full batch has room; the
\* engine is told each ratio, whatever its word keeps of it, as long as RatiosFit;
\* the clock runs at the last rate asked for
\* (ar_scaler_resolve_dmabuf_op, scaler_build_image, ar_scaler_hw_init).
THEOREM JobsAreTrue == ASSUME RatiosFit PROVE JobSpec => []JobsTrue
<1>1. JobInv => JobsTrue
  BY JobInvSays
<1> QED BY JobStarts, JobSteps, <1>1, PTL DEF JobSpec

(***************************************************************************)
(* The zones of the heap and their kernel mappings.                        *)
(***************************************************************************)
Block == [phys : Page, size : Nat \ {0}, kvirt : BOOLEAN, map_kref : Nat]
ZoneName == {"anonymous"} \cup {z.name : z \in Tuple}
Zone == [name : ZoneName, base : Nat, size : Nat \ {0}, blocks : SUBSET Block]

ZoneTypes ==
  /\ phase \in {"parse", "anon", "register", "ready", "gone"}
  /\ mmz \in Seq(Tuple) /\ dt \in DtNodes
  /\ g_zone_list \in Seq(Zone)
  /\ remaps \in [Page -> Int] /\ held \in [Mapping -> Page \cup {NoPage}]
  /\ aliased \in BOOLEAN

\* Two runs of pages without one in common
Separate(from, size, other, length) == from + size =< other \/ other + length =< from

\* The blocks of a zone lie in its pages and apart; a block is mapped while it is
\* counted.
Placed(z) ==
  /\ z.base..(z.base + z.size - 1) \subseteq Page
  /\ \A b \in z.blocks :
       /\ z.base =< b.phys /\ b.phys + b.size =< z.base + z.size
       /\ b.kvirt <=> b.map_kref > 0
  /\ \A b, c \in z.blocks : b = c \/ Separate(b.phys, b.size, c.phys, c.size)

PlacedIn(list) == \A i \in DOMAIN list : Placed(list[i])
AllPlaced == PlacedIn(g_zone_list)

ApartIn(list) ==
  \A i, j \in DOMAIN list :
    i = j \/ Separate(list[i].base, list[i].size, list[j].base, list[j].size)
ZonesApart == ~aliased => ApartIn(g_zone_list)

\* Nothing is allocated or mapped before the module is up and after it is gone.
Quiet ==
  phase # "ready" =>
    /\ \A i \in DOMAIN g_zone_list : g_zone_list[i].blocks = {}
    /\ \A m \in Mapping : held[m] = NoPage

\* A mapping is in a block, and a block counts its mappings.
Backed ==
  ~aliased => \A m \in Mapping : held[m] # NoPage =>
    \E i \in DOMAIN g_zone_list : \E b \in g_zone_list[i].blocks : Touches(b, held[m])

RefsCounted ==
  ~aliased => \A i \in DOMAIN g_zone_list : \A b \in g_zone_list[i].blocks :
    b.map_kref = Cardinality(Holders(b))

Remapped == \A p \in Page : remaps[p] = Cardinality(Live(p))

Anonymous == phase = "register" => Named("anonymous") # {}

ZoneInv ==
  /\ ZoneTypes /\ AllPlaced /\ ZonesApart /\ Quiet /\ Backed /\ RefsCounted
  /\ Remapped /\ Anonymous

-----------------------------------------------------------------------------

\* The least of numbers is one of them.
LEMMA LeastIsOne ==
  ASSUME NEW S, S \subseteq Nat, S # {}
  PROVE  Min(S) \in S
BY Least DEF Min

\* The pages are numbers, and NoPage is none of them.
LEMMA PagesAreNumbers == Page \subseteq Nat /\ NoPage \notin Page
BY ZoneAssumption

\* What OfPages says of the tuples, the node and the default
LEMMA ZonesOfPages ==
  ASSUME NEW z, z \in Tuple \cup DtNodes \cup {Default}
  PROVE  z.start \in Nat /\ z.size \in Nat /\ z.start..(z.start + z.size - 1) \subseteq Page
BY ZoneAssumption DEF OfPages

\* A block at a page is found where With has its zone.
LEMMA BlockFound ==
  ASSUME ZoneTypes, NEW p, With(p) # {}
  PROVE  /\ Min(With(p)) \in DOMAIN g_zone_list
         /\ BlockAt(Min(With(p)), p) \in g_zone_list[Min(With(p))].blocks
         /\ Touches(BlockAt(Min(With(p)), p), p)
<1> DEFINE i == Min(With(p))
<1>1. With(p) \subseteq DOMAIN g_zone_list /\ DOMAIN g_zone_list \subseteq Nat
  BY DEF With, ZoneTypes
<1>2. i \in With(p)
  BY <1>1, LeastIsOne
<1>3. PICK b \in g_zone_list[i].blocks : Touches(b, p)
  BY <1>2 DEF With
<1>4. BlockAt(i, p) \in g_zone_list[i].blocks /\ Touches(BlockAt(i, p), p)
  BY <1>3 DEF BlockAt
<1> QED BY <1>1, <1>2, <1>4

\* The types of a block, and where it lies
LEMMA BlockTypes ==
  ASSUME NEW z \in Zone, Placed(z), NEW b \in z.blocks
  PROVE  /\ z.base \in Nat /\ z.size \in Nat \ {0} /\ b \in Block
         /\ b.phys \in Page /\ b.phys \in Nat /\ b.size \in Nat \ {0}
         /\ b.kvirt \in BOOLEAN /\ b.map_kref \in Nat
         /\ z.base =< b.phys /\ b.phys + b.size =< z.base + z.size
         /\ b.kvirt <=> b.map_kref > 0
         /\ \A c \in z.blocks : b = c \/ Separate(b.phys, b.size, c.phys, c.size)
<1>1. b \in Block /\ z.base \in Nat /\ z.size \in Nat \ {0}
  BY DEF Zone
<1>2. b.phys \in Page /\ b.size \in Nat \ {0} /\ b.kvirt \in BOOLEAN /\ b.map_kref \in Nat
  BY <1>1 DEF Block
<1>3. b.phys \in Nat
  BY <1>2, ZoneAssumption
<1>4. /\ z.base =< b.phys /\ b.phys + b.size =< z.base + z.size
      /\ b.kvirt <=> b.map_kref > 0
      /\ \A c \in z.blocks : b = c \/ Separate(b.phys, b.size, c.phys, c.size)
  BY DEF Placed
<1> QED BY <1>1, <1>2, <1>3, <1>4

\* Two blocks of a zone with a page in common are one.
LEMMA OneInZone ==
  ASSUME NEW z \in Zone, Placed(z), NEW b \in z.blocks, NEW c \in z.blocks,
         NEW p \in Int, Touches(b, p), Touches(c, p)
  PROVE  b = c
<1>1. b.phys \in Nat /\ b.size \in Nat /\ c.phys \in Nat /\ c.size \in Nat
  BY BlockTypes
<1>2. b = c \/ Separate(b.phys, b.size, c.phys, c.size)
  BY BlockTypes
<1>3. b.phys =< p /\ p < b.phys + b.size /\ c.phys =< p /\ p < c.phys + c.size
  BY DEF Touches
<1> QED BY <1>1, <1>2, <1>3 DEF Separate

\* Where the zones are apart, so are two blocks of any of them.
LEMMA OneBlock ==
  ASSUME NEW list \in Seq(Zone), PlacedIn(list), ApartIn(list),
         NEW i \in DOMAIN list, NEW j \in DOMAIN list,
         NEW b \in list[i].blocks, NEW c \in list[j].blocks,
         NEW p \in Int, Touches(b, p), Touches(c, p)
  PROVE  i = j /\ b = c
<1> DEFINE y == list[i]
           z == list[j]
<1>1. y \in Zone /\ z \in Zone /\ Placed(y) /\ Placed(z)
  BY DEF PlacedIn
<1>2. /\ b.phys \in Nat /\ b.size \in Nat /\ c.phys \in Nat /\ c.size \in Nat
      /\ y.base =< b.phys /\ b.phys + b.size =< y.base + y.size
      /\ z.base =< c.phys /\ c.phys + c.size =< z.base + z.size
      /\ y.base \in Nat /\ y.size \in Nat /\ z.base \in Nat /\ z.size \in Nat
  BY <1>1, BlockTypes
<1>3. i = j \/ Separate(y.base, y.size, z.base, z.size)
  BY DEF ApartIn
<1>4. b.phys =< p /\ p < b.phys + b.size /\ c.phys =< p /\ p < c.phys + c.size
  BY DEF Touches
<1> HIDE DEF y, z
<1>5. i = j
  <2>1. y.base =< p /\ p < y.base + y.size
    <3>1. /\ b.phys \in Nat /\ b.size \in Nat /\ y.base \in Nat /\ y.size \in Nat /\ p \in Int
          /\ y.base =< b.phys /\ b.phys + b.size =< y.base + y.size
          /\ b.phys =< p /\ p < b.phys + b.size
      BY <1>2, <1>4
    <3> QED BY ONLY <3>1
  <2>2. z.base =< p /\ p < z.base + z.size
    <3>1. /\ c.phys \in Nat /\ c.size \in Nat /\ z.base \in Nat /\ z.size \in Nat /\ p \in Int
          /\ z.base =< c.phys /\ c.phys + c.size =< z.base + z.size
          /\ c.phys =< p /\ p < c.phys + c.size
      BY <1>2, <1>4
    <3> QED BY ONLY <3>1
  <2>3. /\ y.base \in Nat /\ y.size \in Nat /\ z.base \in Nat /\ z.size \in Nat
    BY <1>2
  <2> QED BY <1>3, <2>1, <2>2, <2>3 DEF Separate
<1>6. b = c
  BY <1>1, <1>5, OneInZone DEF y, z
<1> QED BY <1>5, <1>6

\* The sets that are counted are finite.
LEMMA Finite ==
  ASSUME ZoneTypes
  PROVE  /\ \A p : IsFiniteSet(Live(p)) /\ Cardinality(Live(p)) \in Nat
         /\ \A b : IsFiniteSet(Holders(b)) /\ Cardinality(Holders(b)) \in Nat
<1>1. DOMAIN g_zone_list = 1..Len(g_zone_list) /\ Len(g_zone_list) \in Nat
  BY DEF ZoneTypes
<1>2. IsFiniteSet(DOMAIN g_zone_list)
  BY <1>1, FS_Interval
<1>3. ASSUME NEW p PROVE IsFiniteSet(Live(p)) /\ Cardinality(Live(p)) \in Nat
  <2>1. Live(p) \in SUBSET DOMAIN g_zone_list
    BY DEF Live
  <2>2. IsFiniteSet(Live(p))
    BY <1>2, <2>1, FS_Subset
  <2> QED BY <2>2, FS_CardinalityType
<1>4. ASSUME NEW b PROVE IsFiniteSet(Holders(b)) /\ Cardinality(Holders(b)) \in Nat
  <2>1. Holders(b) \in SUBSET Mapping
    BY DEF Holders
  <2>2. IsFiniteSet(Holders(b))
    BY <2>1, ZoneAssumption, FS_Subset
  <2> QED BY <2>2, FS_CardinalityType
<1> QED BY <1>3, <1>4

\* A holder of a block has a page of it.
LEMMA HolderHolds ==
  ASSUME ZoneTypes, NEW b, NEW m \in Holders(b)
  PROVE  m \in Mapping /\ held[m] # NoPage /\ Touches(b, held[m]) /\ held[m] \in Int
<1>1. m \in Mapping /\ held[m] # NoPage /\ Touches(b, held[m])
  BY DEF Holders
<1>2. held[m] \in Page
  BY <1>1 DEF ZoneTypes
<1>3. held[m] \in Nat
  BY <1>2, PagesAreNumbers, Zenon
<1>4. held[m] \in Int
  BY <1>3
<1> QED BY <1>1, <1>4

\* Exchanging the blocks of one zone leaves the rest of the list as it is.
Exchanged(i, new) ==
  g_zone_list' = [g_zone_list EXCEPT ![i].blocks = new]

\* What an exchange makes of the list
LEMMA ExchangeFacts ==
  ASSUME ZoneTypes, NEW i \in DOMAIN g_zone_list, NEW new, new \subseteq Block,
         Exchanged(i, new)
  PROVE  /\ g_zone_list' \in Seq(Zone) /\ DOMAIN g_zone_list' = DOMAIN g_zone_list
         /\ \A j \in DOMAIN g_zone_list :
              /\ g_zone_list'[j].name = g_zone_list[j].name
              /\ g_zone_list'[j].base = g_zone_list[j].base
              /\ g_zone_list'[j].size = g_zone_list[j].size
              /\ j # i => g_zone_list'[j].blocks = g_zone_list[j].blocks
         /\ g_zone_list'[i].blocks = new
<1>1. g_zone_list \in Seq(Zone) /\ DOMAIN g_zone_list = 1..Len(g_zone_list)
      /\ Len(g_zone_list) \in Nat
  BY DEF ZoneTypes
<1>2. g_zone_list[i] \in Zone
  BY <1>1
<1> DEFINE z == [g_zone_list[i] EXCEPT !.blocks = new]
<1>3. /\ z \in Zone /\ z.name = g_zone_list[i].name /\ z.base = g_zone_list[i].base
      /\ z.size = g_zone_list[i].size /\ z.blocks = new
  BY <1>2 DEF Zone
<1>4. g_zone_list' = [g_zone_list EXCEPT ![i] = z]
  BY DEF Exchanged
<1> HIDE DEF z
<1>5. g_zone_list' \in Seq(Zone)
  BY <1>1, <1>3, <1>4
<1>6. /\ DOMAIN g_zone_list' = DOMAIN g_zone_list
      /\ \A j \in DOMAIN g_zone_list : j # i => g_zone_list'[j] = g_zone_list[j]
      /\ g_zone_list'[i] = z
  BY <1>1, <1>4
<1>7. /\ g_zone_list'[i].name = g_zone_list[i].name
      /\ g_zone_list'[i].base = g_zone_list[i].base
      /\ g_zone_list'[i].size = g_zone_list[i].size
      /\ g_zone_list'[i].blocks = new
  BY <1>3, <1>6
<1> QED BY <1>5, <1>6, <1>7

\* What an exchange has to keep of a zone for it, and all of them, to stay placed
\* and apart
LEMMA ExchangePlaced ==
  ASSUME ZoneTypes, AllPlaced, ZonesApart, NEW i \in DOMAIN g_zone_list, NEW new,
         new \subseteq Block, Exchanged(i, new), aliased' = aliased,
         \A b \in new :
           /\ g_zone_list[i].base =< b.phys
           /\ b.phys + b.size =< g_zone_list[i].base + g_zone_list[i].size
           /\ b.kvirt <=> b.map_kref > 0,
         \A b, c \in new : b = c \/ Separate(b.phys, b.size, c.phys, c.size)
  PROVE  AllPlaced' /\ ZonesApart'
<1>1. /\ DOMAIN g_zone_list' = DOMAIN g_zone_list
      /\ \A j \in DOMAIN g_zone_list :
           /\ g_zone_list'[j].base = g_zone_list[j].base
           /\ g_zone_list'[j].size = g_zone_list[j].size
           /\ j # i => g_zone_list'[j].blocks = g_zone_list[j].blocks
      /\ g_zone_list'[i].blocks = new
  BY ExchangeFacts
<1>2. ASSUME NEW j \in DOMAIN g_zone_list' PROVE Placed(g_zone_list'[j])
  <2>1. Placed(g_zone_list[j]) /\ j \in DOMAIN g_zone_list
    BY <1>1 DEF AllPlaced, PlacedIn
  <2>2. CASE j = i
    BY <1>1, <2>1, <2>2 DEF Placed
  <2>3. CASE j # i
    BY <1>1, <2>1, <2>3 DEF Placed
  <2> QED BY <2>2, <2>3
<1>3. AllPlaced'
  BY <1>2 DEF AllPlaced, PlacedIn
<1>4. ZonesApart'
  BY <1>1 DEF ZonesApart, ApartIn
<1> QED BY <1>3, <1>4

\* The zones whose block at a page is mapped, after an exchange
LEMMA ExchangeLive ==
  ASSUME ZoneTypes, NEW i \in DOMAIN g_zone_list, NEW new, new \subseteq Block,
         Exchanged(i, new), NEW p
  PROVE  Live(p)' = IF \E c \in new : c.kvirt /\ c.phys = p
                      THEN Live(p) \cup {i} ELSE Live(p) \ {i}
<1>1. /\ DOMAIN g_zone_list' = DOMAIN g_zone_list
      /\ \A j \in DOMAIN g_zone_list :
           j # i => g_zone_list'[j].blocks = g_zone_list[j].blocks
      /\ g_zone_list'[i].blocks = new
  BY ExchangeFacts
<1>2. \A j : j \in Live(p)' <=>
        j \in DOMAIN g_zone_list /\ \E b \in g_zone_list'[j].blocks : b.kvirt /\ b.phys = p
  BY <1>1 DEF Live
<1>3. \A j : j \in Live(p) <=>
        j \in DOMAIN g_zone_list /\ \E b \in g_zone_list[j].blocks : b.kvirt /\ b.phys = p
  BY DEF Live
<1>4. \A j : j # i => (j \in Live(p)' <=> j \in Live(p))
  BY <1>1, <1>2, <1>3
<1>5. i \in Live(p)' <=> \E c \in new : c.kvirt /\ c.phys = p
  <2>1. i \in Live(p)' <=> \E b \in g_zone_list'[i].blocks : b.kvirt /\ b.phys = p
    BY <1>2
  <2>2. g_zone_list'[i].blocks = new
    BY <1>1
  <2> QED BY <2>1, <2>2, Zenon
<1> QED BY <1>4, <1>5

\* A name leads to a zone of the list.
LEMMA FoundIsZone ==
  ASSUME ZoneTypes, NEW name, zone_find_by_name(name) # 0
  PROVE  zone_find_by_name(name) \in DOMAIN g_zone_list
<1> DEFINE want == IF name = "" THEN Named("anonymous") ELSE Named(name)
           all == IF want = {} /\ name = "" THEN DOMAIN g_zone_list ELSE want
<1>1. DOMAIN g_zone_list \subseteq Nat
  BY DEF ZoneTypes
<1>4. want \subseteq DOMAIN g_zone_list
  BY DEF Named
<1>2. zone_find_by_name(name) = IF all = {} THEN 0 ELSE Min(all)
  BY DEF zone_find_by_name
<1> HIDE DEF want
<1>5. all \subseteq DOMAIN g_zone_list
  <2>1. CASE want = {} /\ name = ""
    BY <2>1
  <2>2. CASE ~(want = {} /\ name = "")
    BY <1>4, <2>2
  <2> QED BY <2>1, <2>2
<1> HIDE DEF all
<1>3. all # {} /\ Min(all) \in all
  BY <1>1, <1>2, <1>5, LeastIsOne
<1> QED BY <1>2, <1>3, <1>5

\* hil_mmb_alloc takes a gap, where no page is held.
LEMMA AllocKeeps ==
  ASSUME ZoneInv, NEW name, NEW size \in BlockSizes, hil_mmb_alloc(name, size)
  PROVE  ZoneInv'
<1> DEFINE i == zone_find_by_name(name)
           z == g_zone_list[i]
           start == Min(Gaps(z, size))
           n == [phys |-> start, size |-> size, kvirt |-> FALSE, map_kref |-> 0]
           new == z.blocks \cup {n}
<1>1. /\ phase = "ready" /\ i # 0 /\ Gaps(z, size) # {}
      /\ UNCHANGED <<phase, mmz, dt, remaps, held, aliased>>
      /\ g_zone_list' = [g_zone_list EXCEPT ![i].blocks = @ \cup {n}]
  BY DEF hil_mmb_alloc
<1>2. i \in DOMAIN g_zone_list
  BY <1>1, FoundIsZone DEF ZoneInv
<1> HIDE DEF i
<1>3. Exchanged(i, new)
  BY <1>1 DEF Exchanged
<1>4. z \in Zone /\ Placed(z) /\ size \in Nat \ {0}
  BY <1>2, ZoneAssumption DEF ZoneInv, ZoneTypes, AllPlaced, PlacedIn
<1>5. z.base \in Nat /\ z.size \in Nat /\ z.base..(z.base + z.size - 1) \subseteq Page
      /\ z.blocks \subseteq Block
  BY <1>4 DEF Zone, Placed
<1> HIDE DEF z
<1>6. /\ start \in Nat /\ z.base =< start /\ start + size =< z.base + z.size
      /\ \A b \in z.blocks : start + size =< b.phys \/ b.phys + b.size =< start
  <2>1. Gaps(z, size) \subseteq Nat
    BY <1>5 DEF Gaps
  <2>2. start \in Gaps(z, size)
    BY <1>1, <2>1, LeastIsOne
  <2> HIDE DEF start
  <2> QED BY <2>1, <2>2, <1>5 DEF Gaps
<1> HIDE DEF start
<1>7. start \in Page
  BY <1>4, <1>5, <1>6
<1>8. /\ n \in Block /\ n.phys = start /\ n.size = size /\ n.kvirt = FALSE
      /\ n.map_kref = 0
  BY <1>4, <1>7 DEF Block
<1> HIDE DEF n
<1>9. n \notin z.blocks
  BY <1>4, <1>6, <1>8
<1>10. new \subseteq Block
  BY <1>5, <1>8
<1>11. /\ \A b \in new :
           /\ z.base =< b.phys /\ b.phys + b.size =< z.base + z.size
           /\ b.kvirt <=> b.map_kref > 0
       /\ \A b, c \in new : b = c \/ Separate(b.phys, b.size, c.phys, c.size)
  <2>1. \A b \in z.blocks :
          /\ z.base =< b.phys /\ b.phys + b.size =< z.base + z.size
          /\ b.kvirt <=> b.map_kref > 0
          /\ Separate(b.phys, b.size, start, size) /\ Separate(start, size, b.phys, b.size)
    BY <1>4, <1>6, BlockTypes DEF Separate
  <2>2. \A b, c \in z.blocks : b = c \/ Separate(b.phys, b.size, c.phys, c.size)
    BY <1>4, BlockTypes
  <2> QED BY <1>6, <1>8, <2>1, <2>2
<1>12. AllPlaced' /\ ZonesApart'
  BY <1>1, <1>2, <1>3, <1>10, <1>11, ExchangePlaced DEF ZoneInv, z
<1>13. /\ g_zone_list' \in Seq(Zone) /\ DOMAIN g_zone_list' = DOMAIN g_zone_list
       /\ \A j \in DOMAIN g_zone_list :
            j # i => g_zone_list'[j].blocks = g_zone_list[j].blocks
       /\ g_zone_list'[i].blocks = new
  BY <1>2, <1>3, <1>10, ExchangeFacts DEF ZoneInv
<1>14. Remapped'
  <2> SUFFICES ASSUME NEW p \in Page PROVE Live(p)' = Live(p)
    BY <1>1 DEF Remapped, ZoneInv
  <2>1. (\E c \in new : c.kvirt /\ c.phys = p) <=> i \in Live(p)
    BY <1>2, <1>8 DEF Live, z
  <2>2. Live(p)' = IF \E c \in new : c.kvirt /\ c.phys = p
                     THEN Live(p) \cup {i} ELSE Live(p) \ {i}
    BY <1>2, <1>3, <1>10, ExchangeLive DEF ZoneInv
  <2> QED BY <2>1, <2>2
<1>15. ASSUME ~aliased, NEW m \in Mapping, held[m] # NoPage
       PROVE  \E j \in DOMAIN g_zone_list' : \E b \in g_zone_list'[j].blocks :
                Touches(b, held[m]) /\ (j = i => b \in z.blocks)
  <2>1. PICK j \in DOMAIN g_zone_list : \E b \in g_zone_list[j].blocks : Touches(b, held[m])
    BY <1>15 DEF ZoneInv, Backed
  <2> QED BY <1>13, <2>1 DEF z
<1>16. Backed'
  BY <1>1, <1>15 DEF Backed, Touches
<1>17. RefsCounted'
  <2> SUFFICES ASSUME ~aliased, NEW j \in DOMAIN g_zone_list',
                      NEW b \in g_zone_list'[j].blocks
               PROVE  b.map_kref = Cardinality(Holders(b))
    BY <1>1 DEF RefsCounted, Holders, Touches
  <2>1. CASE b \in g_zone_list[j].blocks
    BY <1>13, <2>1 DEF ZoneInv, RefsCounted
  <2>2. CASE j = i /\ b = n
    <3>1. ASSUME NEW m \in Holders(n) PROVE FALSE
      <4>1. m \in Mapping /\ held[m] # NoPage /\ Touches(n, held[m]) /\ held[m] \in Int
        BY HolderHolds DEF ZoneInv
      <4>2. PICK k \in DOMAIN g_zone_list' : \E c \in g_zone_list'[k].blocks :
              Touches(c, held[m]) /\ (k = i => c \in z.blocks)
        BY <1>15, <4>1
      <4>6. PICK c \in g_zone_list'[k].blocks :
              Touches(c, held[m]) /\ (k = i => c \in z.blocks)
        BY <4>2
      <4>3. n \in g_zone_list'[i].blocks /\ i \in DOMAIN g_zone_list'
        BY <1>2, <1>13
      <4>4. PlacedIn(g_zone_list') /\ ApartIn(g_zone_list')
        BY <1>1, <1>12 DEF AllPlaced, ZonesApart
      <4>5. k = i /\ c = n
        <5>1. g_zone_list' \in Seq(Zone) /\ Touches(c, held[m])
          BY <1>13, <4>6
        <5> QED BY <4>1, <4>3, <4>4, <5>1, OneBlock
      <4> QED BY <1>9, <4>5, <4>6
    <3>2. Holders(n) = {}
      BY <3>1
    <3> QED BY <1>8, <2>2, <3>2, FS_EmptySet
  <2> QED BY <1>13, <2>1, <2>2 DEF z
<1>18. ZoneTypes'
  BY <1>1, <1>13 DEF ZoneInv, ZoneTypes
<1>19. Quiet' /\ Anonymous'
  BY <1>1 DEF Quiet, Anonymous
<1> QED BY <1>12, <1>14, <1>16, <1>17, <1>18, <1>19 DEF ZoneInv

\* MmbFreeIoctl frees a block that nobody has mapped.
LEMMA FreeKeeps ==
  ASSUME ZoneInv, NEW p \in Page, MmbFreeIoctl(p)
  PROVE  ZoneInv'
<1> DEFINE i == Min(With(p))
           b == BlockAt(i, p)
           z == g_zone_list[i]
           new == z.blocks \ {b}
<1>1. /\ phase = "ready" /\ With(p) # {} /\ b.map_kref = 0 /\ Becomes(i, b, {})
      /\ UNCHANGED <<phase, mmz, dt, remaps, held, aliased>>
  BY DEF MmbFreeIoctl
<1>2. i \in DOMAIN g_zone_list /\ b \in z.blocks
  BY <1>1, BlockFound DEF ZoneInv
<1> HIDE DEF i, b
<1>3. Exchanged(i, new)
  <2>1. (z.blocks \ {b}) \cup {} = new
    OBVIOUS
  <2>2. g_zone_list' = [g_zone_list EXCEPT ![i].blocks = (z.blocks \ {b}) \cup {}]
    BY <1>1 DEF Becomes
  <2> QED BY <2>1, <2>2 DEF Exchanged
<1>4. z \in Zone /\ Placed(z)
  BY <1>2 DEF ZoneInv, ZoneTypes, AllPlaced, PlacedIn
<1> HIDE DEF z
<1>5. z.blocks \subseteq Block /\ new \subseteq Block
  BY <1>4 DEF Zone
<1>6. b.kvirt = FALSE
  <2>1. b.kvirt \in BOOLEAN /\ (b.kvirt <=> b.map_kref > 0)
    BY <1>2, <1>4, BlockTypes
  <2>2. ~(b.map_kref > 0)
    BY <1>1
  <2> QED BY <2>1, <2>2, Zenon
<1>7. /\ \A c \in new :
           /\ z.base =< c.phys /\ c.phys + c.size =< z.base + z.size
           /\ c.kvirt <=> c.map_kref > 0
      /\ \A c, d \in new : c = d \/ Separate(c.phys, c.size, d.phys, d.size)
  BY <1>4, BlockTypes
<1>8. AllPlaced' /\ ZonesApart'
  BY <1>1, <1>2, <1>3, <1>5, <1>7, ExchangePlaced DEF ZoneInv, z
<1>9. /\ g_zone_list' \in Seq(Zone) /\ DOMAIN g_zone_list' = DOMAIN g_zone_list
      /\ \A j \in DOMAIN g_zone_list :
           j # i => g_zone_list'[j].blocks = g_zone_list[j].blocks
      /\ g_zone_list'[i].blocks = new
  BY <1>2, <1>3, <1>5, ExchangeFacts DEF ZoneInv
<1>10. Remapped'
  <2> SUFFICES ASSUME NEW q \in Page PROVE Live(q)' = Live(q)
    BY <1>1 DEF Remapped, ZoneInv
  <2>1. (\E c \in new : c.kvirt /\ c.phys = q) <=> i \in Live(q)
    BY <1>2, <1>6 DEF Live, z
  <2>2. Live(q)' = IF \E c \in new : c.kvirt /\ c.phys = q
                     THEN Live(q) \cup {i} ELSE Live(q) \ {i}
    BY <1>2, <1>3, <1>5, ExchangeLive DEF ZoneInv
  <2> QED BY <2>1, <2>2
<1>11. Backed'
  <2> SUFFICES ASSUME ~aliased, NEW m \in Mapping, held[m] # NoPage
               PROVE  \E j \in DOMAIN g_zone_list' : \E c \in g_zone_list'[j].blocks :
                        Touches(c, held[m])
    BY <1>1 DEF Backed, Touches
  <2>1. PICK j \in DOMAIN g_zone_list : \E c \in g_zone_list[j].blocks : Touches(c, held[m])
    BY DEF ZoneInv, Backed
  <2>2. PICK c \in g_zone_list[j].blocks : Touches(c, held[m])
    BY <2>1
  <2>3. ~Touches(b, held[m])
    <3>1. Cardinality(Holders(b)) = 0
      BY <1>1, <1>2 DEF ZoneInv, RefsCounted, z
    <3>2. IsFiniteSet(Holders(b))
      BY Finite DEF ZoneInv
    <3>3. Holders(b) = {}
      BY <3>1, <3>2, FS_EmptySet
    <3> QED BY <3>3 DEF Holders
  <2>4. c # b
    BY <2>2, <2>3
  <2>5. c \in g_zone_list'[j].blocks
    BY <1>9, <2>4 DEF z
  <2> QED BY <1>9, <2>2, <2>5
<1>12. RefsCounted'
  <2> SUFFICES ASSUME ~aliased, NEW j \in DOMAIN g_zone_list',
                      NEW c \in g_zone_list'[j].blocks
               PROVE  c.map_kref = Cardinality(Holders(c))
    BY <1>1 DEF RefsCounted, Holders, Touches
  <2>1. c \in g_zone_list[j].blocks /\ j \in DOMAIN g_zone_list
    BY <1>9 DEF z
  <2> QED BY <2>1 DEF ZoneInv, RefsCounted
<1>13. ZoneTypes'
  BY <1>1, <1>9 DEF ZoneInv, ZoneTypes
<1>14. Quiet' /\ Anonymous'
  BY <1>1 DEF Quiet, Anonymous
<1> QED BY <1>8, <1>10, <1>11, <1>12, <1>13, <1>14 DEF ZoneInv

\* Where block b of zone i was, u is: it begins and ends there.
Replaced(i, b, u) ==
  /\ i \in DOMAIN g_zone_list /\ b \in g_zone_list[i].blocks /\ u \in Block
  /\ u.phys = b.phys /\ u.size = b.size /\ (u.kvirt <=> u.map_kref > 0)
  /\ Becomes(i, b, {u}) /\ aliased' = aliased

LEMMA ReplaceKeeps ==
  ASSUME ZoneInv, NEW i, NEW b, NEW u, Replaced(i, b, u)
  PROVE  /\ g_zone_list' \in Seq(Zone) /\ AllPlaced' /\ ZonesApart'
         /\ DOMAIN g_zone_list' = DOMAIN g_zone_list
         /\ u \in g_zone_list'[i].blocks
         /\ \A j \in DOMAIN g_zone_list :
              /\ \A c \in g_zone_list'[j].blocks :
                   (j = i /\ c = u) \/ (c \in g_zone_list[j].blocks /\ ~(j = i /\ c = b))
              /\ \A c \in g_zone_list[j].blocks :
                   (j = i /\ c = b) \/ c \in g_zone_list'[j].blocks
<1> DEFINE z == g_zone_list[i]
           new == (z.blocks \ {b}) \cup {u}
<1>1. /\ i \in DOMAIN g_zone_list /\ b \in z.blocks /\ u \in Block
      /\ u.phys = b.phys /\ u.size = b.size /\ (u.kvirt <=> u.map_kref > 0)
      /\ aliased' = aliased
  BY DEF Replaced
<1>2. Exchanged(i, new)
  BY DEF Exchanged, Replaced, Becomes
<1>3. z \in Zone /\ Placed(z)
  BY <1>1 DEF ZoneInv, ZoneTypes, AllPlaced, PlacedIn
<1> HIDE DEF z
<1>4. new \subseteq Block
  BY <1>1, <1>3 DEF Zone
<1>5. \A c \in new :
        /\ z.base =< c.phys /\ c.phys + c.size =< z.base + z.size
        /\ c.kvirt <=> c.map_kref > 0
  BY <1>1, <1>3, BlockTypes
<1>6. \A c, d \in new : c = d \/ Separate(c.phys, c.size, d.phys, d.size)
  <2>1. \A c, d \in z.blocks : c = d \/ Separate(c.phys, c.size, d.phys, d.size)
    BY <1>3, BlockTypes
  <2> HIDE DEF Separate
  <2> QED BY <1>1, <2>1
<1>7. AllPlaced' /\ ZonesApart'
  BY <1>1, <1>2, <1>4, <1>5, <1>6, ExchangePlaced DEF ZoneInv, z
<1>8. /\ g_zone_list' \in Seq(Zone) /\ DOMAIN g_zone_list' = DOMAIN g_zone_list
      /\ \A j \in DOMAIN g_zone_list :
           j # i => g_zone_list'[j].blocks = g_zone_list[j].blocks
      /\ g_zone_list'[i].blocks = new
  BY <1>1, <1>2, <1>4, ExchangeFacts DEF ZoneInv
<1>9. ASSUME NEW j \in DOMAIN g_zone_list
      PROVE  /\ \A c \in g_zone_list'[j].blocks :
                   (j = i /\ c = u) \/ (c \in g_zone_list[j].blocks /\ ~(j = i /\ c = b))
             /\ \A c \in g_zone_list[j].blocks :
                   (j = i /\ c = b) \/ c \in g_zone_list'[j].blocks
  <2>1. CASE j = i
    BY <1>8, <2>1 DEF z
  <2>2. CASE j # i
    BY <1>8, <2>2
  <2> QED BY <2>1, <2>2
<1> QED BY <1>7, <1>8, <1>9

LEMMA ReplaceLive ==
  ASSUME ZoneInv, NEW i, NEW b, NEW u, Replaced(i, b, u)
  PROVE  /\ i \in Live(b.phys) <=> b.kvirt
         /\ Live(b.phys)' = IF u.kvirt THEN Live(b.phys) \cup {i} ELSE Live(b.phys) \ {i}
         /\ \A p : p # b.phys => Live(p)' = Live(p)
<1> DEFINE z == g_zone_list[i]
           new == (z.blocks \ {b}) \cup {u}
<1>1. /\ i \in DOMAIN g_zone_list /\ b \in z.blocks /\ u \in Block
      /\ u.phys = b.phys
  BY DEF Replaced
<1>2. Exchanged(i, new)
  BY DEF Exchanged, Replaced, Becomes
<1>3. z \in Zone /\ Placed(z)
  BY <1>1 DEF ZoneInv, ZoneTypes, AllPlaced, PlacedIn
<1>4. \A p : i \in Live(p) <=> \E c \in z.blocks : c.kvirt /\ c.phys = p
  BY <1>1 DEF Live
<1> HIDE DEF z
<1>5. new \subseteq Block
  BY <1>1, <1>3 DEF Zone
<1>6. \A c \in z.blocks : c.phys = b.phys => c = b
  <2> SUFFICES ASSUME NEW c \in z.blocks, c.phys = b.phys PROVE c = b
    OBVIOUS
  <2>1. /\ b.phys \in Nat /\ b.size \in Nat \ {0} /\ c.phys \in Nat
        /\ c.size \in Nat \ {0}
    BY <1>1, <1>3, BlockTypes
  <2>2. Touches(b, b.phys) /\ Touches(c, b.phys) /\ b.phys \in Int
    BY <2>1 DEF Touches
  <2> QED BY <1>1, <1>3, <2>2, OneInZone
<1>7. \A p : Live(p)' = IF \E c \in new : c.kvirt /\ c.phys = p
                          THEN Live(p) \cup {i} ELSE Live(p) \ {i}
  BY <1>1, <1>2, <1>5, ExchangeLive DEF ZoneInv, z
<1>8. i \in Live(b.phys) <=> b.kvirt
  BY <1>1, <1>4, <1>6
<1>9. (\E c \in new : c.kvirt /\ c.phys = b.phys) <=> u.kvirt
  BY <1>1, <1>6
<1>10. Live(b.phys)' = IF u.kvirt THEN Live(b.phys) \cup {i} ELSE Live(b.phys) \ {i}
  BY <1>7, <1>9
<1>11. ASSUME NEW p, p # b.phys PROVE Live(p)' = Live(p)
  <2>1. (\E c \in new : c.kvirt /\ c.phys = p) <=> i \in Live(p)
    BY <1>1, <1>4, <1>11
  <2> QED BY <1>7, <2>1
<1> QED BY <1>8, <1>10, <1>11

\* What mapping and unmapping makes of a block
LEMMA BlockMapped ==
  ASSUME NEW b \in Block
  PROVE  /\ map_block(b) \in Block /\ map_block(b).phys = b.phys
         /\ map_block(b).size = b.size /\ map_block(b).kvirt = TRUE
         /\ map_block(b).map_kref = b.map_kref + 1
<1> DEFINE n == b.map_kref + 1
<1>1. n \in Nat
  BY DEF Block
<1>2. map_block(b) = [b EXCEPT !.kvirt = TRUE, !.map_kref = n]
  BY DEF map_block, Block
<1> HIDE DEF n
<1>3. /\ map_block(b) \in Block /\ map_block(b).phys = b.phys
      /\ map_block(b).size = b.size /\ map_block(b).map_kref = n
  BY <1>1, <1>2 DEF Block
<1>4. map_block(b).kvirt = TRUE
  BY <1>2 DEF Block
<1> QED BY <1>3, <1>4 DEF n

LEMMA BlockUnmapped ==
  ASSUME NEW b \in Block, b.map_kref # 0
  PROVE  unmap_block(b) = [phys |-> b.phys, size |-> b.size,
                           kvirt |-> b.kvirt /\ b.map_kref # 1,
                           map_kref |-> b.map_kref - 1]
BY DEF unmap_block, Block

\* hil_mmf_map2kern adds one mapping to the block it finds.
LEMMA MapKeeps ==
  ASSUME ZoneInv, NEW m \in Mapping, NEW p \in Page, hil_mmf_map2kern(m, p)
  PROVE  ZoneInv'
<1>0. PICK i, b : i = Min(With(p)) /\ b = BlockAt(i, p)
  OBVIOUS
<1>a. PICK u : u = map_block(b)
  OBVIOUS
<1>1. /\ phase = "ready" /\ held[m] = NoPage /\ With(p) # {} /\ Becomes(i, b, {u})
      /\ remaps' = IF b.kvirt THEN remaps ELSE [remaps EXCEPT ![b.phys] = @ + 1]
      /\ held' = [held EXCEPT ![m] = p]
      /\ UNCHANGED <<phase, mmz, dt, aliased>>
  BY <1>0, <1>a DEF hil_mmf_map2kern
<1>2. i \in DOMAIN g_zone_list /\ b \in g_zone_list[i].blocks /\ Touches(b, p)
  BY <1>0, <1>1, BlockFound DEF ZoneInv
<1>3. g_zone_list[i] \in Zone /\ Placed(g_zone_list[i])
  BY <1>2 DEF ZoneInv, ZoneTypes, AllPlaced, PlacedIn
<1>4. /\ b \in Block /\ b.phys \in Page /\ b.phys \in Nat /\ b.size \in Nat \ {0}
      /\ b.kvirt \in BOOLEAN /\ b.map_kref \in Nat
  BY <1>2, <1>3, BlockTypes
<1>5. /\ u \in Block /\ u.phys = b.phys /\ u.size = b.size
      /\ u.kvirt = TRUE /\ u.map_kref = b.map_kref + 1
  BY <1>4, <1>a, BlockMapped
<1>6. Replaced(i, b, u)
  BY <1>1, <1>2, <1>4, <1>5 DEF Replaced
<1>7. /\ g_zone_list' \in Seq(Zone) /\ AllPlaced' /\ ZonesApart'
      /\ DOMAIN g_zone_list' = DOMAIN g_zone_list
      /\ u \in g_zone_list'[i].blocks
      /\ \A j \in DOMAIN g_zone_list :
           /\ \A c \in g_zone_list'[j].blocks :
                (j = i /\ c = u) \/ (c \in g_zone_list[j].blocks /\ ~(j = i /\ c = b))
           /\ \A c \in g_zone_list[j].blocks :
                (j = i /\ c = b) \/ c \in g_zone_list'[j].blocks
  BY <1>6, ReplaceKeeps
<1>8. /\ Touches(u, p) /\ \A q : Touches(u, q) <=> Touches(b, q)
  BY <1>2, <1>5 DEF Touches
<1>9. /\ held' \in [Mapping -> Page \cup {NoPage}] /\ held'[m] = p
      /\ \A n \in Mapping : n # m => held'[n] = held[n]
      /\ p # NoPage /\ p \in Int
  <2>1. held \in [Mapping -> Page \cup {NoPage}]
    BY DEF ZoneInv, ZoneTypes
  <2>2. p # NoPage /\ p \in Nat
    BY PagesAreNumbers, Zenon
  <2> QED BY <1>1, <2>1, <2>2
<1>10. Remapped'
  <2>1. /\ i \in Live(b.phys) <=> b.kvirt
        /\ Live(b.phys)' = Live(b.phys) \cup {i}
        /\ \A q : q # b.phys => Live(q)' = Live(q)
    BY <1>5, <1>6, ReplaceLive
  <2>2. /\ \A q \in Page : remaps[q] = Cardinality(Live(q))
        /\ remaps \in [Page -> Int]
    BY DEF ZoneInv, ZoneTypes, Remapped
  <2>3. IsFiniteSet(Live(b.phys))
    BY Finite DEF ZoneInv
  <2>4. Cardinality(Live(b.phys)') = IF b.kvirt THEN Cardinality(Live(b.phys))
                                                ELSE Cardinality(Live(b.phys)) + 1
    BY <2>1, <2>3, FS_AddElement
  <2>5. ASSUME NEW q \in Page PROVE remaps'[q] = Cardinality(Live(q)')
    <3>1. CASE q = b.phys
      BY <1>1, <1>4, <2>2, <2>4, <3>1
    <3>2. CASE q # b.phys
      <4>1. remaps'[q] = remaps[q]
        BY <1>1, <2>2, <3>2
      <4> QED BY <2>1, <2>2, <3>2, <4>1
    <3> QED BY <3>1, <3>2
  <2> QED BY <2>5 DEF Remapped
<1>11. Backed'
  <2> SUFFICES ASSUME ~aliased, NEW n \in Mapping, held'[n] # NoPage
               PROVE  \E j \in DOMAIN g_zone_list' : \E c \in g_zone_list'[j].blocks :
                        Touches(c, held'[n])
    BY <1>1 DEF Backed, Touches
  <2>1. CASE n = m
    BY <1>2, <1>7, <1>8, <1>9, <2>1
  <2>2. CASE n # m
    <3>1. held'[n] = held[n]
      BY <1>9, <2>2
    <3>2. PICK j \in DOMAIN g_zone_list : \E c \in g_zone_list[j].blocks : Touches(c, held[n])
      BY <3>1 DEF ZoneInv, Backed
    <3>3. PICK c \in g_zone_list[j].blocks : Touches(c, held[n])
      BY <3>2
    <3>4. CASE j = i /\ c = b
      BY <1>2, <1>7, <1>8, <3>1, <3>3, <3>4
    <3>5. CASE ~(j = i /\ c = b)
      <4>1. c \in g_zone_list'[j].blocks
        BY <1>7, <3>5
      <4> QED BY <1>7, <3>1, <3>3, <4>1
    <3> QED BY <3>4, <3>5
  <2> QED BY <2>1, <2>2
<1>12. RefsCounted'
  <2> SUFFICES ASSUME ~aliased, NEW j \in DOMAIN g_zone_list',
                      NEW c \in g_zone_list'[j].blocks
               PROVE  c.map_kref = Cardinality(Holders(c)')
    BY <1>1 DEF RefsCounted, Holders, Touches
  <2>1. \A d : Holders(d)' = IF Touches(d, p) THEN Holders(d) \cup {m} ELSE Holders(d)
    <3>1. \A d, n : n \in Holders(d)' <=>
            n \in Mapping /\ held'[n] # NoPage /\ Touches(d, held'[n])
      BY DEF Holders, Touches
    <3>2. \A d, n : n \in Holders(d) <=>
            n \in Mapping /\ held[n] # NoPage /\ Touches(d, held[n])
      BY DEF Holders
    <3> QED BY <1>1, <1>9, <3>1, <3>2
  <2>2. CASE j = i /\ c = u
    <3>1. Holders(b) = Holders(u) /\ m \notin Holders(b)
      BY <1>1, <1>8 DEF Holders
    <3>2. b.map_kref = Cardinality(Holders(b)) /\ IsFiniteSet(Holders(b))
      BY <1>2, Finite DEF ZoneInv, RefsCounted
    <3>3. Holders(u)' = Holders(b) \cup {m}
      BY <1>8, <2>1, <3>1
    <3>4. Cardinality(Holders(b) \cup {m}) = Cardinality(Holders(b)) + 1
      BY <3>1, <3>2, FS_AddElement
    <3> QED BY <1>5, <2>2, <3>2, <3>3, <3>4
  <2>3. CASE ~(j = i /\ c = u)
    <3>1. c \in g_zone_list[j].blocks /\ j \in DOMAIN g_zone_list
      BY <1>7, <2>3
    <3>2. ~Touches(c, p)
      <4>1. PlacedIn(g_zone_list') /\ ApartIn(g_zone_list')
        BY <1>1, <1>7 DEF AllPlaced, ZonesApart
      <4>2. i \in DOMAIN g_zone_list'
        BY <1>2, <1>7
      <4> QED BY <1>7, <1>8, <1>9, <2>3, <4>1, <4>2, OneBlock
    <3> QED BY <2>1, <3>1, <3>2 DEF ZoneInv, RefsCounted
  <2> QED BY <2>2, <2>3
<1>13. ZoneTypes'
  <2>1. remaps' \in [Page -> Int]
    <3>1. remaps \in [Page -> Int]
      BY DEF ZoneInv, ZoneTypes
    <3> QED BY <1>1, <1>4, <3>1
  <2> QED BY <1>1, <1>7, <1>9, <2>1 DEF ZoneInv, ZoneTypes
<1>14. Quiet' /\ Anonymous'
  BY <1>1 DEF Quiet, Anonymous
<1> QED BY <1>7, <1>10, <1>11, <1>12, <1>13, <1>14 DEF ZoneInv

\* hil_mmf_unmap takes one off the block at the address, and the last one its
\* kernel mapping.
LEMMA UnmapKeeps ==
  ASSUME ZoneInv, NEW m \in Mapping, hil_mmf_unmap(m)
  PROVE  ZoneInv'
<1>0. PICK p, i, b : p = held[m] /\ i = Min(With(p)) /\ b = BlockAt(i, p)
  OBVIOUS
<1>a. PICK u : u = unmap_block(b)
  OBVIOUS
<1>1. /\ p # NoPage /\ held' = [held EXCEPT ![m] = NoPage]
      /\ UNCHANGED <<phase, mmz, dt, aliased>>
  BY <1>0 DEF hil_mmf_unmap
<1>2. /\ held' \in [Mapping -> Page \cup {NoPage}] /\ held'[m] = NoPage
      /\ \A n \in Mapping : n # m => held'[n] = held[n]
      /\ p \in Page /\ p \in Int /\ phase = "ready"
  <2>1. held \in [Mapping -> Page \cup {NoPage}]
    BY DEF ZoneInv, ZoneTypes
  <2>2. p \in Page
    BY <1>0, <1>1, <2>1
  <2>3. p \in Nat
    BY <2>2, PagesAreNumbers, Zenon
  <2>4. phase = "ready"
    BY <1>0, <1>1 DEF ZoneInv, Quiet
  <2> QED BY <1>1, <2>1, <2>2, <2>3, <2>4
<1>3. \A d : Holders(d)' = Holders(d) \ {m}
  <2>1. \A d, n : n \in Holders(d)' <=>
          n \in Mapping /\ held'[n] # NoPage /\ Touches(d, held'[n])
    BY DEF Holders, Touches
  <2>2. \A d, n : n \in Holders(d) <=>
          n \in Mapping /\ held[n] # NoPage /\ Touches(d, held[n])
    BY DEF Holders
  <2> QED BY <1>2, <2>1, <2>2
<1>4. CASE With(p) = {}
  <2>1. UNCHANGED <<g_zone_list, remaps>>
    BY <1>0, <1>4 DEF hil_mmf_unmap
  <2>2. aliased
    <3> SUFFICES ASSUME ~aliased PROVE FALSE
      BY DEF ZoneInv, ZoneTypes
    <3> QED BY <1>0, <1>1, <1>4 DEF ZoneInv, Backed, With
  <2>3. AllPlaced' /\ ZonesApart' /\ Backed' /\ RefsCounted' /\ Quiet' /\ Anonymous'
    BY <1>1, <1>2, <2>1, <2>2
    DEF ZoneInv, AllPlaced, ZonesApart, Backed, RefsCounted, Quiet, Anonymous
  <2>4. Remapped'
    BY <2>1 DEF ZoneInv, Remapped, Live
  <2>5. ZoneTypes'
    BY <1>1, <1>2, <2>1 DEF ZoneInv, ZoneTypes
  <2> QED BY <2>3, <2>4, <2>5 DEF ZoneInv
<1>5. CASE With(p) # {}
  <2>1. /\ Becomes(i, b, {u})
        /\ remaps' = IF b.map_kref = 1 /\ b.kvirt THEN [remaps EXCEPT ![b.phys] = @ - 1]
                                                   ELSE remaps
    BY <1>0, <1>a, <1>5 DEF hil_mmf_unmap
  <2>2. i \in DOMAIN g_zone_list /\ b \in g_zone_list[i].blocks /\ Touches(b, p)
    BY <1>0, <1>5, BlockFound DEF ZoneInv
  <2>3. g_zone_list[i] \in Zone /\ Placed(g_zone_list[i])
    BY <2>2 DEF ZoneInv, ZoneTypes, AllPlaced, PlacedIn
  <2>4. /\ b \in Block /\ b.phys \in Page /\ b.phys \in Nat /\ b.size \in Nat \ {0}
        /\ b.kvirt \in BOOLEAN /\ b.map_kref \in Nat /\ (b.kvirt <=> b.map_kref > 0)
    BY <2>2, <2>3, BlockTypes
  <2>5. /\ u \in Block /\ u.phys = b.phys /\ u.size = b.size
        /\ u.map_kref = IF b.map_kref = 0 THEN 0 ELSE b.map_kref - 1
        /\ u.kvirt <=> b.map_kref > 1
    <3>1. CASE b.map_kref = 0
      BY <1>a, <2>4, <3>1 DEF unmap_block
    <3>2. CASE b.map_kref # 0
      <4>1. u = [phys |-> b.phys, size |-> b.size, kvirt |-> b.kvirt /\ b.map_kref # 1,
                 map_kref |-> b.map_kref - 1]
        BY <1>a, <2>4, <3>2, BlockUnmapped
      <4>2. /\ u.phys = b.phys /\ u.size = b.size /\ u.map_kref = b.map_kref - 1
            /\ u.kvirt <=> b.kvirt /\ b.map_kref # 1
        BY <4>1
      <4>3. u \in Block
        BY <2>4, <3>2, <4>1 DEF Block
      <4>4. (b.kvirt /\ b.map_kref # 1) <=> b.map_kref > 1
        BY <2>4
      <4> QED BY <3>2, <4>2, <4>3, <4>4
    <3> QED BY <3>1, <3>2
  <2>6. Replaced(i, b, u)
    BY <1>1, <2>1, <2>2, <2>4, <2>5 DEF Replaced
  <2>7. /\ g_zone_list' \in Seq(Zone) /\ AllPlaced' /\ ZonesApart'
        /\ DOMAIN g_zone_list' = DOMAIN g_zone_list
        /\ u \in g_zone_list'[i].blocks
        /\ \A j \in DOMAIN g_zone_list :
             /\ \A c \in g_zone_list'[j].blocks :
                  (j = i /\ c = u) \/ (c \in g_zone_list[j].blocks /\ ~(j = i /\ c = b))
             /\ \A c \in g_zone_list[j].blocks :
                  (j = i /\ c = b) \/ c \in g_zone_list'[j].blocks
    BY <2>6, ReplaceKeeps
  <2>8. Touches(u, p) /\ \A q : Touches(u, q) <=> Touches(b, q)
    BY <2>2, <2>5 DEF Touches
  <2>9. Remapped'
    <3>1. /\ i \in Live(b.phys) <=> b.kvirt
          /\ Live(b.phys)' = IF u.kvirt THEN Live(b.phys) \cup {i} ELSE Live(b.phys) \ {i}
          /\ \A q : q # b.phys => Live(q)' = Live(q)
      BY <2>6, ReplaceLive
    <3>2. /\ \A q \in Page : remaps[q] = Cardinality(Live(q))
          /\ remaps \in [Page -> Int]
      BY DEF ZoneInv, ZoneTypes, Remapped
    <3>3. IsFiniteSet(Live(b.phys))
      BY Finite DEF ZoneInv
    <3>4. remaps'[b.phys] = Cardinality(Live(b.phys)')
      <4>1. CASE b.map_kref = 1
        <5>1. i \in Live(b.phys) /\ Live(b.phys)' = Live(b.phys) \ {i}
          BY <2>4, <2>5, <3>1, <4>1
        <5>2. Cardinality(Live(b.phys)') = Cardinality(Live(b.phys)) - 1
          BY <3>3, <5>1, FS_RemoveElement
        <5>3. remaps'[b.phys] = remaps[b.phys] - 1
          BY <2>1, <2>4, <3>2, <4>1
        <5> QED BY <2>4, <3>2, <5>2, <5>3
      <4>2. CASE b.map_kref # 1
        <5>1. Live(b.phys)' = Live(b.phys)
          <6>1. u.kvirt <=> b.kvirt
            BY <2>4, <2>5, <4>2
          <6> QED BY <3>1, <6>1
        <5>2. remaps' = remaps
          BY <2>1, <4>2
        <5> QED BY <2>4, <3>2, <5>1, <5>2
      <4> QED BY <4>1, <4>2
    <3>5. ASSUME NEW q \in Page, q # b.phys PROVE remaps'[q] = Cardinality(Live(q)')
      <4>1. remaps'[q] = remaps[q]
        BY <2>1, <3>2, <3>5
      <4> QED BY <3>1, <3>2, <3>5, <4>1
    <3> QED BY <3>4, <3>5 DEF Remapped
  <2>10. Backed'
    <3> SUFFICES ASSUME ~aliased, NEW n \in Mapping, held'[n] # NoPage
                 PROVE  \E j \in DOMAIN g_zone_list' : \E c \in g_zone_list'[j].blocks :
                          Touches(c, held'[n])
      BY <1>1 DEF Backed, Touches
    <3>1. held'[n] = held[n]
      BY <1>2
    <3>2. PICK j \in DOMAIN g_zone_list : \E c \in g_zone_list[j].blocks : Touches(c, held[n])
      BY <3>1 DEF ZoneInv, Backed
    <3>3. PICK c \in g_zone_list[j].blocks : Touches(c, held[n])
      BY <3>2
    <3>4. CASE j = i /\ c = b
      BY <2>2, <2>7, <2>8, <3>1, <3>3, <3>4
    <3>5. CASE ~(j = i /\ c = b)
      <4>1. c \in g_zone_list'[j].blocks
        BY <2>7, <3>5
      <4> QED BY <2>7, <3>1, <3>3, <4>1
    <3> QED BY <3>4, <3>5
  <2>11. RefsCounted'
    <3> SUFFICES ASSUME ~aliased, NEW j \in DOMAIN g_zone_list',
                        NEW c \in g_zone_list'[j].blocks
                 PROVE  c.map_kref = Cardinality(Holders(c)')
      BY <1>1 DEF RefsCounted, Holders, Touches
    <3>1. CASE j = i /\ c = u
      <4>1. Holders(b) = Holders(u) /\ m \in Holders(b)
        BY <1>0, <1>1, <2>2, <2>8 DEF Holders
      <4>2. b.map_kref = Cardinality(Holders(b)) /\ IsFiniteSet(Holders(b))
        BY <2>2, Finite DEF ZoneInv, RefsCounted
      <4>3. Holders(u)' = Holders(b) \ {m}
        BY <1>3, <4>1
      <4>4. /\ Cardinality(Holders(b) \ {m}) = Cardinality(Holders(b)) - 1
            /\ Cardinality(Holders(b)) # 0
        BY <4>1, <4>2, FS_RemoveElement, FS_EmptySet
      <4> QED BY <2>5, <3>1, <4>2, <4>3, <4>4
    <3>2. CASE ~(j = i /\ c = u)
      <4>1. c \in g_zone_list[j].blocks /\ j \in DOMAIN g_zone_list
        BY <2>7, <3>2
      <4>2. ~Touches(c, p)
        <5>1. PlacedIn(g_zone_list') /\ ApartIn(g_zone_list')
          BY <1>1, <2>7 DEF AllPlaced, ZonesApart
        <5>2. i \in DOMAIN g_zone_list'
          BY <2>2, <2>7
        <5> QED BY <1>2, <2>7, <2>8, <3>2, <5>1, <5>2, OneBlock
      <4>3. Holders(c)' = Holders(c)
        BY <1>0, <1>3, <4>2 DEF Holders
      <4> QED BY <4>1, <4>3 DEF ZoneInv, RefsCounted
    <3> QED BY <3>1, <3>2
  <2>12. ZoneTypes'
    <3>1. remaps' \in [Page -> Int]
      <4>1. remaps \in [Page -> Int]
        BY DEF ZoneInv, ZoneTypes
      <4> QED BY <2>1, <2>4, <4>1
    <3> QED BY <1>1, <1>2, <2>7, <3>1 DEF ZoneInv, ZoneTypes
  <2>13. Quiet' /\ Anonymous'
    BY <1>1, <1>2 DEF Quiet, Anonymous
  <2> QED BY <2>7, <2>9, <2>10, <2>11, <2>12, <2>13 DEF ZoneInv
<1> QED BY <1>4, <1>5

\* hil_mmz_destroy takes a zone without blocks out of the list.
LEMMA DestroyKeeps ==
  ASSUME ZoneInv, NEW i \in DOMAIN g_zone_list, hil_mmz_destroy(i)
  PROVE  ZoneInv'
<1> DEFINE n == Len(g_zone_list)
           from == [j \in 1..(n - 1) |-> IF j < i THEN j ELSE j + 1]
           to == [j \in 1..n |-> IF j < i THEN j ELSE j - 1]
<1>1. /\ phase = "ready" /\ g_zone_list[i].blocks = {}
      /\ g_zone_list' = [j \in 1..(n - 1) |->
           IF j < i THEN g_zone_list[j] ELSE g_zone_list[j + 1]]
      /\ UNCHANGED <<phase, mmz, dt, remaps, held, aliased>>
  BY DEF hil_mmz_destroy
<1>2. /\ g_zone_list \in Seq(Zone) /\ n \in Nat /\ DOMAIN g_zone_list = 1..n
      /\ i \in 1..n
  BY DEF ZoneInv, ZoneTypes
<1> HIDE DEF n
<1>3. /\ \A j \in 1..(n - 1) : from[j] \in 1..n /\ from[j] # i /\ to[from[j]] = j
      /\ \A j \in 1..n : j # i => to[j] \in 1..(n - 1) /\ from[to[j]] = j
  BY <1>2
<1>4. g_zone_list' = [j \in 1..(n - 1) |-> g_zone_list[from[j]]]
  BY <1>1, <1>2
<1> HIDE DEF from, to
<1>5. g_zone_list' \in Seq(Zone) /\ DOMAIN g_zone_list' = 1..(n - 1)
  <2>1. n - 1 \in Nat
    BY <1>2
  <2>2. \A j \in 1..(n - 1) : g_zone_list[from[j]] \in Zone
    BY <1>2, <1>3
  <2>3. [j \in 1..(n - 1) |-> g_zone_list[from[j]]] \in [1..(n - 1) -> Zone]
    BY <2>2
  <2> QED BY <1>4, <2>1, <2>3
<1>6. \A j \in 1..(n - 1) : g_zone_list'[j] = g_zone_list[from[j]]
  BY <1>4
<1>7. AllPlaced'
  BY <1>2, <1>3, <1>5, <1>6 DEF ZoneInv, AllPlaced, PlacedIn
<1>8. ZonesApart'
  <2> SUFFICES ASSUME ~aliased, NEW j \in 1..(n - 1), NEW k \in 1..(n - 1), j # k
               PROVE  Separate(g_zone_list'[j].base, g_zone_list'[j].size,
                               g_zone_list'[k].base, g_zone_list'[k].size)
    BY <1>1, <1>5 DEF ZonesApart, ApartIn
  <2>1. from[j] # from[k] /\ from[j] \in 1..n /\ from[k] \in 1..n
    BY <1>3
  <2>2. Separate(g_zone_list[from[j]].base, g_zone_list[from[j]].size,
                 g_zone_list[from[k]].base, g_zone_list[from[k]].size)
    BY <1>2, <2>1 DEF ZoneInv, ZonesApart, ApartIn
  <2> QED BY <1>6, <2>2
<1>9. Backed'
  <2> SUFFICES ASSUME ~aliased, NEW m \in Mapping, held[m] # NoPage
               PROVE  \E j \in DOMAIN g_zone_list' : \E b \in g_zone_list'[j].blocks :
                        Touches(b, held[m])
    BY <1>1 DEF Backed, Touches
  <2>1. PICK k \in 1..n : \E b \in g_zone_list[k].blocks : Touches(b, held[m])
    BY <1>2 DEF ZoneInv, Backed
  <2>2. k # i
    BY <1>1, <2>1
  <2>3. to[k] \in 1..(n - 1) /\ g_zone_list'[to[k]] = g_zone_list[k]
    BY <1>3, <1>6, <2>2
  <2> QED BY <1>5, <2>1, <2>3
<1>10. RefsCounted'
  <2> SUFFICES ASSUME ~aliased, NEW j \in 1..(n - 1), NEW b \in g_zone_list'[j].blocks
               PROVE  b.map_kref = Cardinality(Holders(b))
    BY <1>1, <1>5 DEF RefsCounted, Holders, Touches
  <2>1. from[j] \in 1..n /\ b \in g_zone_list[from[j]].blocks
    BY <1>3, <1>6
  <2> QED BY <1>2, <2>1 DEF ZoneInv, RefsCounted
<1>11. Remapped'
  <2> SUFFICES ASSUME NEW p \in Page PROVE Cardinality(Live(p)') = Cardinality(Live(p))
    BY <1>1 DEF Remapped, ZoneInv
  <2>1. /\ \A j : j \in Live(p)' <=>
             j \in 1..(n - 1) /\ \E b \in g_zone_list[from[j]].blocks : b.kvirt /\ b.phys = p
        /\ \A j : j \in Live(p) <=>
             j \in 1..n /\ \E b \in g_zone_list[j].blocks : b.kvirt /\ b.phys = p
    BY <1>2, <1>5, <1>6 DEF Live
  <2> DEFINE f == [j \in Live(p) |-> to[j]]
             T == Live(p)'
  <2>2. \A j \in Live(p) : j \in 1..n /\ j # i
    BY <1>1, <2>1
  <2>3. \A j \in Live(p) : to[j] \in T /\ from[to[j]] = j
    BY <1>3, <2>1, <2>2
  <2>4. \A k \in T : from[k] \in Live(p) /\ to[from[k]] = k
    BY <1>3, <2>1
  <2> HIDE DEF T
  <2>5. f \in Bijection(Live(p), T)
    <3>1. f \in [Live(p) -> T]
      BY <2>3
    <3>2. \A x, y \in Live(p) : f[x] = f[y] => x = y
      BY <2>3
    <3>3. \A y \in T : \E x \in Live(p) : f[x] = y
      BY <2>4
    <3> QED BY <3>1, <3>2, <3>3 DEF Bijection, Injection, Surjection, IsInjective
  <2>6. ExistsBijection(Live(p), T) /\ IsFiniteSet(Live(p))
    BY <2>5, Finite DEF ExistsBijection, ZoneInv
  <2>7. Cardinality(T) = Cardinality(Live(p))
    BY <2>6, FS_Bijection
  <2> QED BY <2>7 DEF T
<1>12. ZoneTypes'
  BY <1>1, <1>5 DEF ZoneInv, ZoneTypes
<1>13. Quiet' /\ Anonymous'
  BY <1>1 DEF Quiet, Anonymous
<1> QED BY <1>7, <1>8, <1>9, <1>10, <1>11, <1>12, <1>13 DEF ZoneInv

\* Teardown takes the blocks with their mappings.
LEMMA TeardownKeeps ==
  ASSUME ZoneInv, Teardown, phase' = "gone", \A m \in Mapping : held[m] = NoPage,
         UNCHANGED <<mmz, dt, held, aliased>>
  PROVE  ZoneInv'
<1>1. /\ g_zone_list' = <<>>
      /\ remaps' = [p \in Page |-> remaps[p] - Cardinality(Live(p))]
  BY DEF Teardown
<1>2. g_zone_list' \in Seq(Zone) /\ DOMAIN g_zone_list' = {}
  BY <1>1
<1>3. \A p \in Page : /\ remaps[p] \in Int /\ remaps[p] = Cardinality(Live(p))
                     /\ remaps'[p] = remaps[p] - Cardinality(Live(p))
  BY <1>1 DEF ZoneInv, ZoneTypes, Remapped
<1>4. \A p \in Page : remaps'[p] = 0
  BY <1>3
<1>5. remaps' \in [Page -> Int]
  BY <1>1, <1>4
<1>6. \A p : Live(p)' = {}
  BY <1>2 DEF Live
<1>7. Remapped'
  BY <1>4, <1>6, FS_EmptySet DEF Remapped
<1>8. AllPlaced' /\ ZonesApart' /\ RefsCounted' /\ Quiet' /\ Anonymous' /\ Backed'
  BY <1>2 DEF AllPlaced, PlacedIn, ZonesApart, ApartIn, RefsCounted, Quiet, Anonymous, Backed
<1>9. ZoneTypes'
  BY <1>2, <1>5 DEF ZoneInv, ZoneTypes
<1> QED BY <1>7, <1>8, <1>9 DEF ZoneInv

\* hil_mmz_create puts an empty zone last, and tells whether it covers another.
LEMMA CreateKeeps ==
  ASSUME ZoneInv, phase \in {"parse", "anon"}, phase' \in {"parse", "register"},
         NEW name \in ZoneName, NEW start, NEW size,
         start \in Nat, size \in Nat, start..(start + size - 1) \subseteq Page,
         hil_mmz_create(name, start, size), UNCHANGED <<dt, remaps, held>>,
         mmz' \in Seq(Tuple),
         phase' = "register" => size # 0 /\ name = "anonymous"
  PROVE  ZoneInv'
<1> DEFINE n == Len(g_zone_list)
           z == [name |-> name, base |-> start, size |-> size, blocks |-> {}]
<1>1. /\ g_zone_list' = IF size = 0 THEN g_zone_list ELSE Append(g_zone_list, z)
      /\ aliased' = (aliased \/ \E i \in DOMAIN g_zone_list :
                       /\ g_zone_list[i].base < start + size
                       /\ start < g_zone_list[i].base + g_zone_list[i].size)
  BY DEF hil_mmz_create
<1>2. /\ g_zone_list \in Seq(Zone) /\ n \in Nat /\ DOMAIN g_zone_list = 1..n
      /\ \A i \in 1..n : g_zone_list[i].blocks = {} /\ g_zone_list[i] \in Zone
      /\ \A m \in Mapping : held[m] = NoPage
  BY DEF ZoneInv, ZoneTypes, Quiet
<1>3. CASE size = 0
  <2>1. g_zone_list' = g_zone_list /\ phase' = "parse"
    BY <1>1, <1>3
  <2>2. aliased' \in BOOLEAN /\ (~aliased' => ~aliased)
    <3>1. ~aliased' => ~aliased
      BY <1>1, Zenon
    <3>2. aliased' \in BOOLEAN
      BY <1>1, Zenon
    <3> QED BY <3>1, <3>2
  <2>3. ZoneTypes'
    BY <2>1, <2>2 DEF ZoneInv, ZoneTypes
  <2>4. AllPlaced' /\ ZonesApart' /\ Quiet' /\ Backed' /\ Anonymous'
    BY <1>2, <2>1, <2>2
    DEF ZoneInv, AllPlaced, ZonesApart, Quiet, Backed, Anonymous
  <2>5. RefsCounted'
    BY <1>2, <2>1 DEF RefsCounted
  <2>6. Remapped'
    BY <2>1 DEF ZoneInv, Remapped, Live
  <2> QED BY <2>3, <2>4, <2>5, <2>6 DEF ZoneInv
<1>4. CASE size # 0
  <2>1. /\ z \in Zone /\ z.name = name /\ z.base = start /\ z.size = size
        /\ z.blocks = {}
    BY <1>4 DEF Zone
  <2> HIDE DEF z
  <2>2. /\ g_zone_list' \in Seq(Zone) /\ DOMAIN g_zone_list' = 1..(n + 1)
        /\ \A i \in 1..n : g_zone_list'[i] = g_zone_list[i]
        /\ g_zone_list'[n + 1] = z
    BY <1>1, <1>2, <1>4, <2>1, AppendProperties
  <2> HIDE DEF n
  <2>3. \A i \in 1..(n + 1) : i \in 1..n \/ i = n + 1
    BY <1>2
  <2>4. \A i \in 1..(n + 1) : g_zone_list'[i].blocks = {}
    BY <1>2, <2>1, <2>2, <2>3
  <2>5. AllPlaced'
    <3>1. Placed(z)
      BY <2>1 DEF Placed
    <3> QED BY <1>2, <2>2, <2>3, <3>1 DEF ZoneInv, AllPlaced, PlacedIn
  <2>6. ZonesApart'
    <3> SUFFICES ASSUME ~aliased', NEW i \in 1..(n + 1), NEW j \in 1..(n + 1), i # j
                 PROVE  Separate(g_zone_list'[i].base, g_zone_list'[i].size,
                                 g_zone_list'[j].base, g_zone_list'[j].size)
      BY <2>2 DEF ZonesApart, ApartIn
    <3>1. ~aliased
      BY <1>1, Zenon
    <3>2. \A k \in 1..n : /\ Separate(g_zone_list[k].base, g_zone_list[k].size, start, size)
                         /\ Separate(start, size, g_zone_list[k].base, g_zone_list[k].size)
      <4> SUFFICES ASSUME NEW k \in 1..n
                   PROVE  /\ Separate(g_zone_list[k].base, g_zone_list[k].size, start, size)
                          /\ Separate(start, size, g_zone_list[k].base, g_zone_list[k].size)
        OBVIOUS
      <4>1. ~(g_zone_list[k].base < start + size
              /\ start < g_zone_list[k].base + g_zone_list[k].size)
        BY <1>1, <1>2
      <4>2. g_zone_list[k].base \in Nat /\ g_zone_list[k].size \in Nat
        BY <1>2 DEF Zone
      <4> QED BY <4>1, <4>2 DEF Separate
    <3>3. \A k, l \in 1..n : k = l \/ Separate(g_zone_list[k].base, g_zone_list[k].size,
                                              g_zone_list[l].base, g_zone_list[l].size)
      BY <1>2, <3>1 DEF ZoneInv, ZonesApart, ApartIn
    <3>4. CASE i \in 1..n /\ j \in 1..n
      BY <2>2, <3>3, <3>4
    <3>5. CASE i \in 1..n /\ j = n + 1
      BY <2>1, <2>2, <3>2, <3>5
    <3>6. CASE i = n + 1 /\ j \in 1..n
      BY <2>1, <2>2, <3>2, <3>6
    <3> QED BY <2>3, <3>4, <3>5, <3>6
  <2>7. Quiet' /\ Backed' /\ RefsCounted'
    BY <1>2, <2>2, <2>4 DEF Quiet, Backed, RefsCounted
  <2>8. Remapped'
    <3>1. \A p : Live(p)' = {} /\ Live(p) = {}
      BY <1>2, <2>2, <2>4 DEF Live
    <3> QED BY <3>1 DEF ZoneInv, Remapped
  <2>9. Anonymous'
    <3>1. name = "anonymous" => n + 1 \in Named("anonymous")'
      BY <1>2, <2>1, <2>2 DEF Named
    <3> QED BY <3>1 DEF Anonymous
  <2>10. ZoneTypes'
    <3>1. aliased' \in BOOLEAN
      BY <1>1, Zenon
    <3> QED BY <2>2, <3>1 DEF ZoneInv, ZoneTypes
  <2> QED BY <2>5, <2>6, <2>7, <2>8, <2>9, <2>10 DEF ZoneInv
<1> QED BY <1>3, <1>4

\* Before the parameter is parsed there is no zone.
LEMMA ZoneInitInv == ZInit => ZoneInv
<1> SUFFICES ASSUME ZInit PROVE ZoneInv
  OBVIOUS
<1>1. /\ phase = "parse" /\ mmz \in Params /\ dt \in DtNodes /\ g_zone_list = <<>>
      /\ remaps = [p \in Page |-> 0] /\ held = [m \in Mapping |-> NoPage]
      /\ aliased = FALSE
  BY DEF ZInit
<1>2. g_zone_list \in Seq(Zone) /\ DOMAIN g_zone_list = {}
  BY <1>1
<1>3. mmz \in Seq(Tuple)
  BY <1>1, ZoneAssumption
<1>4. ZoneTypes
  <2>1. remaps \in [Page -> Int]
    BY <1>1
  <2>2. held \in [Mapping -> Page \cup {NoPage}]
    BY <1>1
  <2> QED BY <1>1, <1>2, <1>3, <2>1, <2>2 DEF ZoneTypes
<1>5. Remapped
  <2>1. \A p : Live(p) = {}
    BY <1>2 DEF Live
  <2> QED BY <1>1, <2>1, FS_EmptySet DEF Remapped
<1>6. AllPlaced /\ ZonesApart /\ Quiet /\ Backed /\ RefsCounted /\ Anonymous
  BY <1>1, <1>2 DEF AllPlaced, PlacedIn, ZonesApart, ApartIn, Quiet, Backed, RefsCounted, Anonymous
<1> QED BY <1>4, <1>5, <1>6 DEF ZoneInv

\* The invariant does not depend on what UNCHANGED zoneVars leaves.
LEMMA ZoneStutter ==
  ASSUME ZoneInv, UNCHANGED zoneVars
  PROVE  ZoneInv'
BY DEF zoneVars, ZoneInv, ZoneTypes, AllPlaced, PlacedIn, Placed, ZonesApart, ApartIn, Quiet,
       Backed, RefsCounted, Holders, Touches, Remapped, Live, Anonymous, Named

\* A step of the phase alone, which does not come from "ready" or lead to "register"
\* without an anonymous zone
LEMMA PhaseKeeps ==
  ASSUME ZoneInv, phase # "ready", phase' \in {"anon", "register", "ready"},
         phase' = "register" => Named("anonymous") # {},
         UNCHANGED <<mmz, dt, g_zone_list, remaps, held, aliased>>
  PROVE  ZoneInv'
<1>1. ZoneTypes'
  BY DEF ZoneInv, ZoneTypes
<1>2. AllPlaced' /\ ZonesApart' /\ Backed'
  BY DEF ZoneInv, AllPlaced, ZonesApart, Backed
<1>3. RefsCounted' /\ Remapped'
  BY DEF ZoneInv, RefsCounted, Holders, Remapped, Live
<1>4. Quiet' /\ Anonymous'
  BY DEF ZoneInv, Quiet, Anonymous, Named
<1> QED BY <1>1, <1>2, <1>3, <1>4 DEF ZoneInv

\* Every step keeps the invariant.
LEMMA ZoneStep ==
  ASSUME ZoneInv, [ZNext]_zoneVars
  PROVE  ZoneInv'
<1>1. CASE ParseTuple
  <2> DEFINE t == Head(mmz)
  <2>1. /\ phase = "parse" /\ phase' = "parse" /\ mmz # <<>> /\ mmz' = Tail(mmz)
        /\ hil_mmz_create(t.name, t.start, t.size)
        /\ UNCHANGED <<dt, remaps, held>>
    BY <1>1 DEF ParseTuple
  <2>2. mmz \in Seq(Tuple)
    BY DEF ZoneInv, ZoneTypes
  <2>3. t \in Tuple /\ mmz' \in Seq(Tuple)
    BY <2>1, <2>2, HeadTailProperties
  <2> HIDE DEF t
  <2>4. t.name \in ZoneName
    BY <2>3 DEF ZoneName
  <2>5. t.start \in Nat /\ t.size \in Nat /\ t.start..(t.start + t.size - 1) \subseteq Page
    BY <2>3, ZonesOfPages
  <2> QED BY <2>1, <2>3, <2>4, <2>5, CreateKeeps
<1>2. CASE Parsed
  BY <1>2, PhaseKeeps DEF Parsed
<1>3. CASE AnonZone
  <2>1. phase = "anon" /\ phase' = "register" /\ UNCHANGED <<mmz, dt, remaps, held>>
    BY <1>3 DEF AnonZone
  <2>2. mmz' \in Seq(Tuple) /\ dt \in DtNodes /\ "anonymous" \in ZoneName
    BY <2>1 DEF ZoneInv, ZoneTypes, ZoneName
  <2>3. CASE Named("anonymous") # {}
    BY <1>3, <2>1, <2>3, PhaseKeeps DEF AnonZone
  <2>4. ASSUME NEW z \in DtNodes \cup {Default}, z.size # 0,
               hil_mmz_create("anonymous", z.start, z.size)
        PROVE  ZoneInv'
    <3>1. z.start \in Nat /\ z.size \in Nat /\ z.start..(z.start + z.size - 1) \subseteq Page
      BY <2>4, ZonesOfPages
    <3> QED BY <2>1, <2>2, <2>4, <3>1, CreateKeeps
  <2>5. CASE Named("anonymous") = {}
    <3>1. CASE dt.size # 0 /\ hil_mmz_create("anonymous", dt.start, dt.size)
      BY <2>2, <2>4, <3>1
    <3>2. CASE hil_mmz_create("anonymous", Default.start, Default.size)
      BY <2>4, <3>2, ZoneAssumption
    <3> QED BY <1>3, <2>5, <3>1, <3>2 DEF AnonZone
  <2> QED BY <2>3, <2>5
<1>4. CASE MiscRegister
  <2>1. phase = "register" /\ UNCHANGED <<mmz, dt, held, aliased>>
    BY <1>4 DEF MiscRegister
  <2>2. CASE phase' = "ready" /\ UNCHANGED <<g_zone_list, remaps>>
    BY <2>1, <2>2, PhaseKeeps
  <2>3. CASE phase' = "gone" /\ Teardown
    <3>1. \A m \in Mapping : held[m] = NoPage
      BY <2>1 DEF ZoneInv, Quiet
    <3> QED BY <2>1, <2>3, <3>1, TeardownKeeps
  <2> QED BY <1>4, <2>2, <2>3 DEF MiscRegister
<1>5. CASE ar_osal_exit
  BY <1>5, TeardownKeeps DEF ar_osal_exit
<1>6. ASSUME NEW n \in ZoneNames, NEW s \in BlockSizes, hil_mmb_alloc(n, s)
      PROVE  ZoneInv'
  BY <1>6, AllocKeeps
<1>7. ASSUME NEW p \in Page, MmbFreeIoctl(p)
      PROVE  ZoneInv'
  BY <1>7, FreeKeeps
<1>8. ASSUME NEW m \in Mapping, hil_mmf_unmap(m)
      PROVE  ZoneInv'
  BY <1>8, UnmapKeeps
<1>9. ASSUME NEW m \in Mapping, NEW p \in Page, hil_mmf_map2kern(m, p)
      PROVE  ZoneInv'
  BY <1>9, MapKeeps
<1>10. ASSUME NEW i \in DOMAIN g_zone_list, hil_mmz_destroy(i)
       PROVE  ZoneInv'
  BY <1>10, DestroyKeeps
<1>11. CASE UNCHANGED zoneVars
  BY <1>11, ZoneStutter
<1> QED BY <1>1, <1>2, <1>3, <1>4, <1>5, <1>6, <1>7, <1>8, <1>9, <1>10, <1>11 DEF ZNext

\* The blocks of a zone, laid into its pages, take no more of them than it has.
LEMMA UsedFits ==
  ASSUME NEW z \in Zone, Placed(z)
  PROVE  media_mem_show(z) >= 0
<1> DEFINE used == UNION {{b} \X (0..(b.size - 1)) : b \in z.blocks}
           room == 1..z.size
           f == [u \in used |-> u[1].phys - z.base + u[2] + 1]
<1>1. z.base \in Nat /\ z.size \in Nat
  BY DEF Zone
<1>2. \A u \in used : u[1] \in z.blocks /\ u[2] \in 0..(u[1].size - 1) /\ u = <<u[1], u[2]>>
  OBVIOUS
<1> HIDE DEF used
<1>3. ASSUME NEW u \in used
      PROVE  /\ u[1].phys \in Nat /\ u[1].size \in Nat /\ u[2] \in Nat
             /\ Touches(u[1], u[1].phys + u[2])
             /\ u[1].phys - z.base + u[2] + 1 \in room
  <2>1. u[1] \in z.blocks /\ u[2] \in 0..(u[1].size - 1)
    BY <1>2
  <2> DEFINE at == u[1].phys
             size == u[1].size
             k == u[2]
  <2>2. at \in Nat /\ size \in Nat /\ z.base =< at /\ at + size =< z.base + z.size
    BY <2>1, BlockTypes
  <2>3. k \in 0..(size - 1)
    BY <2>1
  <2>4. Touches(u[1], u[1].phys + u[2]) <=> at =< at + k /\ at + k < at + size
    BY DEF Touches
  <2> HIDE DEF at, size, k
  <2>5. k \in Nat /\ at =< at + k /\ at + k < at + size /\ at - z.base + k + 1 \in 1..z.size
    BY <1>1, <2>2, <2>3
  <2> QED BY <2>2, <2>4, <2>5 DEF at, size, k
<1>4. f \in Injection(used, room)
  <2>1. f \in [used -> room]
    BY <1>3
  <2>2. ASSUME NEW u \in used, NEW v \in used, f[u] = f[v] PROVE u = v
    <3>1. u[1].phys - z.base + u[2] + 1 = v[1].phys - z.base + v[2] + 1
      BY <2>2
    <3> DEFINE p == u[1].phys
               q == v[1].phys
               k == u[2]
               l == v[2]
    <3>2. p \in Nat /\ q \in Nat /\ k \in Nat /\ l \in Nat
      BY <1>3
    <3>3. p - z.base + k + 1 = q - z.base + l + 1
      BY <3>1
    <3>7. Touches(u[1], p + k) /\ Touches(v[1], q + l)
      BY <1>3
    <3> HIDE DEF p, q, k, l
    <3>4. p + k = q + l /\ p + k \in Int
      BY <1>1, <3>2, <3>3
    <3>5. u[1] = v[1]
      BY <1>2, <3>4, <3>7, OneInZone
    <3>6. k = l
      BY <3>2, <3>4, <3>5 DEF p, q
    <3> QED BY <1>2, <3>5, <3>6 DEF k, l
  <2> QED BY <2>1, <2>2 DEF Injection, IsInjective
<1>5. IsFiniteSet(room) /\ Cardinality(room) = z.size
  <2>1. ASSUME NEW n \in Nat PROVE IsFiniteSet(1..n) /\ Cardinality(1..n) = n
    BY FS_Interval
  <2> QED BY <1>1, <2>1
<1>6. IsFiniteSet(used) /\ Cardinality(used) =< Cardinality(room)
  BY <1>4, <1>5, FS_Injection
<1>7. Cardinality(used) \in Nat
  BY <1>6, FS_CardinalityType
<1>8. media_mem_show(z) = z.size - Cardinality(used)
  BY DEF media_mem_show, used
<1> QED BY <1>1, <1>5, <1>6, <1>7, <1>8

\* What the invariant says of the mappings
LEMMA ZoneInvBalances == ZoneInv => MapsBalanced
<1> SUFFICES ASSUME ZoneInv PROVE MapsBalanced
  OBVIOUS
<1>1. ASSUME ~aliased, NEW m \in Mapping, held[m] # NoPage
      PROVE  \E b \in AllBlocks : Touches(b, held[m]) /\ b.kvirt
  <2>1. PICK i \in DOMAIN g_zone_list : \E b \in g_zone_list[i].blocks : Touches(b, held[m])
    BY <1>1 DEF ZoneInv, Backed
  <2>2. PICK b \in g_zone_list[i].blocks : Touches(b, held[m])
    BY <2>1
  <2>3. b.map_kref = Cardinality(Holders(b)) /\ m \in Holders(b)
    BY <1>1, <2>2 DEF ZoneInv, RefsCounted, Holders
  <2>4. IsFiniteSet(Holders(b)) /\ Cardinality(Holders(b)) \in Nat
    BY Finite DEF ZoneInv
  <2>5. Cardinality(Holders(b)) # 0
    BY <2>3, <2>4, FS_EmptySet
  <2>6. b.kvirt <=> b.map_kref > 0
    BY DEF ZoneInv, AllPlaced, PlacedIn, Placed
  <2>7. b.map_kref > 0
    BY <2>3, <2>4, <2>5
  <2> QED BY <2>2, <2>6, <2>7 DEF AllBlocks
<1>2. ~aliased => \A b \in AllBlocks : b.map_kref = Cardinality(Holders(b))
  BY DEF ZoneInv, RefsCounted, AllBlocks
<1>3. phase = "register" => zone_find_by_name("") # 0
  <2> SUFFICES ASSUME phase = "register" PROVE zone_find_by_name("") # 0
    OBVIOUS
  <2>1. Named("anonymous") # {} /\ Named("anonymous") \subseteq DOMAIN g_zone_list
    BY DEF ZoneInv, Anonymous, Named
  <2>2. zone_find_by_name("") = Min(Named("anonymous"))
    BY <2>1 DEF zone_find_by_name
  <2>3. DOMAIN g_zone_list \subseteq Nat /\ 0 \notin DOMAIN g_zone_list
    BY DEF ZoneInv, ZoneTypes
  <2>4. Min(Named("anonymous")) \in Named("anonymous")
    BY <2>1, <2>3, LeastIsOne
  <2> QED BY <2>1, <2>2, <2>3, <2>4
<1>4. \A i \in DOMAIN g_zone_list : media_mem_show(g_zone_list[i]) >= 0
  BY UsedFits DEF ZoneInv, ZoneTypes, AllPlaced, PlacedIn
<1> QED BY <1>1, <1>2, <1>3, <1>4 DEF MapsBalanced, ZoneInv, Remapped

\* For every parameter, device tree and number of mappings: while no two zones were
\* made of the same pages, a block that another module has mapped stays, mapped once
\* and counted for each holder; no mapping outlives its block or the module; the
\* module comes up with an anonymous zone; and no zone has more used than it has
\* (hil_mmf_map2kern_cache, hil_mmf_unmap, handle_m 12, ar_osal_teardown).
THEOREM MapsAreBalanced == ZoneSpec => []MapsBalanced
<1>1. ZInit => ZoneInv
  BY ZoneInitInv
<1>2. ZoneInv /\ [ZNext]_zoneVars => ZoneInv'
  BY ZoneStep
<1>3. ZoneInv => MapsBalanced
  BY ZoneInvBalances
<1> QED BY <1>1, <1>2, <1>3, PTL DEF ZoneSpec

-----------------------------------------------------------------------------
(***************************************************************************)
(* The services of the media daemon: messages first.                       *)
(***************************************************************************)
UmTypes ==
  /\ devs \in Seq(Entry)
  /\ dev \in [Entry -> [state : {"none", "live", "freed"}, msg : Nat,
                        msg_pending : BOOLEAN, shown : Nat]]
  /\ ioctl \in [Caller -> [at : {"idle", "found", "out", "push"},
                           d : Entry \cup {0}, out : Nat]]
  /\ known \subseteq Entry /\ writes \in Nat
  /\ newest \in [Entry -> Nat] /\ seen \in [Entry -> Nat]
  /\ spoiled \subseteq Entry /\ again \in BOOLEAN

\* The list has the live entries, each once.
Listed ==
  /\ Once(devs)
  /\ \A d \in Entry : In(d, devs) => dev[d].state = "live"

\* An ioctl is inside a live entry; what the listener found is still pending.
InsideLive ==
  \A t \in Caller :
    /\ At(t, "idle") => ioctl[t].d = 0
    /\ ~At(t, "idle") => ioctl[t].d \in Entry /\ dev[ioctl[t].d].state = "live"
    /\ At(t, "found") \/ At(t, "out") => t \in Listener
    /\ At(t, "found") => dev[ioctl[t].d].msg_pending

\* A message is the newest write, or blank; a pending one is newer than what the
\* daemon received, and one that was blanked while it was pending is written down.
Numbered ==
  \A d \in Entry :
    /\ seen[d] =< newest[d] /\ newest[d] =< writes
    /\ dev[d].msg \in {0, newest[d]}
    /\ dev[d].msg_pending =>
         IF dev[d].msg = 0 THEN d \in spoiled ELSE seen[d] < newest[d]

\* What the listener has taken out is newer than what was received, and older
\* than what is pending since.
TakenOut ==
  \A t \in Caller : At(t, "out") =>
    LET d == ioctl[t].d
        out == ioctl[t].out
    IN /\ out # 0 => seen[d] < out /\ out =< newest[d]
       /\ dev[d].msg_pending /\ dev[d].msg # 0 => out < newest[d]

\* The newest write is received, pending, or taken out.
Reported(d) ==
  \/ newest[d] = seen[d]
  \/ dev[d].msg_pending /\ dev[d].msg = newest[d]
  \/ \E t \in Caller : At(t, "out") /\ ioctl[t].d = d /\ ioctl[t].out = newest[d]
AllReported == \A d \in Entry : d \notin spoiled => Reported(d)

UmInv ==
  /\ UmTypes /\ Listed /\ InsideLive /\ Numbered /\ TakenOut /\ AllReported /\ ~again

-----------------------------------------------------------------------------

\* There is no entry, no message and no ioctl at the start.
LEMMA UmStarts == UmInit => UmInv
<1> SUFFICES ASSUME UmInit PROVE UmInv
  OBVIOUS
<1>1. UmTypes
  <2>1. dev \in [Entry -> [state : {"none", "live", "freed"}, msg : Nat,
                          msg_pending : BOOLEAN, shown : Nat]]
    BY DEF UmInit, Fresh
  <2>2. ioctl \in [Caller -> [at : {"idle", "found", "out", "push"},
                             d : Entry \cup {0}, out : Nat]]
    BY DEF UmInit, NoIoctl
  <2>3. devs \in Seq(Entry) /\ newest \in [Entry -> Nat] /\ seen \in [Entry -> Nat]
    BY DEF UmInit
  <2>4. known \subseteq Entry /\ writes \in Nat /\ spoiled \subseteq Entry /\ again \in BOOLEAN
    BY DEF UmInit
  <2> QED BY <2>1, <2>2, <2>3, <2>4 DEF UmTypes
<1>2. Listed
  BY DEF UmInit, Listed, Once, In
<1>3. InsideLive /\ TakenOut
  BY DEF UmInit, InsideLive, TakenOut, At, NoIoctl
<1>4. Numbered /\ AllReported /\ ~again
  BY DEF UmInit, Numbered, AllReported, Reported, Fresh
<1> QED BY <1>1, <1>2, <1>3, <1>4 DEF UmInv

\* The invariant of the messages is about the variables of UmapShuttle only.
LEMMA UmStutter == ASSUME UmInv, UNCHANGED umapVars PROVE UmInv'
BY DEF umapVars, UmInv, UmTypes, Listed, InsideLive, Numbered, TakenOut, AllReported, Reported, At

\* The steps that change the entries only in their state or text
LEMMA CreateKeepsUmap ==
  ASSUME UmInv, NEW t \in Caller, NEW d \in Entry, Create(t, d)
  PROVE  UmInv'
<1>1. /\ At(t, "idle") /\ dev[d].state = "none"
      /\ dev' = [dev EXCEPT ![d].state = "live"]
      /\ devs' = Append(devs, d) /\ known' \in {known, known \cup {d}}
      /\ UNCHANGED <<ioctl, writes, newest, seen, spoiled, again>>
  BY DEF Create
<1>2. UmTypes'
  <2>1. dev' \in [Entry -> [state : {"none", "live", "freed"}, msg : Nat,
                           msg_pending : BOOLEAN, shown : Nat]]
    BY <1>1 DEF UmInv, UmTypes
  <2>2. devs' \in Seq(Entry) /\ known' \subseteq Entry
    BY <1>1 DEF UmInv, UmTypes
  <2> QED BY <1>1, <2>1, <2>2 DEF UmInv, UmTypes
<1>3. \A e \in Entry : /\ dev'[e].msg = dev[e].msg /\ dev'[e].msg_pending = dev[e].msg_pending
                      /\ dev'[e].state = IF e = d THEN "live" ELSE dev[e].state
  BY <1>1 DEF UmInv, UmTypes
<1>4. Listed'
  <2>1. devs \in Seq(Entry) /\ Once(devs) /\ ~In(d, devs)
    BY <1>1 DEF UmInv, UmTypes, Listed
  <2>2. Once(devs') /\ \A e : In(e, devs') <=> In(e, devs) \/ e = d
    BY <1>1, <2>1, AppendFacts
  <2> QED BY <1>3, <2>2 DEF UmInv, Listed
<1>5. InsideLive'
  BY <1>1, <1>3 DEF UmInv, InsideLive, At
<1>6. Numbered' /\ AllReported' /\ ~again'
  BY <1>1, <1>3 DEF UmInv, Numbered, AllReported, Reported, At
<1>7. TakenOut'
  BY <1>1, <1>3 DEF UmInv, InsideLive, TakenOut, At
<1> QED BY <1>2, <1>4, <1>5, <1>6, <1>7 DEF UmInv

\* CLOSE takes an entry off the list that no ioctl is inside.
LEMMA CloseKeepsUmap ==
  ASSUME UmInv, ~CloseInFlight, NEW t \in Caller, NEW d \in Entry, Close(t, d)
  PROVE  UmInv'
<1>1. /\ Users(d) = {}
      /\ dev' = [dev EXCEPT ![d].state = "freed"] /\ devs' = RemoveFirst(devs, d)
      /\ UNCHANGED <<ioctl, known, writes, newest, seen, spoiled, again>>
  BY DEF Close
<1>2. /\ devs' \in Seq(Entry) /\ Once(devs')
      /\ \A e : In(e, devs') <=> In(e, devs) /\ e # d
  BY <1>1, RemoveFirstFacts DEF UmInv, UmTypes, Listed
<1>3. \A e \in Entry : /\ dev'[e].msg = dev[e].msg /\ dev'[e].msg_pending = dev[e].msg_pending
                      /\ dev'[e].state = IF e = d THEN "freed" ELSE dev[e].state
  BY <1>1 DEF UmInv, UmTypes
<1>4. UmTypes'
  <2>1. dev' \in [Entry -> [state : {"none", "live", "freed"}, msg : Nat,
                           msg_pending : BOOLEAN, shown : Nat]]
    BY <1>1 DEF UmInv, UmTypes
  <2> QED BY <1>1, <1>2, <2>1 DEF UmInv, UmTypes
<1>5. Listed'
  BY <1>2, <1>3 DEF UmInv, Listed
<1>6. InsideLive'
  <2>1. \A u \in Caller : ioctl[u].d # d
    BY <1>1 DEF Users
  <2> QED BY <1>1, <1>3, <2>1 DEF UmInv, InsideLive, At
<1>7. Numbered' /\ AllReported' /\ ~again'
  BY <1>1, <1>3 DEF UmInv, Numbered, AllReported, Reported, At
<1>8. TakenOut'
  BY <1>1, <1>3 DEF UmInv, InsideLive, TakenOut, At
<1> QED BY <1>4, <1>5, <1>6, <1>7, <1>8 DEF UmInv

\* A write that is taken is newer than all; one that fails blanks the message.
LEMMA WriteKeepsUmap ==
  ASSUME UmInv, NEW d \in Entry, Write(d)
  PROVE  UmInv'
<1> DEFINE n == writes + 1
<1>1. /\ dev[d].state = "live" /\ writes' = n
      /\ UNCHANGED <<devs, ioctl, known, seen, again>>
  BY DEF Write
<1>2. /\ n \in Nat /\ n # 0 /\ \A e \in Entry : /\ newest[e] \in Nat /\ seen[e] \in Nat
                                               /\ dev[e].msg \in Nat
                                               /\ newest[e] < n /\ newest[e] =< n
                                               /\ seen[e] =< newest[e]
  BY DEF UmInv, UmTypes, Numbered
<1> HIDE DEF n
<1>3. CASE /\ dev' = [dev EXCEPT ![d].msg = n, ![d].msg_pending = TRUE]
           /\ newest' = [newest EXCEPT ![d] = n] /\ spoiled' = spoiled \ {d}
  <2> DEFINE r == [dev[d] EXCEPT !.msg = n, !.msg_pending = TRUE]
             Rec == [state : {"none", "live", "freed"}, msg : Nat,
                     msg_pending : BOOLEAN, shown : Nat]
  <2>7. dev \in [Entry -> Rec] /\ dev[d] \in Rec /\ newest \in [Entry -> Nat]
    BY DEF UmInv, UmTypes
  <2>8. r \in Rec /\ r.state = dev[d].state /\ r.msg = n /\ r.msg_pending = TRUE
    BY <1>2, <2>7
  <2>9. dev' = [dev EXCEPT ![d] = r]
    BY <1>3, <2>7
  <2> HIDE DEF r
  <2>10. \A e \in Entry : dev'[e] = IF e = d THEN r ELSE dev[e]
    BY <2>7, <2>9
  <2>11. \A e \in Entry : newest'[e] = IF e = d THEN n ELSE newest[e]
    BY <1>3, <2>7
  <2>12. \A e \in Entry : newest[e] =< newest'[e]
    BY <1>2, <2>11
  <2>1. \A e \in Entry :
          /\ dev'[e].state = dev[e].state
          /\ dev'[e].msg = IF e = d THEN n ELSE dev[e].msg
          /\ dev'[e].msg_pending = IF e = d THEN TRUE ELSE dev[e].msg_pending
          /\ newest'[e] = IF e = d THEN n ELSE newest[e]
          /\ newest[e] =< newest'[e]
    BY <2>8, <2>10, <2>11, <2>12
  <2>2. UmTypes'
    <3>1. dev' \in [Entry -> Rec]
      BY <2>7, <2>8, <2>9
    <3>2. newest' \in [Entry -> Nat]
      BY <1>2, <1>3 DEF UmInv, UmTypes
    <3> QED BY <1>1, <1>2, <1>3, <3>1, <3>2 DEF UmInv, UmTypes
  <2>3. Listed' /\ InsideLive'
    BY <1>1, <2>1 DEF UmInv, Listed, InsideLive, At
  <2>4. Numbered'
    <3> SUFFICES ASSUME NEW e \in Entry
                 PROVE  /\ seen[e] =< newest'[e] /\ newest'[e] =< n
                        /\ dev'[e].msg \in {0, newest'[e]}
                        /\ dev'[e].msg_pending =>
                             IF dev'[e].msg = 0 THEN e \in spoiled' ELSE seen[e] < newest'[e]
      BY <1>1 DEF Numbered
    <3>1. CASE e = d
      <4>1. newest'[e] = n /\ dev'[e].msg = n /\ seen[e] < n /\ seen[e] =< n
        <5>1. newest'[e] = n /\ dev'[e].msg = n
          BY <2>1, <3>1
        <5>2. seen[e] \in Nat /\ newest[e] \in Nat /\ n \in Nat /\ seen[e] =< newest[e]
              /\ newest[e] < n
          BY <1>2
        <5>3. seen[e] < n /\ seen[e] =< n
          BY ONLY <5>2
        <5> QED BY <5>1, <5>3
      <4>2. n \in Nat /\ n # 0
        BY <1>2
      <4> QED BY <4>1, <4>2
    <3>2. CASE e # d
      <4>1. /\ newest'[e] = newest[e] /\ dev'[e].msg = dev[e].msg
            /\ dev'[e].msg_pending = dev[e].msg_pending
        BY <2>1, <3>2
      <4>2. e \in spoiled => e \in spoiled'
        BY <1>3, <3>2
      <4>3. /\ seen[e] =< newest[e] /\ newest[e] =< n
            /\ dev[e].msg \in {0, newest[e]}
            /\ dev[e].msg_pending =>
                 IF dev[e].msg = 0 THEN e \in spoiled ELSE seen[e] < newest[e]
        BY <1>2 DEF UmInv, Numbered
      <4> QED BY <4>1, <4>2, <4>3
    <3> QED BY <3>1, <3>2
  <2>5. TakenOut'
    <3> SUFFICES ASSUME NEW t \in Caller, At(t, "out")
                 PROVE  LET e == ioctl[t].d
                            out == ioctl[t].out
                        IN /\ out # 0 => seen[e] < out /\ out =< newest'[e]
                           /\ dev'[e].msg_pending /\ dev'[e].msg # 0 => out < newest'[e]
      BY <1>1 DEF TakenOut, At
    <3> DEFINE e == ioctl[t].d
               out == ioctl[t].out
    <3>1. /\ e \in Entry /\ out \in Nat
          /\ out # 0 => seen[e] < out /\ out =< newest[e]
          /\ dev[e].msg_pending /\ dev[e].msg # 0 => out < newest[e]
      BY DEF UmInv, UmTypes, InsideLive, TakenOut, At
    <3> HIDE DEF e, out
    <3>2. newest[e] \in Nat /\ newest'[e] \in Nat /\ newest[e] =< newest'[e]
      BY <1>2, <2>1, <3>1
    <3>3. out # 0 => seen[e] < out /\ out =< newest'[e]
      BY <3>1, <3>2
    <3>4. CASE e = d
      <4>1. newest'[e] = n /\ newest[e] < n
        BY <1>2, <2>1, <3>1, <3>4
      <4>2. out < n
        BY <1>2, <3>1, <3>2, <4>1
      <4> QED BY <3>3, <4>1, <4>2 DEF e, out
    <3>5. CASE e # d
      BY <2>1, <3>1, <3>3, <3>5 DEF e, out
    <3> QED BY <3>4, <3>5
  <2>6. AllReported'
    <3> SUFFICES ASSUME NEW e \in Entry, e \notin spoiled' PROVE Reported(e)'
      BY DEF AllReported
    <3>1. CASE e = d
      BY <2>1, <3>1 DEF Reported
    <3>2. CASE e # d
      <4>1. Reported(e)
        BY <1>3, <3>2 DEF UmInv, AllReported
      <4> QED BY <1>1, <2>1, <3>2, <4>1 DEF Reported, At
    <3> QED BY <3>1, <3>2
  <2> QED BY <1>1, <2>2, <2>3, <2>4, <2>5, <2>6 DEF UmInv
<1>4. CASE /\ dev' = [dev EXCEPT ![d].msg = 0]
           /\ spoiled' = IF dev[d].msg_pending THEN spoiled \cup {d} ELSE spoiled
           /\ UNCHANGED newest
  <2>1. \A e \in Entry :
          /\ dev'[e].state = dev[e].state
          /\ dev'[e].msg = IF e = d THEN 0 ELSE dev[e].msg
          /\ dev'[e].msg_pending = dev[e].msg_pending
    BY <1>4 DEF UmInv, UmTypes
  <2>2. UmTypes'
    <3>1. dev' \in [Entry -> [state : {"none", "live", "freed"}, msg : Nat,
                             msg_pending : BOOLEAN, shown : Nat]]
      BY <1>4 DEF UmInv, UmTypes
    <3> QED BY <1>1, <1>2, <1>4, <3>1 DEF UmInv, UmTypes
  <2>3. Listed' /\ InsideLive'
    BY <1>1, <2>1 DEF UmInv, Listed, InsideLive, At
  <2>4. Numbered'
    <3> SUFFICES ASSUME NEW e \in Entry
                 PROVE  /\ seen[e] =< newest[e] /\ newest[e] =< n
                        /\ dev'[e].msg \in {0, newest[e]}
                        /\ dev'[e].msg_pending =>
                             IF dev'[e].msg = 0 THEN e \in spoiled' ELSE seen[e] < newest[e]
      BY <1>1, <1>4 DEF Numbered
    <3>1. CASE e = d
      BY <1>2, <1>4, <2>1, <3>1
    <3>2. CASE e # d
      BY <1>2, <1>4, <2>1, <3>2 DEF UmInv, Numbered
    <3> QED BY <3>1, <3>2
  <2>5. TakenOut'
    BY <1>1, <1>4, <2>1 DEF UmInv, InsideLive, TakenOut, At
  <2>6. AllReported'
    <3> SUFFICES ASSUME NEW e \in Entry, e \notin spoiled' PROVE Reported(e)'
      BY DEF AllReported
    <3>1. Reported(e)
      BY <1>4 DEF UmInv, AllReported
    <3>2. e = d => ~dev[e].msg_pending
      BY <1>4
    <3> QED BY <1>1, <1>4, <2>1, <3>1, <3>2 DEF Reported, At
  <2> QED BY <1>1, <2>2, <2>3, <2>4, <2>5, <2>6 DEF UmInv
<1> QED BY <1>3, <1>4 DEF Write, n

\* What a thread at a step of an ioctl knows, and what is left where it goes
LEMMA ThreadMoves ==
  ASSUME UmInv, NEW t \in Caller, NEW at \in {"idle", "found", "out", "push"},
         NEW d \in Entry \cup {0}, NEW out \in Nat, InIoctl(t, at, d, out)
  PROVE  /\ ioctl' \in [Caller -> [at : {"idle", "found", "out", "push"},
                                   d : Entry \cup {0}, out : Nat]]
         /\ ioctl'[t].at = at /\ ioctl'[t].d = d /\ ioctl'[t].out = out
         /\ \A u \in Caller : u # t => ioctl'[u] = ioctl[u]
BY DEF UmInv, UmTypes, InIoctl

\* MSG finds an entry with a pending message.
LEMMA FindKeeps ==
  ASSUME UmInv, NEW t \in Caller, Find(t)
  PROVE  UmInv'
<1>1. PICK i \in Pending : InIoctl(t, "found", devs[i], 0)
  BY DEF Find
<1>2. /\ t \in Listener /\ At(t, "idle")
      /\ UNCHANGED <<devs, dev, known, writes, newest, seen, spoiled, again>>
  BY DEF Find
<1> DEFINE d == devs[i]
<1>3. d \in Entry /\ dev[d].msg_pending /\ In(d, devs)
  BY DEF UmInv, UmTypes, Pending, In
<1>4. dev[d].state = "live"
  BY <1>3 DEF UmInv, Listed
<1>5. InIoctl(t, "found", d, 0)
  BY <1>1
<1> HIDE DEF d
<1>6. /\ ioctl' \in [Caller -> [at : {"idle", "found", "out", "push"},
                                d : Entry \cup {0}, out : Nat]]
      /\ ioctl'[t].at = "found" /\ ioctl'[t].d = d
      /\ \A u \in Caller : u # t => ioctl'[u] = ioctl[u]
  BY <1>3, <1>5, ThreadMoves
<1>7. UmTypes' /\ Listed' /\ Numbered' /\ ~again'
  BY <1>2, <1>6 DEF UmInv, UmTypes, Listed, Numbered
<1>8. InsideLive'
  BY <1>2, <1>3, <1>4, <1>6 DEF UmInv, InsideLive, At
<1>9. TakenOut'
  BY <1>2, <1>6 DEF UmInv, TakenOut, At
<1>10. AllReported'
  BY <1>2, <1>6 DEF UmInv, AllReported, Reported, At
<1> QED BY <1>7, <1>8, <1>9, <1>10 DEF UmInv

\* The message leaves the entry and the flag is dropped, in one step.
LEMMA TakeKeeps ==
  ASSUME UmInv, OneListener, NEW t \in Caller, Take(t)
  PROVE  UmInv'
<1> DEFINE d == ioctl[t].d
           out == dev[d].msg
           Rec == [state : {"none", "live", "freed"}, msg : Nat,
                   msg_pending : BOOLEAN, shown : Nat]
<1>1. /\ At(t, "found") /\ InIoctl(t, "out", d, out)
      /\ dev' = [dev EXCEPT ![d].msg_pending = FALSE]
      /\ UNCHANGED <<devs, known, writes, newest, seen, spoiled, again>>
  BY DEF Take
<1>2. /\ d \in Entry /\ dev \in [Entry -> Rec] /\ out \in Nat
      /\ t \in Listener /\ dev[d].msg_pending /\ dev[d].state = "live"
  BY <1>1 DEF UmInv, UmTypes, InsideLive, At
<1> HIDE DEF d, out
<1>3. /\ ioctl' \in [Caller -> [at : {"idle", "found", "out", "push"},
                                d : Entry \cup {0}, out : Nat]]
      /\ ioctl'[t].at = "out" /\ ioctl'[t].d = d /\ ioctl'[t].out = out
      /\ \A u \in Caller : u # t => ioctl'[u] = ioctl[u]
  BY <1>1, <1>2, ThreadMoves
<1>4. /\ dev' \in [Entry -> Rec]
      /\ \A e \in Entry :
           /\ dev'[e].state = dev[e].state /\ dev'[e].msg = dev[e].msg
           /\ dev'[e].msg_pending = IF e = d THEN FALSE ELSE dev[e].msg_pending
  BY <1>1, <1>2
<1>5. \A u \in Caller : At(u, "found") \/ At(u, "out") => u = t
  BY <1>2 DEF UmInv, InsideLive, OneListener
<1>6. \A u \in Caller : At(u, "found")' \/ At(u, "out")' => u = t
  BY <1>3, <1>5 DEF At
<1>7. UmTypes' /\ Listed' /\ ~again'
  BY <1>1, <1>3, <1>4 DEF UmInv, UmTypes, Listed
<1>8. InsideLive'
  BY <1>1, <1>2, <1>3, <1>4, <1>6 DEF UmInv, InsideLive, At
<1>9. Numbered'
  BY <1>1, <1>4 DEF UmInv, Numbered
<1>10. out # 0 => out = newest[d] /\ seen[d] < newest[d]
  BY <1>2 DEF UmInv, Numbered, out
<1>11. newest[d] \in Nat
  BY <1>2 DEF UmInv, UmTypes
<1>12. TakenOut'
  <2> SUFFICES ASSUME NEW u \in Caller, At(u, "out")'
               PROVE  LET e == ioctl'[u].d
                          o == ioctl'[u].out
                      IN /\ o # 0 => seen[e] < o /\ o =< newest[e]
                         /\ dev'[e].msg_pending /\ dev'[e].msg # 0 => o < newest[e]
    BY <1>1 DEF TakenOut
  <2>1. u = t
    BY <1>6
  <2>2. ~dev'[d].msg_pending
    BY <1>2, <1>4
  <2>3. out # 0 => seen[d] < out /\ out =< newest[d]
    BY <1>10, <1>11
  <2> QED BY <1>3, <2>1, <2>2, <2>3
<1>13. AllReported'
  <2> SUFFICES ASSUME NEW e \in Entry, e \notin spoiled PROVE Reported(e)'
    BY <1>1 DEF AllReported
  <2>1. Reported(e)
    BY DEF UmInv, AllReported
  <2>2. CASE e = d
    <3>1. out # 0
      BY <1>2, <2>2 DEF UmInv, Numbered, out
    <3>2. out = newest[d]
      BY <1>10, <3>1
    <3> QED BY <1>1, <1>3, <2>2, <3>2 DEF Reported, At
  <2>3. CASE e # d
    <3>1. \A u \in Caller : At(u, "out") => u # t
      BY <1>1 DEF At
    <3> QED BY <1>1, <1>3, <1>4, <2>1, <2>3, <3>1 DEF Reported, At
  <2> QED BY <2>2, <2>3
<1> QED BY <1>7, <1>8, <1>9, <1>12, <1>13 DEF UmInv

\* The daemon has the message, or it is lost in the copy.
LEMMA ReturnKeeps ==
  ASSUME UmInv, OneListener, NEW t \in Caller, Return(t)
  PROVE  UmInv'
<1> DEFINE d == ioctl[t].d
           out == ioctl[t].out
<1>1. /\ At(t, "out") /\ InIoctl(t, "idle", 0, 0)
      /\ UNCHANGED <<devs, dev, known, writes, newest>>
  BY DEF Return
<1>2. \/ /\ again' = (again \/ (out # 0 /\ out =< seen[d]))
         /\ seen' = IF out > seen[d] THEN [seen EXCEPT ![d] = out] ELSE seen
         /\ UNCHANGED spoiled
      \/ /\ spoiled' = IF out = newest[d] THEN spoiled \cup {d} ELSE spoiled
         /\ UNCHANGED <<seen, again>>
  BY DEF Return
<1>3. /\ d \in Entry /\ out \in Nat /\ t \in Listener
      /\ out # 0 => seen[d] < out /\ out =< newest[d]
      /\ dev[d].msg_pending /\ dev[d].msg # 0 => out < newest[d]
  BY <1>1 DEF UmInv, UmTypes, InsideLive, TakenOut, At
<1> HIDE DEF d, out
<1>4. /\ ioctl' \in [Caller -> [at : {"idle", "found", "out", "push"},
                                d : Entry \cup {0}, out : Nat]]
      /\ ioctl'[t].at = "idle" /\ ioctl'[t].d = 0
      /\ \A u \in Caller : u # t => ioctl'[u] = ioctl[u]
  BY <1>1, ThreadMoves
<1>5. \A u \in Caller : At(u, "found") \/ At(u, "out") => u = t
  BY <1>3 DEF UmInv, InsideLive, OneListener
<1>6. \A u \in Caller : ~At(u, "found")' /\ ~At(u, "out")'
  BY <1>4, <1>5 DEF At
<1>7. Listed' /\ InsideLive' /\ TakenOut'
  <2>1. Listed'
    BY <1>1 DEF UmInv, Listed
  <2>2. InsideLive'
    BY <1>1, <1>4, <1>6 DEF UmInv, InsideLive, At
  <2>3. TakenOut'
    BY <1>6 DEF TakenOut
  <2> QED BY <2>1, <2>2, <2>3
<1>8. \A e \in Entry : newest[e] \in Nat /\ seen[e] \in Nat /\ seen[e] =< newest[e]
  BY DEF UmInv, UmTypes, Numbered
<1>9. ASSUME NEW e \in Entry, e # d, Reported(e)
      PROVE  newest[e] = seen[e] \/ (dev[e].msg_pending /\ dev[e].msg = newest[e])
  <2>1. \A u \in Caller : At(u, "out") => ioctl[u].d = d
    BY <1>5 DEF d
  <2>2. \A u \in Caller : ~(At(u, "out") /\ ioctl[u].d = e /\ ioctl[u].out = newest[e])
    BY <1>9, <2>1
  <2> QED BY <1>9, <2>2, Zenon DEF Reported
<1>10. CASE /\ spoiled' = IF out = newest[d] THEN spoiled \cup {d} ELSE spoiled
            /\ UNCHANGED <<seen, again>>
  <2>1. UmTypes' /\ ~again'
    BY <1>1, <1>3, <1>4, <1>10 DEF UmInv, UmTypes
  <2>2. Numbered'
    BY <1>1, <1>10 DEF UmInv, Numbered
  <2>3. AllReported'
    <3> SUFFICES ASSUME NEW e \in Entry, e \notin spoiled' PROVE Reported(e)'
      BY DEF AllReported
    <3>1. Reported(e)
      BY <1>10 DEF UmInv, AllReported
    <3>2. CASE e = d
      <4>1. out # newest[d]
        BY <1>10, <3>2
      <4>2. newest[e] = seen[e] \/ (dev[e].msg_pending /\ dev[e].msg = newest[e])
        BY <1>5, <3>1, <3>2, <4>1 DEF Reported, out
      <4> QED BY <1>1, <1>10, <4>2 DEF Reported
    <3>3. CASE e # d
      BY <1>1, <1>9, <1>10, <3>1, <3>3 DEF Reported
    <3> QED BY <3>2, <3>3
  <2> QED BY <1>7, <2>1, <2>2, <2>3 DEF UmInv
<1>11. CASE /\ again' = (again \/ (out # 0 /\ out =< seen[d]))
            /\ seen' = IF out > seen[d] THEN [seen EXCEPT ![d] = out] ELSE seen
            /\ UNCHANGED spoiled
  <2>1. ~(out # 0 /\ out =< seen[d])
    BY <1>3, <1>8
  <2>2. again' = FALSE
    BY <1>11, <2>1 DEF UmInv
  <2>3. /\ seen' \in [Entry -> Nat]
        /\ \A e \in Entry : seen'[e] = IF e = d /\ out # 0 THEN out ELSE seen[e]
    <3>1. seen \in [Entry -> Nat]
      BY DEF UmInv, UmTypes
    <3>2. out > seen[d] <=> out # 0
      BY <1>3, <1>8
    <3> QED BY <1>3, <1>11, <3>1, <3>2
  <2>4. UmTypes'
    BY <1>1, <1>4, <1>11, <2>2, <2>3 DEF UmInv, UmTypes
  <2>5. Numbered'
    <3> SUFFICES ASSUME NEW e \in Entry
                 PROVE  /\ seen'[e] =< newest[e] /\ newest[e] =< writes
                        /\ dev[e].msg \in {0, newest[e]}
                        /\ dev[e].msg_pending =>
                             IF dev[e].msg = 0 THEN e \in spoiled ELSE seen'[e] < newest[e]
      BY <1>1, <1>11 DEF Numbered
    <3>1. /\ seen[e] =< newest[e] /\ newest[e] =< writes
          /\ dev[e].msg \in {0, newest[e]}
          /\ dev[e].msg_pending =>
               IF dev[e].msg = 0 THEN e \in spoiled ELSE seen[e] < newest[e]
      BY DEF UmInv, Numbered
    <3>2. CASE e = d /\ out # 0
      BY <1>3, <2>3, <3>1, <3>2
    <3>3. CASE ~(e = d /\ out # 0)
      BY <2>3, <3>1, <3>3
    <3> QED BY <3>2, <3>3
  <2>6. AllReported'
    <3> SUFFICES ASSUME NEW e \in Entry, e \notin spoiled PROVE Reported(e)'
      BY <1>11 DEF AllReported
    <3>1. Reported(e)
      BY DEF UmInv, AllReported
    <3>2. CASE e = d
      <4>1. \/ newest[e] = seen[e] \/ (dev[e].msg_pending /\ dev[e].msg = newest[e])
            \/ out = newest[e]
        BY <1>5, <3>1, <3>2 DEF Reported, out
      <4>2. CASE newest[e] = seen[e]
        <5>1. out = 0
          BY <1>3, <1>8, <3>2, <4>2
        <5> QED BY <1>1, <2>3, <4>2, <5>1 DEF Reported
      <4>3. CASE dev[e].msg_pending /\ dev[e].msg = newest[e]
        BY <1>1, <4>3 DEF Reported
      <4>4. CASE out = newest[e]
        <5>1. seen'[e] = newest[e]
          <6>1. CASE out = 0
            <7>1. newest[e] = 0 /\ seen'[e] = seen[e] /\ seen[e] \in Nat /\ seen[e] =< newest[e]
              BY <1>8, <2>3, <4>4, <6>1
            <7> QED BY ONLY <7>1
          <6>2. CASE out # 0
            BY <2>3, <3>2, <4>4, <6>2
          <6> QED BY <6>1, <6>2
        <5> QED BY <1>1, <5>1 DEF Reported
      <4> QED BY <4>1, <4>2, <4>3, <4>4
    <3>3. CASE e # d
      BY <1>1, <1>9, <2>3, <3>1, <3>3 DEF Reported
    <3> QED BY <3>2, <3>3
  <2> QED BY <1>7, <2>2, <2>4, <2>5, <2>6 DEF UmInv
<1> QED BY <1>2, <1>10, <1>11

\* WRITE: only the text changes.
LEMMA LookupKeeps ==
  ASSUME UmInv, NEW t \in Caller, NEW d \in Entry, Lookup(t, d)
  PROVE  UmInv'
<1>1. /\ At(t, "idle") /\ dev[d].state = "live" /\ InIoctl(t, "push", d, 0)
      /\ UNCHANGED <<devs, dev, known, writes, newest, seen, spoiled, again>>
  BY DEF Lookup
<1>2. /\ ioctl' \in [Caller -> [at : {"idle", "found", "out", "push"},
                                d : Entry \cup {0}, out : Nat]]
      /\ ioctl'[t].at = "push" /\ ioctl'[t].d = d
      /\ \A u \in Caller : u # t => ioctl'[u] = ioctl[u]
  BY <1>1, ThreadMoves
<1>3. UmTypes' /\ Listed' /\ Numbered' /\ ~again'
  BY <1>1, <1>2 DEF UmInv, UmTypes, Listed, Numbered
<1>4. InsideLive' /\ TakenOut'
  BY <1>1, <1>2 DEF UmInv, InsideLive, TakenOut, At
<1>5. AllReported'
  BY <1>1, <1>2 DEF UmInv, AllReported, Reported, At
<1> QED BY <1>3, <1>4, <1>5 DEF UmInv

\* WRITE reaches an entry that is still live, and no message changes.
LEMMA PushKeeps ==
  ASSUME UmInv, NEW t \in Caller, Push(t)
  PROVE  UmInv'
<1> DEFINE d == ioctl[t].d
           Rec == [state : {"none", "live", "freed"}, msg : Nat,
                   msg_pending : BOOLEAN, shown : Nat]
<1>1. /\ At(t, "push") /\ InIoctl(t, "idle", 0, 0)
      /\ UNCHANGED <<devs, known, newest, seen, spoiled, again>>
      /\ \/ writes' = writes + 1 /\ dev' = [dev EXCEPT ![d].shown = writes']
         \/ UNCHANGED <<dev, writes>>
  BY DEF Push
<1>2. d \in Entry /\ dev \in [Entry -> Rec] /\ writes \in Nat
  BY <1>1 DEF UmInv, UmTypes, InsideLive, At
<1> HIDE DEF d
<1>3. /\ ioctl' \in [Caller -> [at : {"idle", "found", "out", "push"},
                                d : Entry \cup {0}, out : Nat]]
      /\ ioctl'[t].at = "idle" /\ ioctl'[t].d = 0
      /\ \A u \in Caller : u # t => ioctl'[u] = ioctl[u]
  BY <1>1, ThreadMoves
<1>4. /\ writes' \in Nat /\ writes =< writes' /\ dev' \in [Entry -> Rec]
      /\ \A e \in Entry : /\ dev'[e].state = dev[e].state /\ dev'[e].msg = dev[e].msg
                          /\ dev'[e].msg_pending = dev[e].msg_pending
  BY <1>1, <1>2
<1>5. UmTypes' /\ Listed' /\ ~again'
  BY <1>1, <1>3, <1>4 DEF UmInv, UmTypes, Listed
<1>6. InsideLive' /\ TakenOut'
  <2>1. seen' = seen /\ newest' = newest
    BY <1>1
  <2>2. \A u \in Caller : u # t /\ ~At(u, "idle") => ioctl[u].d \in Entry
    BY DEF UmInv, InsideLive
  <2> HIDE DEF Rec
  <2>3. InsideLive'
    <3> SUFFICES ASSUME NEW u \in Caller
                 PROVE  /\ At(u, "idle")' => ioctl'[u].d = 0
                        /\ ~At(u, "idle")' => ioctl'[u].d \in Entry
                                              /\ dev'[ioctl'[u].d].state = "live"
                        /\ At(u, "found")' \/ At(u, "out")' => u \in Listener
                        /\ At(u, "found")' => dev'[ioctl'[u].d].msg_pending
      BY DEF InsideLive
    <3>1. CASE u = t
      BY <1>3, <3>1 DEF At
    <3>2. CASE u # t
      BY <1>3, <1>4, <2>2, <3>2 DEF UmInv, InsideLive, At
    <3> QED BY <3>1, <3>2
  <2>4. TakenOut'
    <3> SUFFICES ASSUME NEW u \in Caller, At(u, "out")'
                 PROVE  /\ ioctl'[u].out # 0 => /\ seen'[ioctl'[u].d] < ioctl'[u].out
                                                /\ ioctl'[u].out =< newest'[ioctl'[u].d]
                        /\ dev'[ioctl'[u].d].msg_pending /\ dev'[ioctl'[u].d].msg # 0
                             => ioctl'[u].out < newest'[ioctl'[u].d]
      BY DEF TakenOut
    <3>1. u # t /\ ioctl'[u] = ioctl[u] /\ At(u, "out")
      BY <1>3 DEF At
    <3>2. ioctl[u].d \in Entry
      BY <2>2, <3>1 DEF At
    <3> QED BY <1>4, <2>1, <3>1, <3>2 DEF UmInv, TakenOut
  <2> QED BY <2>3, <2>4
<1>7. AllReported'
  BY <1>1, <1>3, <1>4 DEF UmInv, AllReported, Reported, At
<1>8. Numbered'
  <2>1. \A e \in Entry : newest[e] \in Nat /\ newest[e] =< writes'
    BY <1>2, <1>4 DEF UmInv, UmTypes, Numbered
  <2> QED BY <1>1, <1>4, <2>1 DEF UmInv, Numbered
<1> QED BY <1>5, <1>6, <1>7, <1>8 DEF UmInv

\* Every step of the messages keeps their invariant.
LEMMA UmSteps ==
  ASSUME OneListener, ~CloseInFlight, UmInv, UmNext
  PROVE  UmInv'
<1>1. ASSUME NEW t \in Caller, NEW d \in Entry, Create(t, d) \/ Lookup(t, d) \/ Close(t, d)
      PROVE  UmInv'
  BY <1>1, CreateKeepsUmap, LookupKeeps, CloseKeepsUmap
<1>2. ASSUME NEW t \in Caller, Find(t) \/ Take(t) \/ Return(t) \/ Push(t)
      PROVE  UmInv'
  BY <1>2, FindKeeps, TakeKeeps, ReturnKeeps, PushKeeps
<1>3. ASSUME NEW d \in Entry, Write(d)
      PROVE  UmInv'
  BY <1>3, WriteKeepsUmap
<1> QED BY <1>1, <1>2, <1>3 DEF UmNext

\* What the invariant says of a live entry is what the properties ask.
LEMMA UmInvSays == UmInv => WritesReported /\ EntriesAlive
<1> SUFFICES ASSUME UmInv PROVE WritesReported /\ EntriesAlive
  OBVIOUS
<1>1. WritesReported
  BY DEF UmInv, AllReported, Reported, WritesReported
<1>2. EntriesAlive
  BY UmapAssumption DEF UmInv, UmTypes, InsideLive, EntriesAlive, At
<1> QED BY <1>1, <1>2

(***************************************************************************)
(* The arbiter: its lists, then its counts.                                *)
(***************************************************************************)
\* g is the walk along the first n nodes of l.
Walks(g, l, gone, n) ==
  /\ g[0] = <<>>
  /\ \A m \in 1..n : g[m] = IF l[m] \in gone THEN g[m - 1] ELSE Append(g[m - 1], l[m])

\* A walk along a list is a function of the nodes passed, by induction on them.
LEMMA WalkExists ==
  ASSUME NEW S, NEW l \in Seq(S), NEW gone
  PROVE  /\ Kept(l, gone) \in [0..Len(l) -> Seq(S)]
         /\ Walks(Kept(l, gone), l, gone, Len(l))
<1> DEFINE N == {n \in Nat : n =< Len(l) =>
                   \E g \in [0..n -> Seq(S)] : Walks(g, l, gone, n)}
           next(g, m) == IF l[m] \in gone THEN g[m - 1] ELSE Append(g[m - 1], l[m])
<1>1. 0 \in N
  <2>1. [m \in 0..0 |-> <<>>] \in [0..0 -> Seq(S)] /\ Walks([m \in 0..0 |-> <<>>], l, gone, 0)
    BY DEF Walks
  <2> QED BY <2>1
<1>2. ASSUME NEW n \in Nat, n \in N PROVE n + 1 \in N
  <2> SUFFICES ASSUME n + 1 =< Len(l)
               PROVE  \E g \in [0..(n + 1) -> Seq(S)] : Walks(g, l, gone, n + 1)
    OBVIOUS
  <2>1. PICK g \in [0..n -> Seq(S)] : Walks(g, l, gone, n)
    BY <1>2
  <2> DEFINE last == IF l[n + 1] \in gone THEN g[n] ELSE Append(g[n], l[n + 1])
             h == [m \in 0..(n + 1) |-> IF m = n + 1 THEN last ELSE g[m]]
  <2>2. last \in Seq(S)
    <3>1. g[n] \in Seq(S) /\ l[n + 1] \in S
      OBVIOUS
    <3> QED BY <3>1
  <2> HIDE DEF last
  <2>3. h \in [0..(n + 1) -> Seq(S)]
    BY <2>2
  <2>4. h[0] = <<>>
    BY <2>1 DEF Walks
  <2>5. ASSUME NEW m \in 1..(n + 1)
        PROVE  h[m] = IF l[m] \in gone THEN h[m - 1] ELSE Append(h[m - 1], l[m])
    <3>1. CASE m = n + 1
      <4>1. h[m] = last /\ h[m - 1] = g[n]
        BY <3>1
      <4> QED BY <3>1, <4>1 DEF last
    <3>2. CASE m # n + 1
      <4>1. m \in 1..n /\ h[m] = g[m] /\ h[m - 1] = g[m - 1]
        BY <3>2
      <4> QED BY <2>1, <4>1 DEF Walks
    <3> QED BY <3>1, <3>2
  <2>6. Walks(h, l, gone, n + 1)
    <3> HIDE DEF h
    <3> QED BY <2>4, <2>5 DEF Walks
  <2> QED BY <2>3, <2>6
<1>3. Nat \subseteq N
  <2> HIDE DEF N
  <2> QED BY <1>1, <1>2, NatSets
<1>4. Len(l) \in Nat
  OBVIOUS
<1>5. PICK g \in [0..Len(l) -> Seq(S)] : Walks(g, l, gone, Len(l))
  <2>1. Len(l) \in N
    <3> HIDE DEF N
    <3> QED BY <1>3, <1>4
  <2>2. Len(l) =< Len(l)
    BY <1>4
  <2> QED BY ONLY <2>1, <2>2
<1>6. g = [n \in 0..Len(l) |-> IF n = 0 THEN <<>>
                               ELSE IF l[n] \in gone THEN g[n - 1] ELSE Append(g[n - 1], l[n])]
  <2>1. DOMAIN g = 0..Len(l)
    OBVIOUS
  <2>2. ASSUME NEW n \in 0..Len(l)
        PROVE  g[n] = IF n = 0 THEN <<>>
                      ELSE IF l[n] \in gone THEN g[n - 1] ELSE Append(g[n - 1], l[n])
    <3>1. CASE n = 0
      <4>1. g[0] = <<>>
        BY <1>5 DEF Walks
      <4> QED BY <3>1, <4>1
    <3>2. CASE n # 0
      <4>1. n \in 1..Len(l)
        BY <1>4, <3>2
      <4>2. g[n] = IF l[n] \in gone THEN g[n - 1] ELSE Append(g[n - 1], l[n])
        BY <1>5, <4>1 DEF Walks
      <4> QED BY <3>2, <4>2
    <3> QED BY <3>1, <3>2
  <2> QED BY <2>1, <2>2
<1> DEFINE f == Kept(l, gone)
<1>7. f = [n \in 0..Len(l) |-> IF n = 0 THEN <<>>
                               ELSE IF l[n] \in gone THEN f[n - 1] ELSE Append(f[n - 1], l[n])]
  BY <1>6 DEF Kept
<1> HIDE DEF f
<1>8. \A n \in 0..Len(l) :
        f[n] = IF n = 0 THEN <<>>
               ELSE IF l[n] \in gone THEN f[n - 1] ELSE Append(f[n - 1], l[n])
  BY ONLY <1>7
<1>9. f[0] = <<>>
  BY <1>4, <1>8
<1>10. ASSUME NEW n \in 1..Len(l)
       PROVE  f[n] = IF l[n] \in gone THEN f[n - 1] ELSE Append(f[n - 1], l[n])
  <2>1. n \in 0..Len(l) /\ n # 0
    BY <1>4
  <2> QED BY ONLY <1>8, <2>1
<1> DEFINE M == {n \in Nat : n =< Len(l) => f[n] \in Seq(S)}
<1>11. 0 \in M
  <2>1. <<>> \in Seq(S)
    OBVIOUS
  <2> QED BY <1>9, <2>1
<1>12. ASSUME NEW n \in Nat, n \in M PROVE n + 1 \in M
  <2> SUFFICES ASSUME n + 1 =< Len(l) PROVE f[n + 1] \in Seq(S)
    OBVIOUS
  <2> DEFINE m == n + 1
  <2>1. f[n] \in Seq(S) /\ l[m] \in S /\ m \in 1..Len(l) /\ m - 1 = n
    BY <1>4, <1>12
  <2>2. f[m] = IF l[m] \in gone THEN f[m - 1] ELSE Append(f[m - 1], l[m])
    BY <1>10, <2>1
  <2> QED BY <2>1, <2>2
<1>13. Nat \subseteq M
  <2> HIDE DEF M
  <2> QED BY <1>11, <1>12, NatSets
<1>14. f = [n \in 0..Len(l) |-> f[n]]
  BY ONLY <1>7
<1>15. f \in [0..Len(l) -> Seq(S)]
  BY <1>4, <1>13, <1>14
<1>16. Walks(f, l, gone, Len(l))
  BY <1>9, <1>10 DEF Walks
<1> QED BY <1>15, <1>16 DEF f

\* What is left of a list are the nodes that do not go, each as often.
LEMMA WithoutFacts ==
  ASSUME NEW S, NEW l \in Seq(S), Once(l), NEW gone
  PROVE  /\ Without(l, gone) \in Seq(S) /\ Once(Without(l, gone))
         /\ \A x : In(x, Without(l, gone)) <=> In(x, l) /\ x \notin gone
<1> DEFINE f == Kept(l, gone)
           z == Len(l)
           N == {n \in Nat : n =< z =>
                   /\ Once(f[n])
                   /\ \A x : In(x, f[n]) <=> x \notin gone /\ \E j \in 1..n : l[j] = x}
<1>1. f \in [0..z -> Seq(S)] /\ Walks(f, l, gone, z)
  BY WalkExists
<1>2. z \in Nat /\ DOMAIN l = 1..z /\ \A j \in 1..z : l[j] \in S
  OBVIOUS
<1> HIDE DEF f, z
<1>3. 0 \in N
  <2>1. f[0] = <<>>
    BY <1>1 DEF Walks
  <2> QED BY <2>1 DEF Once, In
<1>4. ASSUME NEW n \in Nat, n \in N PROVE n + 1 \in N
  <2> DEFINE m == n + 1
  <2> SUFFICES ASSUME m =< z
               PROVE  /\ Once(f[m])
                      /\ \A x : In(x, f[m]) <=> x \notin gone /\ \E j \in 1..m : l[j] = x
    OBVIOUS
  <2>1. /\ Once(f[n])
        /\ \A x : In(x, f[n]) <=> x \notin gone /\ \E j \in 1..n : l[j] = x
    BY <1>2, <1>4
  <2>2. /\ m \in 1..z /\ m - 1 = n /\ n \in 0..z /\ 1..n \subseteq 1..z
        /\ \A j \in 1..m : j \in 1..n \/ j = m
        /\ m \notin 1..n /\ 1..n \subseteq 1..m /\ m \in 1..m
    BY <1>2
  <2> HIDE DEF m
  <2>3. f[m] = IF l[m] \in gone THEN f[n] ELSE Append(f[n], l[m])
    BY <1>1, <2>2 DEF Walks
  <2>4. CASE l[m] \in gone
    BY <2>1, <2>2, <2>3, <2>4
  <2>5. CASE l[m] \notin gone
    <3>1. ~In(l[m], f[n])
      BY <1>2, <2>1, <2>2 DEF Once
    <3>2. /\ Once(Append(f[n], l[m]))
          /\ \A x : In(x, Append(f[n], l[m])) <=> In(x, f[n]) \/ x = l[m]
      BY <1>1, <1>2, <2>1, <2>2, <3>1, AppendFacts
    <3> QED BY <2>1, <2>2, <2>3, <2>5, <3>2
  <2> QED BY <2>4, <2>5
<1>5. Nat \subseteq N
  <2> HIDE DEF N
  <2> QED BY <1>3, <1>4, NatSets
<1>6. z \in N /\ z =< z /\ z \in 0..z
  <2> HIDE DEF N
  <2> QED BY <1>2, <1>5
<1>7. Without(l, gone) = f[z]
  BY DEF Without, f, z
<1>8. \A x : In(x, l) <=> \E j \in 1..z : l[j] = x
  BY <1>2 DEF In
<1> QED BY <1>1, <1>6, <1>7, <1>8

-----------------------------------------------------------------------------
ScTypes ==
  /\ g_prio \in [Priority -> Seq(Name)]
  /\ node \in [Name -> [priority : Priority, owner : ScFile \cup {NoFile},
                        active : BOOLEAN]]
  /\ g_active_cnt \in Int
  /\ files \subseteq ScFile

\* A bucket has the nodes of its priority, each once.
Shelved ==
  \A p \in Priority :
    /\ Once(g_prio[p])
    /\ \A n \in Name : In(n, g_prio[p]) => node[n].priority = p

\* A node has an owner that is open.
Owned == \A n \in Name : node_find(n) => node[n].owner \in files

\* What SUSPEND asks the number of.
Actives == {n \in Name : node_find(n) /\ node[n].active}

ScInv == ScTypes /\ Shelved /\ Owned /\ g_active_cnt = Cardinality(Actives)

-----------------------------------------------------------------------------

\* A node is found when it is in some bucket.
LEMMA FoundIsIn == \A n : node_find(n) <=> \E p \in Priority : In(n, g_prio[p])
BY DEF node_find, Occurs, In

\* And so after a step.
LEMMA FoundIsInNext ==
  \A n : node_find(n)' <=> \E p \in Priority : In(n, g_prio'[p])
BY DEF node_find, Occurs, In

\* No service is registered at the start.
LEMMA ScStarts == ScInit => ScInv
<1> SUFFICES ASSUME ScInit PROVE ScInv
  OBVIOUS
<1>1. 0 \in Priority
  BY ArbiterAssumption DEF Priority
<1>2. ScTypes
  BY <1>1 DEF ScInit, ScTypes, NoService
<1>3. \A p \in Priority : g_prio[p] = <<>>
  BY DEF ScInit
<1>4. Shelved
  BY <1>3 DEF Shelved, Once, In
<1>5. \A n : ~node_find(n)
  BY <1>3 DEF node_find, Occurs
<1>6. Owned /\ Actives = {}
  BY <1>5 DEF Owned, Actives
<1> QED BY <1>2, <1>4, <1>6, FS_EmptySet DEF ScInit, ScInv

\* The invariant of the services is about the variables of SysctlArbiter only.
LEMMA ScStutter == ScInv /\ UNCHANGED scVars => ScInv'
<1> SUFFICES ASSUME ScInv, UNCHANGED scVars PROVE ScInv'
  OBVIOUS
<1>1. \A n : node_find(n)' <=> node_find(n)
  BY DEF node_find, Occurs, scVars
<1>2. Actives' = Actives
  BY <1>1 DEF Actives, scVars
<1> QED BY <1>1, <1>2 DEF ScInv, ScTypes, Shelved, Owned, scVars

\* The active nodes are finitely many.
LEMMA ActivesCount == IsFiniteSet(Actives) /\ Cardinality(Actives) \in Nat
<1>1. Actives \in SUBSET Name
  BY DEF Actives
<1>2. IsFiniteSet(Actives)
  BY <1>1, ArbiterAssumption, FS_Subset
<1> QED BY <1>2, FS_CardinalityType

\* A descriptor opened, and the state of the system: no node is touched.
LEMMA OthersKeepArbiter ==
  ASSUME ScInv, g_prio' = g_prio, node' = node, g_active_cnt' = g_active_cnt,
         files \subseteq files', files' \subseteq ScFile
  PROVE  ScInv'
<1>1. \A n : node_find(n)' <=> node_find(n)
  BY DEF node_find, Occurs
<1>2. Actives' = Actives
  BY <1>1 DEF Actives
<1> QED BY <1>1, <1>2 DEF ScInv, ScTypes, Shelved, Owned

\* A registration: the node goes to the end of its bucket, and is active.
LEMMA RegisterKeepsArbiter ==
  ASSUME ScInv, NEW f \in ScFile, NEW n \in Name, NEW p \in Priority, sc_register(f, n, p)
  PROVE  ScInv'
<1> USE DEF ScInv
<1> DEFINE r == [priority |-> p, owner |-> f, active |-> TRUE]
           other(q) == Without(g_prio[q], {n})
<1>1. /\ f \in files /\ files' = files
      /\ node' = [node EXCEPT ![n] = r]
      /\ r \in [priority : Priority, owner : ScFile \cup {NoFile}, active : BOOLEAN]
      /\ r.priority = p /\ r.owner = f /\ r.active
  BY DEF sc_register
<1>2. g_prio' = IF node_find(n) /\ node[n].priority = p THEN g_prio
                ELSE [q \in Priority |-> IF q = p THEN Append(other(q), n) ELSE other(q)]
  BY DEF sc_register
<1>3. g_active_cnt' = IF node_find(n) /\ node[n].active THEN g_active_cnt
                      ELSE g_active_cnt + 1
  BY DEF sc_register
<1> HIDE DEF r
<1>4. /\ node' \in [Name -> [priority : Priority, owner : ScFile \cup {NoFile},
                            active : BOOLEAN]]
      /\ node'[n] = r
      /\ \A m \in Name \ {n} : node'[m] = node[m]
  BY <1>1 DEF ScTypes
<1>5. ASSUME NEW q \in Priority
      PROVE  /\ g_prio[q] \in Seq(Name) /\ Once(g_prio[q])
             /\ other(q) \in Seq(Name) /\ Once(other(q))
             /\ \A x : In(x, other(q)) <=> In(x, g_prio[q]) /\ x # n
  <2>1. g_prio[q] \in Seq(Name) /\ Once(g_prio[q])
    BY DEF ScTypes, Shelved
  <2> QED BY <2>1, WithoutFacts
<1> HIDE DEF other
<1>6. /\ Append(other(p), n) \in Seq(Name) /\ Once(Append(other(p), n))
      /\ \A x : In(x, Append(other(p), n)) <=> In(x, other(p)) \/ x = n
  BY <1>5, AppendFacts
<1>7. /\ g_prio' \in [Priority -> Seq(Name)]
      /\ \A q \in Priority :
           /\ Once(g_prio'[q])
           /\ \A x \in Name \ {n} : In(x, g_prio'[q]) <=> In(x, g_prio[q])
           /\ In(n, g_prio'[q]) <=> q = p
  <2>1. CASE node_find(n) /\ node[n].priority = p
    <3>1. g_prio' = g_prio
      BY <1>2, <2>1
    <3>2. PICK s \in Priority : In(n, g_prio[s])
      BY <2>1, FoundIsIn
    <3>3. s = p /\ \A q \in Priority : In(n, g_prio[q]) => q = p
      BY <2>1, <3>2 DEF Shelved
    <3> QED BY <1>5, <3>1, <3>2, <3>3 DEF ScTypes
  <2>2. CASE ~(node_find(n) /\ node[n].priority = p)
    <3>1. g_prio' = [q \in Priority |-> IF q = p THEN Append(other(q), n) ELSE other(q)]
      BY <1>2, <2>2
    <3>2. g_prio' \in [Priority -> Seq(Name)]
      BY <1>5, <1>6, <3>1
    <3>3. g_prio'[p] = Append(other(p), n)
      BY <3>1
    <3>4. \A q \in Priority : q # p => g_prio'[q] = other(q)
      BY <3>1
    <3>5. ASSUME NEW q \in Priority
          PROVE  /\ Once(g_prio'[q])
                 /\ \A x \in Name \ {n} : In(x, g_prio'[q]) <=> In(x, g_prio[q])
                 /\ In(n, g_prio'[q]) <=> q = p
      <4>1. CASE q = p
        BY <1>5, <1>6, <3>3, <4>1
      <4>2. CASE q # p
        BY <1>5, <3>4, <4>2
      <4> QED BY <4>1, <4>2
    <3> QED BY <3>2, <3>5
  <2> QED BY <2>1, <2>2
<1>8. /\ node_find(n)'
      /\ \A m \in Name \ {n} : node_find(m)' <=> node_find(m)
  BY <1>7, FoundIsIn, FoundIsInNext
<1>9. Shelved'
  BY <1>1, <1>4, <1>7 DEF Shelved
<1>10. Owned'
  BY <1>1, <1>4, <1>8 DEF Owned
<1>11. Actives' = Actives \cup {n}
  BY <1>1, <1>4, <1>8 DEF Actives
<1>12. /\ n \in Actives <=> node_find(n) /\ node[n].active
  BY DEF Actives
<1>13. Cardinality(Actives \cup {n}) = IF n \in Actives THEN Cardinality(Actives)
                                       ELSE Cardinality(Actives) + 1
  BY ActivesCount, FS_AddElement
<1>14. g_active_cnt' = Cardinality(Actives)'
  BY <1>3, <1>11, <1>12, <1>13
<1>15. g_active_cnt' \in Int
  BY <1>3 DEF ScTypes
<1> QED BY <1>1, <1>4, <1>7, <1>9, <1>10, <1>14, <1>15 DEF ScTypes

\* A service made inactive stays in its bucket, and the count drops by it.
LEMMA UnregisterKeepsArbiter ==
  ASSUME ScInv, NEW f \in ScFile, NEW n \in Name, sc_unregister(f, n)
  PROVE  ScInv'
<1> USE DEF ScInv
<1> DEFINE r == [node[n] EXCEPT !.active = FALSE]
<1>1. /\ node_find(n) /\ node[n].active
      /\ g_prio' = g_prio /\ files' = files /\ g_active_cnt' = g_active_cnt - 1
      /\ node' = [node EXCEPT ![n] = r]
  BY DEF sc_unregister
<1>2. /\ r \in [priority : Priority, owner : ScFile \cup {NoFile}, active : BOOLEAN]
      /\ r.priority = node[n].priority /\ r.owner = node[n].owner /\ ~r.active
  <2>1. node[n] \in [priority : Priority, owner : ScFile \cup {NoFile}, active : BOOLEAN]
    BY DEF ScTypes
  <2> QED BY <2>1
<1> HIDE DEF r
<1>3. /\ node' \in [Name -> [priority : Priority, owner : ScFile \cup {NoFile},
                            active : BOOLEAN]]
      /\ node'[n] = r
      /\ \A m \in Name \ {n} : node'[m] = node[m]
  BY <1>1, <1>2 DEF ScTypes
<1>4. \A m : node_find(m)' <=> node_find(m)
  BY <1>1, FoundIsIn, FoundIsInNext
<1>5. Shelved'
  BY <1>1, <1>2, <1>3 DEF Shelved
<1>6. Owned'
  BY <1>1, <1>2, <1>3, <1>4 DEF Owned
<1>7. Actives' = Actives \ {n} /\ n \in Actives
  BY <1>1, <1>2, <1>3, <1>4 DEF Actives
<1>8. Cardinality(Actives \ {n}) = Cardinality(Actives) - 1
  BY <1>7, ActivesCount, FS_RemoveElement
<1>9. g_active_cnt' = Cardinality(Actives)'
  BY <1>1, <1>7, <1>8
<1> QED BY <1>1, <1>3, <1>5, <1>6, <1>9 DEF ScTypes

\* Nodes unlinked: the others keep their place, their owner and their state.
LEMMA DropKeepsArbiter ==
  ASSUME ScInv, NEW gone, gone \subseteq Name, \A n \in gone : node_find(n), Drop(gone),
         files' \subseteq files,
         \A n \in Name : node_find(n) /\ n \notin gone => node[n].owner \in files'
  PROVE  ScInv'
<1> USE DEF ScInv
<1> DEFINE left(q) == Without(g_prio[q], gone)
<1>1. /\ g_prio' = [q \in Priority |-> left(q)]
      /\ node' = [n \in Name |-> IF n \in gone THEN NoService ELSE node[n]]
      /\ g_active_cnt' = g_active_cnt - Cardinality({n \in gone : node[n].active})
  BY DEF Drop
<1>2. ASSUME NEW q \in Priority
      PROVE  /\ left(q) \in Seq(Name) /\ Once(left(q))
             /\ \A x : In(x, left(q)) <=> In(x, g_prio[q]) /\ x \notin gone
  <2>1. g_prio[q] \in Seq(Name) /\ Once(g_prio[q])
    BY DEF ScTypes, Shelved
  <2> QED BY <2>1, WithoutFacts
<1> HIDE DEF left
<1>3. /\ g_prio' \in [Priority -> Seq(Name)]
      /\ \A q \in Priority :
           /\ Once(g_prio'[q])
           /\ \A x : In(x, g_prio'[q]) <=> In(x, g_prio[q]) /\ x \notin gone
  BY <1>1, <1>2
<1>4. NoService \in [priority : Priority, owner : ScFile \cup {NoFile}, active : BOOLEAN]
  BY ArbiterAssumption DEF NoService, Priority
<1>5. /\ node' \in [Name -> [priority : Priority, owner : ScFile \cup {NoFile},
                            active : BOOLEAN]]
      /\ \A n \in Name \ gone : node'[n] = node[n]
  BY <1>1, <1>4 DEF ScTypes
<1>6. \A n : node_find(n)' <=> node_find(n) /\ n \notin gone
  BY <1>3, FoundIsIn, FoundIsInNext
<1>7. Shelved'
  BY <1>3, <1>5 DEF Shelved
<1>8. Owned'
  BY <1>5, <1>6 DEF Owned
<1>9. Actives' = Actives \ gone
  BY <1>5, <1>6 DEF Actives
<1>10. {n \in gone : node[n].active} = Actives \cap gone
  BY DEF Actives
<1>11. Cardinality(Actives \ gone) = Cardinality(Actives) - Cardinality(Actives \cap gone)
  BY ActivesCount, FS_Difference
<1>12. g_active_cnt' = Cardinality(Actives)'
  BY <1>1, <1>9, <1>10, <1>11
<1>13. g_active_cnt' \in Int
  <2>1. IsFiniteSet(Actives \ gone)
    BY ActivesCount, FS_Difference
  <2>2. Cardinality(Actives \ gone) \in Nat
    BY <2>1, FS_CardinalityType
  <2> QED BY <1>9, <1>12, <2>2
<1> QED BY <1>3, <1>5, <1>7, <1>8, <1>12, <1>13 DEF ScTypes

\* Every step of the arbiter keeps its invariant.
LEMMA ScSteps == ScInv /\ [ScNext]_scVars => ScInv'
<1> SUFFICES ASSUME ScInv, [ScNext]_scVars PROVE ScInv'
  OBVIOUS
<1>1. CASE UNCHANGED scVars
  BY <1>1, ScStutter
<1>2. CASE ScNext
  <2>1. PICK f \in ScFile :
          \/ Open(f) \/ Suspend(f) \/ Resume(f) \/ ar_sysctl_release(f)
          \/ \E n \in Name : sc_unregister(f, n) \/ EventExit(f, n)
          \/ \E n \in Name, p \in Priority : sc_register(f, n, p)
    BY <1>2 DEF ScNext
  <2>2. CASE Open(f) \/ Suspend(f) \/ Resume(f)
    <3>1. files \subseteq ScFile
      BY DEF ScInv, ScTypes
    <3> QED BY <2>2, <3>1, OthersKeepArbiter DEF Open, Suspend, Resume
  <2>3. CASE ar_sysctl_release(f)
    <3> DEFINE gone == {n \in Name : node_find(n) /\ node[n].owner = f}
    <3>1. Drop(gone) /\ files' = files \ {f}
      BY <2>3 DEF ar_sysctl_release
    <3>2. /\ gone \subseteq Name /\ \A n \in gone : node_find(n)
          /\ files' \subseteq files
          /\ \A n \in Name : node_find(n) /\ n \notin gone => node[n].owner \in files'
      BY <3>1 DEF ScInv, Owned
    <3> HIDE DEF gone
    <3> QED BY <3>1, <3>2, DropKeepsArbiter
  <2>4. ASSUME NEW n \in Name, sc_unregister(f, n) \/ EventExit(f, n)
        PROVE  ScInv'
    <3>1. CASE sc_unregister(f, n)
      BY <3>1, UnregisterKeepsArbiter
    <3>2. CASE EventExit(f, n)
      <4>1. Drop({n}) /\ node_find(n) /\ files' = files
        BY <3>2 DEF EventExit
      <4>2. \A m \in Name : node_find(m) /\ m \notin {n} => node[m].owner \in files'
        BY <4>1 DEF ScInv, Owned
      <4>3. {n} \subseteq Name /\ (\A m \in {n} : node_find(m)) /\ files' \subseteq files
        BY <4>1
      <4> QED BY <4>1, <4>2, <4>3, DropKeepsArbiter
    <3> QED BY <2>4, <3>1, <3>2
  <2>5. ASSUME NEW n \in Name, NEW p \in Priority, sc_register(f, n, p)
        PROVE  ScInv'
    BY <2>5, RegisterKeepsArbiter
  <2> QED BY <2>1, <2>2, <2>3, <2>4, <2>5
<1> QED BY <1>1, <1>2

\* A node is at one place of the bucket of its priority.
LEMMA ScInvSays == ScInv => Bookkept
<1> SUFFICES ASSUME ScInv PROVE Bookkept
  OBVIOUS
<1>1. ASSUME NEW n \in Name, NEW p \in Priority
      PROVE  Cardinality({i \in DOMAIN g_prio[p] : g_prio[p][i] = n})
               = (IF node_find(n) /\ node[n].priority = p THEN 1 ELSE 0)
  <2> DEFINE at == {i \in DOMAIN g_prio[p] : g_prio[p][i] = n}
  <2>1. In(n, g_prio[p]) <=> node_find(n) /\ node[n].priority = p
    BY FoundIsIn DEF ScInv, Shelved
  <2>2. CASE In(n, g_prio[p])
    <3>1. PICK i \in DOMAIN g_prio[p] : g_prio[p][i] = n
      BY <2>2 DEF In
    <3>2. at = {i}
      BY <3>1 DEF ScInv, Shelved, Once
    <3> QED BY <2>1, <2>2, <3>2, FS_Singleton
  <2>3. CASE ~In(n, g_prio[p])
    <3>1. at = {}
      BY <2>3 DEF In
    <3> QED BY <2>1, <2>3, <3>1, FS_EmptySet
  <2> QED BY <2>2, <2>3
<1> QED BY <1>1 DEF Bookkept, ScInv, Owned, Actives

-----------------------------------------------------------------------------
(***************************************************************************)
(* And the time base, first the arithmetic of values that wrap.            *)
(***************************************************************************)

\* A whole number is a multiple and a remainder, also below zero,
LEMMA RemainderFacts ==
  ASSUME NEW w \in Nat \ {0}, NEW x \in Int
  PROVE  \E q \in Int : x = q * w + (x % w) /\ x % w \in 0..(w - 1)
<1>1. x = (x \div w) * w + (x % w)
  OBVIOUS
<1>2. x \div w \in Int
  OBVIOUS
<1>3. x % w \in 0..(w - 1)
  OBVIOUS
<1> QED BY ONLY <1>1, <1>2, <1>3

\* and the remainder is the only one there is,
LEMMA RemainderOnly ==
  ASSUME NEW w \in Nat \ {0}, NEW x \in Int, NEW q \in Int, NEW r \in 0..(w - 1),
         x = q * w + r
  PROVE  x % w = r
<1>1. PICK p \in Int : x = p * w + (x % w) /\ x % w \in 0..(w - 1)
  BY RemainderFacts
<1> DEFINE s == x % w
<1>2. s \in 0..(w - 1) /\ x = p * w + s
  BY ONLY <1>1
<1> HIDE DEF s
<1> DEFINE d == p - q
<1>3. d \in Int /\ d * w = r - s
  <2>1. p * w \in Int /\ q * w \in Int /\ (p - q) * w = p * w - q * w
    BY <1>2
  <2> QED BY <1>2, <2>1
<1> HIDE DEF d
<1>4. d = 0
  <2>1. CASE d >= 1
    <3>1. d * w >= w
      BY <1>3, <2>1
    <3> QED BY <1>2, <1>3, <3>1
  <2>2. CASE d =< -1
    <3>1. d * w =< -w
      BY <1>3, <2>2
    <3> QED BY <1>2, <1>3, <3>1
  <2> QED BY <1>3, <2>1, <2>2
<1>5. s = r
  BY <1>2, <1>3, <1>4
<1> QED BY <1>5 DEF s

\* so that a sum can be reduced on the way.
LEMMA RemainderSum ==
  ASSUME NEW w \in Nat \ {0}, NEW x \in Int, NEW c \in Int
  PROVE  ((x % w) + c) % w = (x + c) % w
<1>1. PICK q \in Int : x = q * w + (x % w) /\ x % w \in 0..(w - 1)
  BY RemainderFacts
<1> DEFINE r == x % w
           t == (r + c) % w
<1>2. r \in 0..(w - 1) /\ x = q * w + r
  BY ONLY <1>1
<1>3. r + c \in Int
  <2> HIDE DEF r
  <2> QED BY <1>2
<1>4. PICK p \in Int : r + c = p * w + t /\ t \in 0..(w - 1)
  <2> HIDE DEF r
  <2> QED BY ONLY <1>3, RemainderFacts, w \in Nat \ {0}
<1> HIDE DEF r, t
<1>5. x + c = (q + p) * w + t
  <2>1. q * w \in Int /\ p * w \in Int /\ (q + p) * w = q * w + p * w
    OBVIOUS
  <2> QED BY <1>2, <1>4, <2>1
<1>6. (x + c) % w = t
  <2>1. x + c \in Int /\ q + p \in Int
    OBVIOUS
  <2> QED BY <1>4, <1>5, <2>1, RemainderOnly
<1> QED BY <1>6 DEF r, t

\* The base was read off the clock, the offset belongs to the raw clock at the
\* anchor, and the last stamp is the greatest.
TbInv ==
  /\ clock \in Nat /\ raw \in Int /\ raw_base \in Int
  /\ local_last \in Nat /\ pts_base_val \in Nat /\ pts_base_pts \in Nat
  /\ pts_base_pts =< local_last
  /\ pts_wall_offset = U64(pts_base_val * Ratio - raw_base)
  /\ pts_last_returned \in Nat
  /\ handed \in [from : Nat, to : Nat]
  /\ handed.to = pts_last_returned /\ handed.from =< handed.to

\* The same of unsigned values that wrap.
LEMMA WrapFacts ==
  /\ \A x \in Int : U64(x) \in Nat
  /\ \A x, c \in Int : U64(U64(x) + c) = U64(x + c)
<1> USE TimeAssumption
<1>1. ASSUME NEW x \in Int PROVE U64(x) \in Nat
  <2>1. PICK q \in Int : x = q * Wrap + (x % Wrap) /\ x % Wrap \in 0..(Wrap - 1)
    BY RemainderFacts
  <2> DEFINE r == x % Wrap
  <2>2. r \in 0..(Wrap - 1)
    BY ONLY <2>1
  <2> HIDE DEF r
  <2>3. r \in Nat
    BY <2>2
  <2> QED BY <2>3 DEF r, U64
<1>2. \A x, c \in Int : U64(U64(x) + c) = U64(x + c)
  BY RemainderSum DEF U64
<1> QED BY <1>1, <1>2

\* Everything is zero at the start.
LEMMA TbStarts == TbInit => TbInv
<1> SUFFICES ASSUME TbInit PROVE TbInv
  OBVIOUS
<1>1. 0 * Ratio - 0 = 0
  BY TimeAssumption
<1>2. U64(0) = 0
  <2>1. 0 = 0 * Wrap + 0 /\ 0 \in 0..(Wrap - 1)
    BY TimeAssumption
  <2> QED BY <2>1, TimeAssumption, RemainderOnly DEF U64
<1> QED BY <1>1, <1>2 DEF TbInit, TbInv

\* The invariant of the time base is about its own variables only.
LEMMA TbStutter == TbInv /\ UNCHANGED tbVars => TbInv'
BY DEF TbInv, tbVars, U64

\* The monotonic clock is never behind where it was last read.
LEMMA ClockIsLater ==
  ASSUME TbInv
  PROVE  get_local_cur_pts \in Nat /\ local_last =< get_local_cur_pts
BY DEF TbInv, get_local_cur_pts, Later

\* Time passing, an anchor and a stamp keep the invariant of the time base.
LEMMA TbSteps == TbInv /\ [TbNext]_tbVars => TbInv'
<1> SUFFICES ASSUME TbInv, [TbNext]_tbVars PROVE TbInv'
  OBVIOUS
<1>1. CASE UNCHANGED tbVars
  BY <1>1, TbStutter
<1>2. ASSUME NEW s \in Steps, Elapse(s) PROVE TbInv'
  BY <1>2, TimeAssumption DEF Elapse, TbInv, U64
<1>3. ASSUME NEW b \in Bases, Anchor(b) PROVE TbInv'
  <2>1. b \in Nat
    BY TimeAssumption
  <2> QED BY <1>3, <2>1, ClockIsLater DEF Anchor, TbInv, U64
<1>4. CASE GetCurPts
  <2> DEFINE pts == U64(U64(pts_base_val - pts_base_pts) + get_local_cur_pts)
             h == [from |-> handed.to, to |-> Later(pts_last_returned, pts)]
  <2>1. pts \in Nat
    <3>1. pts_base_val - pts_base_pts \in Int /\ get_local_cur_pts \in Nat
      BY ClockIsLater DEF TbInv
    <3>2. U64(pts_base_val - pts_base_pts) \in Nat
      BY <3>1, WrapFacts
    <3>3. U64(pts_base_val - pts_base_pts) + get_local_cur_pts \in Int
      BY <3>1, <3>2
    <3> QED BY <3>3, WrapFacts
  <2>2. /\ local_last' = get_local_cur_pts
        /\ pts_last_returned' = Later(pts_last_returned, pts)
        /\ handed' = h
        /\ UNCHANGED <<clock, raw, pts_base_val, pts_base_pts, pts_wall_offset, raw_base>>
    BY <1>4 DEF GetCurPts
  <2> HIDE DEF pts
  <2>3. /\ Later(pts_last_returned, pts) \in Nat
        /\ pts_last_returned =< Later(pts_last_returned, pts)
    BY <2>1 DEF TbInv, Later
  <2>4. /\ h \in [from : Nat, to : Nat]
        /\ h.to = Later(pts_last_returned, pts) /\ h.from =< h.to
    BY <2>3 DEF TbInv
  <2> HIDE DEF h
  <2>5. pts_base_pts =< get_local_cur_pts
    BY ClockIsLater DEF TbInv
  <2> QED BY <2>2, <2>3, <2>4, <2>5, ClockIsLater DEF TbInv, U64
<1> QED BY <1>1, <1>2, <1>3, <1>4 DEF TbNext

\* The base is not after the clock, and the offset cancels the raw clock.
LEMMA TbInvSays == TbInv => StampsForward
<1> SUFFICES ASSUME TbInv PROVE StampsForward
  OBVIOUS
<1> DEFINE since == get_local_cur_pts - pts_base_pts
           ns == pts_base_val * Ratio - raw_base
<1>1. since \in Nat
  BY ClockIsLater DEF TbInv
<1>2. U64(U64(pts_base_val - pts_base_pts) + get_local_cur_pts) = U64(pts_base_val + since)
  <2>1. (pts_base_val - pts_base_pts) + get_local_cur_pts = pts_base_val + since
    BY ClockIsLater DEF TbInv
  <2>2. pts_base_val - pts_base_pts \in Int /\ get_local_cur_pts \in Int
    BY ClockIsLater DEF TbInv
  <2> QED BY <2>1, <2>2, WrapFacts
<1>3. U64(raw + pts_wall_offset) = U64(pts_base_val * Ratio + raw - raw_base)
  <2>1. ns \in Int /\ raw \in Int
    BY TimeAssumption DEF TbInv
  <2>2. pts_wall_offset = U64(ns)
    BY DEF TbInv
  <2>3. ns + raw = pts_base_val * Ratio + raw - raw_base
    BY TimeAssumption DEF TbInv
  <2> HIDE DEF ns
  <2>4. U64(ns) \in Nat /\ U64(U64(ns) + raw) = U64(ns + raw)
    BY <2>1, WrapFacts
  <2>5. raw + pts_wall_offset = U64(ns) + raw
    BY <2>1, <2>2, <2>4
  <2> QED BY <2>3, <2>4, <2>5
<1>4. since >= 0
  BY <1>1
<1>5. handed.from =< handed.to
  BY DEF TbInv
<1> QED BY <1>2, <1>3, <1>4, <1>5 DEF StampsForward

-----------------------------------------------------------------------------

SvcInv == UmInv /\ ScInv /\ TbInv

\* ServicesHonest holds with any number of files of /proc/umap and of threads of
\* which one listens for messages, any services, priorities and descriptors, and
\* any clock, when CLOSE comes with no ioctl on the entry: no write is lost or told
\* twice (ar_mpp_proc_ctrl.c), the services are counted (ar_sysctl.c), and time
\* stamps do not go back (ar_sys.c).
THEOREM ServicesAreHonest ==
  ASSUME OneListener, ~CloseInFlight
  PROVE  SvcSpec => []ServicesHonest
<1>1. SvcInit => SvcInv
  BY UmStarts, ScStarts, TbStarts DEF SvcInit, SvcInv
<1>2. SvcInv /\ [SvcNext]_svcVars => SvcInv'
  <2> SUFFICES ASSUME SvcInv, [SvcNext]_svcVars PROVE SvcInv'
    OBVIOUS
  <2> USE DEF SvcInv
  <2>1. UmInv'
    BY UmSteps, UmStutter DEF SvcNext, svcVars
  <2>2. ScInv'
    BY ScSteps, ScStutter DEF SvcNext, svcVars
  <2>3. TbInv'
    BY TbSteps, TbStutter DEF SvcNext, svcVars
  <2> QED BY <2>1, <2>2, <2>3
<1>3. SvcInv => ServicesHonest
  BY UmInvSays, ScInvSays, TbInvSays DEF SvcInv, ServicesHonest
<1> QED BY <1>1, <1>2, <1>3, PTL DEF SvcSpec
=============================================================================
