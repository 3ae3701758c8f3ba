--------------------------- MODULE SdioCmdRxProofs ---------------------------
(***************************************************************************)
(* For any readers, frames and limits: the state keeps its types, and the  *)
(* backlog of command frames is bounded by the limit and one frame for     *)
(* each reader; and one reader is given its frames in order.               *)
(***************************************************************************)
EXTENDS SdioCmdRx, SequenceTheorems, FiniteSetTheorems, TLAPS

-----------------------------------------------------------------------------
(* Sequences and sets                                                      *)

\* A thread holds at most one frame.
LEMMA OneOrNone ==
    ASSUME NEW S, NEW s \in Seq(S), Len(s) <= 1, s # <<>>
    PROVE  s[1] \in S /\ s = <<s[1]>>
<1>1. Len(s) = 1 /\ s[1] \in S
  <2>1. Len(s) \in Nat /\ s \in [1..Len(s) -> S]
    OBVIOUS
  <2>2. Len(s) # 0
    BY EmptySeq
  <2>3. Len(s) = 1
    BY <2>1, <2>2
  <2> QED BY <2>1, <2>3
<1>2. <<s[1]>> \in Seq(S) /\ Len(<<s[1]>>) = 1 /\ <<s[1]>>[1] = s[1]
  BY <1>1
<1>3. \A i \in 1..Len(s) : s[i] = <<s[1]>>[i]
  BY <1>1, <1>2
<1> QED BY <1>1, <1>2, <1>3, SeqEqual

LEMMA SingleSeq == ASSUME NEW S, NEW x \in S PROVE <<x>> \in Seq(S) /\ Len(<<x>>) = 1
  OBVIOUS

\* What read() returns and what it puts back, for a frame in the hand of r.
LEMMA CopyTypes ==
    ASSUME NEW s \in Skb, NEW k \in s[2]..Parts
    PROVE  /\ Rest(s, k) \in Seq(Skb) /\ Len(Rest(s, k)) <= 1
           /\ Returned(s, k) \in Seq((1..Frames) \X (1..Parts))
<1>1. s[1] \in 1..Frames /\ s[2] \in 0..Parts - 1 /\ Parts \in Nat \ {0}
  BY BoundAssumption DEF Skb
<1>2. Rest(s, k) \in Seq(Skb) /\ Len(Rest(s, k)) <= 1
  <2>1. CASE k = Parts
    BY <2>1 DEF Rest
  <2>2. CASE k # Parts
    <3>1. <<s[1], k>> \in Skb
      BY <1>1, <2>2 DEF Skb
    <3> QED BY <2>2, <3>1, SingleSeq DEF Rest
  <2> QED BY <2>1, <2>2
<1>3. Returned(s, k) \in Seq((1..Frames) \X (1..Parts))
  <2>1. k - s[2] \in Nat
    BY <1>1
  <2>2. \A i \in 1..k - s[2] : <<s[1], s[2] + i>> \in (1..Frames) \X (1..Parts)
    BY <1>1
  <2>3. Returned(s, k) \in [1..k - s[2] -> (1..Frames) \X (1..Parts)]
    BY <2>2 DEF Returned
  <2> QED BY <2>1, <2>3, SeqDef
<1> QED BY <1>2, <1>3

LEMMA ReadersFinite ==
    /\ Cardinality(Reader) \in Nat
    /\ \A S \in SUBSET Reader : IsFiniteSet(S) /\ Cardinality(S) \in 0..Cardinality(Reader)
<1>1. IsFiniteSet(Reader) /\ Cardinality(Reader) \in Nat
  BY ReaderAssumption, FS_CardinalityType
<1>2. ASSUME NEW S \in SUBSET Reader
      PROVE  IsFiniteSet(S) /\ Cardinality(S) \in 0..Cardinality(Reader)
  <2>1. IsFiniteSet(S) /\ Cardinality(S) <= Cardinality(Reader)
    BY <1>1, FS_Subset
  <2>2. Cardinality(S) \in Nat
    BY <2>1, FS_CardinalityType
  <2> QED BY <1>1, <2>1, <2>2
<1> QED BY <1>1, <1>2

LEMMA OneMore ==
    ASSUME NEW S \in SUBSET Reader, NEW r \in Reader, r \notin S
    PROVE  Cardinality(S \cup {r}) = Cardinality(S) + 1
  BY ReadersFinite, FS_AddElement

-----------------------------------------------------------------------------
(* The open descriptors are counted                                        *)

IsOpen == {r \in Reader : at[r] # "closed"}

LEMMA OpenSame ==
    ASSUME TypeOK, NEW r \in Reader, NEW a, NEW b, Goto(r, a, b),
           a # "closed", b # "closed"
    PROVE  IsOpen' = IsOpen
  BY DEF TypeOK, Goto, IsOpen

LEMMA CountedSame ==
    ASSUME Counted, IsOpen' = IsOpen, UNCHANGED cmd_readers
    PROVE  Counted'
  BY DEF Counted, IsOpen

LEMMA CountedReader ==
    ASSUME TypeOK, Counted, NEW r \in Reader
    PROVE  /\ Open(r) \/ Close(r) \/ ReadEnter(r) \/ WaitSignal(r) => Counted'
           /\ Reading(r) \/ PollEnter(r) \/ PollTimeout(r) \/ Polling(r) => Counted'
<1>1. IsOpen \in SUBSET Reader /\ cmd_readers = Cardinality(IsOpen)
  BY DEF IsOpen, Counted
<1>2. IsFiniteSet(IsOpen) /\ Cardinality(IsOpen) \in Nat
  BY <1>1, ReadersFinite
<1>3. CASE Open(r)
  <2>1. r \notin IsOpen /\ IsOpen' = IsOpen \cup {r} /\ cmd_readers' = cmd_readers + 1
    BY <1>3 DEF Open, Goto, IsOpen, TypeOK
  <2>2. cmd_readers' = Cardinality(IsOpen')
    BY <1>1, <2>1, OneMore
  <2> QED BY <2>2 DEF Counted, IsOpen
<1>4. CASE Close(r)
  <2>1. r \in IsOpen /\ IsOpen' = IsOpen \ {r} /\ cmd_readers' = cmd_readers - 1
    BY <1>4 DEF Close, Goto, IsOpen, TypeOK
  <2>2. Cardinality(IsOpen \ {r}) = Cardinality(IsOpen) - 1
    BY <1>2, <2>1, FS_RemoveElement
  <2>3. cmd_readers' = Cardinality(IsOpen')
    BY <1>1, <2>1, <2>2
  <2> QED BY <2>3 DEF Counted, IsOpen
<1>5. ReadEnter(r) => Counted'
  BY OpenSame, CountedSame DEF ReadEnter
<1>6. WaitCheck(r) => Counted'
  <2> SUFFICES ASSUME WaitCheck(r) PROVE Counted'
    OBVIOUS
  <2>1. IsOpen' = IsOpen /\ UNCHANGED cmd_readers
    BY OpenSame DEF WaitCheck
  <2> QED BY <2>1, CountedSame
<1>7. WaitAgain(r) \/ WaitSignal(r) \/ ReadTake(r) \/ ReadCopy(r) => Counted'
  BY OpenSame, CountedSame DEF WaitAgain, WaitSignal, ReadTake, ReadCopy
<1>8. PollCheck(r) => Counted'
  <2> SUFFICES ASSUME PollCheck(r) PROVE Counted'
    OBVIOUS
  <2>1. IsOpen' = IsOpen /\ UNCHANGED cmd_readers
    BY OpenSame DEF PollCheck
  <2> QED BY <2>1, CountedSame
<1>9. PollEnter(r) \/ PollTimeout(r) \/ PollPump(r) \/ PollAgain(r) => Counted'
  BY OpenSame, CountedSame DEF PollEnter, PollTimeout, PollPump, PollAgain, Fetch
<1> QED
  BY <1>3, <1>4, <1>5, <1>6, <1>7, <1>8, <1>9 DEF Reading, Polling

LEMMA CountedStep == TypeOK /\ Counted /\ [Next]_vars => Counted'
<1> SUFFICES ASSUME TypeOK, Counted, [Next]_vars PROVE Counted'
  OBVIOUS
<1>1. CASE \/ ChipSend \/ WriteCmd \/ SendCmd \/ IrqEnter \/ Dispatch \/ Room
           \/ DropOldest \/ QueueFrame \/ WakeReaders \/ UNCHANGED vars
  <2>1. UNCHANGED <<at, cmd_readers>>
    BY <1>1 DEF ChipSend, WriteCmd, SendCmd, IrqEnter, Fetch, Dispatch, Room, DropOldest,
                QueueFrame, WakeReaders, threads, vars
  <2> QED BY <2>1 DEF Counted
<1>2. CASE Leave
  <2>1. IsOpen' = IsOpen /\ UNCHANGED cmd_readers
    BY <1>2 DEF Leave, IsOpen, TypeOK
  <2> QED BY <2>1, CountedSame
<1> QED
  BY <1>1, <1>2, CountedReader DEF Next, Handler

-----------------------------------------------------------------------------
(* A thread holds a frame exactly while it copies it                       *)

LEMMA HandsSame ==
    ASSUME TypeOK, Hands, NEW r \in Reader, NEW a, NEW b, Goto(r, a, b),
           a # "copy", b # "copy", UNCHANGED hand
    PROVE  Hands'
  BY DEF TypeOK, Hands, Goto

LEMMA HandsReader ==
    ASSUME TypeOK, Hands, NEW r \in Reader
    PROVE  /\ Open(r) \/ Close(r) \/ ReadEnter(r) \/ WaitSignal(r) => Hands'
           /\ Reading(r) \/ PollEnter(r) \/ PollTimeout(r) \/ Polling(r) => Hands'
<1>1. Open(r) \/ Close(r) \/ ReadEnter(r) \/ WaitSignal(r) \/ WaitAgain(r) => Hands'
  BY HandsSame DEF Open, Close, ReadEnter, WaitSignal, WaitAgain
<1>2. WaitCheck(r) => Hands'
  BY HandsSame DEF WaitCheck
<1>3. CASE ReadTake(r)
  <2>1. CASE Goto(r, "take", "copy") /\ hand' = [hand EXCEPT ![r] = <<Head(cmd_rxq)>>]
    <3>1. hand' = [q \in Reader |-> IF q = r THEN <<Head(cmd_rxq)>> ELSE hand[q]]
      BY <2>1 DEF TypeOK
    <3>2. at' = [q \in Reader |-> IF q = r THEN "copy" ELSE at[q]]
      BY <2>1 DEF Goto, TypeOK
    <3>3. <<Head(cmd_rxq)>> # <<>>
      OBVIOUS
    <3> QED BY <3>1, <3>2, <3>3 DEF Hands
  <2>2. CASE Goto(r, "take", "idle") /\ UNCHANGED hand
    BY <2>2, HandsSame
  <2> QED BY <1>3, <2>1, <2>2 DEF ReadTake
<1>4. CASE ReadCopy(r)
  <2>1. hand' = [q \in Reader |-> IF q = r THEN <<>> ELSE hand[q]]
    BY <1>4 DEF ReadCopy, TypeOK
  <2>2. at' = [q \in Reader |-> IF q = r THEN "idle" ELSE at[q]]
    BY <1>4 DEF ReadCopy, Goto, TypeOK
  <2> QED BY <2>1, <2>2 DEF Hands
<1>5. PollCheck(r) => Hands'
  BY HandsSame DEF PollCheck
<1>6. PollEnter(r) \/ PollTimeout(r) \/ PollPump(r) \/ PollAgain(r) => Hands'
  BY HandsSame DEF PollEnter, PollTimeout, PollPump, PollAgain, Fetch
<1> QED BY <1>1, <1>2, <1>3, <1>4, <1>5, <1>6 DEF Reading, Polling

LEMMA HandsStep == TypeOK /\ Hands /\ [Next]_vars => Hands'
<1> SUFFICES ASSUME TypeOK, Hands, [Next]_vars PROVE Hands'
  OBVIOUS
<1>1. CASE \/ ChipSend \/ WriteCmd \/ SendCmd \/ IrqEnter \/ Dispatch \/ Room
           \/ DropOldest \/ QueueFrame \/ WakeReaders \/ UNCHANGED vars
  <2>1. UNCHANGED <<at, hand>>
    BY <1>1 DEF ChipSend, WriteCmd, SendCmd, IrqEnter, Fetch, Dispatch, Room, DropOldest,
                QueueFrame, WakeReaders, threads, vars
  <2> QED BY <2>1 DEF Hands
<1>2. CASE Leave
  BY <1>2 DEF Leave, Hands, TypeOK
<1> QED
  BY <1>1, <1>2, HandsReader DEF Next, Handler

-----------------------------------------------------------------------------
(* The backlog                                                             *)

LEMMA HeldCount == Held \in SUBSET Reader /\ Cardinality(Held) \in 0..Cardinality(Reader)
  BY ReadersFinite DEF Held

\* A step that changes neither the queue nor the hands, and goes nowhere that
\* promises more.
LEMMA LimitedSame ==
    ASSUME Limited, UNCHANGED <<cmd_rxq, hand>>,
           \/ UNCHANGED <<pc, batch>>
           \/ pc' \notin {"room", "drop", "queue"}
    PROVE  Limited'
<1>1. Held' = Held
  BY DEF Held
<1> QED BY <1>1 DEF Limited, BacklogBounded

LEMMA LimitedHandler == IInv /\ (IrqEnter \/ Handler) => Limited'
<1> SUFFICES ASSUME IInv, IrqEnter \/ Handler PROVE Limited'
  OBVIOUS
<1> DEFINE N == Cardinality(Reader)
<1> DEFINE H == Cardinality(Held)
<1>1. /\ Len(cmd_rxq) \in Nat /\ N \in Nat /\ H \in 0..N
      /\ CapReader \in Nat \ {0} /\ cap \in Nat /\ cap <= CapReader
      /\ Len(cmd_rxq) + H <= CapReader + N
  BY HeldCount, ReadersFinite, CapAssumption, LenProperties
     DEF IInv, TypeOK, Limited, BacklogBounded
<1>2. Held' = Held /\ hand' = hand
  BY DEF Held, IrqEnter, Fetch, Handler, Dispatch, Room, DropOldest, QueueFrame, WakeReaders,
         Leave, threads
<1>3. CASE IrqEnter \/ WakeReaders \/ Leave
  BY <1>2, <1>3, LimitedSame DEF IrqEnter, Fetch, WakeReaders, Leave, IInv
<1>4. CASE Dispatch
  <2>1. batch' # <<>> /\ pc' = "room" /\ cmd_rxq' = cmd_rxq
    BY <1>4 DEF Dispatch
  <2> QED BY <1>2, <2>1 DEF Limited, BacklogBounded, IInv
<1>5. CASE Room
  <2>1. batch' = batch /\ batch # <<>> /\ cmd_rxq' = cmd_rxq
    BY <1>5 DEF Room, IInv, Limited
  <2>2. pc' = "queue" => Len(cmd_rxq) < cap
    BY <1>1, <1>5 DEF Room
  <2>3. pc' = "queue" => Len(cmd_rxq) + H <= CapReader + N - 1
    BY <1>1, <2>2
  <2> QED BY <1>2, <2>1, <2>3 DEF Limited, BacklogBounded, IInv
<1>6. CASE DropOldest
  <2>1. batch' = batch /\ batch # <<>>
    BY <1>6 DEF DropOldest, IInv, Limited
  <2>2. CASE cmd_rxq = <<>>
    <3>1. cmd_rxq' = cmd_rxq /\ Len(cmd_rxq) = 0
      BY <1>6, <2>2 DEF DropOldest
    <3>2. Len(cmd_rxq) + H <= CapReader + N - 1
      BY <1>1, <3>1
    <3> QED BY <1>2, <2>1, <3>1, <3>2 DEF Limited, BacklogBounded, IInv
  <2>3. CASE cmd_rxq # <<>>
    <3>1. cmd_rxq' = Tail(cmd_rxq) /\ pc' = "room"
      BY <1>6, <2>3 DEF DropOldest
    <3>2. Len(cmd_rxq') = Len(cmd_rxq) - 1
      BY <2>3, <3>1, HeadTailProperties DEF IInv, TypeOK
    <3>3. Len(cmd_rxq') + H <= CapReader + N
      BY <1>1, <3>2
    <3> QED BY <1>2, <2>1, <3>1, <3>3 DEF Limited, BacklogBounded
  <2> QED BY <2>2, <2>3
<1>7. CASE QueueFrame
  <2>1. pc' \notin {"room", "drop", "queue"}
    BY <1>7 DEF QueueFrame
  <2>2. CASE cmd_rxq' = cmd_rxq
    BY <1>2, <2>1, <2>2, LimitedSame DEF IInv
  <2>3. CASE cmd_rxq' = Append(cmd_rxq, <<Head(batch), 0>>)
    <3>1. Len(cmd_rxq') = Len(cmd_rxq) + 1
      BY <2>3 DEF IInv, TypeOK
    <3>2. Len(cmd_rxq) + H <= CapReader + N - 1
      BY <1>7 DEF QueueFrame, IInv, Limited
    <3>3. Len(cmd_rxq') + H <= CapReader + N
      BY <1>1, <3>1, <3>2
    <3> QED BY <1>2, <2>1, <3>3 DEF Limited, BacklogBounded
  <2> QED BY <1>7, <2>2, <2>3 DEF QueueFrame
<1> QED BY <1>3, <1>4, <1>5, <1>6, <1>7 DEF Handler

\* What leaves the queue is in the reader's hand, and comes back at most once.
LEMMA LimitedReader ==
    ASSUME IInv, NEW r \in Reader
    PROVE  /\ Open(r) \/ Close(r) \/ ReadEnter(r) \/ WaitSignal(r) => Limited'
           /\ Reading(r) \/ PollEnter(r) \/ PollTimeout(r) \/ Polling(r) => Limited'
<1> DEFINE N == Cardinality(Reader)
<1> DEFINE H == Cardinality(Held)
<1>1. /\ Len(cmd_rxq) \in Nat /\ N \in Nat /\ H \in 0..N
      /\ IsFiniteSet(Held) /\ CapReader \in Nat
  BY HeldCount, ReadersFinite, CapAssumption, LenProperties DEF IInv, TypeOK
<1>2. /\ Len(cmd_rxq) + H <= CapReader + N
      /\ pc = "queue" => Len(cmd_rxq) + H <= CapReader + N - 1
  BY DEF IInv, Limited, BacklogBounded
<1>3. (\/ Open(r) \/ Close(r) \/ ReadEnter(r) \/ WaitSignal(r) \/ WaitCheck(r)
       \/ WaitAgain(r) \/ PollEnter(r) \/ PollCheck(r) \/ PollTimeout(r) \/ PollAgain(r)
       \/ PollPump(r)) => Limited'
  BY LimitedSame DEF Open, Close, ReadEnter, WaitSignal, WaitCheck, WaitAgain, PollEnter,
         PollCheck, PollTimeout, PollAgain, PollPump, Fetch, handler, IInv
<1>4. ASSUME ReadTake(r) \/ ReadCopy(r),
             Len(cmd_rxq') + Cardinality(Held') <= Len(cmd_rxq) + H,
             Len(cmd_rxq') \in Nat, Cardinality(Held') \in Nat
      PROVE  Limited'
  <2>1. UNCHANGED <<pc, batch>>
    BY <1>4 DEF ReadTake, ReadCopy, handler
  <2>2. /\ Len(cmd_rxq') + Cardinality(Held') <= CapReader + N
        /\ pc = "queue" => Len(cmd_rxq') + Cardinality(Held') <= CapReader + N - 1
    BY <1>1, <1>2, <1>4
  <2> QED BY <2>1, <2>2 DEF IInv, Limited, BacklogBounded
<1>5. ASSUME ReadTake(r) PROVE Limited'
  <2>1. CASE cmd_rxq = <<>>
    BY <1>5, <2>1, LimitedSame DEF ReadTake, handler, IInv
  <2>2. CASE cmd_rxq # <<>>
    <3>1. /\ at[r] = "take" /\ cmd_rxq' = Tail(cmd_rxq)
          /\ hand' = [hand EXCEPT ![r] = <<Head(cmd_rxq)>>]
      BY <1>5, <2>2 DEF ReadTake, Goto
    <3>2. r \notin Held
      BY <3>1 DEF IInv, Hands, Held
    <3>3. <<Head(cmd_rxq)>> # <<>>
      OBVIOUS
    <3>4. Held' = Held \cup {r}
      BY <3>1, <3>3 DEF IInv, TypeOK, Held
    <3>5. Cardinality(Held') = H + 1
      BY <3>2, <3>4, HeldCount, OneMore
    <3>6. Len(cmd_rxq') = Len(cmd_rxq) - 1 /\ Len(cmd_rxq') \in Nat
      BY <2>2, <3>1, HeadTailProperties, LenProperties DEF IInv, TypeOK
    <3>7. Len(cmd_rxq') + Cardinality(Held') <= Len(cmd_rxq) + H
      BY <1>1, <3>5, <3>6
    <3> QED BY <1>1, <1>4, <1>5, <3>5, <3>6, <3>7
  <2> QED BY <2>1, <2>2
<1>6. ASSUME ReadCopy(r) PROVE Limited'
  <2>1. at[r] = "copy" /\ hand' = [hand EXCEPT ![r] = <<>>]
    BY <1>6 DEF ReadCopy, Goto
  <2>2. r \in Held /\ hand[r] \in Seq(Skb) /\ Len(hand[r]) <= 1 /\ hand[r] # <<>>
    BY <2>1 DEF IInv, Hands, Held, TypeOK
  <2>3. hand[r][1] \in Skb
    BY <2>2, OneOrNone
  <2>4. Held' = Held \ {r}
    BY <2>1 DEF IInv, TypeOK, Held
  <2>5. Cardinality(Held') = H - 1 /\ Cardinality(Held') \in Nat
    BY <1>1, <2>2, <2>4, FS_RemoveElement, FS_CardinalityType
  <2>6. PICK k \in hand[r][1][2]..Parts : cmd_rxq' = Rest(hand[r][1], k) \o cmd_rxq
    BY <1>6 DEF ReadCopy
  <2>7. Rest(hand[r][1], k) \in Seq(Skb) /\ Len(Rest(hand[r][1], k)) <= 1
    BY <2>3, CopyTypes
  <2>8. Len(cmd_rxq') = Len(Rest(hand[r][1], k)) + Len(cmd_rxq)
    BY <2>6, <2>7, ConcatProperties DEF IInv, TypeOK
  <2>9. Len(Rest(hand[r][1], k)) \in Nat
    BY <2>7, LenProperties
  <2>10. Len(cmd_rxq') + Cardinality(Held') <= Len(cmd_rxq) + H /\ Len(cmd_rxq') \in Nat
    BY <1>1, <2>5, <2>7, <2>8, <2>9
  <2>11. ReadTake(r) \/ ReadCopy(r)
    BY <1>6
  <2> QED BY <1>4, <2>5, <2>10, <2>11
<1> QED BY <1>3, <1>5, <1>6 DEF Reading, Polling

LEMMA LimitedStep == IInv /\ [Next]_vars => Limited'
<1> SUFFICES ASSUME IInv, [Next]_vars PROVE Limited'
  OBVIOUS
<1>1. CASE ChipSend \/ WriteCmd \/ SendCmd \/ UNCHANGED vars
  BY <1>1, LimitedSame DEF ChipSend, WriteCmd, SendCmd, handler, threads, vars, IInv
<1> QED BY <1>1, LimitedHandler, LimitedReader DEF Next

-----------------------------------------------------------------------------
(* Types                                                                   *)

LEMMA TypesChip == TypeOK /\ (ChipSend \/ WriteCmd \/ SendCmd \/ UNCHANGED vars) => TypeOK'
<1> SUFFICES ASSUME TypeOK, ChipSend \/ WriteCmd \/ SendCmd \/ UNCHANGED vars PROVE TypeOK'
  OBVIOUS
<1>1. CASE ChipSend
  <2>1. sent + 1 \in 1..Frames
    BY <1>1, BoundAssumption DEF ChipSend, TypeOK
  <2>2. fifo' \in Seq(1..Frames)
    BY <1>1, <2>1, AppendProperties DEF ChipSend, TypeOK
  <2> QED BY <1>1, <2>1, <2>2 DEF ChipSend, TypeOK, handler, threads
<1>2. CASE WriteCmd \/ SendCmd
  BY <1>2 DEF WriteCmd, SendCmd, TypeOK, chip, handler, threads
<1>3. CASE UNCHANGED vars
  BY <1>3 DEF TypeOK, vars
<1> QED BY <1>1, <1>2, <1>3

\* The types of what the handler works on.
LEMMA TypesFetch ==
    ASSUME TypeOK, Fetch
    PROVE  /\ fifo' \in Seq(1..Frames) /\ batch' \in Seq(1..Frames) /\ pc' = "recv"
           /\ UNCHANGED <<sent, cap, cmd_rxq, cmd_readers, cmd_busy, woken, hand, got>>
  BY EmptySeq DEF Fetch, TypeOK

LEMMA TypesHandler == TypeOK /\ Limited /\ (IrqEnter \/ Handler) => TypeOK'
<1> SUFFICES ASSUME TypeOK, Limited, IrqEnter \/ Handler PROVE TypeOK'
  OBVIOUS
<1> USE DEF chip, threads
<1>1. CASE IrqEnter
  <2>1. Fetch /\ UNCHANGED <<pump, at>>
    BY <1>1 DEF IrqEnter
  <2> QED BY <2>1, TypesFetch DEF TypeOK
<1>2. CASE Dispatch \/ Room \/ WakeReaders
  BY <1>2 DEF Dispatch, Room, WakeReaders, TypeOK
<1>3. CASE DropOldest
  <2>1. cmd_rxq \in Seq(Skb)
    BY DEF TypeOK
  <2>2. cmd_rxq # <<>> => Tail(cmd_rxq) \in Seq(Skb)
    BY <2>1, HeadTailProperties
  <2>3. /\ cmd_rxq' = cmd_rxq \/ (cmd_rxq # <<>> /\ cmd_rxq' = Tail(cmd_rxq))
        /\ pc' \in {"queue", "room"}
        /\ UNCHANGED <<chip, pump, batch, cap, cmd_readers, cmd_busy, woken, threads>>
    BY <1>3 DEF DropOldest
  <2>4. cmd_rxq' \in Seq(Skb)
    BY <2>1, <2>2, <2>3
  <2> QED BY <2>3, <2>4 DEF TypeOK
<1>4. CASE QueueFrame
  <2>1. batch \in Seq(1..Frames) /\ batch # <<>> /\ cmd_rxq \in Seq(Skb)
    BY <1>4 DEF QueueFrame, Limited, TypeOK
  <2>2. Head(batch) \in 1..Frames /\ Tail(batch) \in Seq(1..Frames)
    BY <2>1, HeadTailProperties
  <2>3. <<Head(batch), 0>> \in Skb
    BY <2>2, BoundAssumption DEF Skb
  <2>4. Append(cmd_rxq, <<Head(batch), 0>>) \in Seq(Skb)
    BY <2>1, <2>3, AppendProperties
  <2>5. cmd_rxq' \in Seq(Skb) /\ batch' \in Seq(1..Frames) /\ pc' \in {"wake", "recv"}
    BY <1>4, <2>1, <2>2, <2>4 DEF QueueFrame
  <2> QED BY <1>4, <2>5 DEF QueueFrame, TypeOK
<1>5. CASE Leave
  <2>1. at' \in [Reader -> Places]
    BY <1>5 DEF Leave, TypeOK, Places
  <2>2. pump' \in Seq(Reader) /\ Len(pump') <= 1
    BY <1>5, EmptySeq DEF Leave
  <2> QED BY <1>5, <2>1, <2>2 DEF Leave, TypeOK
<1> QED BY <1>1, <1>2, <1>3, <1>4, <1>5 DEF Handler

LEMMA TypesReader ==
    ASSUME IInv, NEW r \in Reader, cmd_readers' \in 0..Cardinality(Reader)
    PROVE  /\ Open(r) \/ Close(r) \/ ReadEnter(r) \/ WaitSignal(r) => TypeOK'
           /\ Reading(r) \/ PollEnter(r) \/ PollTimeout(r) \/ Polling(r) => TypeOK'
<1> USE DEF chip, handler, Register
<1>0. TypeOK /\ Hands
  BY DEF IInv
<1>1. ASSUME NEW a, NEW b \in Places, Goto(r, a, b) PROVE at' \in [Reader -> Places]
  BY <1>0, <1>1 DEF Goto, TypeOK
<1>2. ASSUME NEW a, NEW b \in Places, Goto(r, a, b), woken' \subseteq Reader,
             UNCHANGED <<chip, handler, cmd_rxq, cmd_busy, hand, got>>
      PROVE  TypeOK'
  BY <1>0, <1>1, <1>2 DEF TypeOK
<1>3. CASE \/ Open(r) \/ Close(r) \/ WaitSignal(r) \/ WaitAgain(r) \/ PollEnter(r)
           \/ PollAgain(r) \/ PollTimeout(r)
  BY <1>0, <1>2, <1>3 DEF Open, Close, WaitSignal, WaitAgain, PollEnter, PollAgain,
                    PollTimeout, Places, TypeOK
<1>4. CASE ReadEnter(r)
  BY <1>0, <1>2, <1>4 DEF ReadEnter, Places, TypeOK
<1>5. CASE WaitCheck(r)
  BY <1>0, <1>2, <1>5 DEF WaitCheck, Places, TypeOK
<1>6. CASE PollCheck(r)
  BY <1>0, <1>2, <1>6 DEF PollCheck, Places, TypeOK
<1>7. CASE PollPump(r)
  <2>1. at' \in [Reader -> Places]
    BY <1>1, <1>7 DEF PollPump, Places
  <2>2. pump' \in Seq(Reader) /\ Len(pump') <= 1
    BY <1>7, SingleSeq DEF PollPump
  <2>3. Fetch
    BY <1>7 DEF PollPump
  <2> QED BY <1>0, <2>1, <2>2, <2>3, TypesFetch DEF TypeOK
<1>8. CASE ReadTake(r)
  <2>1. at' \in [Reader -> Places]
    BY <1>1, <1>8 DEF ReadTake, Places
  <2>2. CASE cmd_rxq = <<>>
    BY <1>0, <1>8, <2>1, <2>2 DEF ReadTake, TypeOK
  <2>3. CASE cmd_rxq # <<>>
    <3>1. Head(cmd_rxq) \in Skb /\ Tail(cmd_rxq) \in Seq(Skb)
      BY <1>0, <2>3, HeadTailProperties DEF TypeOK
    <3>2. <<Head(cmd_rxq)>> \in Seq(Skb) /\ Len(<<Head(cmd_rxq)>>) = 1
      BY <3>1, SingleSeq
    <3>3. hand' = [hand EXCEPT ![r] = <<Head(cmd_rxq)>>] /\ cmd_rxq' = Tail(cmd_rxq)
      BY <1>8, <2>3 DEF ReadTake
    <3>4. hand' \in [Reader -> Seq(Skb)] /\ \A q \in Reader : Len(hand'[q]) <= 1
      BY <1>0, <3>2, <3>3 DEF TypeOK
    <3> QED BY <1>0, <1>8, <2>1, <3>1, <3>3, <3>4 DEF ReadTake, TypeOK
  <2> QED BY <2>2, <2>3
<1>9. CASE ReadCopy(r)
  <2>1. at' \in [Reader -> Places]
    BY <1>1, <1>9 DEF ReadCopy, Places
  <2>2. hand[r] \in Seq(Skb) /\ Len(hand[r]) <= 1 /\ hand[r] # <<>>
    BY <1>0, <1>9 DEF ReadCopy, Goto, Hands, TypeOK
  <2>3. hand[r][1] \in Skb
    BY <2>2, OneOrNone
  <2>4. PICK k \in hand[r][1][2]..Parts :
           /\ got' = got \o Returned(hand[r][1], k)
           /\ cmd_rxq' = Rest(hand[r][1], k) \o cmd_rxq
    BY <1>9 DEF ReadCopy
  <2>5. /\ Rest(hand[r][1], k) \in Seq(Skb)
        /\ Returned(hand[r][1], k) \in Seq((1..Frames) \X (1..Parts))
    BY <2>3, CopyTypes
  <2>6. cmd_rxq' \in Seq(Skb)
    BY <1>0, <2>4, <2>5, ConcatProperties DEF TypeOK
  <2>7. got' \in Seq((1..Frames) \X (1..Parts))
    BY <1>0, <2>4, <2>5, ConcatProperties DEF TypeOK
  <2>8. hand' \in [Reader -> Seq(Skb)] /\ \A q \in Reader : Len(hand'[q]) <= 1
    BY <1>0, <1>9, EmptySeq DEF ReadCopy, TypeOK
  <2> QED BY <1>0, <1>9, <2>1, <2>6, <2>7, <2>8 DEF ReadCopy, TypeOK
<1> QED
  BY <1>3, <1>4, <1>5, <1>6, <1>7, <1>8, <1>9 DEF Reading, Polling

LEMMA TypesStep == IInv /\ Counted' /\ [Next]_vars => TypeOK'
<1> SUFFICES ASSUME IInv, Counted', [Next]_vars PROVE TypeOK'
  OBVIOUS
<1>1. cmd_readers' \in 0..Cardinality(Reader)
  <2>1. {r \in Reader : at'[r] # "closed"} \in SUBSET Reader
    OBVIOUS
  <2> QED BY <2>1, ReadersFinite DEF Counted
<1> QED BY <1>1, TypesChip, TypesHandler, TypesReader DEF Next, IInv

-----------------------------------------------------------------------------

LEMMA IInvInit == Init => IInv
<1> SUFFICES ASSUME Init PROVE IInv
  OBVIOUS
<1>1. Cardinality({}) = 0
  BY FS_EmptySet
<1>2. {r \in Reader : at[r] # "closed"} = {} /\ Held = {}
  BY DEF Init, Held
<1>3. TypeOK
  <2>1. 0 \in 0..Frames /\ 0 \in 0..Cardinality(Reader)
    BY BoundAssumption, ReadersFinite
  <2>2. /\ <<>> \in Seq(1..Frames) /\ <<>> \in Seq(Reader) /\ <<>> \in Seq(Skb)
        /\ <<>> \in Seq((1..Frames) \X (1..Parts)) /\ Len(<<>>) = 0
    BY EmptySeq
  <2>3. at \in [Reader -> Places] /\ hand \in [Reader -> Seq(Skb)]
    BY <2>2 DEF Init, Places
  <2>4. \A r \in Reader : Len(hand[r]) <= 1
    BY <2>2 DEF Init
  <2>5. cmd_busy \in BOOLEAN /\ woken \subseteq Reader /\ cap \in {CapIdle, CapReader}
    BY DEF Init
  <2> QED BY <2>1, <2>2, <2>3, <2>4, <2>5 DEF Init, TypeOK
<1>4. Counted /\ Hands
  BY <1>1, <1>2 DEF Init, Counted, Hands
<1>5. Limited
  <2>1. Len(cmd_rxq) = 0 /\ pc = "free"
    BY DEF Init
  <2> QED BY <1>1, <1>2, <2>1, ReadersFinite, CapAssumption DEF Limited, BacklogBounded
<1> QED BY <1>3, <1>4, <1>5 DEF IInv

LEMMA IInvStep == IInv /\ [Next]_vars => IInv'
BY CountedStep, HandsStep, LimitedStep, TypesStep DEF IInv

LEMMA IInvAlways == Spec => []IInv
BY IInvInit, IInvStep, PTL DEF Spec

\* The state of the command receive path keeps its types: a reader that copies
\* has a frame, the handler that queues has one, cmd_readers never wraps.
THEOREM CmdRxTypes == Spec => []TypeOK
<1>1. IInv => TypeOK
  BY DEF IInv
<1> QED BY <1>1, IInvAlways, PTL

\* However many threads read, and whatever the chip sends, cmd_rxq holds at
\* most CMD_RXQ_MAX_READER frames and one put back by each reader.
THEOREM BacklogIsBounded == Spec => []BacklogBounded
<1>1. IInv => BacklogBounded
  BY DEF IInv, Limited
<1> QED BY <1>1, IInvAlways, PTL

-----------------------------------------------------------------------------
(* The order of what one reader is given                                   *)

LEMMA AfterHead ==
    ASSUME NEW S, NEW s \in Seq(S), s # <<>>
    PROVE  /\ 1 \in 1..Len(s) /\ Head(s) = s[1]
           /\ Len(Tail(s)) = Len(s) - 1 /\ Len(s) \in Nat
           /\ \A i \in 1..Len(Tail(s)) : i + 1 \in 1..Len(s) /\ Tail(s)[i] = s[i + 1]
<1>1. Len(s) \in Nat /\ Len(s) # 0
  BY EmptySeq, LenProperties
<1> QED BY <1>1, HeadTailProperties

\* Frames are numbered.
LEMMA Numbered ==
    ASSUME TypeOK
    PROVE  /\ sent \in Int
           /\ cmd_rxq \in Seq(Skb) /\ batch \in Seq(1..Frames) /\ fifo \in Seq(1..Frames)
           /\ \A i \in 1..Len(cmd_rxq) : cmd_rxq[i][1] \in Int /\ cmd_rxq[i][2] \in Int
           /\ \A r \in Held : hand[r][1][1] \in Int /\ hand[r][1] \in Skb
           /\ \A i \in 1..Len(batch) : batch[i] \in Int
           /\ \A i \in 1..Len(fifo) : fifo[i] \in Int
           /\ Last[1] \in Int /\ Last[2] \in Int
           /\ Taken \subseteq Int
<1>1. \A i \in 1..Len(cmd_rxq) : cmd_rxq[i][1] \in Int /\ cmd_rxq[i][2] \in Int
  <2>1. \A i \in 1..Len(cmd_rxq) : cmd_rxq[i] \in Skb
    BY ElementOfSeq DEF TypeOK
  <2> QED BY <2>1, BoundAssumption DEF Skb
<1>2. \A r \in Held : hand[r][1][1] \in Int /\ hand[r][1] \in Skb
  <2>1. \A r \in Held : hand[r][1] \in Skb
    BY OneOrNone DEF TypeOK, Held
  <2> QED BY <2>1 DEF Skb
<1>3. /\ \A i \in 1..Len(batch) : batch[i] \in Int
      /\ \A i \in 1..Len(fifo) : fifo[i] \in Int
  <2>1. /\ \A i \in 1..Len(batch) : batch[i] \in 1..Frames
        /\ \A i \in 1..Len(fifo) : fifo[i] \in 1..Frames
    BY ElementOfSeq DEF TypeOK
  <2> QED BY <2>1, BoundAssumption
<1>4. Last[1] \in Int /\ Last[2] \in Int
  <2>1. CASE got = <<>>
    BY <2>1 DEF Last
  <2>2. CASE got # <<>>
    <3>1. Len(got) \in 1..Len(got)
      BY <2>2, EmptySeq, LenProperties DEF TypeOK
    <3>2. got[Len(got)] \in (1..Frames) \X (1..Parts)
      BY <3>1, ElementOfSeq DEF TypeOK
    <3> QED BY <2>2, <3>2, BoundAssumption DEF Last
  <2> QED BY <2>1, <2>2
<1> QED BY <1>1, <1>2, <1>3, <1>4 DEF TypeOK, Taken

\* The steps that move no frame.
LEMMA OrderSame ==
    ASSUME UNCHANGED <<sent, fifo, batch, cmd_rxq, hand, got>>
    PROVE  /\ QueueOrdered => QueueOrdered'
           /\ StreamOrdered => StreamOrdered'
           /\ ReadsInOrder => ReadsInOrder'
BY DEF QueueOrdered, StreamOrdered, ReadsInOrder, Taken, Held, Last, Continues

LEMMA OrderQueueSame ==
    ASSUME UNCHANGED <<cmd_rxq, hand, got>>
    PROVE  /\ QueueOrdered => QueueOrdered'
           /\ ReadsInOrder => ReadsInOrder'
           /\ Taken' = Taken
BY DEF QueueOrdered, ReadsInOrder, Taken, Held, Last, Continues

\* The chip numbers what it sends, and the handler fetches all of it or nothing.
LEMMA OrderChip ==
    ASSUME TypeOK, StreamOrdered, ChipSend \/ Fetch
    PROVE  StreamOrdered'
<1> USE DEF Ascending, Before
<1>1. CASE ChipSend
  <2>1. UNCHANGED <<batch, cmd_rxq, hand, got>> /\ sent' = sent + 1
    BY <1>1 DEF ChipSend, handler, threads
  <2>2. Taken' = Taken
    BY <2>1, OrderQueueSame
  <2>3. /\ Len(fifo) \in Nat /\ Len(fifo') = Len(fifo) + 1 /\ fifo'[Len(fifo) + 1] = sent + 1
        /\ \A i \in 1..Len(fifo) : fifo'[i] = fifo[i]
    BY <1>1, AppendProperties, LenProperties DEF ChipSend, TypeOK
  <2>7. \A i \in 1..Len(fifo') : i \in 1..Len(fifo) \/ i = Len(fifo) + 1
    BY <2>3
  <2>4. Ascending(fifo') /\ \A i \in 1..Len(fifo') : fifo'[i] <= sent'
    <3> DEFINE n == Len(fifo)
    <3>1. \A i \in 1..n : fifo'[i] = fifo[i] /\ fifo[i] <= sent /\ fifo[i] \in Int
      BY <2>3, Numbered DEF StreamOrdered
    <3>2. fifo'[n + 1] = sent + 1 /\ sent \in Int /\ sent' = sent + 1 /\ n \in Nat
      BY <2>1, <2>3, Numbered
    <3>3. ASSUME NEW i \in 1..Len(fifo'), NEW j \in 1..Len(fifo'), i < j
          PROVE  fifo'[i] < fifo'[j]
      <4>1. i \in 1..n
        BY <2>7, <3>2, <3>3
      <4>2. CASE j \in 1..n
        <5>1. fifo[i] < fifo[j]
          BY <3>3, <4>1, <4>2 DEF StreamOrdered
        <5> QED BY <3>1, <4>1, <4>2, <5>1
      <4>3. CASE j = n + 1
        BY <3>1, <3>2, <4>1, <4>3
      <4> QED BY <2>7, <4>2, <4>3
    <3>4. ASSUME NEW i \in 1..Len(fifo') PROVE fifo'[i] <= sent'
      BY <2>7, <3>1, <3>2
    <3> QED BY <3>3, <3>4
  <2>5. /\ Ascending(batch')
        /\ \A i \in 1..Len(batch') : Before(batch'[i], fifo') /\ batch'[i] <= sent'
    BY <2>1, <2>3, <2>7, Numbered DEF StreamOrdered
  <2>6. \A f \in Taken' : Before(f, batch') /\ Before(f, fifo') /\ f <= sent'
    BY <2>1, <2>2, <2>3, <2>7, Numbered DEF StreamOrdered
  <2> QED BY <2>4, <2>5, <2>6 DEF StreamOrdered
<1>2. CASE Fetch
  <2>1. UNCHANGED <<sent, cmd_rxq, hand, got>> /\ batch' \in {fifo, <<>>} /\ fifo' = <<>>
    BY <1>2 DEF Fetch
  <2>2. Taken' = Taken /\ Len(<<>>) = 0
    BY <2>1, OrderQueueSame, EmptySeq
  <2> QED BY <2>1, <2>2 DEF StreamOrdered
<1> QED BY <1>1, <1>2

LEMMA OrderHandler ==
    ASSUME IInv, QueueOrdered, StreamOrdered, Handler
    PROVE  QueueOrdered' /\ StreamOrdered'
<1>0. TypeOK
  BY DEF IInv
<1> USE <1>0 DEF Ascending, Before, chip, threads
<1>1. CASE Dispatch \/ Room \/ WakeReaders \/ Leave
  BY <1>1, OrderSame DEF Dispatch, Room, WakeReaders, Leave
<1>2. CASE DropOldest
  <2>0. UNCHANGED <<sent, fifo, batch, hand, got>>
    BY <1>2 DEF DropOldest
  <2>1. CASE cmd_rxq' = cmd_rxq
    BY <2>0, <2>1, OrderSame
  <2>2. CASE cmd_rxq # <<>> /\ cmd_rxq' = Tail(cmd_rxq)
    <3>1. \A i \in 1..Len(cmd_rxq') : i + 1 \in 1..Len(cmd_rxq) /\ cmd_rxq'[i] = cmd_rxq[i + 1]
      BY <2>2, AfterHead, Numbered
    <3>2. Held' = Held /\ Last' = Last
      BY <2>0 DEF Held, Last
    <3>3. Taken' \subseteq Taken
      BY <2>0, <3>1, <3>2 DEF Taken
    <3>4. QueueOrdered'
      <4>1. \A i, j \in 1..Len(cmd_rxq') :
               i < j => cmd_rxq'[i][1] < cmd_rxq'[j][1] /\ cmd_rxq'[j][2] = 0
        <5> SUFFICES ASSUME NEW i \in 1..Len(cmd_rxq'), NEW j \in 1..Len(cmd_rxq'), i < j
                     PROVE  cmd_rxq'[i][1] < cmd_rxq'[j][1] /\ cmd_rxq'[j][2] = 0
          OBVIOUS
        <5>1. i + 1 < j + 1
          OBVIOUS
        <5> QED BY <3>1, <5>1 DEF QueueOrdered
      <4> QED BY <2>0, <3>1, <3>2, <4>1 DEF QueueOrdered, Continues
    <3> QED BY <2>0, <3>3, <3>4 DEF StreamOrdered
  <2> QED BY <1>2, <2>1, <2>2 DEF DropOldest
<1>3. CASE QueueFrame /\ batch # <<>>
  <2>0. UNCHANGED <<sent, fifo, hand, got>> /\ batch' = Tail(batch)
    BY <1>3 DEF QueueFrame
  <2>1. /\ Head(batch) = batch[1] /\ 1 \in 1..Len(batch)
        /\ \A i \in 1..Len(batch') : i + 1 \in 1..Len(batch) /\ batch'[i] = batch[i + 1]
    BY <1>3, <2>0, AfterHead, Numbered
  <2>2. Held' = Held /\ Last' = Last
    BY <2>0 DEF Held, Last
  <2>3. /\ Ascending(batch') /\ Ascending(fifo')
        /\ \A i \in 1..Len(batch') : Before(batch'[i], fifo') /\ batch'[i] <= sent'
        /\ \A i \in 1..Len(batch') : batch[1] < batch'[i]
    <3>1. ASSUME NEW i \in 1..Len(batch'), NEW j \in 1..Len(batch'), i < j
          PROVE  batch'[i] < batch'[j]
      <4>1. i + 1 < j + 1 /\ i + 1 \in 1..Len(batch) /\ j + 1 \in 1..Len(batch)
        BY <2>1, <3>1
      <4>2. batch[i + 1] < batch[j + 1]
        BY <4>1 DEF StreamOrdered
      <4> QED BY <2>1, <4>2
    <3>2. ASSUME NEW i \in 1..Len(batch') PROVE batch[1] < batch'[i]
      <4>1. 1 < i + 1
        OBVIOUS
      <4> QED BY <2>1, <4>1 DEF StreamOrdered
    <3> QED BY <2>0, <2>1, <3>1, <3>2 DEF StreamOrdered
  <2>4. CASE cmd_rxq' = cmd_rxq
    <3>1. QueueOrdered' /\ Taken' = Taken
      BY <2>0, <2>4, OrderQueueSame
    <3> QED BY <2>0, <2>1, <2>3, <3>1 DEF StreamOrdered
  <2>5. CASE cmd_rxq' = Append(cmd_rxq, <<Head(batch), 0>>)
    <3> DEFINE e == <<batch[1], 0>>
               n == Len(cmd_rxq)
    <3>1. /\ n \in Nat /\ Len(cmd_rxq') = n + 1 /\ cmd_rxq'[n + 1] = e
          /\ \A i \in 1..n : cmd_rxq'[i] = cmd_rxq[i]
      BY <2>1, <2>5, AppendProperties, LenProperties, Numbered
    <3>2. e[1] = batch[1] /\ e[2] = 0
      OBVIOUS
    <3>3. /\ \A i \in 1..n : cmd_rxq[i][1] < e[1]
          /\ \A r \in Held : hand[r][1][1] < e[1]
          /\ Last[1] < e[1]
      BY <2>1, <3>2 DEF StreamOrdered, Taken
    <3> HIDE DEF e, n
    <3>8. \A i \in 1..Len(cmd_rxq') : i \in 1..n \/ i = n + 1
      BY <3>1
    <3>4. QueueOrdered'
      <4>1. ASSUME NEW i \in 1..Len(cmd_rxq'), NEW j \in 1..Len(cmd_rxq'), i < j
            PROVE  cmd_rxq'[i][1] < cmd_rxq'[j][1] /\ cmd_rxq'[j][2] = 0
        <5>1. i \in 1..n /\ cmd_rxq'[i] = cmd_rxq[i]
          BY <3>1, <3>8, <4>1
        <5>2. CASE j \in 1..n
          BY <3>1, <4>1, <5>1, <5>2 DEF QueueOrdered, n
        <5>3. CASE j = n + 1
          BY <3>1, <3>2, <3>3, <5>1, <5>3
        <5> QED BY <3>8, <5>2, <5>3
      <4>2. \A i \in 1..Len(cmd_rxq') :
               \/ cmd_rxq'[i] = Last
               \/ cmd_rxq'[i][2] = 0 /\ cmd_rxq'[i][1] > Last[1]
        <5>1. \A i \in 1..n :
                 cmd_rxq[i] = Last \/ (cmd_rxq[i][2] = 0 /\ cmd_rxq[i][1] > Last[1])
          BY DEF QueueOrdered, Continues, n
        <5>2. e[1] > Last[1]
          BY <2>1, <3>2, <3>3, Numbered
        <5> QED BY <3>1, <3>2, <3>8, <5>1, <5>2
      <4>3. \A r \in Held :
               /\ hand[r][1] = Last \/ (hand[r][1][2] = 0 /\ hand[r][1][1] > Last[1])
               /\ \A i \in 1..Len(cmd_rxq') :
                     hand[r][1][1] < cmd_rxq'[i][1] /\ cmd_rxq'[i][2] = 0
        BY <3>1, <3>2, <3>3, <3>8 DEF QueueOrdered, Continues, n
      <4> QED BY <2>0, <2>2, <4>1, <4>2, <4>3 DEF QueueOrdered, Continues
    <3>5. \A f \in Taken' : f \in Taken \/ f = batch[1]
      BY <2>0, <2>2, <3>1, <3>2, <3>8, SMTT(30) DEF Taken, n
    <3>6. Before(batch[1], fifo) /\ batch[1] <= sent
      BY <2>1 DEF StreamOrdered
    <3>7. \A f \in Taken : Before(f, batch') /\ Before(f, fifo) /\ f <= sent
      BY <2>1 DEF StreamOrdered
    <3> QED BY <2>0, <2>3, <3>4, <3>5, <3>6, <3>7 DEF StreamOrdered
  <2> QED BY <1>3, <2>4, <2>5 DEF QueueFrame
<1>4. QueueFrame => batch # <<>>
  BY DEF QueueFrame, IInv, Limited
<1> QED BY <1>1, <1>2, <1>3, <1>4 DEF Handler

OneReader == \A q, r \in Reader : q = r

\* What is in the hand of the only reader comes before what is on the queue.
LEMMA OrderTake ==
    ASSUME OneReader, IInv, QueueOrdered, StreamOrdered, NEW r \in Reader, ReadTake(r)
    PROVE  QueueOrdered' /\ StreamOrdered'
<1>0. TypeOK /\ UNCHANGED <<sent, fifo, batch, got>>
  BY DEF ReadTake, IInv, chip, handler
<1> USE <1>0
<1>1. CASE UNCHANGED <<cmd_rxq, hand>>
  BY <1>1, OrderSame
<1>2. CASE /\ cmd_rxq # <<>> /\ Goto(r, "take", "copy")
           /\ hand' = [hand EXCEPT ![r] = <<Head(cmd_rxq)>>]
           /\ cmd_rxq' = Tail(cmd_rxq)
  <2>1. /\ Head(cmd_rxq) = cmd_rxq[1] /\ 1 \in 1..Len(cmd_rxq)
        /\ \A i \in 1..Len(cmd_rxq') : i + 1 \in 1..Len(cmd_rxq) /\ cmd_rxq'[i] = cmd_rxq[i + 1]
    BY <1>2, AfterHead, Numbered
  <2>2. hand'[r] = <<cmd_rxq[1]>>
    BY <1>2, <2>1 DEF TypeOK
  <2>3. hand'[r][1] = cmd_rxq[1] /\ \A q \in Held' : q = r
    BY <2>2 DEF Held, OneReader
  <2>4. Last' = Last
    BY DEF Last
  <2>5. Taken' \subseteq Taken
    BY <2>1, <2>3, <2>4 DEF Taken
  <2>6. \A i, j \in 1..Len(cmd_rxq') :
           i < j => cmd_rxq'[i][1] < cmd_rxq'[j][1] /\ cmd_rxq'[j][2] = 0
    <3> SUFFICES ASSUME NEW i \in 1..Len(cmd_rxq'), NEW j \in 1..Len(cmd_rxq'), i < j
                 PROVE  cmd_rxq'[i][1] < cmd_rxq'[j][1] /\ cmd_rxq'[j][2] = 0
      OBVIOUS
    <3>1. i + 1 < j + 1
      OBVIOUS
    <3> QED BY <2>1, <3>1 DEF QueueOrdered
  <2>7. \A i \in 1..Len(cmd_rxq') : cmd_rxq[1][1] < cmd_rxq'[i][1] /\ cmd_rxq'[i][2] = 0
    <3> SUFFICES ASSUME NEW i \in 1..Len(cmd_rxq')
                 PROVE  cmd_rxq[1][1] < cmd_rxq'[i][1] /\ cmd_rxq'[i][2] = 0
      OBVIOUS
    <3>1. 1 < i + 1
      OBVIOUS
    <3> QED BY <2>1, <3>1 DEF QueueOrdered
  <2>8. \A i \in 1..Len(cmd_rxq) : Continues(cmd_rxq[i])
    BY DEF QueueOrdered
  <2>9. QueueOrdered'
    BY <2>1, <2>3, <2>4, <2>6, <2>7, <2>8 DEF QueueOrdered, Continues
  <2> QED BY <2>5, <2>9 DEF StreamOrdered
<1> QED BY <1>1, <1>2 DEF ReadTake

\* A sequence of parts is in order after a run of parts p + 1.. of frame f.
InOrder(g, n) ==
    \A i \in 1..n :
        /\ g[i][2] > 1 => i > 1 /\ g[i - 1] = <<g[i][1], g[i][2] - 1>>
        /\ i > 1 /\ g[i][2] = 1 => g[i - 1][1] < g[i][1]

LEMMA RunInOrder ==
    ASSUME NEW g, NEW h, NEW n \in Nat, NEW m \in Nat, NEW f \in Int, NEW p \in Nat,
           InOrder(g, n),
           \A i \in 1..n : h[i] = g[i],
           \A i \in 1..m : h[n + i] = <<f, p + i>>,
           m > 0 /\ p > 0 => n > 0 /\ g[n] = <<f, p>>,
           m > 0 /\ p = 0 /\ n > 0 => g[n][1] < f
    PROVE  InOrder(h, n + m)
<1> SUFFICES ASSUME NEW i \in 1..n + m
             PROVE  /\ h[i][2] > 1 => i > 1 /\ h[i - 1] = <<h[i][1], h[i][2] - 1>>
                    /\ i > 1 /\ h[i][2] = 1 => h[i - 1][1] < h[i][1]
  BY DEF InOrder
<1>1. CASE i \in 1..n
  <2>1. h[i] = g[i] /\ (i > 1 => i - 1 \in 1..n /\ h[i - 1] = g[i - 1])
    BY <1>1
  <2> QED BY <1>1, <2>1 DEF InOrder
<1>2. CASE i = n + 1 /\ m > 0
  <2>1. 1 \in 1..m
    BY <1>2
  <2>2. h[i] = <<f, p + 1>>
    BY <1>2, <2>1
  <2>3. n > 0 => h[i - 1] = g[n] /\ i - 1 = n
    BY <1>2
  <2> QED BY <1>2, <2>2, <2>3
<1>3. CASE i \in n + 2..n + m
  <2>1. i - n \in 1..m /\ i - n - 1 \in 1..m /\ n + (i - n) = i /\ n + (i - n - 1) = i - 1
    BY <1>3
  <2>2. h[i] = <<f, p + (i - n)>> /\ h[i - 1] = <<f, p + (i - n - 1)>>
    BY <2>1
  <2> QED BY <1>3, <2>2
<1>4. i \in 1..n \/ (i = n + 1 /\ m > 0) \/ i \in n + 2..n + m
  OBVIOUS
<1> QED BY <1>1, <1>2, <1>3, <1>4

\* What a copy adds to what was returned.
LEMMA RunAdded ==
    ASSUME NEW S, NEW g \in Seq(S), NEW R \in Seq(S)
    PROVE  /\ Len(g \o R) = Len(g) + Len(R) /\ g \o R \in Seq(S)
           /\ \A i \in 1..Len(g) : (g \o R)[i] = g[i]
           /\ \A i \in 1..Len(R) : (g \o R)[Len(g) + i] = R[i]
<1> DEFINE q == g \o R
<1>1. /\ q \in Seq(S) /\ Len(q) = Len(g) + Len(R) /\ Len(g) \in Nat /\ Len(R) \in Nat
      /\ \A i \in 1..Len(g) + Len(R) : q[i] = IF i <= Len(g) THEN g[i] ELSE R[i - Len(g)]
  BY ConcatProperties, LenProperties
<1> HIDE DEF q
<1>2. ASSUME NEW i \in 1..Len(g) PROVE q[i] = g[i]
  BY <1>1
<1>3. ASSUME NEW i \in 1..Len(R) PROVE q[Len(g) + i] = R[i]
  <2>1. /\ Len(g) + i \in 1..Len(g) + Len(R) /\ ~(Len(g) + i <= Len(g))
        /\ Len(g) + i - Len(g) = i
    BY <1>1
  <2> QED BY <1>1, <2>1
<1> QED BY <1>1, <1>2, <1>3 DEF q

\* Parts of a frame follow each other, and a frame follows earlier ones.
LEMMA OrderReturned ==
    ASSUME TypeOK, ReadsInOrder, NEW s \in Skb, Continues(s), NEW k \in s[2]..Parts
    PROVE  got' = got \o Returned(s, k) =>
              /\ ReadsInOrder'
              /\ \/ k = s[2] /\ Last' = Last
                 \/ k > s[2] /\ Last' = <<s[1], k>>
<1> DEFINE G == (1..Frames) \X (1..Parts)
           n == Len(got)
           m == k - s[2]
           R == Returned(s, k)
           h == got \o R
<1>1. /\ s[1] \in 1..Frames /\ s[1] \in Int /\ s[2] \in Nat /\ s = <<s[1], s[2]>>
      /\ m \in Nat /\ k \in Nat /\ s[2] + m = k
  BY BoundAssumption DEF Skb
<1>2. R \in Seq(G) /\ got \in Seq(G) /\ n \in Nat
  BY CopyTypes, LenProperties DEF TypeOK
<1>3. Len(R) = m /\ \A i \in 1..m : R[i] = <<s[1], s[2] + i>>
  BY <1>1, <1>2 DEF Returned
<1> HIDE DEF n, m, R, h
<1>4. /\ Len(h) = n + m /\ h \in Seq(G)
      /\ \A i \in 1..n : h[i] = got[i]
      /\ \A i \in 1..m : h[n + i] = <<s[1], s[2] + i>>
  <2>1. /\ Len(h) = n + Len(R) /\ h \in Seq(G)
        /\ \A i \in 1..n : h[i] = got[i]
        /\ \A i \in 1..Len(R) : h[n + i] = R[i]
    BY <1>2, RunAdded DEF h, n
  <2> QED BY <1>3, <2>1
<1>5. n > 0 => Last = got[n] /\ got[n][1] \in Int /\ got[n][2] \in Nat \ {0}
  <2> SUFFICES ASSUME n > 0 PROVE Last = got[n] /\ got[n][1] \in Int /\ got[n][2] \in Nat \ {0}
    OBVIOUS
  <2>1. n \in 1..n /\ got # <<>>
    BY <1>2, EmptySeq DEF n
  <2>2. got[n] \in G
    BY <1>2, <2>1, ElementOfSeq DEF n
  <2> QED BY <2>1, <2>2, BoundAssumption DEF Last, n
<1>6. n = 0 => Last = <<0, 0>>
  BY <1>2, EmptySeq DEF Last, n
<1>7. /\ m > 0 /\ s[2] > 0 => n > 0 /\ got[n] = <<s[1], s[2]>>
      /\ m > 0 /\ s[2] = 0 /\ n > 0 => got[n][1] < s[1]
  BY <1>1, <1>2, <1>5, <1>6, SMTT(30) DEF Continues
<1>8. InOrder(h, n + m)
  <2>1. InOrder(got, n)
    BY DEF ReadsInOrder, InOrder, n
  <2> QED BY <1>1, <1>2, <1>4, <1>7, <2>1, RunInOrder
<1>9. m = 0 => h = got
  <2>1. m = 0 => Len(h) = n /\ \A i \in 1..n : h[i] = got[i]
    BY <1>2, <1>4
  <2> QED BY <1>2, <1>4, <2>1, SeqEqual DEF n
<1>10. m > 0 => h # <<>> /\ h[Len(h)] = <<s[1], k>>
  <2> SUFFICES ASSUME m > 0 PROVE h # <<>> /\ h[Len(h)] = <<s[1], k>>
    OBVIOUS
  <2>1. m \in 1..m /\ Len(h) # 0
    BY <1>1, <1>2, <1>4
  <2> QED BY <1>1, <1>4, <2>1, EmptySeq
<1>11. SUFFICES ASSUME got' = h
                PROVE  /\ ReadsInOrder'
                       /\ \/ k = s[2] /\ Last' = Last
                          \/ k > s[2] /\ Last' = <<s[1], k>>
  BY DEF h, R
<1>12. ReadsInOrder'
  BY <1>4, <1>8, <1>11 DEF ReadsInOrder, InOrder
<1>13. CASE m = 0
  BY <1>1, <1>9, <1>11, <1>12, <1>13 DEF Last
<1>14. CASE m > 0
  <2>1. k > s[2]
    BY <1>1, <1>14
  <2> QED BY <1>10, <1>11, <1>12, <1>14, <2>1 DEF Last
<1> QED BY <1>1, <1>13, <1>14

LEMMA OrderCopy ==
    ASSUME OneReader, IInv, QueueOrdered, StreamOrdered, ReadsInOrder,
           NEW r \in Reader, ReadCopy(r)
    PROVE  QueueOrdered' /\ StreamOrdered' /\ ReadsInOrder'
<1>0. TypeOK /\ UNCHANGED <<sent, fifo, batch>>
  BY DEF ReadCopy, IInv, chip, handler
<1> USE <1>0
<1> DEFINE s == hand[r][1]
           n == Len(cmd_rxq)
<1>1. at[r] = "copy" /\ hand' = [hand EXCEPT ![r] = <<>>]
  BY DEF ReadCopy, Goto
<1>2. r \in Held /\ Held' = {}
  BY <1>1 DEF IInv, Hands, Held, TypeOK, OneReader
<1>3. s \in Skb /\ Continues(s) /\ s[1] \in Taken
      /\ \A i \in 1..n : s[1] < cmd_rxq[i][1] /\ cmd_rxq[i][2] = 0
  BY <1>2, Numbered DEF QueueOrdered, Taken
<1>4. \E k \in s[2]..Parts :
         got' = got \o Returned(s, k) /\ cmd_rxq' = Rest(s, k) \o cmd_rxq
  BY DEF ReadCopy
<1> HIDE DEF s
<1>5. PICK k \in s[2]..Parts :
         got' = got \o Returned(s, k) /\ cmd_rxq' = Rest(s, k) \o cmd_rxq
  BY <1>4
<1>6. ReadsInOrder' /\ ((k = s[2] /\ Last' = Last) \/ (k > s[2] /\ Last' = <<s[1], k>>))
  BY <1>3, <1>5, OrderReturned
<1>7. s[1] \in Int /\ s[2] \in Int /\ k \in Int /\ s = <<s[1], s[2]>>
  BY <1>3, BoundAssumption DEF Skb
<1>8. Last'[1] \in {Last[1], s[1]} /\ Last'[1] <= s[1]
  BY <1>3, <1>6, <1>7, Numbered DEF Continues
<1>9. \A i \in 1..n : cmd_rxq[i][2] = 0 /\ cmd_rxq[i][1] > Last'[1]
  BY <1>3, <1>7, <1>8, Numbered
<1>10. CASE Rest(s, k) = <<>>
  <2>1. cmd_rxq' = cmd_rxq
    BY <1>5, <1>10, ConcatEmptySeq, Numbered
  <2>2. QueueOrdered'
    BY <1>2, <1>9, <2>1 DEF QueueOrdered, Continues
  <2>3. Taken' \subseteq Taken
    BY <1>2, <1>3, <1>8, <2>1 DEF Taken
  <2> QED BY <1>6, <2>2, <2>3 DEF StreamOrdered
<1>11. CASE Rest(s, k) = << <<s[1], k>> >> /\ k # Parts
  <2> DEFINE e == <<s[1], k>>
  <2>0. e \in Skb
    BY <1>3, <1>7, <1>11, BoundAssumption DEF Skb
  <2>1. /\ n \in Nat /\ Len(cmd_rxq') = n + 1 /\ cmd_rxq'[1] = e
        /\ \A i \in 2..n + 1 : i - 1 \in 1..n /\ cmd_rxq'[i] = cmd_rxq[i - 1]
    <3>1. <<e>> \in Seq(Skb) /\ Len(<<e>>) = 1 /\ n \in Nat
      BY <2>0, LenProperties, Numbered
    <3>2. /\ Len(cmd_rxq') = 1 + n
          /\ \A i \in 1..1 + n : cmd_rxq'[i] = IF i <= 1 THEN <<e>>[i] ELSE cmd_rxq[i - 1]
      BY <1>5, <1>11, <3>1, ConcatProperties, Numbered
    <3>3. 1 \in 1..1 + n /\ 1 <= 1 /\ <<e>>[1] = e
      BY <3>1
    <3>4. \A i \in 2..n + 1 : i \in 1..1 + n /\ ~(i <= 1) /\ i - 1 \in 1..n
      BY <3>1
    <3> QED BY <3>1, <3>2, <3>3, <3>4
  <2>2. e[1] = s[1] /\ e[2] = k /\ (e = Last' \/ (e = s /\ Last' = Last))
    BY <1>6, <1>7
  <2> HIDE DEF e, n
  <2>3. \A i \in 1..Len(cmd_rxq') : i = 1 \/ i \in 2..n + 1
    BY <2>1
  <2>4. QueueOrdered'
    <3>1. \A i, j \in 1..Len(cmd_rxq') :
             i < j => cmd_rxq'[i][1] < cmd_rxq'[j][1] /\ cmd_rxq'[j][2] = 0
      <4> SUFFICES ASSUME NEW i \in 1..Len(cmd_rxq'), NEW j \in 1..Len(cmd_rxq'), i < j
                   PROVE  cmd_rxq'[i][1] < cmd_rxq'[j][1] /\ cmd_rxq'[j][2] = 0
        OBVIOUS
      <4>1. j \in 2..n + 1 /\ cmd_rxq'[j] = cmd_rxq[j - 1] /\ j - 1 \in 1..n
        BY <2>1, <2>3
      <4>2. CASE i = 1
        BY <1>3, <2>1, <2>2, <4>1, <4>2
      <4>3. CASE i \in 2..n + 1
        <5>1. cmd_rxq'[i] = cmd_rxq[i - 1] /\ i - 1 \in 1..n /\ i - 1 < j - 1
          BY <2>1, <4>1, <4>3
        <5> QED BY <4>1, <5>1 DEF QueueOrdered, n
      <4> QED BY <2>3, <4>2, <4>3
    <3>2. \A i \in 1..Len(cmd_rxq') :
             \/ cmd_rxq'[i] = Last'
             \/ cmd_rxq'[i][2] = 0 /\ cmd_rxq'[i][1] > Last'[1]
      <4>1. e = Last' \/ (e[2] = 0 /\ e[1] > Last'[1])
        BY <1>3, <2>2 DEF Continues
      <4> QED BY <1>9, <2>1, <2>3, <4>1
    <3> QED BY <1>2, <3>1, <3>2 DEF QueueOrdered, Continues
  <2>5. Taken' \subseteq Taken
    <3>1. \A i \in 1..Len(cmd_rxq') : cmd_rxq'[i][1] \in Taken
      BY <1>3, <2>1, <2>2, <2>3 DEF Taken, n
    <3>2. Last'[1] \in Taken
      BY <1>3, <1>8 DEF Taken
    <3> QED BY <1>2, <3>1, <3>2 DEF Taken
  <2> QED BY <1>6, <2>4, <2>5 DEF StreamOrdered
<1> QED BY <1>10, <1>11 DEF Rest

LEMMA OrderReader ==
    ASSUME OneReader, IInv, QueueOrdered, StreamOrdered, ReadsInOrder, NEW r \in Reader,
           \/ Open(r) \/ Close(r) \/ ReadEnter(r) \/ WaitSignal(r) \/ Reading(r)
           \/ PollEnter(r) \/ PollTimeout(r) \/ Polling(r)
    PROVE  QueueOrdered' /\ StreamOrdered' /\ ReadsInOrder'
<1> USE DEF chip, handler
<1>1. CASE \/ Open(r) \/ Close(r) \/ ReadEnter(r) \/ WaitSignal(r) \/ WaitCheck(r)
           \/ WaitAgain(r) \/ PollEnter(r) \/ PollTimeout(r) \/ PollCheck(r) \/ PollAgain(r)
  BY <1>1, OrderSame
  DEF Open, Close, ReadEnter, WaitSignal, WaitCheck, WaitAgain, PollEnter, PollTimeout,
      PollCheck, PollAgain
<1>2. CASE PollPump(r)
  BY <1>2, OrderChip, OrderQueueSame DEF PollPump, Fetch, IInv
<1>3. CASE ReadTake(r)
  <2>1. ReadsInOrder'
    BY <1>3 DEF ReadTake, ReadsInOrder
  <2> QED BY <1>3, <2>1, OrderTake
<1>4. CASE ReadCopy(r)
  BY <1>4, OrderCopy
<1> QED BY <1>1, <1>2, <1>3, <1>4 DEF Reading, Polling

LEMMA OrderStep ==
    ASSUME OneReader
    PROVE  IInv /\ QueueOrdered /\ StreamOrdered /\ ReadsInOrder /\ [Next]_vars
             => (QueueOrdered /\ StreamOrdered /\ ReadsInOrder)'
<1> SUFFICES ASSUME IInv, QueueOrdered, StreamOrdered, ReadsInOrder, [Next]_vars
             PROVE  (QueueOrdered /\ StreamOrdered /\ ReadsInOrder)'
  OBVIOUS
<1>1. CASE WriteCmd \/ SendCmd \/ UNCHANGED vars
  BY <1>1, OrderSame DEF WriteCmd, SendCmd, chip, handler, threads, vars
<1>2. CASE ChipSend \/ IrqEnter
  BY <1>2, OrderChip, OrderQueueSame DEF ChipSend, IrqEnter, Fetch, threads, IInv
<1>3. CASE Handler
  <2>1. UNCHANGED got
    BY <1>3 DEF Handler, Dispatch, Room, DropOldest, QueueFrame, WakeReaders, Leave, threads
  <2> QED BY <1>3, <2>1, OrderHandler DEF ReadsInOrder
<1> QED BY <1>1, <1>2, <1>3, OrderReader DEF Next

\* One reader is given every frame it gets from its first byte on, without a
\* gap inside a frame and never an earlier frame after a later one, however
\* short its reads are and whatever the handler drops meanwhile.
THEOREM ReadsAreInOrder == ASSUME OneReader PROVE Spec => []ReadsInOrder
<1> DEFINE I == QueueOrdered /\ StreamOrdered /\ ReadsInOrder
<1>1. Init => I
  <2> SUFFICES ASSUME Init PROVE I
    OBVIOUS
  <2>1. Len(<<>>) = 0
    BY EmptySeq
  <2>2. Held = {} /\ Last = <<0, 0>> /\ cmd_rxq = <<>> /\ batch = <<>> /\ fifo = <<>>
        /\ got = <<>> /\ sent = 0
    BY DEF Init, Held, Last
  <2>3. Taken = {0}
    BY <2>1, <2>2 DEF Taken
  <2> QED
    BY <2>1, <2>2, <2>3
    DEF QueueOrdered, StreamOrdered, ReadsInOrder, Ascending, Before
<1>2. I /\ IInv /\ [Next]_vars => I'
  BY OrderStep
<1>3. I => ReadsInOrder
  OBVIOUS
<1> QED BY <1>1, <1>2, <1>3, IInvAlways, PTL DEF Spec

=============================================================================
