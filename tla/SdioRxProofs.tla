----------------------------- MODULE SdioRxProofs -----------------------------
(***************************************************************************)
(* What the interrupt handler leaves behind: the frames that come out of   *)
(* the IP stream (artosyn_sdio_recv, artosyn_rx_ip_stream), and the        *)
(* message latched in the mailbox.                                         *)
(*                                                                         *)
(* The stream is the join of the frames, and Cut(f) is where frame f       *)
(* starts in it.  What the chip has queued, what is read and what the walk *)
(* holds are windows of the stream behind the last loss, and the walk is   *)
(* in step with the frames, or its next chance to be so is near.           *)
(***************************************************************************)
EXTENDS SdioRx, SdioMailbox, SequenceFacts, TLAPS

\* A header is parked only where no frame is, and the walk over a run starts
\* with neither: each step of artosyn_rx_ip_stream empties what it finishes.
Parking ==
    /\ OneParked
    /\ pc = "body" => hdr_carry = <<>>
    /\ pc = "scan" => hdr_carry = <<>> /\ partial = <<>>

\* Each group of steps keeps what the next one starts from.
LEMMA ParkingStep == Parking /\ [Next]_vars => Parking'
<1> SUFFICES ASSUME Parking, [Next]_vars PROVE Parking'
  OBVIOUS
<1> USE DEF Parking, OneParked, Park, Consume, parked, chip
<1>1. CASE UNCHANGED vars
  BY <1>1 DEF vars
<1>2. CASE ChipSend \/ SetUp \/ Recv
  BY <1>2 DEF ChipSend, SetUp, Recv, Fetch, Dispatch, RecvDone
<1>3. CASE Carry
  <2>1. CASE CarryNone \/ CarryShort
    BY <2>1 DEF CarryNone, CarryShort
  <2>2. CASE CarryFrame \/ CarryNoMem \/ CarryJunk
    BY <2>2 DEF CarryFrame, CarryNoMem, CarryJunk
  <2> QED BY <1>3, <2>1, <2>2 DEF Carry
<1>4. CASE Body
  BY <1>4 DEF Body, BodyNone, BodyMore, BodyDone
<1>5. CASE Scan
  BY <1>5 DEF Scan, ScanEnd, ScanSkip, ScanPark, ScanNoMem, ScanPartial, ScanFrame
<1> QED BY <1>1, <1>2, <1>3, <1>4, <1>5 DEF Next

\* partial_skb is never overwritten while it holds a frame, whatever the chip
\* sends and whichever reads and allocations fail.
THEOREM NoFrameOverwritten == Spec => []OneParked
<1>1. Init => Parking
  BY DEF Init, Parking, OneParked
<1>2. Parking => OneParked
  BY DEF Parking
<1> QED BY <1>1, <1>2, ParkingStep, PTL DEF Spec

-----------------------------------------------------------------------------
(* The join of a sequence of sequences.                                    *)

\* g joins the first n sequences of ss one by one.
Joins(g, ss, n) ==
  /\ g[0] = <<>> /\ \A m \in 1..n : g[m] = g[m - 1] \o ss[m]

LEMMA JoinedExists ==
  ASSUME NEW S, NEW ss \in Seq(Seq(S))
  PROVE  /\ Joined(ss) \in [0..Len(ss) -> Seq(S)]
         /\ Joins(Joined(ss), ss, Len(ss))
<1> DEFINE N == {n \in Nat : n =< Len(ss) => \E g \in [0..n -> Seq(S)] : Joins(g, ss, n)}
<1>1. 0 \in N
  <2>1. [m \in 0..0 |-> <<>>] \in [0..0 -> Seq(S)] /\ Joins([m \in 0..0 |-> <<>>], ss, 0)
    BY DEF Joins
  <2> QED BY <2>1
<1>2. ASSUME NEW n \in Nat, n \in N PROVE n + 1 \in N
  <2> SUFFICES ASSUME n + 1 =< Len(ss)
               PROVE  \E g \in [0..(n + 1) -> Seq(S)] : Joins(g, ss, n + 1)
    OBVIOUS
  <2>1. PICK g \in [0..n -> Seq(S)] : Joins(g, ss, n)
    BY <1>2
  <2> DEFINE h == [m \in 0..(n + 1) |-> IF m = n + 1 THEN g[n] \o ss[n + 1] ELSE g[m]]
  <2>2. g[n] \o ss[n + 1] \in Seq(S)
    OBVIOUS
  <2>3. h \in [0..(n + 1) -> Seq(S)]
    BY <2>2
  <2>4. h[0] = <<>>
    BY <2>1 DEF Joins
  <2>5. ASSUME NEW m \in 1..(n + 1) PROVE h[m] = h[m - 1] \o ss[m]
    <3>1. CASE m = n + 1
      <4>1. h[m] = g[n] \o ss[n + 1] /\ h[m - 1] = g[n]
        BY <3>1
      <4> QED BY <3>1, <4>1
    <3>2. CASE m # n + 1
      <4>1. m \in 1..n /\ h[m] = g[m] /\ h[m - 1] = g[m - 1]
        BY <3>2
      <4> QED BY <2>1, <4>1 DEF Joins
    <3> QED BY <3>1, <3>2
  <2>6. Joins(h, ss, n + 1)
    <3> HIDE DEF h
    <3> QED BY <2>4, <2>5 DEF Joins
  <2> QED BY <2>3, <2>6
<1>3. Nat \subseteq N
  <2> HIDE DEF N
  <2> QED BY <1>1, <1>2, NatSets
<1>4. Len(ss) \in Nat
  OBVIOUS
<1>5. PICK g \in [0..Len(ss) -> Seq(S)] : Joins(g, ss, Len(ss))
  <2>1. Len(ss) \in N
    <3> HIDE DEF N
    <3> QED BY <1>3, <1>4
  <2>2. Len(ss) =< Len(ss)
    BY <1>4
  <2> QED BY ONLY <2>1, <2>2
<1>6. g = [n \in 0..Len(ss) |-> IF n = 0 THEN <<>> ELSE g[n - 1] \o ss[n]]
  <2>1. DOMAIN g = 0..Len(ss)
    OBVIOUS
  <2>2. ASSUME NEW n \in 0..Len(ss)
        PROVE  g[n] = IF n = 0 THEN <<>> ELSE g[n - 1] \o ss[n]
    <3>1. CASE n = 0
      <4>1. g[0] = <<>>
        BY <1>5 DEF Joins
      <4> QED BY <3>1, <4>1
    <3>2. CASE n # 0
      <4>1. n \in 1..Len(ss)
        BY <1>4, <3>2
      <4>2. g[n] = g[n - 1] \o ss[n]
        BY <1>5, <4>1 DEF Joins
      <4> QED BY <3>2, <4>2
    <3> QED BY <3>1, <3>2
  <2> QED BY <2>1, <2>2
<1>7. Joined(ss) = [n \in 0..Len(ss) |-> IF n = 0 THEN <<>> ELSE Joined(ss)[n - 1] \o ss[n]]
  BY <1>6 DEF Joined
<1> DEFINE f == Joined(ss)
<1> HIDE DEF f
<1>8. \A n \in 0..Len(ss) : f[n] = IF n = 0 THEN <<>> ELSE f[n - 1] \o ss[n]
  <2>1. f = [n \in 0..Len(ss) |-> IF n = 0 THEN <<>> ELSE f[n - 1] \o ss[n]]
    BY <1>7 DEF f
  <2> QED BY ONLY <2>1
<1>9. f[0] = <<>>
  BY <1>4, <1>8
<1>15. ASSUME NEW n \in 1..Len(ss) PROVE f[n] = f[n - 1] \o ss[n]
  <2>1. n \in 0..Len(ss) /\ n # 0
    BY <1>4
  <2> QED BY ONLY <1>8, <2>1
<1> DEFINE M == {n \in Nat : n =< Len(ss) => f[n] \in Seq(S)}
<1>10. 0 \in M
  <2>1. f[0] \in Seq(S)
    <3>1. <<>> \in Seq(S)
      OBVIOUS
    <3> QED BY ONLY <3>1, <1>9
  <2> QED BY ONLY <2>1
<1>11. ASSUME NEW n \in Nat, n \in M PROVE n + 1 \in M
  <2> SUFFICES ASSUME n + 1 =< Len(ss) PROVE f[n + 1] \in Seq(S)
    OBVIOUS
  <2>1. f[n] \in Seq(S) /\ ss[n + 1] \in Seq(S) /\ n + 1 \in 1..Len(ss)
    BY <1>4, <1>11
  <2>2. f[n + 1] = f[n] \o ss[n + 1]
    <3> DEFINE m == n + 1
    <3>1. f[m] = f[m - 1] \o ss[m]
      BY <1>15, <2>1
    <3>2. m - 1 = n
      OBVIOUS
    <3> QED BY <3>1, <3>2
  <2> QED BY <2>1, <2>2
<1>12. Nat \subseteq M
  <2> HIDE DEF M
  <2> QED BY <1>10, <1>11, NatSets
<1>13. f = [n \in 0..Len(ss) |-> f[n]]
  BY <1>7 DEF f
<1>14. f \in [0..Len(ss) -> Seq(S)]
  BY <1>4, <1>12, <1>13
<1>16. Joins(f, ss, Len(ss))
  BY <1>9, <1>15 DEF Joins
<1> QED BY <1>14, <1>16 DEF f

LEMMA JoinedTypes ==
  ASSUME NEW S, NEW ss \in Seq(Seq(S))
  PROVE  /\ Len(ss) \in Nat
         /\ \A n \in 0..Len(ss) : Joined(ss)[n] \in Seq(S)
         /\ Joined(ss)[0] = <<>>
         /\ \A n \in Nat : n + 1 =< Len(ss) =>
              Joined(ss)[n + 1] = Joined(ss)[n] \o ss[n + 1]
<1>1. Len(ss) \in Nat
  OBVIOUS
<1>2. /\ Joined(ss) \in [0..Len(ss) -> Seq(S)]
      /\ Joins(Joined(ss), ss, Len(ss))
  BY JoinedExists
<1>3. \A n \in 0..Len(ss) : Joined(ss)[n] \in Seq(S)
  BY <1>2
<1>4. Joined(ss)[0] = <<>>
  BY <1>2 DEF Joins
<1>5. ASSUME NEW n \in Nat, n + 1 =< Len(ss)
      PROVE  Joined(ss)[n + 1] = Joined(ss)[n] \o ss[n + 1]
  <2> DEFINE m == n + 1
  <2>1. m \in 1..Len(ss) /\ m - 1 = n
    BY <1>1, <1>5
  <2>2. Joined(ss)[m] = Joined(ss)[m - 1] \o ss[m]
    BY <1>2, <2>1 DEF Joins
  <2> QED BY <2>1, <2>2
<1> QED BY <1>1, <1>3, <1>4, <1>5

\* What the join of a sequence of sequences is, and what appending one does
LEMMA FlatFacts ==
  ASSUME NEW S, NEW ss \in Seq(Seq(S))
  PROVE  /\ Flat(ss) \in Seq(S)
         /\ ss = <<>> => Flat(ss) = <<>>
         /\ ss # <<>> => Len(Flat(ss)) >= Len(ss[Len(ss)])
<1> DEFINE f == Joined(ss)
<1>1. /\ Len(ss) \in Nat /\ f[0] = <<>>
      /\ \A n \in 0..Len(ss) : f[n] \in Seq(S)
      /\ \A n \in Nat : n + 1 =< Len(ss) => f[n + 1] = f[n] \o ss[n + 1]
  BY JoinedTypes
<1>2. Flat(ss) = f[Len(ss)]
  BY DEF Flat
<1> HIDE DEF f
<1>3. Flat(ss) \in Seq(S)
  BY <1>1, <1>2
<1>4. ASSUME ss = <<>> PROVE Flat(ss) = <<>>
  <2>1. Len(ss) = 0
    BY <1>4
  <2> QED BY <1>1, <1>2, <2>1
<1>5. ASSUME ss # <<>> PROVE Len(Flat(ss)) >= Len(ss[Len(ss)])
  <2> DEFINE n == Len(ss) - 1
  <2>1. n \in Nat /\ n \in 0..Len(ss) /\ n + 1 = Len(ss) /\ Len(ss) \in 1..Len(ss)
    BY <1>5
  <2> HIDE DEF n
  <2>2. f[n + 1] = f[n] \o ss[n + 1]
    <3>1. n + 1 =< Len(ss)
      BY <2>1
    <3> QED BY ONLY <1>1, <2>1, <3>1
  <2>3. f[n] \in Seq(S) /\ ss[n + 1] \in Seq(S)
    BY <1>1, <2>1
  <2> DEFINE a == f[n]
             b == ss[n + 1]
  <2>4. Len(a \o b) = Len(a) + Len(b) /\ Len(a) \in Nat /\ Len(b) \in Nat
    BY <2>3, ConcatProperties
  <2> HIDE DEF a, b
  <2>5. Len(a \o b) >= Len(b)
    BY <2>4
  <2> QED BY <1>2, <2>1, <2>2, <2>5 DEF a, b
<1> QED BY <1>3, <1>4, <1>5

LEMMA FlatAppend ==
  ASSUME NEW S, NEW ss \in Seq(Seq(S)), NEW x \in Seq(S)
  PROVE  Flat(Append(ss, x)) = Flat(ss) \o x
<1> DEFINE tt == Append(ss, x)
           f  == Joined(ss)
           g  == Joined(tt)
           N  == {n \in Nat : n =< Len(ss) => g[n] = f[n]}
<1>1. /\ tt \in Seq(Seq(S)) /\ Len(ss) \in Nat /\ Len(tt) = Len(ss) + 1
      /\ \A n \in 1..Len(ss) : tt[n] = ss[n]
      /\ tt[Len(ss) + 1] = x
  OBVIOUS
<1> HIDE DEF tt
<1>2. /\ g[0] = <<>>
      /\ \A n \in Nat : n + 1 =< Len(tt) => g[n + 1] = g[n] \o tt[n + 1]
  BY <1>1, JoinedTypes
<1>3. /\ f[0] = <<>>
      /\ \A n \in Nat : n + 1 =< Len(ss) => f[n + 1] = f[n] \o ss[n + 1]
  BY JoinedTypes
<1> HIDE DEF f, g
<1>4. 0 \in N
  BY <1>2, <1>3
<1>5. ASSUME NEW n \in Nat, n \in N PROVE n + 1 \in N
  <2> SUFFICES ASSUME n + 1 =< Len(ss) PROVE g[n + 1] = f[n + 1]
    OBVIOUS
  <2>1. n + 1 \in 1..Len(ss) /\ n + 1 =< Len(tt) /\ n =< Len(ss)
    BY <1>1
  <2>2. g[n] = f[n]
    BY <1>5, <2>1
  <2>3. tt[n + 1] = ss[n + 1]
    BY <1>1, <2>1
  <2>4. g[n + 1] = g[n] \o tt[n + 1] /\ f[n + 1] = f[n] \o ss[n + 1]
    BY <1>2, <1>3, <2>1
  <2> QED BY <2>2, <2>3, <2>4
<1>6. Nat \subseteq N
  <2> HIDE DEF N
  <2> QED BY <1>4, <1>5, NatSets
<1>7. g[Len(ss)] = f[Len(ss)]
  BY <1>1, <1>6
<1>8. g[Len(tt)] = g[Len(ss)] \o x
  <2>1. g[Len(ss) + 1] = g[Len(ss)] \o tt[Len(ss) + 1]
    <3>1. Len(ss) + 1 =< Len(tt) /\ Len(ss) \in Nat
      BY <1>1
    <3> QED BY ONLY <1>2, <3>1
  <2> QED BY <1>1, <2>1
<1> QED BY <1>7, <1>8 DEF Flat, tt, f, g

LEMMA FlatHead ==
  ASSUME NEW S, NEW ss \in Seq(Seq(S)), ss # <<>>
  PROVE  Flat(ss) = Head(ss) \o Flat(Tail(ss))
<1> DEFINE tt == Tail(ss)
           h  == Head(ss)
           f  == Joined(ss)
           g  == Joined(tt)
           N  == {n \in Nat : n =< Len(tt) => f[n + 1] = h \o g[n]}
<1>1. /\ tt \in Seq(Seq(S)) /\ h \in Seq(S) /\ Len(tt) \in Nat /\ Len(ss) = Len(tt) + 1
      /\ \A n \in 1..Len(tt) : tt[n] = ss[n + 1]
      /\ h = ss[1]
  OBVIOUS
<1> HIDE DEF tt, h
<1>2. /\ g[0] = <<>>
      /\ \A n \in 0..Len(tt) : g[n] \in Seq(S)
      /\ \A n \in Nat : n + 1 =< Len(tt) => g[n + 1] = g[n] \o tt[n + 1]
  BY <1>1, JoinedTypes
<1>3. /\ f[0] = <<>>
      /\ \A n \in Nat : n + 1 =< Len(ss) => f[n + 1] = f[n] \o ss[n + 1]
  BY JoinedTypes
<1> HIDE DEF f, g
<1>4. f[1] = h
  <2>1. f[0 + 1] = f[0] \o ss[0 + 1]
    <3>1. 0 + 1 =< Len(ss) /\ 0 \in Nat
      BY <1>1
    <3> QED BY ONLY <1>3, <3>1
  <2>2. f[1] = <<>> \o h
    BY <1>1, <1>3, <2>1
  <2>3. <<>> \o h = h
    BY <1>1, ConcatEmptySeq
  <2> QED BY <2>2, <2>3
<1>5. 0 \in N
  <2>1. h \o g[0] = h
    BY <1>1, <1>2, ConcatEmptySeq
  <2> QED BY <1>4, <2>1
<1>6. ASSUME NEW n \in Nat, n \in N PROVE n + 1 \in N
  <2> SUFFICES ASSUME n + 1 =< Len(tt) PROVE f[(n + 1) + 1] = h \o g[n + 1]
    OBVIOUS
  <2>1. n + 1 \in 1..Len(tt) /\ n \in 0..Len(tt) /\ n =< Len(tt)
        /\ (n + 1) + 1 =< Len(ss) /\ n + 1 \in Nat
    BY <1>1
  <2>2. f[n + 1] = h \o g[n]
    BY <1>6, <2>1
  <2>3. tt[n + 1] = ss[(n + 1) + 1] /\ tt[n + 1] \in Seq(S) /\ g[n] \in Seq(S)
    BY <1>1, <1>2, <2>1
  <2>4. f[(n + 1) + 1] = f[n + 1] \o ss[(n + 1) + 1]
    BY <1>3, <2>1
  <2>5. g[n + 1] = g[n] \o tt[n + 1]
    BY <1>2, <2>1
  <2>6. (h \o g[n]) \o tt[n + 1] = h \o (g[n] \o tt[n + 1])
    <3> DEFINE u == g[n]
               v == tt[n + 1]
    <3>1. h \in Seq(S) /\ u \in Seq(S) /\ v \in Seq(S)
      BY <1>1, <2>3
    <3> HIDE DEF u, v
    <3>2. (h \o u) \o v = h \o (u \o v)
      BY ONLY <3>1, ConcatAssociative
    <3> QED BY <3>2 DEF u, v
  <2> QED BY <2>2, <2>3, <2>4, <2>5, <2>6
<1>7. Nat \subseteq N
  <2> HIDE DEF N
  <2> QED BY <1>5, <1>6, NatSets
<1>8. f[Len(tt) + 1] = h \o g[Len(tt)]
  <2>1. Len(tt) \in N
    BY <1>1, <1>7
  <2>2. Len(tt) =< Len(tt)
    BY <1>1
  <2> QED BY ONLY <2>1, <2>2
<1> QED BY <1>1, <1>8 DEF Flat, tt, h, f, g

-----------------------------------------------------------------------------
(* The stream and its frames.                                              *)

Frames == [f \in 1..Len(Size) |-> Frame(f)]

\* The bytes of the stream in front of frame f
Cut(f) == Len(Joined(Frames)[f - 1])

Pair == Nat \X Nat

LEMMA FramesTypes ==
  /\ Len(Size) \in Nat /\ Hdr \in Nat /\ MaxSize \in Nat
  /\ \A f \in 1..Len(Size) :
       /\ Size[f] \in Nat /\ Size[f] > Hdr /\ Size[f] =< MaxSize
       /\ Frame(f) \in Seq(Pair) /\ Len(Frame(f)) = Size[f]
       /\ \A i \in 1..Size[f] : Frame(f)[i] = <<f, i>>
  /\ Frames \in Seq(Seq(Pair)) /\ Len(Frames) = Len(Size)
  /\ \A f \in 1..Len(Size) : Frames[f] = Frame(f)
<1>1. Len(Size) \in Nat /\ Hdr \in Nat /\ MaxSize \in Nat
  BY SizeAssumption, HeaderAssumption
<1>2. ASSUME NEW f \in 1..Len(Size)
      PROVE  /\ Size[f] \in Nat /\ Size[f] > Hdr /\ Size[f] =< MaxSize
             /\ Frame(f) \in Seq(Pair) /\ Len(Frame(f)) = Size[f]
             /\ \A i \in 1..Size[f] : Frame(f)[i] = <<f, i>>
  <2>1. Size[f] \in Nat /\ Size[f] > Hdr /\ Size[f] =< MaxSize
    BY <1>1, SizeAssumption
  <2>2. \A i \in 1..Size[f] : <<f, i>> \in Pair
    BY <1>1, <2>1 DEF Pair
  <2> QED BY <2>1, <2>2 DEF Frame
<1>3. Frames \in Seq(Seq(Pair)) /\ Len(Frames) = Len(Size)
  BY <1>1, <1>2 DEF Frames
<1>4. \A f \in 1..Len(Size) : Frames[f] = Frame(f)
  BY DEF Frames
<1> QED BY <1>1, <1>2, <1>3, <1>4

LEMMA CutFacts ==
  /\ Cut(1) = 0
  /\ \A f \in 1..Len(Size) + 1 : Cut(f) \in Nat
  /\ \A f \in 1..Len(Size) : Cut(f + 1) = Cut(f) + Size[f]
  /\ Cut(Len(Size) + 1) = Len(Stream)
  /\ Stream \in Seq(Pair)
<1> DEFINE j == Joined(Frames)
           N == Len(Size)
<1>1. /\ N \in Nat /\ j[0] = <<>>
      /\ \A n \in 0..N : j[n] \in Seq(Pair)
      /\ \A n \in Nat : n + 1 =< N => j[n + 1] = j[n] \o Frames[n + 1]
  BY FramesTypes, JoinedTypes
<1>2. \A f : Cut(f) = Len(j[f - 1])
  BY DEF Cut
<1>3. Stream = Flat(Frames)
  BY DEF Stream, Frames
<1>4. Stream = j[N]
  BY <1>3, FramesTypes DEF Flat
<1> HIDE DEF j, N
<1>5. Cut(1) = 0
  BY <1>1, <1>2
<1>6. ASSUME NEW f \in 1..N + 1 PROVE Cut(f) \in Nat
  <2>1. f - 1 \in 0..N
    BY <1>1
  <2>2. j[f - 1] \in Seq(Pair)
    BY <1>1, <2>1
  <2> QED BY <1>2, <2>2
<1>7. ASSUME NEW f \in 1..N PROVE Cut(f + 1) = Cut(f) + Size[f]
  <2> DEFINE n == f - 1
  <2>1. n \in Nat /\ n \in 0..N /\ n + 1 =< N /\ n + 1 = f
    BY <1>1
  <2> HIDE DEF n
  <2>2. j[n + 1] = j[n] \o Frames[n + 1]
    BY ONLY <1>1, <2>1
  <2>3. Frames[n + 1] \in Seq(Pair) /\ Len(Frames[n + 1]) = Size[f]
    BY <2>1, FramesTypes DEF N
  <2>4. j[n] \in Seq(Pair)
    BY <1>1, <2>1
  <2>5. Len(j[n] \o Frames[n + 1]) = Len(j[n]) + Len(Frames[n + 1])
    BY <2>3, <2>4, ConcatProperties
  <2>6. Cut(f + 1) = Len(j[n + 1])
    <3>1. (f + 1) - 1 = n + 1
      BY <2>1
    <3> QED BY <1>2, <3>1
  <2>7. Cut(f) = Len(j[n])
    BY <1>2 DEF n
  <2> QED BY <2>2, <2>3, <2>5, <2>6, <2>7
<1>8. Cut(N + 1) = Len(Stream)
  <2>1. (N + 1) - 1 = N
    BY <1>1
  <2> QED BY <1>2, <1>4, <2>1
<1>9. Stream \in Seq(Pair)
  BY <1>1, <1>4
<1> QED BY <1>5, <1>6, <1>7, <1>8, <1>9 DEF N

\* The frames follow each other, and every byte is of one of them.
LEMMA CutsAscend ==
  \A f, g \in 1..Len(Size) + 1 : f < g => Cut(f) + Size[f] =< Cut(g)
<1> DEFINE N == Len(Size)
           M == {n \in Nat : n =< N => \A f \in 1..n : Cut(f) + Size[f] =< Cut(n + 1)}
<1>1. /\ N \in Nat
      /\ \A f \in 1..N : Size[f] \in Nat
      /\ \A f \in 1..N + 1 : Cut(f) \in Nat
      /\ \A f \in 1..N : Cut(f + 1) = Cut(f) + Size[f]
  BY FramesTypes, CutFacts
<1> HIDE DEF N
<1>2. 0 \in M
  OBVIOUS
<1>3. ASSUME NEW n \in Nat, n \in M PROVE n + 1 \in M
  <2> SUFFICES ASSUME n + 1 =< N, NEW f \in 1..(n + 1)
               PROVE  Cut(f) + Size[f] =< Cut((n + 1) + 1)
    OBVIOUS
  <2>1. n + 1 \in 1..N /\ n =< N /\ f \in 1..N
    BY <1>1
  <2>2. Cut((n + 1) + 1) = Cut(n + 1) + Size[n + 1] /\ Size[n + 1] \in Nat
    BY <1>1, <2>1
  <2>3. CASE f = n + 1
    BY <1>1, <2>1, <2>2, <2>3
  <2>4. CASE f # n + 1
    <3>1. f \in 1..n
      BY <2>4
    <3>2. Cut(f) + Size[f] =< Cut(n + 1)
      BY <1>3, <2>1, <3>1
    <3>3. Cut(f) \in Nat /\ Size[f] \in Nat /\ Cut(n + 1) \in Nat
      BY <1>1, <2>1
    <3> QED BY <2>2, <3>2, <3>3
  <2> QED BY <2>3, <2>4
<1>4. Nat \subseteq M
  <2> HIDE DEF M
  <2> QED BY <1>2, <1>3, NatSets
<1>5. ASSUME NEW f \in 1..N + 1, NEW g \in 1..N + 1, f < g
      PROVE  Cut(f) + Size[f] =< Cut(g)
  <2> DEFINE n == g - 1
  <2>1. n \in Nat /\ n =< N /\ f \in 1..n /\ n + 1 = g
    BY <1>1, <1>5
  <2> HIDE DEF n
  <2>2. n \in M
    BY <1>4, <2>1
  <2> QED BY <2>1, <2>2
<1> QED BY <1>5 DEF N

LEMMA StreamBytes ==
  /\ \A f \in 1..Len(Size) : \A i \in 1..Size[f] :
       /\ Cut(f) + i \in 1..Len(Stream)
       /\ Stream[Cut(f) + i] = <<f, i>>
  /\ \A p \in 1..Len(Stream) :
       \E f \in 1..Len(Size) : \E i \in 1..Size[f] : p = Cut(f) + i
<1> DEFINE j == Joined(Frames)
           N == Len(Size)
           Holds(n) ==
             /\ \A f \in 1..n : \A i \in 1..Size[f] :
                  Cut(f) + i \in 1..Len(j[n]) /\ j[n][Cut(f) + i] = <<f, i>>
             /\ \A p \in 1..Len(j[n]) :
                  \E f \in 1..n : \E i \in 1..Size[f] : p = Cut(f) + i
           M == {n \in Nat : n =< N => Holds(n)}
<1>1. /\ N \in Nat /\ j[0] = <<>>
      /\ \A n \in 0..N : j[n] \in Seq(Pair)
      /\ \A n \in Nat : n + 1 =< N => j[n + 1] = j[n] \o Frames[n + 1]
  BY FramesTypes, JoinedTypes
<1>2. ASSUME NEW n \in 0..N PROVE Cut(n + 1) = Len(j[n])
  <2>1. (n + 1) - 1 = n
    BY <1>1
  <2> QED BY <2>1 DEF Cut
<1>3. Stream = j[N]
  <2>1. Stream = Flat(Frames)
    BY DEF Stream, Frames
  <2> QED BY <2>1, FramesTypes DEF Flat
<1> HIDE DEF j, N
<1>4. 0 \in M
  BY <1>1
<1>5. ASSUME NEW n \in Nat, n \in M PROVE n + 1 \in M
  <2> SUFFICES ASSUME n + 1 =< N PROVE Holds(n + 1)
    OBVIOUS
  <2> DEFINE a == j[n]
             b == Frame(n + 1)
  <2>1. n + 1 \in 1..N /\ n =< N /\ n \in 0..N
    BY <1>1
  <2>2. /\ a \in Seq(Pair) /\ b \in Seq(Pair) /\ Len(b) = Size[n + 1] /\ Size[n + 1] \in Nat
        /\ \A i \in 1..Size[n + 1] : b[i] = <<n + 1, i>>
    BY <1>1, <2>1, FramesTypes DEF N
  <2>3. j[n + 1] = a \o b
    BY <1>1, <2>1, FramesTypes DEF N
  <2>4. /\ \A f \in 1..n : \A i \in 1..Size[f] :
             Cut(f) + i \in 1..Len(a) /\ a[Cut(f) + i] = <<f, i>>
        /\ \A p \in 1..Len(a) : \E f \in 1..n : \E i \in 1..Size[f] : p = Cut(f) + i
    BY <1>5, <2>1
  <2>5. Cut(n + 1) = Len(a)
    BY <1>2, <2>1
  <2> HIDE DEF a, b
  <2>6. /\ Len(a \o b) = Len(a) + Len(b) /\ Len(a) \in Nat
        /\ \A i \in 1..Len(a) + Len(b) :
             (a \o b)[i] = IF i =< Len(a) THEN a[i] ELSE b[i - Len(a)]
    <3>1. a \in Seq(Pair) /\ b \in Seq(Pair)
      BY <2>2
    <3>2. Len(a) \in Nat
      BY <3>1
    <3> QED BY ONLY <3>1, <3>2, ConcatProperties
  <2>7. ASSUME NEW f \in 1..(n + 1), NEW i \in 1..Size[f]
        PROVE  Cut(f) + i \in 1..Len(a \o b) /\ (a \o b)[Cut(f) + i] = <<f, i>>
    <3>1. CASE f = n + 1
      <4>1. Cut(f) + i = Len(a) + i /\ i \in 1..Len(b) /\ Len(a) + i \in 1..Len(a) + Len(b)
        <5>1. Cut(f) = Len(a) /\ Len(b) = Size[f] /\ Len(b) \in Nat
          BY <2>2, <2>5, <3>1
        <5> QED BY <2>6, <5>1
      <4>2. (a \o b)[Len(a) + i] = b[i]
        <5>1. ~(Len(a) + i =< Len(a)) /\ (Len(a) + i) - Len(a) = i
          BY <2>6, <4>1
        <5> QED BY <2>6, <4>1, <5>1
      <4>3. b[i] = <<f, i>>
        BY <2>2, <3>1
      <4> QED BY <2>6, <4>1, <4>2, <4>3
    <3>2. CASE f # n + 1
      <4>1. f \in 1..n
        BY <3>2
      <4>2. Cut(f) + i \in 1..Len(a) /\ a[Cut(f) + i] = <<f, i>>
        BY <2>4, <4>1
      <4>3. Cut(f) + i \in 1..Len(a) + Len(b) /\ Cut(f) + i =< Len(a)
        BY <2>2, <2>6, <4>2
      <4> QED BY <2>6, <4>2, <4>3
    <3> QED BY <3>1, <3>2
  <2>8. ASSUME NEW p \in 1..Len(a \o b)
        PROVE  \E f \in 1..(n + 1) : \E i \in 1..Size[f] : p = Cut(f) + i
    <3>1. CASE p =< Len(a)
      <4>1. p \in 1..Len(a)
        BY <3>1
      <4>2. PICK f \in 1..n : \E i \in 1..Size[f] : p = Cut(f) + i
        BY <2>4, <4>1
      <4> QED BY <4>2
    <3>2. CASE p > Len(a)
      <4>1. p - Len(a) \in 1..Size[n + 1] /\ p = Len(a) + (p - Len(a))
        <5>1. p \in Nat /\ p =< Len(a) + Len(b)
          BY <2>2, <2>6
        <5> QED BY <2>2, <2>6, <3>2, <5>1
      <4> QED BY <2>5, <4>1
    <3>3. p =< Len(a) \/ p > Len(a)
      <4>1. p \in Int /\ Len(a) \in Int
        BY <2>6
      <4> QED BY ONLY <4>1
    <3> QED BY ONLY <3>1, <3>2, <3>3
  <2> QED BY <2>3, <2>7, <2>8 DEF a, b
<1>6. Nat \subseteq M
  <2> HIDE DEF M
  <2> QED BY <1>4, <1>5, NatSets
<1>7. Holds(N)
  <2>1. N \in M /\ N =< N
    BY <1>1, <1>6
  <2> HIDE DEF Holds
  <2> QED BY <2>1
<1> QED BY <1>3, <1>7 DEF N

\* A byte of the stream is a marker of its own only where a frame starts.
LEMMA FrameStarts ==
  ASSUME NEW p \in 1..Len(Stream)
  PROVE  /\ Stream[p][2] = 1 => \E f \in 1..Len(Size) : Cut(f) = p - 1
         /\ \A f \in 1..Len(Size) : Cut(f) = p - 1 => Stream[p][2] = 1
<1>1. ASSUME Stream[p][2] = 1 PROVE \E f \in 1..Len(Size) : Cut(f) = p - 1
  <2>1. PICK f \in 1..Len(Size) : \E i \in 1..Size[f] : p = Cut(f) + i
    BY StreamBytes
  <2>4. PICK i \in 1..Size[f] : p = Cut(f) + i
    BY <2>1
  <2>2. Stream[p] = <<f, i>>
    BY <2>4, StreamBytes
  <2>3. i = 1 /\ Cut(f) \in Nat
    BY <1>1, <2>2, CutFacts, FramesTypes
  <2> QED BY <2>3, <2>4
<1>2. ASSUME NEW f \in 1..Len(Size), Cut(f) = p - 1 PROVE Stream[p][2] = 1
  <2>1. 1 \in 1..Size[f] /\ p = Cut(f) + 1
    BY <1>2, FramesTypes, CutFacts
  <2>2. Stream[p] = <<f, 1>>
    BY <2>1, StreamBytes
  <2> QED BY <2>2
<1> QED BY <1>1, <1>2

LEMMA SymbolFacts ==
  ASSUME NEW s \in Symbols
  PROVE  Length(s) \in Nat /\ Length(s) =< MaxSize
<1>1. CASE s = Foreign
  <2>1. s[2] # 2
    BY <1>1 DEF Foreign
  <2> QED BY <2>1, FramesTypes DEF Length
<1>2. CASE s # Foreign
  <2>1. PICK p \in 1..Len(Stream) : s = Stream[p]
    BY <1>2 DEF Symbols
  <2>2. PICK f \in 1..Len(Size) : \E i \in 1..Size[f] : p = Cut(f) + i
    BY StreamBytes
  <2>5. PICK i \in 1..Size[f] : p = Cut(f) + i
    BY <2>2
  <2>3. s = <<f, i>>
    BY <2>1, <2>5, StreamBytes
  <2>4. s[1] = f
    BY <2>3
  <2> QED BY <2>4, FramesTypes DEF Length
<1> QED BY <1>1, <1>2

\* The header of a frame is plausible, and gives its length.
LEMMA HeaderFacts ==
  ASSUME NEW f \in 1..Len(Size), NEW h, h[1] = <<f, 1>>, h[2] = <<f, 2>>
  PROVE  Marker(h[1]) /\ Length(h[2]) = Size[f] /\ Plausible(h)
<1>1. Marker(h[1])
  BY DEF Marker
<1>2. Length(h[2]) = Size[f]
  BY ClaimAssumption DEF Length
<1> QED BY <1>1, <1>2, FramesTypes DEF Plausible

-----------------------------------------------------------------------------
(* What the chip has queued and what the walk has still to see.            *)

\* The bytes of the stream in a run
Pay(r) == IF r.type = "ip" THEN r.pay ELSE <<>>

LEMMA PayloadFacts ==
  ASSUME NEW runs \in Seq(Runs)
  PROVE  /\ Payloads(runs) \in Seq(Symbols)
         /\ runs = <<>> => Payloads(runs) = <<>>
         /\ runs # <<>> => /\ Payloads(runs) = Pay(Head(runs)) \o Payloads(Tail(runs))
                           /\ Len(Payloads(runs)) >= Len(Pay(Last(runs)))
<1> DEFINE ps(rs) == [i \in 1..Len(rs) |-> Pay(rs[i])]
<1>1. ASSUME NEW r \in Runs PROVE Pay(r) \in Seq(Symbols)
  BY <1>1 DEF Pay, Runs
<1>2. ASSUME NEW rs \in Seq(Runs)
      PROVE  /\ ps(rs) \in Seq(Seq(Symbols)) /\ Len(ps(rs)) = Len(rs) /\ Len(rs) \in Nat
             /\ Payloads(rs) = Flat(ps(rs))
  <2>1. Len(rs) \in Nat /\ \A i \in 1..Len(rs) : Pay(rs[i]) \in Seq(Symbols)
    BY <1>1
  <2>2. ps(rs) \in Seq(Seq(Symbols)) /\ Len(ps(rs)) = Len(rs)
    BY <2>1
  <2>3. Payloads(rs) = Flat(ps(rs))
    BY DEF Payloads, Pay
  <2> QED BY <2>1, <2>2, <2>3
<1>3. Payloads(runs) \in Seq(Symbols)
  BY <1>2, FlatFacts
<1>4. ASSUME runs = <<>> PROVE Payloads(runs) = <<>>
  <2>1. ps(runs) = <<>>
    BY <1>2, <1>4
  <2> QED BY <1>2, <2>1, FlatFacts
<1>5. ASSUME runs # <<>>
      PROVE  /\ Payloads(runs) = Pay(Head(runs)) \o Payloads(Tail(runs))
             /\ Len(Payloads(runs)) >= Len(Pay(Last(runs)))
  <2>1. Tail(runs) \in Seq(Runs) /\ Len(runs) \in 1..Len(runs) /\ 1 \in 1..Len(runs)
        /\ Len(Tail(runs)) = Len(runs) - 1 /\ Len(runs) \in Nat
        /\ \A i \in 1..Len(runs) - 1 : Tail(runs)[i] = runs[i + 1]
    BY <1>5
  <2>2. ps(runs) # <<>> /\ Head(ps(runs)) = Pay(Head(runs))
    BY <1>2, <2>1
  <2>3. Tail(ps(runs)) = ps(Tail(runs))
    <3>1. /\ Len(Tail(ps(runs))) = Len(runs) - 1 /\ Tail(ps(runs)) \in Seq(Seq(Symbols))
          /\ \A i \in 1..Len(runs) - 1 : Tail(ps(runs))[i] = ps(runs)[i + 1]
      <4> DEFINE q == ps(runs)
      <4>1. q \in Seq(Seq(Symbols)) /\ Len(q) = Len(runs) /\ q # <<>>
        BY <1>2, <2>2
      <4> HIDE DEF q
      <4>2. /\ Tail(q) \in Seq(Seq(Symbols)) /\ Len(Tail(q)) = Len(q) - 1
            /\ \A i \in 1..Len(q) - 1 : Tail(q)[i] = q[i + 1]
        BY <4>1, HeadTailProperties
      <4> QED BY <4>1, <4>2 DEF q
    <3>2. Len(ps(Tail(runs))) = Len(runs) - 1 /\ ps(Tail(runs)) \in Seq(Seq(Symbols))
      <4>1. Tail(runs) \in Seq(Runs) /\ Len(Tail(runs)) = Len(runs) - 1
        BY <2>1
      <4> HIDE DEF ps
      <4> QED BY <1>2, <4>1
    <3>3. ASSUME NEW i \in 1..Len(runs) - 1
          PROVE  ps(runs)[i + 1] = ps(Tail(runs))[i]
      <4>1. i + 1 \in 1..Len(runs) /\ i \in 1..Len(Tail(runs))
        BY <2>1
      <4>2. ps(runs)[i + 1] = Pay(runs[i + 1]) /\ ps(Tail(runs))[i] = Pay(Tail(runs)[i])
        BY <4>1
      <4> QED BY <2>1, <4>2
    <3>4. \A i \in 1..Len(runs) - 1 : Tail(ps(runs))[i] = ps(Tail(runs))[i]
      BY <3>1, <3>3
    <3> HIDE DEF ps
    <3> QED BY <3>1, <3>2, <3>4, SeqEqual
  <2>4. Payloads(runs) = Head(ps(runs)) \o Flat(Tail(ps(runs)))
    BY <1>2, <2>2, FlatHead
  <2>5. Flat(Tail(ps(runs))) = Payloads(Tail(runs))
    BY <1>2, <2>1, <2>3
  <2>6. Len(Flat(ps(runs))) >= Len(ps(runs)[Len(ps(runs))])
    BY <1>2, <2>2, FlatFacts
  <2>7. ps(runs)[Len(runs)] = Pay(Last(runs))
    BY <2>1 DEF Last
  <2>8. Len(Payloads(runs)) >= Len(Pay(Last(runs)))
    BY <1>2, <2>6, <2>7
  <2> QED BY <2>2, <2>4, <2>5, <2>8
<1> QED BY <1>3, <1>4, <1>5

LEMMA PayloadsAppend ==
  ASSUME NEW runs \in Seq(Runs), NEW r \in Runs
  PROVE  Payloads(Append(runs, r)) = Payloads(runs) \o Pay(r)
<1> DEFINE ps(rs) == [i \in 1..Len(rs) |-> Pay(rs[i])]
           ss == Append(runs, r)
<1>1. \A q \in Runs : Pay(q) \in Seq(Symbols)
  BY DEF Pay, Runs
<1>2. /\ ss \in Seq(Runs) /\ Len(runs) \in Nat /\ Len(ss) = Len(runs) + 1
      /\ \A i \in 1..Len(runs) : ss[i] = runs[i] /\ runs[i] \in Runs
      /\ ss[Len(runs) + 1] = r
  OBVIOUS
<1> HIDE DEF ss
<1>3. ps(runs) \in Seq(Seq(Symbols)) /\ Len(ps(runs)) = Len(runs)
  BY <1>1, <1>2
<1>4. ps(ss) = Append(ps(runs), Pay(r))
  <2>1. /\ Append(ps(runs), Pay(r)) \in Seq(Seq(Symbols))
        /\ Len(Append(ps(runs), Pay(r))) = Len(runs) + 1
        /\ \A i \in 1..Len(runs) : Append(ps(runs), Pay(r))[i] = Pay(runs[i])
        /\ Append(ps(runs), Pay(r))[Len(runs) + 1] = Pay(r)
    BY <1>1, <1>2, <1>3
  <2>2. ps(ss) \in Seq(Seq(Symbols)) /\ Len(ps(ss)) = Len(runs) + 1
    <3>1. \A i \in 1..Len(ss) : ss[i] \in Runs
      BY <1>2
    <3> QED BY <1>1, <1>2, <3>1
  <2>3. ASSUME NEW i \in 1..(Len(runs) + 1)
        PROVE  ps(ss)[i] = Append(ps(runs), Pay(r))[i]
    <3>1. ps(ss)[i] = Pay(ss[i])
      BY <1>2
    <3>2. CASE i = Len(runs) + 1
      BY <1>2, <2>1, <3>1, <3>2
    <3>3. CASE i # Len(runs) + 1
      <4>1. i \in 1..Len(runs)
        BY <1>2, <3>3
      <4> QED BY <1>2, <2>1, <3>1, <4>1
    <3> QED BY <3>2, <3>3
  <2> DEFINE u == ps(ss)
             v == Append(ps(runs), Pay(r))
  <2>4. u \in Seq(Seq(Symbols)) /\ v \in Seq(Seq(Symbols)) /\ Len(u) = Len(v)
        /\ \A i \in 1..Len(u) : u[i] = v[i]
    BY <1>2, <2>1, <2>2, <2>3
  <2> HIDE DEF u, v
  <2>5. u = v
    BY <2>4, SeqEqual
  <2> QED BY <2>5 DEF u, v
<1>5. Payloads(ss) = Flat(ps(ss)) /\ Payloads(runs) = Flat(ps(runs))
  BY DEF Payloads, Pay
<1>6. Flat(Append(ps(runs), Pay(r))) = Flat(ps(runs)) \o Pay(r)
  <2>1. Pay(r) \in Seq(Symbols)
    BY <1>1
  <2> HIDE DEF ps
  <2> QED BY <1>3, <2>1, FlatAppend
<1> QED BY <1>4, <1>5, <1>6 DEF ss

\* A read whose runs cannot be told apart is one run of the length of the last.
LEMMA RecoveredFacts ==
  ASSUME NEW runs \in Seq(Runs), runs # <<>>,
         \A i \in 1..Len(runs) : runs[i].pay # <<>>
  PROVE  /\ Recovered(runs) \in Seq(Runs)
         /\ \A i \in 1..Len(Recovered(runs)) : Recovered(runs)[i].pay # <<>>
         /\ Recovered(runs) # runs =>
              /\ Len(Recovered(runs)) = 1
              /\ Len(Payloads(Recovered(runs))) =< Len(Payloads(runs))
<1> DEFINE raws == [i \in 1..Len(runs) |-> Raw(runs[i])]
           n    == Len(Last(runs).pay)
           one  == [type |-> Last(runs).type, pay |-> SubSeq(Flat(raws), 1, n)]
<1>1. Len(runs) \in Nat /\ Len(runs) >= 1 /\ Len(runs) \in 1..Len(runs)
  OBVIOUS
<1>2. Last(runs) \in Runs /\ Last(runs).pay \in Seq(Symbols) /\ Last(runs).pay # <<>>
      /\ Last(runs).type \in Types
  <2>1. runs[Len(runs)] \in Runs /\ runs[Len(runs)].pay # <<>>
    BY <1>1
  <2>2. Last(runs) \in Runs /\ Last(runs).pay # <<>>
    BY <2>1 DEF Last
  <2> QED BY <2>2 DEF Runs
<1>3. n \in Nat /\ n >= 1
  BY <1>2
<1>4. ASSUME NEW r \in Runs
      PROVE  Raw(r) \in Seq(Symbols) /\ Len(Raw(r)) >= Len(r.pay)
  <2> DEFINE pad == [i \in 1..Block - (Len(r.pay) % Block) |-> Foreign]
  <2>1. r.pay \in Seq(Symbols) /\ Len(r.pay) \in Nat
    BY DEF Runs
  <2>2. Block - (Len(r.pay) % Block) \in Nat
    <3> DEFINE m == Len(r.pay)
    <3>1. m \in Nat /\ Block \in Nat /\ Block > 0
      BY <2>1, BlockAssumption
    <3> HIDE DEF m
    <3>2. m % Block \in 0..Block - 1
      BY <3>1
    <3>3. Block - (m % Block) \in Nat
      BY <3>1, <3>2
    <3> QED BY <3>3 DEF m
  <2>3. pad \in Seq(Symbols)
    BY <2>2 DEF Symbols
  <2>4. Raw(r) = r.pay \o pad
    BY DEF Raw
  <2> HIDE DEF pad
  <2>5. r.pay \o pad \in Seq(Symbols) /\ Len(r.pay \o pad) = Len(r.pay) + Len(pad)
        /\ Len(pad) \in Nat
    BY <2>1, <2>3, ConcatProperties
  <2> QED BY <2>1, <2>4, <2>5
<1>5. raws \in Seq(Seq(Symbols)) /\ Len(raws) = Len(runs)
      /\ raws[Len(raws)] = Raw(Last(runs))
  <2>1. \A i \in 1..Len(runs) : Raw(runs[i]) \in Seq(Symbols)
    BY <1>1, <1>4
  <2> QED BY <1>1, <2>1 DEF Last
<1>6. Flat(raws) \in Seq(Symbols) /\ Len(Flat(raws)) >= n
  <2>1. raws # <<>>
    BY <1>1, <1>5
  <2>2. Flat(raws) \in Seq(Symbols) /\ Len(Flat(raws)) >= Len(Raw(Last(runs)))
    BY <1>5, <2>1, FlatFacts
  <2>3. Len(Raw(Last(runs))) >= n /\ Raw(Last(runs)) \in Seq(Symbols)
    BY <1>2, <1>4
  <2> HIDE DEF raws, n
  <2>4. Len(Flat(raws)) \in Nat /\ Len(Raw(Last(runs))) \in Nat
    BY <2>2, <2>3
  <2> QED BY <1>3, <2>2, <2>3, <2>4
<1> HIDE DEF raws, n
<1>7. SubSeq(Flat(raws), 1, n) \in Seq(Symbols) /\ Len(SubSeq(Flat(raws), 1, n)) = n
  BY <1>3, <1>6
<1>8. one \in Runs /\ one.pay # <<>> /\ one.type = Last(runs).type /\ Len(one.pay) = n
  <2> DEFINE x == SubSeq(Flat(raws), 1, n)
  <2>1. x \in Seq(Symbols) /\ Len(x) = n /\ x # <<>>
    <3>1. x \in Seq(Symbols) /\ Len(x) = n
      BY <1>7
    <3> HIDE DEF x
    <3> QED BY <1>3, <3>1
  <2> HIDE DEF x
  <2>2. one = [type |-> Last(runs).type, pay |-> x]
    BY DEF x
  <2> HIDE DEF one
  <2> QED BY <1>2, <2>1, <2>2 DEF Runs
<1> HIDE DEF one
<1>9. Len(Payloads(<<one>>)) =< Len(Payloads(runs))
  <2>1. <<one>> \in Seq(Runs) /\ <<one>> # <<>> /\ Head(<<one>>) = one /\ Tail(<<one>>) = <<>>
    BY <1>8
  <2>2. Payloads(<<one>>) = Pay(one) \o <<>>
    <3>1. Payloads(<<>>) = <<>>
      <4>1. <<>> \in Seq(Runs)
        OBVIOUS
      <4> QED BY ONLY <4>1, PayloadFacts
    <3> QED BY <2>1, <3>1, PayloadFacts
  <2>3. Pay(one) \in Seq(Symbols) /\ Len(Pay(one)) = Len(Pay(Last(runs)))
    <3>1. CASE one.type = "ip"
      BY <1>2, <1>8, <3>1 DEF Pay, Runs, n
    <3>2. CASE one.type # "ip"
      BY <1>2, <1>8, <3>2 DEF Pay, Runs
    <3> QED BY <3>1, <3>2
  <2>4. Payloads(<<one>>) = Pay(one)
    BY <2>2, <2>3, ConcatEmptySeq
  <2> QED BY <2>3, <2>4, PayloadFacts
<1>10. Recovered(runs) = runs \/ Recovered(runs) = <<one>>
  BY DEF Recovered, one, raws, n
<1>11. CASE Recovered(runs) = runs
  BY <1>11
<1>12. CASE Recovered(runs) = <<one>>
  BY <1>8, <1>9, <1>12
<1> QED BY <1>10, <1>11, <1>12

-----------------------------------------------------------------------------
(* The inductive invariant.                                                *)

\* The bytes of s are those of the stream from p on, as far as they lie
\* behind l.
Real(s, p, l) == \A j \in 1..Len(s) : p + j > l => s[j] = Stream[p + j]

\* Where in the stream the walk is, and where what it has parked starts
Cur    == Handed(read) - Len(buf)
Parked == Cur - Len(partial) - Len(hdr_carry)

\* The handler empties the FIFO and its own read before the chip is heard again.
Phases ==
    /\ pc = "free" => read = <<>>
    /\ pc # "free" => fifo = <<>>
    /\ pc \in {"free", "dispatch"} => buf = <<>>

\* Behind the last loss, what has been queued, fetched and handed over is a
\* window of the stream each.
Windows ==
    /\ \A i \in 1..Len(fifo) : fifo[i].pay # <<>>
    /\ \A i \in 1..Len(read) : read[i].pay # <<>>
    /\ Len(Payloads(read)) + Len(Payloads(fifo)) + Len(buf) =< pos
    /\ lost =< Handed(read) \/ (pc = "dispatch" /\ Len(read) = 1 /\ lost = pos)
    /\ lost =< pos
    /\ Real(Payloads(fifo), pos - Len(Payloads(fifo)), lost)
    /\ Real(Payloads(read), Handed(read), lost)
    /\ Real(buf, Cur, lost)

\* What is parked is the start of frame f and what is missing of it.
AtFrame(f) ==
    /\ Parked = Cut(f)
    /\ Real(partial, Parked, lost) /\ Real(hdr_carry, Parked, lost)
    /\ partial # <<>> => f =< Len(Size) /\ Len(partial) + left = Size[f] /\ left > 0

\* Nothing was lost: the frames are those of the stream, one by one.
Clean ==
    lost = 0 =>
        /\ Len(out) =< Len(Size)
        /\ \A i \in 1..Len(out) : out[i] = Frame(i)
        /\ Flat(out) = SubSeq(Stream, 1, Cut(Len(out) + 1))
        /\ AtFrame(Len(out) + 1)

NoMimic == \A i \in lost + 1..Len(Stream) : Stream[i] \notin Mimic

\* The frames that start far enough behind the loss, and before q, are out.
Done(q) ==
    \A f \in 1..Len(Size) :
        lost + MaxSize =< Cut(f) /\ Cut(f) < q => \E i \in 1..Len(out) : out[i] = Frame(f)

\* The walk is looking for a marker, or it has parked a frame or a header
\* that ends soon, or it is in step with the frames.
Looking  == partial = <<>> /\ hdr_carry = <<>> /\ Done(Cur)
Misread  == partial # <<>> /\ Cur + left =< lost + MaxSize
Misled   == hdr_carry # <<>> /\ Cur + Take =< lost + Hdr
InStep   == Parked >= lost /\ Done(Parked) /\ \E f \in 1..Len(Size) : AtFrame(f)
Synced   == NoMimic => Looking \/ Misread \/ Misled \/ InStep

RxInv == TypeOK /\ Parking /\ Phases /\ Windows /\ Clean /\ Synced

Walk == Carry \/ Body \/ Scan

-----------------------------------------------------------------------------
(* Windows of the stream.                                                  *)

LEMMA StreamTypes ==
  /\ Len(Stream) \in Nat /\ Stream \in Seq(Symbols)
  /\ \A i \in 1..Len(Stream) : Stream[i] \in Symbols
<1>1. Stream \in Seq(Pair)
  BY CutFacts
<1>2. Len(Stream) \in Nat
  BY <1>1
<1>3. \A i \in 1..Len(Stream) : Stream[i] \in Symbols
  BY DEF Symbols
<1>4. Stream \in Seq(Symbols)
  <2> DEFINE s == Stream
  <2>1. s \in Seq(Pair) /\ \A i \in 1..Len(s) : s[i] \in Symbols
    BY <1>1, <1>3
  <2> HIDE DEF s
  <2>2. s = [i \in 1..Len(s) |-> s[i]] /\ Len(s) \in Nat
    BY <2>1
  <2>3. s \in Seq(Symbols)
    BY <2>1, <2>2
  <2> QED BY <2>3 DEF s
<1> QED BY <1>2, <1>3, <1>4

LEMMA RealMono ==
  ASSUME NEW S, NEW s \in Seq(S), NEW p \in Int, NEW l \in Int, NEW m \in Int, l =< m,
         Real(s, p, l)
  PROVE  Real(s, p, m)
<1> SUFFICES ASSUME NEW j \in 1..Len(s), p + j > m PROVE s[j] = Stream[p + j]
  BY DEF Real
<1>1. p + j > l
  OBVIOUS
<1> QED BY <1>1 DEF Real

LEMMA RealConcat ==
  ASSUME NEW a \in Seq(Symbols), NEW b \in Seq(Symbols), NEW p \in Int, NEW l \in Int,
         Real(a, p, l), Real(b, p + Len(a), l)
  PROVE  a \o b \in Seq(Symbols) /\ Len(a \o b) = Len(a) + Len(b) /\ Real(a \o b, p, l)
<1>1. Len(a) \in Nat /\ Len(b) \in Nat
  OBVIOUS
<1>2. /\ a \o b \in Seq(Symbols) /\ Len(a \o b) = Len(a) + Len(b)
      /\ \A i \in 1..Len(a) + Len(b) :
           (a \o b)[i] = IF i =< Len(a) THEN a[i] ELSE b[i - Len(a)]
  BY ConcatProperties
<1>3. ASSUME NEW j \in 1..Len(a \o b), p + j > l
      PROVE  (a \o b)[j] = Stream[p + j]
  <2>1. CASE j =< Len(a)
    <3>1. j \in 1..Len(a)
      BY <1>1, <1>2, <2>1
    <3> QED BY <1>2, <1>3, <2>1, <3>1 DEF Real
  <2>2. CASE j > Len(a)
    <3> DEFINE k == j - Len(a)
    <3>1. k \in 1..Len(b) /\ (p + Len(a)) + k = p + j /\ ~(j =< Len(a))
      BY <1>1, <1>2, <2>2
    <3>2. (a \o b)[j] = b[k]
      BY <1>2, <3>1
    <3> HIDE DEF k
    <3>3. b[k] = Stream[(p + Len(a)) + k]
      BY <1>3, <3>1 DEF Real
    <3> QED BY <3>1, <3>2, <3>3
  <2> QED BY <1>1, <1>2, <2>1, <2>2
<1> QED BY <1>2, <1>3 DEF Real

LEMMA RealCut ==
  ASSUME NEW s \in Seq(Symbols), NEW n \in 0..Len(s), NEW p \in Int, NEW l \in Int,
         Real(s, p, l)
  PROVE  /\ SubSeq(s, 1, n) \in Seq(Symbols) /\ Len(SubSeq(s, 1, n)) = n
         /\ Real(SubSeq(s, 1, n), p, l)
         /\ SubSeq(s, n + 1, Len(s)) \in Seq(Symbols)
         /\ Len(SubSeq(s, n + 1, Len(s))) = Len(s) - n
         /\ Real(SubSeq(s, n + 1, Len(s)), p + n, l)
<1> DEFINE a == SubSeq(s, 1, n)
           b == SubSeq(s, n + 1, Len(s))
<1>1. Len(s) \in Nat /\ n \in Nat /\ n =< Len(s)
  OBVIOUS
<1>2. a \in Seq(Symbols) /\ Len(a) = n /\ \A j \in 1..n : a[j] = s[j]
  BY <1>1, SubSeqProperties
<1>3. b \in Seq(Symbols) /\ Len(b) = Len(s) - n /\ \A j \in 1..Len(s) - n : b[j] = s[n + j]
  BY <1>1, SubSeqProperties
<1> HIDE DEF a, b
<1>4. Real(a, p, l)
  BY <1>1, <1>2 DEF Real
<1>5. ASSUME NEW j \in 1..Len(b), (p + n) + j > l
      PROVE  b[j] = Stream[(p + n) + j]
  <2> DEFINE k == n + j
  <2>1. k \in 1..Len(s) /\ p + k = (p + n) + j /\ b[j] = s[k]
    BY <1>1, <1>3
  <2> HIDE DEF k
  <2>2. s[k] = Stream[p + k]
    BY <1>5, <2>1 DEF Real
  <2> QED BY <2>1, <2>2
<1>6. Real(b, p + n, l)
  BY <1>5 DEF Real
<1> QED BY <1>2, <1>3, <1>4, <1>6 DEF a, b

LEMMA RealWindow ==
  ASSUME NEW s \in Seq(Symbols), NEW p \in Nat, p + Len(s) =< Len(Stream), Real(s, p, 0)
  PROVE  s = SubSeq(Stream, p + 1, p + Len(s))
<1> DEFINE w == SubSeq(Stream, p + 1, p + Len(s))
<1>1. Len(s) \in Nat /\ Len(Stream) \in Nat /\ Stream \in Seq(Symbols)
  BY StreamTypes
<1>2. w \in Seq(Symbols) /\ Len(w) = Len(s) /\ \A j \in 1..Len(s) : w[j] = Stream[p + j]
  <2> DEFINE m == p + 1
             n == p + Len(s)
  <2>1. m \in 1..Len(Stream) + 1 /\ n \in m - 1..Len(Stream) /\ n - m + 1 = Len(s)
    BY <1>1
  <2>2. w = SubSeq(Stream, m, n)
    OBVIOUS
  <2> HIDE DEF m, n, w
  <2>3. /\ w \in Seq(Symbols) /\ Len(w) = n - m + 1
        /\ \A j \in 1..(n - m + 1) : w[j] = Stream[m + j - 1]
    BY <1>1, <2>1, <2>2, SubSeqProperties
  <2>4. ASSUME NEW j \in 1..Len(s) PROVE w[j] = Stream[p + j]
    <3>1. m + j - 1 = p + j
      BY DEF m
    <3> QED BY <2>1, <2>3, <3>1
  <2> QED BY <2>1, <2>3, <2>4
<1> HIDE DEF w
<1>3. ASSUME NEW j \in 1..Len(s) PROVE s[j] = w[j]
  <2>1. p + j > 0
    BY <1>1
  <2>2. s[j] = Stream[p + j]
    BY <2>1 DEF Real
  <2> QED BY <1>2, <2>2
<1>4. s = w
  BY <1>2, <1>3, SeqEqual
<1> QED BY <1>4 DEF w

\* Two windows, one right after the other, are one.
LEMMA WindowsJoin ==
  ASSUME NEW a \in Nat, NEW b \in Nat, a =< b, b =< Len(Stream)
  PROVE  SubSeq(Stream, 1, a) \o SubSeq(Stream, a + 1, b) = SubSeq(Stream, 1, b)
<1>1. Stream \in Seq(Symbols) /\ Len(Stream) \in Nat
  BY StreamTypes
<1> QED BY <1>1, ConcatAdjacentSubSeq

-----------------------------------------------------------------------------
(* Where the walk is.                                                      *)

LEMMA Positions ==
  ASSUME TypeOK, Windows
  PROVE  /\ Len(Stream) \in Nat /\ pos \in Nat /\ pos =< Len(Stream)
         /\ lost \in Nat /\ lost =< pos /\ left \in Nat /\ left =< MaxSize
         /\ Payloads(read) \in Seq(Symbols) /\ Len(Payloads(read)) \in Nat
         /\ Payloads(fifo) \in Seq(Symbols) /\ Len(Payloads(fifo)) \in Nat
         /\ Handed(read) \in Nat /\ Handed(read) =< pos
         /\ Handed(read) = pos - Len(Payloads(read)) - Len(Payloads(fifo))
         /\ Len(buf) \in Nat /\ Cur \in Nat /\ Cur + Len(buf) = Handed(read)
         /\ Len(partial) \in Nat /\ Len(hdr_carry) \in Nat /\ Parked \in Int
         /\ Parked + Len(partial) + Len(hdr_carry) = Cur
         /\ Take \in Nat /\ Take > 0 /\ Take + Len(hdr_carry) = Hdr
<1>1. /\ pos \in 0..Len(Stream) /\ lost \in 0..Len(Stream) /\ left \in 0..MaxSize
      /\ read \in Seq(Runs) /\ fifo \in Seq(Runs) /\ buf \in Seq(Symbols)
      /\ partial \in Seq(Symbols) /\ hdr_carry \in Seq(Symbols) /\ Len(hdr_carry) < Hdr
  BY DEF TypeOK
<1>2. Len(Stream) \in Nat /\ MaxSize \in Nat /\ Hdr \in Nat
  BY StreamTypes, FramesTypes
<1>3. Payloads(read) \in Seq(Symbols) /\ Payloads(fifo) \in Seq(Symbols)
  BY <1>1, PayloadFacts
<1>4. Len(Payloads(read)) \in Nat /\ Len(Payloads(fifo)) \in Nat
  BY <1>3
<1>5. Len(buf) \in Nat /\ Len(partial) \in Nat /\ Len(hdr_carry) \in Nat
  BY <1>1
<1>6. Len(Payloads(read)) + Len(Payloads(fifo)) + Len(buf) =< pos /\ lost =< pos
  BY DEF Windows
<1>7. Handed(read) = pos - Len(Payloads(read)) - Len(Payloads(fifo))
  BY DEF Handed
<1>8. Take = Hdr - Len(hdr_carry)
  BY DEF Take
<1>9. Cur = Handed(read) - Len(buf) /\ Parked = Cur - Len(partial) - Len(hdr_carry)
  BY DEF Cur, Parked
<1>10. Handed(read) \in Nat /\ Handed(read) =< pos /\ Cur \in Nat /\ Cur + Len(buf) = Handed(read)
  <2> DEFINE r == Len(Payloads(read))
             q == Len(Payloads(fifo))
             b == Len(buf)
             h == Handed(read)
             c == Cur
  <2>1. r \in Nat /\ q \in Nat /\ b \in Nat /\ r + q + b =< pos /\ h = pos - r - q /\ c = h - b
    BY <1>4, <1>5, <1>6, <1>7, <1>9
  <2>2. pos \in Nat
    BY <1>1, <1>2
  <2> HIDE DEF r, q, b, h, c
  <2>3. h \in Nat /\ h =< pos /\ c \in Nat /\ c + b = h
    BY ONLY <2>1, <2>2
  <2> QED BY <2>3 DEF b, h, c
<1>11. Parked \in Int /\ Parked + Len(partial) + Len(hdr_carry) = Cur
  <2> DEFINE c == Cur
             p == Len(partial)
             h == Len(hdr_carry)
             k == Parked
  <2>1. c \in Nat /\ p \in Nat /\ h \in Nat /\ k = c - p - h
    BY <1>5, <1>9, <1>10
  <2> HIDE DEF c, p, h, k
  <2>2. k \in Int /\ k + p + h = c
    BY ONLY <2>1
  <2> QED BY <2>2 DEF c, p, h, k
<1>12. Take \in Nat /\ Take > 0 /\ Take + Len(hdr_carry) = Hdr
  BY <1>1, <1>2, <1>5, <1>8
<1>13. pos \in Nat /\ pos =< Len(Stream) /\ lost \in Nat /\ left \in Nat /\ left =< MaxSize
  BY <1>1, <1>2
<1> QED BY <1>2, <1>3, <1>4, <1>5, <1>6, <1>7, <1>10, <1>11, <1>12, <1>13

\* A loss that reaches up to the walk leaves nothing to prove about it.
LEMMA LostAll == TypeOK /\ Windows /\ Cur =< lost => Synced
<1> SUFFICES ASSUME TypeOK, Windows, Cur =< lost PROVE Synced
  OBVIOUS
<1>1. Cur \in Nat /\ lost \in Nat /\ left \in Nat /\ left =< MaxSize /\ MaxSize \in Nat
      /\ Take \in Nat /\ Take + Len(hdr_carry) = Hdr /\ Len(hdr_carry) \in Nat /\ Hdr \in Nat
  BY Positions, FramesTypes
<1>2. Done(Cur)
  <2> SUFFICES ASSUME NEW f \in 1..Len(Size), lost + MaxSize =< Cut(f), Cut(f) < Cur
               PROVE  FALSE
    BY DEF Done
  <2>1. Cut(f) \in Nat
    BY CutFacts, FramesTypes
  <2> HIDE DEF Cur, Cut
  <2> QED BY <1>1, <2>1
<1> QED BY <1>1, <1>2 DEF Synced, Looking, Misread, Misled

LEMMA LostAllNext == TypeOK' /\ Windows' /\ Cur' =< lost' => Synced'
<1>1. (TypeOK /\ Windows /\ Cur =< lost => Synced)'
  BY LostAll, PTL
<1> QED BY <1>1

-----------------------------------------------------------------------------
(* Types and windows, step by step.                                        *)

\* A step of artosyn_rx_ip_stream takes bytes off the front of what it was
\* handed, and reports nothing lost but all of it.
LEMMA WalkShape ==
  ASSUME TypeOK, Windows, Walk
  PROVE  /\ UNCHANGED <<pos, fifo, read, up>>
         /\ pc \in {"carry", "body", "scan"}
         /\ pc' \in {"dispatch", "carry", "body", "scan"}
         /\ pc' = "dispatch" => buf' = <<>>
         /\ \E n \in 0..Len(buf) : buf' = SubSeq(buf, n + 1, Len(buf))
         /\ lost' = lost \/ lost' = Handed(read)
<1>1. /\ buf \in Seq(Symbols) /\ Len(buf) \in Nat /\ left \in Nat /\ Take \in Nat
      /\ Hdr \in Nat
  <2>1. buf \in Seq(Symbols) /\ hdr_carry \in Seq(Symbols)
    BY DEF TypeOK
  <2> QED BY <2>1, Positions, FramesTypes
<1>2. ASSUME NEW n \in 0..Len(buf), NEW next, Consume(n, next)
      PROVE  /\ \E m \in 0..Len(buf) : buf' = SubSeq(buf, m + 1, Len(buf))
             /\ n = Len(buf) => buf' = <<>>
             /\ pc' = next
  <2>1. buf' = SubSeq(buf, n + 1, Len(buf)) /\ pc' = next
    BY <1>2 DEF Consume
  <2>2. n = Len(buf) => SubSeq(buf, n + 1, Len(buf)) = <<>>
    BY <1>1
  <2> QED BY <2>1, <2>2
<1>3. ASSUME buf' = buf
      PROVE  \E m \in 0..Len(buf) : buf' = SubSeq(buf, m + 1, Len(buf))
  <2>1. buf = SubSeq(buf, 0 + 1, Len(buf)) /\ 0 \in 0..Len(buf)
    BY <1>1, SubSeqFull
  <2> QED BY <1>3, <2>1
<1>4. Len(buf) \in 0..Len(buf)
  BY <1>1
<1>5. CASE CarryNone \/ BodyNone \/ ScanEnd
  BY <1>3, <1>5 DEF CarryNone, BodyNone, ScanEnd, chip, parked
<1>6. CASE CarryShort \/ BodyMore \/ ScanPark \/ ScanPartial
  BY <1>2, <1>4, <1>6 DEF CarryShort, BodyMore, ScanPark, ScanPartial, chip
<1>7. CASE CarryFrame \/ CarryJunk
  <2>1. Take \in 0..Len(buf)
    BY <1>1, <1>7 DEF CarryFrame, CarryJunk
  <2> QED BY <1>2, <1>7, <2>1 DEF CarryFrame, CarryJunk, chip
<1>8. CASE CarryNoMem
  <2>1. Take \in 0..Len(buf)
    BY <1>1, <1>8 DEF CarryNoMem
  <2> QED BY <1>2, <1>8, <2>1 DEF CarryNoMem, NoMem, chip
<1>9. CASE ScanNoMem
  BY <1>2, <1>4, <1>9 DEF ScanNoMem, NoMem, chip
<1>10. CASE BodyDone
  <2>1. left \in 0..Len(buf)
    BY <1>1, <1>10 DEF BodyDone
  <2> QED BY <1>2, <1>10, <2>1 DEF BodyDone, chip
<1>11. CASE ScanSkip
  <2>1. 1 \in 0..Len(buf)
    BY <1>1, <1>11 DEF ScanSkip
  <2> QED BY <1>2, <1>11, <2>1 DEF ScanSkip, chip
<1>12. CASE ScanFrame
  <2>1. Length(buf[2]) \in 0..Len(buf)
    <3>1. Len(buf) >= Hdr /\ Length(buf[2]) =< Len(buf)
      BY <1>12 DEF ScanFrame
    <3>2. 2 \in 1..Len(buf)
      BY <1>1, <3>1, HeaderAssumption
    <3>3. buf[2] \in Symbols
      BY <1>1, <3>2
    <3> QED BY <1>1, <3>1, <3>3, SymbolFacts
  <2> QED BY <1>2, <1>12, <2>1 DEF ScanFrame, chip
<1> QED
  BY <1>5, <1>6, <1>7, <1>8, <1>9, <1>10, <1>11, <1>12 DEF Walk, Carry, Body, Scan

\* What the parked frame is after each step of the walk
LEMMA WalkTypes ==
  ASSUME TypeOK, Windows, Parking, Walk
  PROVE  /\ buf' \in Seq(Symbols)
         /\ hdr_carry' \in Seq(Symbols) /\ Len(hdr_carry') < Hdr
         /\ partial' \in Seq(Symbols) /\ left' \in 0..MaxSize
         /\ out' \in Seq(Seq(Symbols))
<1>1. /\ buf \in Seq(Symbols) /\ Len(buf) \in Nat
      /\ hdr_carry \in Seq(Symbols) /\ Len(hdr_carry) < Hdr /\ Len(hdr_carry) \in Nat
      /\ partial \in Seq(Symbols) /\ Len(partial) \in Nat /\ left \in 0..MaxSize
      /\ out \in Seq(Seq(Symbols))
  BY DEF TypeOK
<1>2. Hdr \in Nat /\ Hdr >= 2 /\ MaxSize \in Nat
  BY HeaderAssumption, FramesTypes
<1>3. buf' \in Seq(Symbols)
  <2>1. PICK n \in 0..Len(buf) : buf' = SubSeq(buf, n + 1, Len(buf))
    BY WalkShape
  <2> QED BY <1>1, <2>1
<1>4. Take \in Nat /\ Take = Hdr - Len(hdr_carry)
  BY <1>1, <1>2 DEF Take
<1>5. hdr_carry \o buf \in Seq(Symbols) /\ Len(hdr_carry \o buf) = Len(hdr_carry) + Len(buf)
  BY <1>1, ConcatProperties
<1>6. ASSUME Len(buf) >= Take, Plausible(Header)
      PROVE  /\ Header \in Seq(Symbols)
             /\ Length(Header[2]) - Hdr \in 0..MaxSize
  <2> DEFINE w == SubSeq(buf, 1, Take)
  <2>1. w \in Seq(Symbols) /\ Len(w) = Take
    <3>1. Take \in 0..Len(buf)
      BY <1>1, <1>4, <1>6
    <3> QED BY <1>1, <1>4, <3>1, SubSeqProperties
  <2>2. Header = hdr_carry \o w
    BY DEF Header
  <2> HIDE DEF w
  <2>3. Header \in Seq(Symbols) /\ Len(Header) = Len(hdr_carry) + Len(w)
    BY <1>1, <2>1, <2>2, ConcatProperties
  <2>4. 2 \in 1..Len(Header)
    BY <1>1, <1>2, <1>4, <2>1, <2>3
  <2>5. Header[2] \in Symbols
    BY <2>3, <2>4
  <2>6. Length(Header[2]) > Hdr
    BY <1>6 DEF Plausible
  <2> QED BY <1>2, <2>3, <2>5, <2>6, SymbolFacts
<1>7. ASSUME Len(buf) >= Hdr
      PROVE  Length(buf[2]) \in Nat /\ Length(buf[2]) =< MaxSize
  <2>1. buf[2] \in Symbols
    BY <1>1, <1>2, <1>7
  <2> QED BY <2>1, SymbolFacts
<1>8. <<>> \in Seq(Symbols) /\ Len(<<>>) = 0 /\ 0 \in 0..MaxSize
  BY <1>2
<1>9. ASSUME NEW p \in Seq(Symbols) PROVE Append(out, p) \in Seq(Seq(Symbols))
  BY <1>1
<1>10. CASE CarryNone \/ BodyNone \/ ScanEnd \/ ScanSkip \/ ScanNoMem
  BY <1>1, <1>3, <1>10 DEF CarryNone, BodyNone, ScanEnd, ScanSkip, ScanNoMem, parked
<1>11. CASE CarryShort
  <2>1. hdr_carry' = hdr_carry \o buf /\ partial' = partial /\ left' = left /\ out' = out
        /\ Len(buf) < Take
    BY <1>11 DEF CarryShort, Park
  <2> QED BY <1>1, <1>2, <1>3, <1>4, <1>5, <2>1
<1>12. CASE CarryFrame
  <2>1. /\ hdr_carry' = <<>> /\ partial' = Header /\ left' = Length(Header[2]) - Hdr
        /\ out' = out /\ Len(buf) >= Take /\ Plausible(Header)
    BY <1>12 DEF CarryFrame, Park
  <2> QED BY <1>1, <1>2, <1>3, <1>6, <1>8, <2>1
<1>13. CASE CarryNoMem \/ CarryJunk
  <2>1. hdr_carry' = <<>> /\ partial' = partial /\ left' = left /\ out' = out
    BY <1>13 DEF CarryNoMem, CarryJunk, Park
  <2> QED BY <1>1, <1>2, <1>3, <1>8, <2>1
<1>14. CASE BodyMore
  <2>1. hdr_carry' = hdr_carry /\ partial' = partial \o buf /\ left' = left - Len(buf)
        /\ out' = out /\ Len(buf) < left
    BY <1>14 DEF BodyMore, Park
  <2>2. partial \o buf \in Seq(Symbols)
    BY <1>1, ConcatProperties
  <2> QED BY <1>1, <1>2, <1>3, <2>1, <2>2
<1>15. CASE BodyDone
  <2> DEFINE w == SubSeq(buf, 1, left)
  <2>1. hdr_carry' = hdr_carry /\ partial' = <<>> /\ left' = 0
        /\ out' = Append(out, partial \o w) /\ Len(buf) >= left
    BY <1>15 DEF BodyDone, Park
  <2>2. w \in Seq(Symbols)
    <3>1. left \in 0..Len(buf)
      BY <1>1, <2>1
    <3> QED BY <1>1, <3>1, SubSeqProperties
  <2> HIDE DEF w
  <2>3. partial \o w \in Seq(Symbols)
    BY <1>1, <2>2, ConcatProperties
  <2> QED BY <1>1, <1>3, <1>8, <1>9, <2>1, <2>3
<1>16. CASE ScanPark
  <2>1. hdr_carry' = buf /\ partial' = partial /\ left' = left /\ out' = out /\ Len(buf) < Hdr
    BY <1>16 DEF ScanPark, Park
  <2> QED BY <1>1, <1>3, <2>1
<1>17. CASE ScanPartial
  <2>1. hdr_carry' = hdr_carry /\ partial' = buf /\ left' = Length(buf[2]) - Len(buf)
        /\ out' = out /\ Len(buf) >= Hdr /\ Length(buf[2]) > Len(buf)
    BY <1>17 DEF ScanPartial, Park
  <2> QED BY <1>1, <1>2, <1>3, <1>7, <2>1
<1>18. CASE ScanFrame
  <2> DEFINE w == SubSeq(buf, 1, Length(buf[2]))
  <2>1. hdr_carry' = hdr_carry /\ partial' = partial /\ left' = left
        /\ out' = Append(out, w) /\ Len(buf) >= Hdr /\ Length(buf[2]) =< Len(buf)
    BY <1>18 DEF ScanFrame, parked
  <2>2. w \in Seq(Symbols)
    BY <1>1, <1>7, <2>1, SubSeqProperties
  <2> HIDE DEF w
  <2> QED BY <1>1, <1>3, <1>9, <2>1, <2>2
<1> QED
  BY <1>10, <1>11, <1>12, <1>13, <1>14, <1>15, <1>16, <1>17, <1>18
  DEF Walk, Carry, Body, Scan

LEMMA WalkWindows ==
  ASSUME TypeOK, Phases, Parking, Windows, Walk
  PROVE  /\ TypeOK' /\ Phases' /\ Windows'
         /\ Handed(read)' = Handed(read) /\ lost =< lost'
         /\ lost' = 0 => lost = 0
<1>1. /\ UNCHANGED <<pos, fifo, read, up>>
      /\ pc \in {"carry", "body", "scan"}
      /\ pc' \in {"dispatch", "carry", "body", "scan"}
      /\ pc' = "dispatch" => buf' = <<>>
      /\ lost' = lost \/ lost' = Handed(read)
  BY WalkShape
<1>2. PICK n \in 0..Len(buf) : buf' = SubSeq(buf, n + 1, Len(buf))
  BY WalkShape
<1>3. /\ Handed(read) \in Nat /\ Handed(read) =< pos /\ Cur + Len(buf) = Handed(read)
      /\ Cur \in Nat /\ Len(buf) \in Nat /\ pos \in Nat /\ pos =< Len(Stream)
      /\ Len(Stream) \in Nat /\ lost \in Nat /\ lost =< pos
      /\ Payloads(read) \in Seq(Symbols) /\ Len(Payloads(read)) \in Nat
      /\ Payloads(fifo) \in Seq(Symbols) /\ Len(Payloads(fifo)) \in Nat
      /\ buf \in Seq(Symbols)
  BY Positions DEF TypeOK
<1>4. lost =< Handed(read)
  BY <1>1 DEF Windows
<1>5. Handed(read)' = Handed(read)
  BY <1>1 DEF Handed
<1>6. lost' \in Nat /\ lost =< lost' /\ lost' =< Handed(read) /\ lost' =< pos
  BY <1>1, <1>3, <1>4
<1>7. TypeOK'
  <2>1. lost' \in 0..Len(Stream)
    BY <1>3, <1>6
  <2>2. pc' \in {"free", "dispatch", "carry", "body", "scan"}
    BY <1>1
  <2>3. pos' \in 0..Len(Stream) /\ fifo' \in Seq(Runs) /\ Len(fifo') <= Backlog
        /\ up' \in BOOLEAN /\ read' \in Seq(Runs)
    BY <1>1 DEF TypeOK
  <2> QED BY <2>1, <2>2, <2>3, WalkTypes DEF TypeOK
<1>8. Phases'
  BY <1>1 DEF Phases
<1>9. /\ Len(buf') = Len(buf) - n /\ Cur' = Cur + n
      /\ Real(buf', Cur + n, lost)
  <2>1. Real(buf, Cur, lost)
    BY DEF Windows
  <2>2. Len(buf') = Len(buf) - n /\ Real(buf', Cur + n, lost)
    BY <1>2, <1>3, <2>1, RealCut
  <2>3. Cur' = Handed(read)' - Len(buf')
    BY DEF Cur
  <2>4. Cur' = Cur + n
    <3> DEFINE h == Handed(read)
               c == Cur
               d == Cur'
               m == Len(buf)
    <3>1. d = h - (m - n) /\ c + m = h
      BY <1>3, <1>5, <2>2, <2>3
    <3>2. c \in Nat /\ h \in Nat /\ m \in Nat /\ n \in 0..m
      BY <1>3
    <3> HIDE DEF h, c, d, m
    <3>3. d = c + n
      BY <3>1, <3>2
    <3> QED BY <3>3 DEF c, d
  <2> QED BY <2>2, <2>4
<1>10. Windows'
  <2>1. /\ \A i \in 1..Len(fifo') : fifo'[i].pay # <<>>
        /\ \A i \in 1..Len(read') : read'[i].pay # <<>>
    BY <1>1 DEF Windows
  <2>2. Len(Payloads(read')) + Len(Payloads(fifo')) + Len(buf') =< pos'
    <3>1. Len(Payloads(read)) + Len(Payloads(fifo)) + Len(buf) =< pos
      BY DEF Windows
    <3>2. Len(buf') =< Len(buf) /\ Len(buf') \in Nat
      BY <1>3, <1>9
    <3>3. UNCHANGED <<pos, fifo, read>>
      BY <1>1
    <3> QED BY <1>3, <3>1, <3>2, <3>3
  <2>3. lost' =< Handed(read)' /\ lost' =< pos'
    BY <1>1, <1>5, <1>6
  <2>4. Real(Payloads(fifo), pos - Len(Payloads(fifo)), lost')
    <3>1. Real(Payloads(fifo), pos - Len(Payloads(fifo)), lost)
      BY DEF Windows
    <3> QED BY <1>3, <1>6, <3>1, RealMono
  <2>5. Real(Payloads(read), Handed(read), lost')
    <3>1. Real(Payloads(read), Handed(read), lost)
      BY DEF Windows
    <3> QED BY <1>3, <1>6, <3>1, RealMono
  <2>6. Real(buf', Cur', lost')
    <3>1. buf' \in Seq(Symbols) /\ Cur + n \in Int
      BY <1>3, WalkTypes
    <3>2. Real(buf', Cur + n, lost')
      BY <1>3, <1>6, <1>9, <3>1, RealMono
    <3> QED BY <1>9, <3>2
  <2>7. Real(Payloads(fifo'), pos' - Len(Payloads(fifo')), lost')
        /\ Real(Payloads(read'), Handed(read)', lost')
    BY <1>1, <1>5, <2>4, <2>5
  <2> QED BY <2>1, <2>2, <2>3, <2>6, <2>7 DEF Windows
<1> QED BY <1>5, <1>6, <1>7, <1>8, <1>10, <1>3

-----------------------------------------------------------------------------
(* A walk that is in step with the frames stays so.                        *)

\* A window of the stream that starts where a frame does is a piece of it.
LEMMA FramePiece ==
  ASSUME NEW f \in 1..Len(Size), NEW s \in Seq(Symbols), NEW l \in Int, l =< Cut(f),
         Real(s, Cut(f), l)
  PROVE  /\ \A i \in 1..Len(s) : i =< Size[f] => s[i] = <<f, i>>
         /\ Len(s) = Size[f] => s = Frame(f)
<1>1. /\ Size[f] \in Nat /\ Frame(f) \in Seq(Pair) /\ Len(Frame(f)) = Size[f]
      /\ \A i \in 1..Size[f] : Frame(f)[i] = <<f, i>>
      /\ Cut(f) \in Nat /\ Len(s) \in Nat
  BY FramesTypes, CutFacts
<1>2. ASSUME NEW i \in 1..Len(s), i =< Size[f] PROVE s[i] = <<f, i>>
  <2>1. i \in 1..Size[f] /\ Cut(f) + i > l
    BY <1>1, <1>2
  <2>2. s[i] = Stream[Cut(f) + i]
    BY <2>1 DEF Real
  <2> QED BY <2>1, <2>2, StreamBytes
<1>3. ASSUME Len(s) = Size[f] PROVE s = Frame(f)
  <2>1. ASSUME NEW i \in 1..Len(s) PROVE s[i] = Frame(f)[i]
    <3>1. i =< Size[f] /\ i \in 1..Size[f]
      BY <1>1, <1>3
    <3> QED BY <1>1, <1>2, <3>1
  <2> DEFINE u == Frame(f)
  <2>2. u \in Seq(Pair) /\ Len(u) = Len(s) /\ \A i \in 1..Len(s) : s[i] = u[i]
    BY <1>1, <1>3, <2>1
  <2> HIDE DEF u
  <2>3. s = u
    BY <2>2, SeqEqual
  <2> QED BY <2>3 DEF u
<1> QED BY <1>2, <1>3

\* A plausible header at the start of a frame is that of the frame.
LEMMA FrameHeader ==
  ASSUME NEW f \in 1..Len(Size), NEW s \in Seq(Symbols), NEW l \in Int, l =< Cut(f),
         Real(s, Cut(f), l)
  PROVE  /\ Len(s) >= 1 => Marker(s[1])
         /\ Len(s) >= Hdr => Plausible(s) /\ Length(s[2]) = Size[f]
<1>1. Hdr >= 2 /\ Len(s) \in Nat /\ Size[f] \in Nat /\ Size[f] > Hdr /\ Hdr \in Nat
  BY HeaderAssumption, FramesTypes
<1>2. \A i \in 1..Len(s) : i =< Size[f] => s[i] = <<f, i>>
  BY FramePiece
<1>3. ASSUME Len(s) >= 1 PROVE Marker(s[1])
  <2>1. s[1] = <<f, 1>>
    BY <1>1, <1>2, <1>3
  <2> QED BY <2>1 DEF Marker
<1>4. ASSUME Len(s) >= Hdr PROVE Plausible(s) /\ Length(s[2]) = Size[f]
  <2>1. s[1] = <<f, 1>> /\ s[2] = <<f, 2>>
    BY <1>1, <1>2, <1>4
  <2> QED BY <2>1, HeaderFacts
<1> QED BY <1>3, <1>4

LEMMA WalkInStep ==
  ASSUME TypeOK, Phases, Parking, Windows, Walk, lost' = lost,
         NEW f \in 1..Len(Size) + 1, AtFrame(f), lost =< Cut(f)
  PROVE  \/ out' = out /\ AtFrame(f)'
         \/ f =< Len(Size) /\ out' = Append(out, Frame(f)) /\ AtFrame(f + 1)'
<1> DEFINE N == Len(Size)
           c == Cut(f)
           m == Len(buf)
<1>1. /\ buf \in Seq(Symbols) /\ hdr_carry \in Seq(Symbols) /\ partial \in Seq(Symbols)
      /\ m \in Nat /\ Len(hdr_carry) \in Nat /\ Len(partial) \in Nat
      /\ Hdr \in Nat /\ Hdr >= 2 /\ left \in Nat /\ lost \in Nat
      /\ Take \in Nat /\ Take > 0 /\ Take + Len(hdr_carry) = Hdr
  BY Positions, HeaderAssumption, FramesTypes DEF TypeOK
<1>2. /\ N \in Nat /\ c \in Nat
      /\ \A g \in 1..N : Size[g] \in Nat /\ Size[g] > Hdr /\ Cut(g + 1) = Cut(g) + Size[g]
      /\ Cut(N + 1) = Len(Stream)
  BY FramesTypes, CutFacts
<1>3. /\ Parked = c /\ Cur = c + Len(partial) + Len(hdr_carry)
      /\ Real(partial, c, lost) /\ Real(hdr_carry, c, lost)
      /\ Real(buf, Cur, lost)
      /\ partial # <<>> => f =< N /\ Len(partial) + left = Size[f] /\ left > 0
  <2>1. Parked = c /\ Real(partial, c, lost) /\ Real(hdr_carry, c, lost)
        /\ (partial # <<>> => f =< N /\ Len(partial) + left = Size[f] /\ left > 0)
    BY DEF AtFrame
  <2>2. Parked + Len(partial) + Len(hdr_carry) = Cur /\ Cur \in Nat
    BY Positions
  <2>3. Cur = c + Len(partial) + Len(hdr_carry)
    BY <1>1, <1>2, <2>1, <2>2
  <2> QED BY <2>1, <2>3 DEF Windows
\* A walk with bytes left is not at the end of the stream, and a step that
\* lost some would have moved the loss.
<1>4. ASSUME m > 0 PROVE f \in 1..N /\ Handed(read) # lost
  <2>1. Cur + m = Handed(read) /\ Handed(read) =< pos /\ pos =< Len(Stream)
        /\ pos \in Nat /\ Len(Stream) \in Nat /\ Handed(read) \in Nat
    BY Positions
  <2>2. c + 1 =< Handed(read)
    <3>1. Cur >= c
      BY <1>1, <1>2, <1>3
    <3>2. Cur \in Nat
      BY Positions
    <3> QED BY <1>1, <1>2, <1>4, <2>1, <3>1, <3>2
  <2>3. f # N + 1
    BY <1>2, <2>1, <2>2
  <2> QED BY <1>1, <1>2, <2>1, <2>2, <2>3
<1>5. /\ Cur' = Cur + m - Len(buf')
      /\ Parked' = Cur' - Len(partial') - Len(hdr_carry')
      /\ buf' \in Seq(Symbols) /\ Len(buf') \in Nat /\ Cur \in Nat
  <2>1. Handed(read)' = Handed(read) /\ Cur + m = Handed(read) /\ Cur \in Nat
        /\ Handed(read) \in Nat
    BY WalkWindows, Positions
  <2>2. Cur' = Handed(read)' - Len(buf') /\ Parked' = Cur' - Len(partial') - Len(hdr_carry')
    BY DEF Cur, Parked
  <2>3. buf' \in Seq(Symbols)
    BY WalkTypes
  <2> HIDE DEF m
  <2>4. Len(buf') \in Nat
    BY <2>3
  <2>5. Cur' = Cur + m - Len(buf')
    <3> DEFINE h == Handed(read)
               b == Len(buf')
    <3>1. Cur' = h - b /\ Cur + m = h
      BY <2>1, <2>2
    <3>2. h \in Nat /\ b \in Nat /\ Cur \in Nat /\ m \in Nat
      BY <1>1, <2>1, <2>4
    <3> HIDE DEF h, b
    <3>3. Cur' = Cur + m - b
      BY <3>1, <3>2
    <3> QED BY <3>3 DEF b
  <2> QED BY <2>1, <2>2, <2>3, <2>4, <2>5
<1>6. Real(<<>>, c, lost) /\ <<>> \in Seq(Symbols) /\ Len(<<>>) = 0
  BY DEF Real
<1> HIDE DEF N, c, m
\* It is enough to say what is parked after the step, and from where on.
<1>7. ASSUME NEW g \in 1..N + 1, Parked' = Cut(g),
             Real(partial', Cut(g), lost), Real(hdr_carry', Cut(g), lost),
             partial' # <<>> => g =< N /\ Len(partial') + left' = Size[g] /\ left' > 0
      PROVE  AtFrame(g)'
  BY <1>7 DEF AtFrame, N, c, m
<1>8. Len(SubSeq(buf, m + 1, m)) = 0 /\ m \in 0..m
  BY <1>1
<1>9. ASSUME NEW n \in 0..m, buf' = SubSeq(buf, n + 1, m) PROVE Len(buf') = m - n
  BY <1>1, <1>9, SubSeqProperties DEF m
<1>20. ASSUME NEW n \in 0..m
       PROVE  /\ SubSeq(buf, 1, n) \in Seq(Symbols) /\ Len(SubSeq(buf, 1, n)) = n
              /\ Real(SubSeq(buf, 1, n), Cur, lost)
  <2>1. n \in 0..Len(buf)
    BY DEF m
  <2>2. buf \in Seq(Symbols) /\ Cur \in Int /\ lost \in Int /\ Real(buf, Cur, lost)
    BY <1>1, <1>3, <1>5
  <2> QED BY ONLY <2>1, <2>2, RealCut
<1>21. ASSUME NEW b \in Int, NEW p \in Int, NEW h \in Int,
              Len(buf') = b, Len(partial') = p, Len(hdr_carry') = h
       PROVE  Parked' = Cur + m - b - p - h
  <2>1. Cur' = Cur + m - b /\ Parked' = Cur' - p - h /\ Cur \in Int /\ m \in Int
    BY <1>1, <1>5, <1>21
  <2> QED BY ONLY <2>1, <1>21
<1>22. ASSUME f \in 1..N
       PROVE  /\ Size[f] \in Nat /\ Size[f] > Hdr /\ Cut(f + 1) = c + Size[f]
              /\ f \in 1..N + 1 /\ f + 1 \in 1..N + 1 /\ f =< N
  <2>1. Size[f] \in Nat /\ Size[f] > Hdr /\ Cut(f + 1) = Cut(f) + Size[f]
    BY <1>2, <1>22
  <2>2. f \in 1..N + 1 /\ f + 1 \in 1..N + 1 /\ f =< N
    BY <1>2, <1>22
  <2> QED BY <2>1, <2>2 DEF c
<1>10. CASE CarryNone \/ BodyNone \/ ScanEnd
  <2>1. UNCHANGED <<buf, partial, hdr_carry, left, out>>
    BY <1>10 DEF CarryNone, BodyNone, ScanEnd, parked
  <2>2. Parked' = c
    BY <1>1, <1>2, <1>3, <1>5, <2>1 DEF m
  <2> QED BY <1>3, <1>7, <2>1, <2>2 DEF c, N
<1>11. CASE CarryShort
  <2>1. /\ hdr_carry' = hdr_carry \o buf /\ UNCHANGED <<partial, left, out>>
        /\ buf' = SubSeq(buf, m + 1, m) /\ partial = <<>>
    BY <1>11 DEF CarryShort, Park, Consume, m, Parking, OneParked
  <2>2. Cur = c + Len(hdr_carry)
    BY <1>1, <1>2, <1>3, <2>1
  <2>3. Len(hdr_carry') = Len(hdr_carry) + m /\ Real(hdr_carry', c, lost)
    BY <1>1, <1>2, <1>3, <2>1, <2>2, RealConcat DEF m
  <2>4. Len(buf') = 0
    BY <1>8, <2>1
  <2>5. Parked' = c
    BY <1>1, <1>2, <1>5, <2>1, <2>2, <2>3, <2>4
  <2> QED BY <1>3, <1>7, <2>1, <2>3, <2>5 DEF c, N
<1>12. CASE CarryFrame \/ CarryNoMem \/ CarryJunk
  <2>1. /\ hdr_carry' = <<>> /\ out' = out /\ hdr_carry # <<>> /\ m >= Take
        /\ buf' = SubSeq(buf, Take + 1, m) /\ partial = <<>>
    BY <1>12 DEF CarryFrame, CarryNoMem, CarryJunk, Park, Consume, m, Parking, OneParked
  <2>2. f \in 1..N /\ Handed(read) # lost /\ Take \in 0..m
    BY <1>1, <1>4, <2>1
  <2>3. Cur = c + Len(hdr_carry)
    BY <1>1, <1>2, <1>3, <2>1
  <2> DEFINE w == SubSeq(buf, 1, Take)
  <2>4. w \in Seq(Symbols) /\ Len(w) = Take /\ Real(w, Cur, lost)
    BY <1>20, <2>2
  <2>5. Header = hdr_carry \o w
    BY DEF Header
  <2> HIDE DEF w
  <2>6. Header \in Seq(Symbols) /\ Len(Header) = Hdr /\ Real(Header, c, lost)
    BY <1>1, <1>2, <1>3, <2>3, <2>4, <2>5, RealConcat
  <2>7. Plausible(Header) /\ Length(Header[2]) = Size[f]
    BY <1>1, <2>2, <2>6, FrameHeader DEF c, N
  <2>8. partial' = Header /\ left' = Size[f] - Hdr
    <3>1. CASE CarryFrame
      BY <2>7, <3>1 DEF CarryFrame, Park
    <3>2. CASE CarryNoMem
      BY <2>2, <3>2 DEF CarryNoMem, NoMem
    <3>3. CASE CarryJunk
      BY <2>7, <3>3 DEF CarryJunk
    <3> QED BY <1>12, <3>1, <3>2, <3>3
  <2>9. Len(buf') = m - Take
    BY <1>9, <2>1, <2>2
  <2>10. Parked' = c
    <3>1. Len(partial') = Hdr /\ Len(hdr_carry') = 0
      BY <2>1, <2>6, <2>8
    <3>2. Parked' = Cur + m - (m - Take) - Hdr - 0
      BY <1>1, <1>21, <2>9, <3>1
    <3>3. c \in Nat /\ m \in Nat /\ Take \in Nat /\ Len(hdr_carry) \in Nat
          /\ Take + Len(hdr_carry) = Hdr /\ Hdr \in Nat
      BY <1>1, <1>2
    <3> QED BY ONLY <2>3, <3>2, <3>3
  <2>11. Len(partial') + left' = Size[f] /\ left' > 0 /\ f =< N /\ f \in 1..N + 1
    <3>1. Len(partial') = Hdr /\ left' = Size[f] - Hdr
      BY <2>6, <2>8
    <3>2. Size[f] \in Nat /\ Size[f] > Hdr /\ Hdr \in Nat /\ f =< N /\ f \in 1..N + 1
      BY <1>1, <1>22, <2>2
    <3> QED BY ONLY <3>1, <3>2
  <2>12. AtFrame(f)'
    BY <1>6, <1>7, <2>1, <2>6, <2>8, <2>10, <2>11 DEF c
  <2> QED BY <2>1, <2>12
<1>13. CASE BodyMore
  <2>1. /\ hdr_carry' = hdr_carry /\ partial' = partial \o buf /\ left' = left - m /\ out' = out
        /\ m < left /\ buf' = SubSeq(buf, m + 1, m) /\ hdr_carry = <<>> /\ partial # <<>>
    BY <1>13 DEF BodyMore, Park, Consume, m, Parking
  <2>2. Cur = c + Len(partial)
    BY <1>1, <1>2, <1>3, <2>1
  <2>3. Len(partial') = Len(partial) + m /\ Real(partial', c, lost)
    BY <1>1, <1>2, <1>3, <2>1, <2>2, RealConcat DEF m
  <2>4. Len(buf') = 0
    BY <1>8, <2>1
  <2>5. Parked' = c
    <3>1. Len(hdr_carry') = 0
      BY <2>1
    <3> QED BY <1>1, <1>2, <1>5, <2>2, <2>3, <2>4, <3>1
  <2>6. f =< N /\ Len(partial') + left' = Size[f] /\ left' > 0
    BY <1>1, <1>3, <2>1, <2>3
  <2> QED BY <1>3, <1>7, <2>1, <2>3, <2>5, <2>6 DEF c, N
<1>14. CASE BodyDone
  <2> DEFINE w == SubSeq(buf, 1, left)
  <2>1. /\ hdr_carry' = hdr_carry /\ partial' = <<>> /\ out' = Append(out, partial \o w)
        /\ left =< m /\ buf' = SubSeq(buf, left + 1, m) /\ hdr_carry = <<>> /\ partial # <<>>
    BY <1>14 DEF BodyDone, Park, Consume, m, Parking
  <2>2. Cur = c + Len(partial) /\ f \in 1..N /\ left \in 0..m
    BY <1>1, <1>2, <1>3, <2>1 DEF N
  <2>3. w \in Seq(Symbols) /\ Len(w) = left /\ Real(w, Cur, lost)
    BY <1>20, <2>2
  <2> HIDE DEF w
  <2>4. partial \o w \in Seq(Symbols) /\ Len(partial \o w) = Size[f] /\ Real(partial \o w, c, lost)
    <3>1. partial \o w \in Seq(Symbols) /\ Len(partial \o w) = Len(partial) + Len(w)
          /\ Real(partial \o w, c, lost)
      <4>1. Real(w, c + Len(partial), lost) /\ Real(partial, c, lost) /\ c \in Int /\ lost \in Int
        BY <1>1, <1>2, <1>3, <2>2, <2>3
      <4> QED BY <1>1, <2>3, <4>1, RealConcat
    <3> QED BY <1>3, <2>1, <2>3, <3>1
  <2>5. partial \o w = Frame(f)
    <3> DEFINE u == partial \o w
    <3>1. u \in Seq(Symbols) /\ Len(u) = Size[f] /\ Real(u, Cut(f), lost)
      BY <2>4 DEF c
    <3> HIDE DEF u
    <3>2. f \in 1..Len(Size) /\ lost \in Int
      BY <1>1, <2>2 DEF N
    <3>3. u = Frame(f)
      BY <3>1, <3>2, FramePiece
    <3> QED BY <3>3 DEF u
  <2>6. Len(buf') = m - left
    BY <1>9, <2>1, <2>2
  <2>7. Parked' = c + Size[f]
    <3>1. Len(hdr_carry') = 0 /\ Len(partial') = 0
      BY <2>1
    <3>2. Parked' = Cur + m - (m - left) - 0 - 0
      BY <1>1, <1>21, <2>6, <3>1
    <3>3. Len(partial) + left = Size[f] /\ c \in Nat
      BY <1>2, <1>3, <2>1
    <3> QED BY <1>1, <2>2, <3>2, <3>3
  <2>8. Cut(f + 1) = c + Size[f] /\ f + 1 \in 1..N + 1
    BY <1>22, <2>2
  <2>9. Real(<<>>, Cut(f + 1), lost)
    BY DEF Real
  <2>10. AtFrame(f + 1)'
    BY <1>7, <2>1, <2>7, <2>8, <2>9
  <2> QED BY <2>1, <2>2, <2>5, <2>10 DEF N
<1>15. ASSUME pc = "scan", m > 0
       PROVE  /\ f \in 1..N /\ Handed(read) # lost /\ hdr_carry = <<>> /\ partial = <<>>
              /\ Cur = c /\ Real(buf, c, lost) /\ Marker(buf[1])
              /\ m >= Hdr => Plausible(buf) /\ Length(buf[2]) = Size[f]
  <2>1. hdr_carry = <<>> /\ partial = <<>>
    BY <1>15 DEF Parking
  <2>2. Len(hdr_carry) = 0 /\ Len(partial) = 0
    BY <2>1
  <2>3. Cur = c /\ Real(buf, c, lost)
    BY <1>1, <1>2, <1>3, <2>2
  <2>4. m >= 1
    BY <1>1, <1>15
  <2> QED BY <1>1, <1>4, <1>15, <2>1, <2>3, <2>4, FrameHeader DEF c, m, N
<1>16. CASE ScanSkip \/ ScanNoMem
  <2>1. pc = "scan" /\ m > 0
    BY <1>1, <1>16 DEF ScanSkip, ScanNoMem, m
  <2> QED BY <1>15, <1>16, <2>1 DEF ScanSkip, ScanNoMem, NoMem, m
<1>17. CASE ScanPark
  <2>1. /\ pc = "scan" /\ m > 0 /\ hdr_carry' = buf /\ UNCHANGED <<partial, left, out>>
        /\ buf' = SubSeq(buf, m + 1, m)
    BY <1>1, <1>17 DEF ScanPark, Park, Consume, m
  <2>2. Len(buf') = 0 /\ Len(partial') = 0 /\ Len(hdr_carry') = m /\ partial' = <<>>
    BY <1>8, <1>15, <2>1 DEF m
  <2>3. Parked' = c
    BY <1>1, <1>2, <1>5, <1>15, <2>1, <2>2
  <2>4. Real(buf, c, lost) /\ f \in 1..N + 1
    BY <1>15, <1>22, <2>1
  <2>5. AtFrame(f)'
    BY <1>6, <1>7, <2>1, <2>2, <2>3, <2>4 DEF c
  <2> QED BY <2>1, <2>5
<1>18. CASE ScanPartial
  <2>1. /\ pc = "scan" /\ m > 0 /\ m >= Hdr /\ hdr_carry' = hdr_carry /\ partial' = buf
        /\ left' = Length(buf[2]) - m /\ Length(buf[2]) > m /\ out' = out
        /\ buf' = SubSeq(buf, m + 1, m)
    BY <1>1, <1>18 DEF ScanPartial, Park, Consume, m
  <2>2. Len(buf') = 0 /\ Len(partial') = m /\ Len(hdr_carry') = 0 /\ hdr_carry' = <<>>
    BY <1>8, <1>15, <2>1 DEF m
  <2>3. Parked' = c
    BY <1>1, <1>2, <1>5, <1>15, <2>1, <2>2
  <2>4. Real(buf, c, lost) /\ f =< N /\ f \in 1..N + 1 /\ Size[f] \in Nat
        /\ Length(buf[2]) = Size[f]
    BY <1>15, <1>22, <2>1
  <2>5. Len(partial') + left' = Size[f] /\ left' > 0
    BY <1>1, <2>1, <2>2, <2>4
  <2>6. AtFrame(f)'
    BY <1>6, <1>7, <2>1, <2>2, <2>3, <2>4, <2>5 DEF c
  <2> QED BY <2>1, <2>6
<1>19. CASE ScanFrame
  <2>1. /\ pc = "scan" /\ m > 0 /\ m >= Hdr /\ hdr_carry' = hdr_carry /\ partial' = partial
        /\ Length(buf[2]) =< m /\ out' = Append(out, SubSeq(buf, 1, Length(buf[2])))
        /\ buf' = SubSeq(buf, Length(buf[2]) + 1, m)
    BY <1>1, <1>19 DEF ScanFrame, parked, Consume, m
  <2> DEFINE w == SubSeq(buf, 1, Size[f])
  <2>2. Length(buf[2]) = Size[f] /\ f \in 1..N /\ Size[f] \in 0..m
    BY <1>1, <1>2, <1>15, <2>1
  <2>3. w \in Seq(Symbols) /\ Len(w) = Size[f] /\ Real(w, c, lost)
    <3>1. Cur = c
      BY <1>15, <2>1
    <3> QED BY <1>20, <2>2, <3>1
  <2> HIDE DEF w
  <2>4. w = Frame(f)
    BY <1>1, <2>2, <2>3, FramePiece DEF c, N
  <2>5. Len(buf') = m - Size[f] /\ out' = Append(out, w)
    BY <1>9, <2>1, <2>2 DEF w
  <2>6. Parked' = c + Size[f]
    <3>1. Len(hdr_carry') = 0 /\ Len(partial') = 0
      BY <1>15, <2>1
    <3>2. Parked' = Cur + m - (m - Size[f]) - 0 - 0
      BY <1>1, <1>21, <2>2, <2>5, <3>1
    <3>3. Cur = c /\ c \in Nat /\ Size[f] \in Nat
      BY <1>2, <1>15, <1>22, <2>1, <2>2
    <3> QED BY <1>1, <3>2, <3>3
  <2>7. Cut(f + 1) = c + Size[f] /\ f + 1 \in 1..N + 1
    BY <1>22, <2>2
  <2>8. Real(<<>>, Cut(f + 1), lost)
    BY DEF Real
  <2>9. hdr_carry' = <<>> /\ partial' = <<>>
    BY <1>15, <2>1
  <2>10. AtFrame(f + 1)'
    BY <1>7, <2>6, <2>7, <2>8, <2>9
  <2> QED BY <2>2, <2>4, <2>5, <2>10 DEF N
<1> QED
  BY <1>10, <1>11, <1>12, <1>13, <1>14, <1>16, <1>17, <1>18, <1>19
  DEF Walk, Carry, Body, Scan

\* What a frame handed up adds to the frames that are out
LEMMA FrameWindow ==
  ASSUME NEW f \in 1..Len(Size)
  PROVE  /\ Frame(f) \in Seq(Symbols)
         /\ Frame(f) = SubSeq(Stream, Cut(f) + 1, Cut(f + 1))
         /\ Cut(f) \in Nat /\ Cut(f + 1) \in Nat /\ Cut(f) =< Cut(f + 1)
         /\ Cut(f + 1) =< Len(Stream)
<1>1. /\ Size[f] \in Nat /\ Size[f] > 0 /\ Frame(f) \in Seq(Pair) /\ Len(Frame(f)) = Size[f]
      /\ \A i \in 1..Size[f] : Frame(f)[i] = <<f, i>>
      /\ Cut(f) \in Nat /\ Cut(f + 1) = Cut(f) + Size[f] /\ Len(Stream) \in Nat
  <2>1. Hdr \in Nat /\ Size[f] \in Nat /\ Size[f] > Hdr
    BY FramesTypes
  <2> QED BY <2>1, FramesTypes, CutFacts, StreamTypes
<1>2. \A i \in 1..Size[f] : Cut(f) + i \in 1..Len(Stream) /\ Stream[Cut(f) + i] = <<f, i>>
  BY StreamBytes
<1>3. Frame(f) \in Seq(Symbols)
  <2>1. \A i \in 1..Size[f] : <<f, i>> \in Symbols
    BY <1>2, StreamTypes
  <2> QED BY <1>1, <2>1 DEF Frame
<1>4. Cut(f) + Size[f] =< Len(Stream)
  <2>1. Size[f] \in 1..Size[f]
    BY <1>1
  <2> QED BY <1>1, <1>2, <2>1
<1>5. Real(Frame(f), Cut(f), 0)
  BY <1>1, <1>2 DEF Real
<1>6. Frame(f) = SubSeq(Stream, Cut(f) + 1, Cut(f) + Len(Frame(f)))
  BY <1>1, <1>3, <1>4, <1>5, RealWindow
<1> QED BY <1>1, <1>3, <1>4, <1>6

LEMMA CleanWalk ==
  ASSUME TypeOK, Phases, Parking, Windows, Clean, Walk
  PROVE  Clean'
<1> SUFFICES ASSUME lost' = 0
             PROVE  /\ Len(out') =< Len(Size)
                    /\ \A i \in 1..Len(out') : out'[i] = Frame(i)
                    /\ Flat(out') = SubSeq(Stream, 1, Cut(Len(out') + 1))
                    /\ \E k : k = Len(out') /\ AtFrame(k + 1)'
  BY DEF Clean, AtFrame
<1>1. lost = 0 /\ lost' = lost
  BY WalkWindows
<1>2. PICK k \in Nat : k = Len(out)
  BY DEF TypeOK
<1>3. /\ k =< Len(Size) /\ \A i \in 1..k : out[i] = Frame(i)
      /\ Flat(out) = SubSeq(Stream, 1, Cut(k + 1)) /\ AtFrame(k + 1)
  BY <1>1, <1>2 DEF Clean
<1>4. Len(Size) \in Nat /\ out \in Seq(Seq(Symbols)) /\ k + 1 \in 1..Len(Size) + 1
  BY <1>3, FramesTypes DEF TypeOK
<1>5. PICK f \in 1..Len(Size) + 1 : f = k + 1
  BY <1>4
<1>6. \/ out' = out /\ AtFrame(f)'
      \/ f =< Len(Size) /\ out' = Append(out, Frame(f)) /\ AtFrame(f + 1)'
  <2>1. AtFrame(f) /\ lost =< Cut(f)
    BY <1>1, <1>3, <1>5, CutFacts
  <2> QED BY <1>1, <2>1, WalkInStep
<1>7. CASE out' = out /\ AtFrame(f)'
  <2>1. k = Len(out') /\ AtFrame(k + 1)'
    BY <1>2, <1>5, <1>7
  <2> QED BY <1>2, <1>3, <1>7, <2>1
<1>8. CASE f =< Len(Size) /\ out' = Append(out, Frame(f)) /\ AtFrame(f + 1)'
  <2>1. f \in 1..Len(Size)
    BY <1>4, <1>8
  <2>2. /\ Frame(f) \in Seq(Symbols) /\ Frame(f) = SubSeq(Stream, Cut(f) + 1, Cut(f + 1))
        /\ Cut(f) \in Nat /\ Cut(f + 1) \in Nat /\ Cut(f) =< Cut(f + 1)
        /\ Cut(f + 1) =< Len(Stream)
    BY <2>1, FrameWindow
  <2>3. Len(out') = f /\ out'[f] = Frame(f) /\ \A i \in 1..k : out'[i] = out[i]
    BY <1>2, <1>4, <1>5, <1>8, <2>2
  <2>4. ASSUME NEW i \in 1..f PROVE out'[i] = Frame(i)
    <3>1. CASE i = f
      BY <2>3, <3>1
    <3>2. CASE i # f
      <4>1. i \in 1..k
        BY <1>5, <3>2
      <4> QED BY <1>3, <2>3, <4>1
    <3> QED BY <3>1, <3>2
  <2>5. Flat(out') = SubSeq(Stream, 1, Cut(f + 1))
    <3>1. Flat(Append(out, Frame(f))) = Flat(out) \o Frame(f)
      BY <1>4, <2>2, FlatAppend
    <3>2. SubSeq(Stream, 1, Cut(f)) \o SubSeq(Stream, Cut(f) + 1, Cut(f + 1))
            = SubSeq(Stream, 1, Cut(f + 1))
      BY <2>2, WindowsJoin
    <3>3. out' = Append(out, Frame(f)) /\ Flat(out) = SubSeq(Stream, 1, Cut(f))
      BY <1>3, <1>5, <1>8
    <3> QED BY <2>2, <3>1, <3>2, <3>3
  <2> QED BY <1>8, <2>3, <2>4, <2>5
<1> QED BY <1>6, <1>7, <1>8

-----------------------------------------------------------------------------
(* After a loss.                                                           *)

\* Nothing is asked of frames that start before the bound.
LEMMA DoneSoon ==
  ASSUME NEW q \in Int, lost' \in Nat, q =< lost' + MaxSize
  PROVE  Done(q)'
<1> SUFFICES ASSUME NEW f \in 1..Len(Size), lost' + MaxSize =< Cut(f), Cut(f) < q
             PROVE  FALSE
  BY DEF Done
<1>1. Cut(f) \in Nat /\ MaxSize \in Nat
  BY CutFacts, FramesTypes
<1>2. PICK l \in Nat : l = lost'
  OBVIOUS
<1>3. q =< l + MaxSize /\ l + MaxSize =< Cut(f) /\ Cut(f) < q
  BY <1>2
<1>4. l + MaxSize \in Int
  BY <1>1
<1> QED BY <1>1, <1>3, <1>4

LEMMA DoneNext ==
  ASSUME NEW f \in 1..Len(Size), Done(Cut(f)), lost' = lost, out \in Seq(Seq(Symbols)),
         out' = Append(out, Frame(f))
  PROVE  Done(Cut(f + 1))'
<1> SUFFICES ASSUME NEW g \in 1..Len(Size), lost + MaxSize =< Cut(g), Cut(g) < Cut(f + 1)
             PROVE  \E i \in 1..Len(out') : out'[i] = Frame(g)
  BY DEF Done
<1>1. Len(out) \in Nat /\ Len(out') = Len(out) + 1 /\ out'[Len(out) + 1] = Frame(f)
      /\ \A i \in 1..Len(out) : out'[i] = out[i]
  <2>1. Frame(f) \in Seq(Symbols)
    BY FrameWindow
  <2> QED BY <2>1
<1>2. /\ Len(Size) \in Nat /\ Cut(f) \in Nat /\ Cut(g) \in Nat /\ Size[f] \in Nat
      /\ Size[g] \in Nat /\ Size[g] > 0 /\ Cut(f + 1) = Cut(f) + Size[f]
      /\ f \in 1..Len(Size) + 1 /\ g \in 1..Len(Size) + 1
  <2>1. Len(Size) \in Nat
    BY FramesTypes
  <2>2. f \in 1..Len(Size) + 1 /\ g \in 1..Len(Size) + 1
    BY <2>1
  <2>3. Hdr \in Nat /\ Size[f] \in Nat /\ Size[g] \in Nat /\ Size[g] > Hdr
    BY FramesTypes
  <2>4. Size[g] > 0
    BY <2>3
  <2>5. Cut(f) \in Nat /\ Cut(g) \in Nat /\ Cut(f + 1) = Cut(f) + Size[f]
    BY <2>2, CutFacts
  <2> QED BY <2>1, <2>2, <2>3, <2>4, <2>5
<1>3. CASE g = f
  BY <1>1, <1>3
<1>4. CASE g < f
  <2>1. Cut(g) + Size[g] =< Cut(f)
    BY <1>2, <1>4, CutsAscend
  <2>2. Cut(g) < Cut(f)
    BY <1>2, <2>1
  <2>3. PICK i \in 1..Len(out) : out[i] = Frame(g)
    BY <2>2 DEF Done
  <2> QED BY <1>1, <2>3
<1>5. CASE f < g
  <2>1. Cut(f) + Size[f] =< Cut(g)
    BY <1>2, <1>5, CutsAscend
  <2> QED BY <1>2, <2>1
<1> QED BY <1>2, <1>3, <1>4, <1>5

LEMMA DoneSame ==
  ASSUME NEW q, Done(q), lost' = lost, out' = out
  PROVE  Done(q)'
BY DEF Done

\* Behind the last frame there is nothing left to park.
LEMMA AtEnd ==
  TypeOK /\ Windows /\ AtFrame(Len(Size) + 1) =>
    partial = <<>> /\ hdr_carry = <<>> /\ Cur = Parked
<1> SUFFICES ASSUME TypeOK, Windows, AtFrame(Len(Size) + 1)
             PROVE  partial = <<>> /\ hdr_carry = <<>> /\ Cur = Parked
  OBVIOUS
<1>1. Parked = Len(Stream)
  BY CutFacts DEF AtFrame
<1>2. /\ Parked + Len(partial) + Len(hdr_carry) = Cur /\ Parked \in Int /\ Cur \in Nat
      /\ Len(partial) \in Nat /\ Len(hdr_carry) \in Nat /\ Len(buf) \in Nat
      /\ Cur + Len(buf) = Handed(read) /\ Handed(read) =< pos /\ pos =< Len(Stream)
      /\ pos \in Nat /\ Len(Stream) \in Nat /\ Handed(read) \in Nat
  BY Positions
<1>3. Len(partial) = 0 /\ Len(hdr_carry) = 0 /\ Cur = Parked
  BY <1>1, <1>2
<1>4. partial \in Seq(Symbols) /\ hdr_carry \in Seq(Symbols)
  BY DEF TypeOK
<1> QED BY <1>3, <1>4

LEMMA AtEndNext ==
  TypeOK' /\ Windows' /\ AtFrame(Len(Size) + 1)' =>
    partial' = <<>> /\ hdr_carry' = <<>> /\ Cur' = Parked'
<1>1. (TypeOK /\ Windows /\ AtFrame(Len(Size) + 1) =>
         partial = <<>> /\ hdr_carry = <<>> /\ Cur = Parked)'
  BY AtEnd, PTL
<1> QED BY <1>1

\* A marker that was not mimicked, behind the loss, is that of a frame.
LEMMA MarkerFound ==
  ASSUME TypeOK, Windows, NoMimic, Looking, buf # <<>>, lost =< Cur, Marker(buf[1])
  PROVE  InStep
<1>1. /\ Cur \in Nat /\ Len(buf) \in Nat /\ Len(buf) >= 1 /\ lost \in Nat
      /\ Cur + Len(buf) = Handed(read) /\ Handed(read) =< pos /\ pos =< Len(Stream)
      /\ pos \in Nat /\ Len(Stream) \in Nat /\ Handed(read) \in Nat
  <2>1. Len(buf) >= 1
    BY DEF TypeOK
  <2> QED BY <2>1, Positions
<1> DEFINE p == Cur + 1
<1>2. p \in 1..Len(Stream) /\ p \in lost + 1..Len(Stream) /\ 1 \in 1..Len(buf) /\ Cur + 1 > lost
  BY <1>1
<1>3. buf[1] = Stream[p]
  BY <1>2 DEF Windows, Real
<1>4. Stream[p][2] = 1
  BY <1>2, <1>3 DEF NoMimic, Marker
<1>5. PICK f \in 1..Len(Size) : Cut(f) = p - 1
  BY <1>2, <1>4, FrameStarts
<1>6. Cut(f) = Cur
  BY <1>1, <1>5
<1>7. partial = <<>> /\ hdr_carry = <<>> /\ Done(Cur)
  BY DEF Looking
<1>8. Parked = Cur
  BY <1>1, <1>7 DEF Parked
<1>9. AtFrame(f)
  BY <1>6, <1>7, <1>8 DEF AtFrame, Real
<1> QED BY <1>7, <1>8, <1>9 DEF InStep

LEMMA SyncedInStep ==
  ASSUME TypeOK, Phases, Parking, Windows, InStep, Walk, lost' = lost
  PROVE  Looking' \/ InStep'
<1>1. PICK f \in 1..Len(Size) : AtFrame(f)
  BY DEF InStep
<1>2. /\ Len(Size) \in Nat /\ Cut(f) \in Nat /\ Cut(f + 1) \in Nat /\ Cut(f) =< Cut(f + 1)
      /\ lost \in Nat /\ out \in Seq(Seq(Symbols)) /\ f \in 1..Len(Size) + 1
  <2>1. Len(Size) \in Nat
    BY FramesTypes
  <2>2. f \in 1..Len(Size) + 1
    BY <2>1
  <2> QED BY <2>1, <2>2, FrameWindow, Positions DEF TypeOK
<1>3. Parked = Cut(f) /\ lost =< Cut(f) /\ Done(Cut(f))
  BY <1>1 DEF InStep, AtFrame, Done
<1>4. CASE out' = out /\ AtFrame(f)'
  <2>1. Parked' = Cut(f)
    BY <1>4 DEF AtFrame
  <2>2. Done(Cut(f))'
    BY <1>3, <1>4, DoneSame
  <2>3. Done(Parked)'
    BY <2>1, <2>2 DEF Done
  <2> QED BY <1>3, <1>4, <2>1, <2>3 DEF InStep
<1>5. CASE f =< Len(Size) /\ out' = Append(out, Frame(f)) /\ AtFrame(f + 1)'
  <2>1. Parked' = Cut(f + 1)
    BY <1>5 DEF AtFrame
  <2>2. Done(Cut(f + 1))'
    BY <1>2, <1>3, <1>5, DoneNext
  <2>3. Done(Parked)' /\ lost' =< Parked'
    <3>1. lost' =< Cut(f + 1)
      BY <1>2, <1>3
    <3> QED BY <2>1, <2>2, <3>1 DEF Done
  <2>4. CASE f + 1 \in 1..Len(Size)
    BY <1>5, <2>3, <2>4 DEF InStep
  <2>5. CASE f + 1 = Len(Size) + 1
    <3>1. AtFrame(Len(Size) + 1)'
      BY <1>5, <2>5
    <3>2. partial' = <<>> /\ hdr_carry' = <<>> /\ Cur' = Parked'
      BY <3>1, WalkWindows, AtEndNext
    <3> QED BY <2>3, <3>2 DEF Looking, Done
  <2> QED BY <1>2, <2>4, <2>5
<1> QED BY <1>1, <1>2, <1>3, <1>4, <1>5, WalkInStep

LEMMA SyncedWalk ==
  ASSUME TypeOK, Phases, Parking, Windows, Synced, Walk
  PROVE  Synced'
<1>1. /\ TypeOK' /\ Windows' /\ Handed(read)' = Handed(read) /\ lost =< lost'
  BY WalkWindows
<1> DEFINE m == Len(buf)
<1>2. /\ buf \in Seq(Symbols) /\ m \in Nat /\ Cur \in Nat /\ lost \in Nat /\ left \in Nat
      /\ Handed(read) \in Nat /\ Cur + m = Handed(read) /\ Take \in Nat /\ Take > 0
      /\ Take + Len(hdr_carry) = Hdr /\ Hdr \in Nat /\ Hdr >= 2 /\ MaxSize \in Nat
      /\ Len(hdr_carry) \in Nat /\ hdr_carry \in Seq(Symbols) /\ partial \in Seq(Symbols)
  BY Positions, FramesTypes, HeaderAssumption DEF TypeOK
<1>3. /\ buf' \in Seq(Symbols) /\ hdr_carry' \in Seq(Symbols) /\ partial' \in Seq(Symbols)
      /\ left' \in Nat
  BY <1>1, <1>2 DEF TypeOK
<1>4. CASE lost' = Handed(read)
  <2>1. Cur' =< lost'
    <3>1. Cur' = Handed(read)' - Len(buf') /\ Len(buf') \in Nat
      BY <1>3 DEF Cur
    <3> QED BY <1>1, <1>2, <1>4, <3>1
  <2> QED BY <1>1, <2>1, LostAllNext
<1>5. CASE lost' # Handed(read)
  <2>1. lost' = lost
    BY <1>5, WalkShape
  <2> SUFFICES ASSUME NoMimic PROVE Looking' \/ Misread' \/ Misled' \/ InStep'
    BY <2>1 DEF Synced, NoMimic
  <2>2. Looking \/ Misread \/ Misled \/ InStep
    BY DEF Synced
  \* Where the walk is after the step
  <2>3. ASSUME NEW n \in 0..m, buf' = SubSeq(buf, n + 1, m) PROVE Cur' = Cur + n
    <3>1. Len(buf') = m - n
      BY <1>2, <2>3, SubSeqProperties
    <3>2. Cur' = Handed(read)' - Len(buf')
      BY DEF Cur
    <3> HIDE DEF m
    <3>3. Cur' = Handed(read) - (m - n)
      BY <1>1, <3>1, <3>2
    <3>4. Handed(read) \in Nat /\ Cur \in Nat /\ m \in Nat /\ Cur + m = Handed(read)
      BY <1>2
    <3> DEFINE h == Handed(read)
    <3> HIDE DEF h
    <3>5. n \in Nat
      BY <1>2
    <3>6. h - (m - n) = Cur + n
      BY <3>4, <3>5 DEF h
    <3> QED BY <3>3, <3>6 DEF h
  <2>4. ASSUME buf' = buf PROVE Cur' = Cur
    BY <1>1, <2>4 DEF Cur
  <2>5. ASSUME partial' = <<>>, hdr_carry' = <<>>, Cur' \in Int, Cur' =< lost + MaxSize
        PROVE  Looking'
    <3>1. PICK q \in Int : q = Cur'
      BY <2>5
    <3>2. q =< lost' + MaxSize /\ lost' \in Nat
      BY <1>2, <2>1, <2>5, <3>1
    <3>3. Done(q)'
      BY <3>2, DoneSoon
    <3> QED BY <2>5, <3>1, <3>3 DEF Looking, Done
  <2>6. m \in 0..m /\ (m > 0 <=> buf # <<>>)
    BY <1>2
  <2> HIDE DEF m
  <2>7. CASE InStep
    BY <2>1, <2>7, SyncedInStep
  <2>8. CASE Misled
    <3>1. hdr_carry # <<>> /\ Cur + Take =< lost + Hdr /\ partial = <<>>
      BY <2>8 DEF Misled, Parking, OneParked
    <3>2. CASE CarryShort
      <4>1. /\ hdr_carry' = hdr_carry \o buf /\ partial' = partial /\ m < Take
            /\ buf' = SubSeq(buf, m + 1, m)
        BY <3>2 DEF CarryShort, Park, Consume, m
      <4>2. Cur' = Cur + m
        BY <2>3, <2>6, <4>1
      <4>3. Len(hdr_carry') = Len(hdr_carry) + m
        BY <1>2, <4>1, ConcatProperties DEF m
      <4>4. Take' = Take - m
        <5>1. Take' = Hdr - Len(hdr_carry') /\ Take = Hdr - Len(hdr_carry)
          BY DEF Take
        <5> QED BY <1>2, <4>3, <5>1
      <4>5. hdr_carry' # <<>>
        <5>1. Len(hdr_carry) > 0
          BY <1>2, <3>1
        <5>2. Len(hdr_carry') > 0
          BY <1>2, <4>3, <5>1
        <5> QED BY <5>2
      <4>6. Cur' + Take' = Cur + Take
        BY <1>2, <4>2, <4>4
      <4> QED BY <2>1, <3>1, <4>5, <4>6 DEF Misled
    <3>3. CASE CarryFrame
      <4>1. /\ hdr_carry' = <<>> /\ partial' = Header /\ left' = Length(Header[2]) - Hdr
            /\ m >= Take /\ buf' = SubSeq(buf, Take + 1, m)
        BY <3>3 DEF CarryFrame, Park, Consume, m
      <4>2. Cur' = Cur + Take
        <5>1. Take \in 0..m
          BY <1>2, <4>1
        <5> QED BY <2>3, <4>1, <5>1
      <4> DEFINE w == SubSeq(buf, 1, Take)
      <4>3. w \in Seq(Symbols) /\ Len(w) = Take
        <5>1. Take \in 0..Len(buf)
          BY <1>2, <4>1 DEF m
        <5> QED BY <1>2, <5>1, SubSeqProperties
      <4>4. Header = hdr_carry \o w
        BY DEF Header
      <4> HIDE DEF w
      <4>5. Header \in Seq(Symbols) /\ Len(Header) = Hdr
        <5>1. Header \in Seq(Symbols) /\ Len(Header) = Len(hdr_carry) + Len(w)
          BY <1>2, <4>3, <4>4, ConcatProperties
        <5> QED BY <1>2, <4>3, <5>1
      <4>6. Header # <<>> /\ Header[2] \in Symbols
        BY <1>2, <4>5
      <4>7. Length(Header[2]) \in Nat /\ Length(Header[2]) =< MaxSize
        BY <4>6, SymbolFacts
      <4>8. Cur' + left' =< lost' + MaxSize
        BY <1>2, <2>1, <3>1, <4>1, <4>2, <4>7
      <4> QED BY <4>1, <4>6, <4>8 DEF Misread
    <3>4. CASE CarryJunk
      <4>1. /\ hdr_carry' = <<>> /\ partial' = <<>>
            /\ m >= Take /\ buf' = SubSeq(buf, Take + 1, m)
        BY <3>1, <3>4 DEF CarryJunk, Park, Consume, m
      <4>2. Cur' = Cur + Take
        <5>1. Take \in 0..m
          BY <1>2, <4>1
        <5> QED BY <2>3, <4>1, <5>1
      <4>3. CASE Len(Size) = 0
        BY <4>1, <4>3 DEF Looking, Done
      <4>4. CASE Len(Size) # 0
        <5>1. 1 \in 1..Len(Size)
          BY <4>4, FramesTypes
        <5>2. Hdr =< MaxSize
          <6>1. Size[1] \in Nat /\ Size[1] > Hdr /\ Size[1] =< MaxSize
            BY <5>1, FramesTypes
          <6> QED BY <1>2, <6>1
        <5>3. Cur' \in Int /\ Cur' =< lost + MaxSize
          BY <1>2, <3>1, <4>2, <5>2
        <5> QED BY <2>5, <4>1, <5>3
      <4> QED BY <4>3, <4>4
    <3>5. CASE CarryNone \/ Body \/ Scan
      BY <3>1, <3>5
      DEF CarryNone, Body, BodyNone, BodyMore, BodyDone, Scan, ScanEnd, ScanSkip, ScanPark,
          ScanNoMem, ScanPartial, ScanFrame, Parking
    <3>6. CASE CarryNoMem
      BY <1>5, <3>6 DEF CarryNoMem, NoMem
    <3> QED BY <3>2, <3>3, <3>4, <3>5, <3>6 DEF Walk, Carry
  <2>9. CASE Misread
    <3>1. partial # <<>> /\ Cur + left =< lost + MaxSize /\ hdr_carry = <<>>
      BY <2>9 DEF Misread, Parking, OneParked
    <3>2. CASE CarryNone
      <4>1. UNCHANGED <<buf, partial, left>>
        BY <3>2 DEF CarryNone, parked
      <4> QED BY <2>1, <2>4, <3>1, <4>1 DEF Misread
    <3>3. CASE BodyMore
      <4>1. partial' = partial \o buf /\ left' = left - m /\ m < left
            /\ buf' = SubSeq(buf, m + 1, m)
        BY <3>3 DEF BodyMore, Park, Consume, m
      <4>2. Cur' = Cur + m
        BY <2>3, <2>6, <4>1
      <4>3. partial' # <<>>
        <5>1. Len(partial \o buf) = Len(partial) + m
          BY <1>2, ConcatProperties DEF m
        <5>2. Len(partial) \in Nat /\ Len(partial) > 0
          BY <1>2, <3>1
        <5>3. Len(partial \o buf) > 0
          BY <1>2, <5>1, <5>2
        <5> QED BY <4>1, <5>3
      <4>4. Cur' + left' = Cur + left
        BY <1>2, <4>1, <4>2
      <4> QED BY <2>1, <3>1, <4>3, <4>4 DEF Misread
    <3>4. CASE BodyDone
      <4>1. partial' = <<>> /\ hdr_carry' = <<>> /\ left =< m /\ buf' = SubSeq(buf, left + 1, m)
        BY <3>1, <3>4 DEF BodyDone, Park, Consume, m
      <4>2. Cur' = Cur + left
        <5>1. left \in 0..m
          BY <1>2, <4>1
        <5> QED BY <2>3, <4>1, <5>1
      <4>3. Cur' \in Int /\ Cur' =< lost + MaxSize
        BY <1>2, <3>1, <4>2
      <4> QED BY <2>5, <4>1, <4>3
    <3>5. CASE CarryShort \/ CarryFrame \/ CarryNoMem \/ CarryJunk \/ BodyNone \/ Scan
      BY <3>1, <3>5
      DEF CarryShort, CarryFrame, CarryNoMem, CarryJunk, BodyNone, Scan, ScanEnd, ScanSkip,
          ScanPark, ScanNoMem, ScanPartial, ScanFrame, Parking
    <3> QED BY <3>2, <3>3, <3>4, <3>5 DEF Walk, Carry, Body
  <2>10. CASE Looking /\ ~InStep
    <3>1. partial = <<>> /\ hdr_carry = <<>> /\ Done(Cur)
      BY <2>10 DEF Looking
    \* A marker that is seen behind the loss would put the walk in step.
    <3>2. buf # <<>> /\ Marker(buf[1]) => Cur < lost
      <4>1. ~(lost =< Cur) => Cur < lost
        BY <1>2
      <4> QED BY <2>10, <4>1, MarkerFound
    <3>3. CASE CarryNone \/ BodyNone \/ ScanEnd
      <4>1. UNCHANGED <<buf, partial, hdr_carry, out>>
        BY <3>3 DEF CarryNone, BodyNone, ScanEnd, parked
      <4>2. Cur' = Cur
        BY <2>4, <4>1
      <4> QED BY <2>1, <3>1, <4>1, <4>2 DEF Looking, Done
    <3>4. CASE ScanSkip
      <4>1. /\ UNCHANGED <<partial, hdr_carry, out>> /\ buf' = SubSeq(buf, 1 + 1, m) /\ m > 0
        BY <2>6, <3>4 DEF ScanSkip, parked, Consume, m
      <4>2. Cur' = Cur + 1
        <5>1. 1 \in 0..m
          BY <1>2, <4>1 DEF m
        <5> QED BY <2>3, <4>1, <5>1
      <4>3. CASE Cur < lost
        <5>1. Cur' =< lost'
          BY <1>2, <2>1, <4>2, <4>3
        <5>2. Cur' \in Int /\ Cur' =< lost + MaxSize
          BY <1>2, <2>1, <4>2, <5>1
        <5> QED BY <2>5, <3>1, <4>1, <5>2
      <4>4. CASE ~(Cur < lost)
        <5>1. ~Marker(buf[1])
          BY <2>6, <3>2, <4>1, <4>4
        <5>2. PICK p : p = Cur + 1
          OBVIOUS
        <5>3. p \in 1..Len(Stream) /\ 1 \in 1..Len(buf) /\ Cur + 1 > lost
          <6>1. Handed(read) =< pos /\ pos =< Len(Stream) /\ pos \in Nat /\ Len(Stream) \in Nat
            BY Positions
          <6> QED BY <1>2, <4>1, <4>4, <5>2, <6>1 DEF m
        <5>4. buf[1] = Stream[p]
          BY <5>2, <5>3 DEF Windows, Real
        <5>5. Stream[p][2] # 1
          BY <5>1, <5>4 DEF Marker
        <5>6. ASSUME NEW f \in 1..Len(Size) PROVE Cut(f) # Cur
          <6>1. Cut(f) # p - 1
            BY <5>3, <5>5, FrameStarts
          <6>2. p - 1 = Cur
            BY <1>2, <5>2
          <6> QED BY <6>1, <6>2
        <5>7. Done(Cur)' /\ Done(Cur + 1)
          <6>1. ASSUME NEW f \in 1..Len(Size), lost + MaxSize =< Cut(f), Cut(f) < Cur + 1
                PROVE  \E i \in 1..Len(out) : out[i] = Frame(f)
            <7>1. Cut(f) \in Nat /\ Cut(f) # Cur
              BY <5>6, FrameWindow
            <7>2. Cut(f) < Cur
              BY <1>2, <6>1, <7>1
            <7> QED BY <3>1, <6>1, <7>2 DEF Done
          <6> QED BY <2>1, <4>1, <4>2, <6>1 DEF Done
        <5> QED BY <3>1, <4>1, <5>7 DEF Looking
      <4> QED BY <4>3, <4>4
    <3>5. CASE ScanPark
      <4>1. hdr_carry' = buf /\ buf' = SubSeq(buf, m + 1, m) /\ buf # <<>> /\ Marker(buf[1])
        BY <3>5 DEF ScanPark, Park, Consume, m
      <4>2. Cur' = Cur + m /\ Cur < lost
        BY <2>3, <2>6, <3>2, <4>1
      <4>3. Take' = Hdr - m
        BY <4>1 DEF Take, m
      <4>4. Cur' + Take' =< lost' + Hdr
        BY <1>2, <2>1, <4>2, <4>3
      <4> QED BY <4>1, <4>4 DEF Misled
    <3>6. ASSUME m >= Hdr, Plausible(buf)
          PROVE  Length(buf[2]) \in Nat /\ Length(buf[2]) =< MaxSize /\ Cur < lost
      <4>1. buf # <<>> /\ Marker(buf[1])
        BY <1>2, <2>6, <3>6 DEF Plausible
      <4>2. 2 \in 1..Len(buf)
        BY <1>2, <3>6 DEF m
      <4>3. buf[2] \in Symbols
        BY <1>2, <4>2
      <4> QED BY <3>2, <4>1, <4>3, SymbolFacts
    <3>7. CASE ScanPartial
      <4>1. /\ m >= Hdr /\ Plausible(buf) /\ partial' = buf /\ left' = Length(buf[2]) - m
            /\ buf' = SubSeq(buf, m + 1, m)
        BY <3>7 DEF ScanPartial, Park, Consume, m
      <4>2. Cur' = Cur + m /\ Cur < lost
        BY <2>3, <2>6, <3>6, <4>1
      <4>3. Length(buf[2]) \in Nat /\ Length(buf[2]) =< MaxSize
        BY <3>6, <4>1
      <4>4. Cur' + left' =< lost' + MaxSize
        BY <1>2, <2>1, <4>1, <4>2, <4>3
      <4>5. partial' # <<>>
        BY <1>2, <2>6, <4>1
      <4> QED BY <4>4, <4>5 DEF Misread
    <3>8. CASE ScanFrame
      <4>1. /\ m >= Hdr /\ Plausible(buf) /\ UNCHANGED <<partial, hdr_carry>>
            /\ Length(buf[2]) =< m /\ buf' = SubSeq(buf, Length(buf[2]) + 1, m)
        BY <3>8 DEF ScanFrame, parked, Consume, m
      <4>2. Length(buf[2]) \in Nat /\ Length(buf[2]) =< MaxSize /\ Cur < lost
        BY <3>6, <4>1
      <4>3. Cur' = Cur + Length(buf[2])
        <5>1. Length(buf[2]) \in 0..m
          BY <1>2, <4>1, <4>2
        <5> QED BY <2>3, <4>1, <5>1
      <4>4. Cur' \in Int /\ Cur' =< lost + MaxSize
        BY <1>2, <4>2, <4>3
      <4> QED BY <2>5, <3>1, <4>1, <4>4
    <3>9. CASE CarryShort \/ CarryFrame \/ CarryJunk \/ BodyMore \/ BodyDone
      BY <3>1, <3>9 DEF CarryShort, CarryFrame, CarryJunk, BodyMore, BodyDone
    <3>10. CASE CarryNoMem \/ ScanNoMem
      BY <1>5, <3>10 DEF CarryNoMem, ScanNoMem, NoMem
    <3> QED BY <3>3, <3>4, <3>5, <3>7, <3>8, <3>9, <3>10 DEF Walk, Carry, Body, Scan
  <2> QED BY <2>2, <2>7, <2>8, <2>9, <2>10
<1> QED BY <1>4, <1>5

-----------------------------------------------------------------------------
(* The chip, the interface and artosyn_sdio_recv.                          *)

LEMMA Quiet ==
  ASSUME UNCHANGED <<hdr_carry, partial, left, out, lost>>, Cur' = Cur, Clean, Synced
  PROVE  Clean' /\ Synced'
<1>1. Parked' = Parked /\ Take' = Take
  BY DEF Parked, Take
<1>2. ASSUME NEW f PROVE AtFrame(f)' <=> AtFrame(f)
  BY <1>1 DEF AtFrame
<1>3. Clean'
  BY <1>1 DEF Clean, AtFrame
<1>4. ASSUME NEW q PROVE Done(q)' <=> Done(q)
  BY DEF Done
<1>5. NoMimic' <=> NoMimic
  BY DEF NoMimic
<1>6. Looking => Looking'
  BY DEF Looking, Done
<1>7. (Misread => Misread') /\ (Misled => Misled')
  BY <1>1 DEF Misread, Misled
<1>8. InStep => InStep'
  BY <1>1, <1>2 DEF InStep, Done
<1> QED BY <1>3, <1>5, <1>6, <1>7, <1>8 DEF Synced

LEMMA ChipStep ==
  ASSUME TypeOK, Phases, Windows, ChipSend
  PROVE  TypeOK' /\ Phases' /\ Windows' /\ Cur' = Cur
<1>1. /\ pc = "free" /\ Len(fifo) < Backlog /\ read = <<>> /\ buf = <<>>
      /\ UNCHANGED <<up, pc, read, buf, hdr_carry, partial, left, out, lost>>
  BY DEF ChipSend, Phases, parked
<1>2. /\ pos \in Nat /\ pos =< Len(Stream) /\ Len(Stream) \in Nat /\ lost \in Nat /\ lost =< pos
      /\ Payloads(read) \in Seq(Symbols) /\ Payloads(fifo) \in Seq(Symbols)
      /\ Len(Payloads(fifo)) \in Nat /\ Len(Payloads(read)) \in Nat
      /\ Handed(read) = pos - Len(Payloads(read)) - Len(Payloads(fifo))
      /\ Handed(read) \in Nat /\ Stream \in Seq(Symbols)
      /\ fifo \in Seq(Runs) /\ Len(fifo) \in Nat /\ Backlog \in Nat
  BY Positions, StreamTypes, BlockAssumption DEF TypeOK
<1>3. PICK r \in Runs :
        /\ fifo' = Append(fifo, r) /\ r.pay # <<>>
        /\ Pay(r) \in Seq(Symbols)
        /\ pos' = pos + Len(Pay(r)) /\ pos' =< Len(Stream)
        /\ Real(Pay(r), pos, lost)
  <2>1. CASE \E n \in Chunk : /\ pos + n <= Len(Stream)
                              /\ Queue("ip", SubSeq(Stream, pos + 1, pos + n))
                              /\ pos' = pos + n
    <3>1. PICK n \in Chunk : /\ pos + n <= Len(Stream)
                             /\ Queue("ip", SubSeq(Stream, pos + 1, pos + n))
                             /\ pos' = pos + n
      BY <2>1
    <3>2. n \in Nat /\ n > 0
      BY BlockAssumption
    <3> DEFINE w == SubSeq(Stream, pos + 1, pos + n)
               r == [type |-> "ip", pay |-> w]
    <3>3. w \in Seq(Symbols) /\ Len(w) = n /\ \A j \in 1..n : w[j] = Stream[pos + j]
      <4> DEFINE a == pos + 1
                 b == pos + n
      <4>1. a \in 1..Len(Stream) + 1 /\ b \in a - 1..Len(Stream) /\ b - a + 1 = n
        BY <1>2, <3>1, <3>2
      <4>2. w = SubSeq(Stream, a, b)
        OBVIOUS
      <4> HIDE DEF a, b, w
      <4>3. w \in Seq(Symbols) /\ Len(w) = b - a + 1
            /\ \A j \in 1..(b - a + 1) : w[j] = Stream[a + j - 1]
        BY <1>2, <4>1, <4>2, SubSeqProperties
      <4>4. ASSUME NEW j \in 1..n PROVE w[j] = Stream[pos + j]
        <5>1. a + j - 1 = pos + j
          BY <1>2 DEF a
        <5> QED BY <4>1, <4>3, <5>1
      <4> QED BY <4>1, <4>3, <4>4
    <3>4. fifo' = Append(fifo, r)
      BY <3>1 DEF Queue
    <3> HIDE DEF w
    <3>5. r \in Runs /\ r.pay = w /\ w # <<>> /\ r.type = "ip"
      BY <3>2, <3>3 DEF Runs, Types
    <3>6. Pay(r) = w
      BY <3>5 DEF Pay
    <3> HIDE DEF r
    <3>7. Real(w, pos, lost)
      BY <3>3 DEF Real
    <3> QED BY <3>1, <3>3, <3>4, <3>5, <3>6, <3>7
  <2>2. CASE \E t \in Strangers : Queue(t, <<Foreign>>) /\ pos' = pos
    <3>1. PICK t \in Strangers : Queue(t, <<Foreign>>) /\ pos' = pos
      BY <2>2
    <3> DEFINE r == [type |-> t, pay |-> <<Foreign>>]
    <3>2. t \in Types /\ t # "ip"
      BY SwitchAssumption DEF Types
    <3>3. fifo' = Append(fifo, r)
      BY <3>1 DEF Queue
    <3>4. Foreign \in Symbols
      BY DEF Symbols
    <3>5. r \in Runs /\ r.pay # <<>> /\ r.type = t
      BY <3>2, <3>4 DEF Runs
    <3>6. Pay(r) = <<>>
      BY <3>2, <3>5 DEF Pay
    <3> HIDE DEF r
    <3>7. Real(<<>>, pos, lost) /\ <<>> \in Seq(Symbols) /\ Len(<<>>) = 0
      BY DEF Real
    <3>8. pos' = pos + 0
      BY <1>2, <3>1
    <3> QED BY <1>2, <3>1, <3>3, <3>5, <3>6, <3>7, <3>8
  <2> QED BY <2>1, <2>2 DEF ChipSend
<1> DEFINE k == Len(Pay(r))
           q == Payloads(fifo)
<1>4. Payloads(fifo') = q \o Pay(r)
  BY <1>2, <1>3, PayloadsAppend
<1>5. k \in Nat
  BY <1>3
<1>6. Real(q, pos - Len(q), lost)
  BY DEF Windows
<1> HIDE DEF k, q
<1>7. /\ Len(Payloads(fifo')) = Len(q) + k
      /\ Real(Payloads(fifo'), pos - Len(q), lost)
  <2>1. q \in Seq(Symbols) /\ Len(q) \in Nat
    BY <1>2 DEF q
  <2>2. pos - Len(q) \in Int /\ (pos - Len(q)) + Len(q) = pos /\ lost \in Int
    BY <1>2, <2>1
  <2>3. Real(Pay(r), (pos - Len(q)) + Len(q), lost)
    BY <1>3, <2>2
  <2>4. Len(q \o Pay(r)) = Len(q) + Len(Pay(r)) /\ Real(q \o Pay(r), pos - Len(q), lost)
    BY <1>3, <1>6, <2>1, <2>2, <2>3, RealConcat
  <2> QED BY <1>4, <2>4 DEF k
<1>8. pos' - Len(Payloads(fifo')) = pos - Len(q) /\ Len(q) \in Nat /\ pos' = pos + k /\ pos' \in Nat
  <2>1. Len(q) \in Nat /\ pos' = pos + k
    BY <1>2, <1>3 DEF q, k
  <2> QED BY <1>2, <1>5, <1>7, <2>1
<1>9. Handed(read)' = Handed(read)
  <2>1. Handed(read)' = pos' - Len(Payloads(read)) - Len(Payloads(fifo'))
    BY <1>1 DEF Handed
  <2>2. Handed(read) = pos - Len(Payloads(read)) - Len(q)
    BY <1>2 DEF q
  <2>3. Len(Payloads(fifo')) = Len(q) + k /\ pos' = pos + k /\ pos \in Nat /\ Len(q) \in Nat
        /\ k \in Nat /\ Len(Payloads(read)) \in Nat
    BY <1>2, <1>5, <1>7, <1>8
  <2> QED BY <2>1, <2>2, <2>3
<1>10. Cur' = Cur
  BY <1>1, <1>9 DEF Cur
<1>11. fifo' \in Seq(Runs) /\ Len(fifo') =< Backlog
  BY <1>1, <1>2, <1>3
<1>12. pos' \in 0..Len(Stream)
  BY <1>2, <1>3, <1>8
<1>13. TypeOK'
  BY <1>1, <1>11, <1>12 DEF TypeOK
<1>14. Phases'
  BY <1>1 DEF Phases
<1>15. \A i \in 1..Len(fifo') : fifo'[i].pay # <<>>
  <2> SUFFICES ASSUME NEW i \in 1..Len(fifo') PROVE fifo'[i].pay # <<>>
    OBVIOUS
  <2>1. CASE i = Len(fifo) + 1
    BY <1>2, <1>3, <2>1
  <2>2. CASE i # Len(fifo) + 1
    <3>1. i \in 1..Len(fifo) /\ fifo'[i] = fifo[i]
      BY <1>2, <1>3, <2>2
    <3> QED BY <3>1 DEF Windows
  <2> QED BY <2>1, <2>2
<1>16. Len(Payloads(read')) + Len(Payloads(fifo')) + Len(buf') =< pos'
  <2>1. Len(Payloads(read)) + Len(q) + Len(buf) =< pos /\ Len(buf) = 0
    BY <1>1 DEF Windows, q
  <2>2. /\ Len(Payloads(fifo')) = Len(q) + k /\ pos' = pos + k /\ pos \in Nat /\ Len(q) \in Nat
        /\ k \in Nat /\ Len(Payloads(read)) \in Nat
        /\ read' = read /\ buf' = buf
    BY <1>1, <1>2, <1>5, <1>7, <1>8
  <2> QED BY <2>1, <2>2
<1>17. lost' =< Handed(read)' /\ lost' =< pos'
  <2>1. lost =< Handed(read)
    BY <1>1 DEF Windows
  <2> QED BY <1>1, <1>2, <1>5, <1>8, <1>9, <2>1
<1>18. /\ Real(Payloads(fifo'), pos' - Len(Payloads(fifo')), lost')
       /\ Real(Payloads(read'), Handed(read)', lost')
       /\ Real(buf', Cur', lost')
  BY <1>1, <1>7, <1>8, <1>9, <1>10 DEF Windows
<1>19. \A i \in 1..Len(read') : read'[i].pay # <<>>
  BY <1>1 DEF Windows
<1>20. Windows'
  BY <1>15, <1>16, <1>17, <1>18, <1>19 DEF Windows
<1> QED BY <1>10, <1>13, <1>14, <1>20

\* What a step of artosyn_sdio_recv leaves the walk with: where it was, or
\* behind a loss.
LEMMA FetchStep ==
  ASSUME TypeOK, Phases, Windows, Fetch
  PROVE  /\ TypeOK' /\ Phases' /\ Windows'
         /\ (lost' = lost /\ Cur' = Cur) \/ (lost' > 0 /\ Cur' =< lost')
<1>1. /\ pc = "free" /\ fifo # <<>> /\ pc' = "dispatch" /\ fifo' = <<>> /\ read = <<>> /\ buf = <<>>
      /\ UNCHANGED <<pos, up, buf, hdr_carry, partial, left, out>>
  BY DEF Fetch, Phases, parked
<1>2. /\ pos \in Nat /\ pos =< Len(Stream) /\ Len(Stream) \in Nat /\ lost \in Nat /\ lost =< pos
      /\ Len(Payloads(fifo)) \in Nat /\ Handed(read) \in Nat
      /\ Payloads(read) \in Seq(Symbols) /\ Payloads(fifo) \in Seq(Symbols)
      /\ Handed(read) = pos - Len(Payloads(read)) - Len(Payloads(fifo))
      /\ fifo \in Seq(Runs) /\ read \in Seq(Runs)
  BY Positions DEF TypeOK
<1>3. Payloads(<<>>) = <<>> /\ Len(<<>>) = 0 /\ <<>> \in Seq(Runs)
  <2>1. <<>> \in Seq(Runs)
    OBVIOUS
  <2> QED BY <2>1, PayloadFacts
<1>4. Handed(read) = pos - Len(Payloads(fifo)) /\ Cur = Handed(read) /\ lost =< Handed(read)
  <2>1. Len(Payloads(read)) = 0 /\ Len(buf) = 0
    BY <1>1, <1>3
  <2>2. lost =< Handed(read)
    BY <1>1 DEF Windows
  <2> QED BY <1>2, <2>1, <2>2 DEF Cur
<1>5. /\ read' \in Seq(Runs) /\ lost' \in Nat /\ lost =< lost' /\ lost' =< pos
      /\ \A i \in 1..Len(read') : read'[i].pay # <<>>
      /\ Len(Payloads(read')) \in Nat /\ Len(Payloads(read')) =< Len(Payloads(fifo))
      /\ \/ read' = fifo /\ lost' = lost
         \/ lost' = pos /\ (read' = <<>> \/ Len(read') = 1)
  <2>1. CASE read' = Recovered(fifo) /\ lost' = IF read' = fifo THEN lost ELSE pos
    <3>1. /\ Recovered(fifo) \in Seq(Runs)
          /\ \A i \in 1..Len(Recovered(fifo)) : Recovered(fifo)[i].pay # <<>>
          /\ Recovered(fifo) # fifo =>
               /\ Len(Recovered(fifo)) = 1
               /\ Len(Payloads(Recovered(fifo))) =< Len(Payloads(fifo))
      <4>1. \A i \in 1..Len(fifo) : fifo[i].pay # <<>>
        BY DEF Windows
      <4> QED BY <1>1, <1>2, <4>1, RecoveredFacts
    <3>2. Payloads(read') \in Seq(Symbols)
      BY <2>1, <3>1, PayloadFacts
    <3>3. Len(Payloads(read')) \in Nat
      BY <3>2
    <3>4. CASE read' = fifo
      BY <1>2, <2>1, <3>1, <3>3, <3>4
    <3>5. CASE read' # fifo
      BY <1>2, <2>1, <3>1, <3>3, <3>5
    <3> QED BY <3>4, <3>5
  <2>2. CASE read' = <<>> /\ lost' = pos
    BY <1>2, <1>3, <2>2
  <2> QED BY <2>1, <2>2 DEF Fetch
<1>6. Handed(read)' = pos - Len(Payloads(read')) /\ Handed(read)' \in Nat /\ Handed(read)' =< pos
  <2>1. Handed(read)' = pos' - Len(Payloads(read')) - Len(Payloads(fifo'))
    BY DEF Handed
  <2>2. pos' = pos /\ Len(Payloads(fifo')) = 0
    BY <1>1, <1>3
  <2>3. Len(Payloads(fifo)) =< pos
    BY <1>2, <1>4
  <2> QED BY <1>2, <1>5, <2>1, <2>2, <2>3
<1>7. Cur' = Handed(read)'
  <2>1. Len(buf') = 0
    BY <1>1
  <2> QED BY <1>6, <2>1 DEF Cur
<1>8. TypeOK'
  <2>1. lost' \in 0..Len(Stream)
    BY <1>2, <1>5
  <2>2. Len(fifo') =< Backlog /\ fifo' \in Seq(Runs)
    BY <1>1, <1>3, BlockAssumption
  <2> QED BY <1>1, <1>5, <2>1, <2>2 DEF TypeOK
<1>9. Phases'
  BY <1>1 DEF Phases
<1>10. Windows'
  <2>1. /\ \A i \in 1..Len(fifo') : fifo'[i].pay # <<>>
        /\ \A i \in 1..Len(read') : read'[i].pay # <<>>
    BY <1>1, <1>5
  <2>2. Len(Payloads(read')) + Len(Payloads(fifo')) + Len(buf') =< pos'
    <3>1. Len(Payloads(fifo')) = 0 /\ Len(buf') = 0 /\ pos' = pos
      BY <1>1, <1>3
    <3>2. Len(Payloads(fifo)) =< pos
      BY <1>2, <1>4
    <3> QED BY <1>2, <1>5, <3>1, <3>2
  <2>3. /\ lost' =< Handed(read)' \/ (pc' = "dispatch" /\ Len(read') = 1 /\ lost' = pos')
        /\ lost' =< pos'
    <3>1. CASE read' = fifo /\ lost' = lost
      <4>1. Handed(read)' = Handed(read)
        BY <1>4, <1>6, <3>1
      <4> QED BY <1>1, <1>2, <1>4, <3>1, <4>1
    <3>2. CASE lost' = pos /\ Len(read') = 1
      BY <1>1, <1>2, <3>2
    <3>3. CASE lost' = pos /\ read' = <<>>
      <4>1. Len(Payloads(read')) = 0
        BY <1>3, <3>3
      <4>2. Handed(read)' = pos
        BY <1>2, <1>6, <4>1
      <4> QED BY <1>1, <1>2, <3>3, <4>2
    <3> QED BY <1>5, <3>1, <3>2, <3>3
  <2>4. Real(Payloads(fifo'), pos' - Len(Payloads(fifo')), lost') /\ Real(buf', Cur', lost')
    BY <1>1, <1>3 DEF Real
  <2>5. Real(Payloads(read'), Handed(read)', lost')
    <3>1. CASE read' = fifo /\ lost' = lost
      <4>1. Real(Payloads(fifo), pos - Len(Payloads(fifo)), lost)
        BY DEF Windows
      <4> QED BY <1>6, <3>1, <4>1
    <3>2. CASE lost' = pos
      <4> SUFFICES ASSUME NEW j \in 1..Len(Payloads(read')), Handed(read)' + j > lost'
                   PROVE  FALSE
        BY DEF Real
      <4>1. PICK h \in Nat : h = Handed(read)'
        BY <1>6
      <4>2. h + j > pos /\ h = pos - Len(Payloads(read')) /\ j =< Len(Payloads(read')) /\ j \in Nat
        BY <1>5, <1>6, <3>2, <4>1
      <4> QED BY <1>2, <1>5, <4>2
    <3> QED BY <1>5, <3>1, <3>2
  <2> QED BY <2>1, <2>2, <2>3, <2>4, <2>5 DEF Windows
<1>11. (lost' = lost /\ Cur' = Cur) \/ (lost' > 0 /\ Cur' =< lost')
  <2>1. CASE read' = fifo /\ lost' = lost
    <3>1. Handed(read)' = Handed(read)
      BY <1>4, <1>6, <2>1
    <3>2. Cur' = Cur
      BY ONLY <1>4, <1>7, <3>1
    <3> QED BY <2>1, <3>2
  <2>2. CASE lost' = pos /\ pos > 0
    BY <1>2, <1>6, <1>7, <2>2
  <2>3. CASE lost' = pos /\ pos = 0
    <3>1. Handed(read) = 0 /\ Handed(read)' = 0 /\ lost = 0
      BY <1>2, <1>4, <1>6, <2>3
    <3> QED BY <1>4, <1>7, <2>3, <3>1
  <2> QED BY <1>2, <1>5, <2>1, <2>2, <2>3
<1> QED BY <1>8, <1>9, <1>10, <1>11

LEMMA DispatchStep ==
  ASSUME TypeOK, Phases, Windows, Dispatch
  PROVE  /\ TypeOK' /\ Phases' /\ Windows'
         /\ (lost' = lost /\ Cur' = Cur) \/ (lost' > 0 /\ Cur' =< lost')
<1> DEFINE r == Head(read)
           t == Tail(read)
           k == Len(Pay(r))
           h == Handed(read)
<1>1. /\ pc = "dispatch" /\ read # <<>> /\ read' = t /\ buf = <<>> /\ fifo = <<>>
      /\ UNCHANGED <<pos, fifo, up, hdr_carry, partial, left, out>>
  BY DEF Dispatch, Phases, chip, parked
<1>2. /\ pos \in Nat /\ pos =< Len(Stream) /\ Len(Stream) \in Nat /\ lost \in Nat /\ lost =< pos
      /\ Payloads(read) \in Seq(Symbols) /\ Len(Payloads(read)) \in Nat
      /\ h \in Nat /\ h =< pos
      /\ h = pos - Len(Payloads(read)) - Len(Payloads(fifo)) /\ read \in Seq(Runs)
  BY Positions DEF TypeOK
<1>3. Len(Payloads(fifo)) = 0
  <2>1. <<>> \in Seq(Runs)
    OBVIOUS
  <2>2. Payloads(fifo) = <<>>
    BY <1>1, <2>1, PayloadFacts
  <2> QED BY <2>2
<1>4. /\ r \in Runs /\ t \in Seq(Runs) /\ Len(read) \in Nat /\ Len(t) = Len(read) - 1
      /\ r.pay # <<>> /\ \A i \in 1..Len(t) : t[i].pay # <<>>
  <2>1. r \in Runs /\ t \in Seq(Runs) /\ Len(read) \in Nat /\ Len(t) = Len(read) - 1
        /\ r = read[1] /\ Len(read) >= 1
        /\ \A i \in 1..Len(read) - 1 : t[i] = read[i + 1]
    BY <1>1, <1>2, HeadTailProperties
  <2>2. \A i \in 1..Len(read) : read[i].pay # <<>>
    BY DEF Windows
  <2>3. ASSUME NEW i \in 1..Len(t) PROVE t[i].pay # <<>>
    <3>1. i \in 1..Len(read) - 1 /\ i + 1 \in 1..Len(read)
      BY <2>1
    <3> QED BY <2>1, <2>2, <3>1
  <2>4. 1 \in 1..Len(read)
    BY <2>1
  <2> HIDE DEF t
  <2> QED BY <2>1, <2>2, <2>3, <2>4
<1>5. /\ Pay(r) \in Seq(Symbols) /\ k \in Nat
      /\ r.type = "ip" => Pay(r) = r.pay /\ k > 0
      /\ r.type # "ip" => Pay(r) = <<>> /\ k = 0
  <2>1. r.pay \in Seq(Symbols) /\ r.pay # <<>>
    BY <1>4 DEF Runs
  <2> HIDE DEF r
  <2> QED BY <2>1 DEF Pay
<1>6. /\ Payloads(read) = Pay(r) \o Payloads(t) /\ Payloads(t) \in Seq(Symbols)
      /\ Len(Payloads(t)) \in Nat
  <2>1. Payloads(read) = Pay(r) \o Payloads(t)
    BY <1>1, <1>2, PayloadFacts
  <2>2. Payloads(t) \in Seq(Symbols)
    BY <1>4, PayloadFacts
  <2> QED BY <2>1, <2>2
<1> HIDE DEF r, t, k, h
<1>7. Len(Payloads(read)) = k + Len(Payloads(t))
  BY <1>5, <1>6, ConcatProperties DEF k
<1>8. h = pos - k - Len(Payloads(t))
  BY <1>2, <1>3, <1>5, <1>6, <1>7
\* What has been handed over after the step
<1>9. Handed(read)' = h + k /\ Handed(t) = h + k
  <2>1. Handed(read)' = pos' - Len(Payloads(t)) - Len(Payloads(fifo'))
    BY <1>1 DEF Handed
  <2>2. Handed(t) = pos - Len(Payloads(t)) - Len(Payloads(fifo))
    BY DEF Handed
  <2>3. Handed(t) = h + k
    <3> DEFINE n == Len(Payloads(t))
    <3>1. h = pos - k - n /\ Handed(t) = pos - n - 0
      BY <1>3, <1>8, <2>2
    <3>2. pos \in Nat /\ k \in Nat /\ n \in Nat
      BY <1>2, <1>5, <1>6
    <3> HIDE DEF n
    <3>3. pos - n - 0 = h + k
      BY <3>1, <3>2
    <3> QED BY <3>1, <3>3
  <2> QED BY <1>1, <2>1, <2>2, <2>3
<1>10. h + k =< pos
  BY <1>2, <1>5, <1>6, <1>8
<1>11. Real(Pay(r), h, lost) /\ Real(Payloads(t), h + k, lost)
  <2>1. Real(Pay(r) \o Payloads(t), h, lost)
    BY <1>6 DEF Windows, h
  <2> DEFINE a == Pay(r)
             b == Payloads(t)
  <2>2. a \in Seq(Symbols) /\ b \in Seq(Symbols) /\ Len(a) = k
    BY <1>5, <1>6 DEF k
  <2>3. Real(a \o b, h, lost)
    BY <2>1
  <2> HIDE DEF a, b
  <2>4. /\ Len(a \o b) = Len(a) + Len(b) /\ Len(a) \in Nat /\ Len(b) \in Nat
        /\ \A i \in 1..Len(a) + Len(b) :
             (a \o b)[i] = IF i =< Len(a) THEN a[i] ELSE b[i - Len(a)]
    <3>1. Len(a) \in Nat /\ Len(b) \in Nat
      BY <2>2
    <3> QED BY ONLY <2>2, <3>1, ConcatProperties
  <2>5. ASSUME NEW j \in 1..Len(a), h + j > lost PROVE a[j] = Stream[h + j]
    <3>1. j \in 1..Len(a) + Len(b) /\ j =< Len(a)
      BY <2>4
    <3>2. (a \o b)[j] = a[j]
      BY <2>4, <3>1
    <3> QED BY <2>3, <2>4, <2>5, <3>1, <3>2 DEF Real
  <2>6. ASSUME NEW j \in 1..Len(b), (h + k) + j > lost PROVE b[j] = Stream[(h + k) + j]
    <3> DEFINE i == k + j
    <3>1. i \in 1..Len(a) + Len(b) /\ ~(i =< Len(a)) /\ i - Len(a) = j /\ h + i = (h + k) + j
      BY <1>2, <1>5, <2>2, <2>4
    <3> HIDE DEF i
    <3>2. (a \o b)[i] = b[j]
      BY <2>4, <3>1
    <3>3. (a \o b)[i] = Stream[h + i]
      BY <2>3, <2>4, <2>6, <3>1 DEF Real
    <3> QED BY <3>1, <3>2, <3>3
  <2>7. Real(a, h, lost) /\ Real(b, h + k, lost)
    BY <2>5, <2>6 DEF Real
  <2> QED BY <2>7 DEF a, b
<1>12. lost =< h + k
  <2>1. CASE lost =< h
    BY <1>2, <1>5, <2>1
  <2>2. CASE Len(read) = 1 /\ lost = pos
    <3>1. t = <<>>
      BY <1>4, <2>2
    <3>2. Len(Payloads(t)) = 0
      <4>1. <<>> \in Seq(Runs)
        OBVIOUS
      <4>2. Payloads(t) = <<>>
        BY <3>1, <4>1, PayloadFacts
      <4> QED BY <4>2
    <3> QED BY <1>2, <1>5, <1>8, <2>2, <3>2
  <2> QED BY <2>1, <2>2 DEF Windows, h
<1>13. Cur = h
  <2>1. Len(buf) = 0
    BY <1>1
  <2> QED BY <1>2, <2>1 DEF Cur, h
<1>14. /\ \/ /\ r.type = "ip" /\ buf' = Pay(r) /\ pc' = "carry" /\ lost' = lost
          \/ /\ r.type = "ip" /\ buf' = <<>> /\ pc' = "dispatch" /\ lost' = h + k
          \/ /\ r.type # "ip" /\ buf' = <<>> /\ pc' = "dispatch" /\ lost' = lost
  BY <1>1, <1>5, <1>9 DEF Dispatch, r, t
<1>15. /\ buf' \in Seq(Symbols) /\ Len(buf') \in Nat /\ Len(buf') =< k
       /\ lost' \in Nat /\ lost =< lost' /\ lost' =< h + k
       /\ pc' \in {"carry", "dispatch"} /\ (pc' = "dispatch" => buf' = <<>>)
  <2>1. <<>> \in Seq(Symbols) /\ Len(<<>>) = 0
    OBVIOUS
  <2>2. Len(Pay(r)) = k
    BY DEF k
  <2>3. buf' = Pay(r) \/ buf' = <<>>
    BY <1>14
  <2>4. buf' \in Seq(Symbols) /\ Len(buf') \in Nat /\ Len(buf') =< k
    <3>1. CASE buf' = Pay(r)
      BY <1>5, <2>2, <3>1
    <3>2. CASE buf' = <<>>
      BY <1>5, <2>1, <3>2
    <3> QED BY <2>3, <3>1, <3>2
  <2>5. lost' \in Nat /\ lost =< lost' /\ lost' =< h + k
    <3>1. lost' = lost \/ lost' = h + k
      BY <1>14
    <3>2. h + k \in Nat
      BY <1>2, <1>5
    <3> QED BY <1>2, <1>12, <3>1, <3>2
  <2> QED BY <1>14, <2>4, <2>5
<1>16. Cur' = h + k - Len(buf')
  <2>1. PICK n : n = Handed(read)'
    OBVIOUS
  <2>2. Cur' = n - Len(buf')
    BY <2>1 DEF Cur
  <2>3. n = h + k
    BY <1>9, <2>1
  <2>4. h \in Nat /\ k \in Nat /\ Len(buf') \in Nat
    BY <1>2, <1>5, <1>15
  <2> QED BY ONLY <2>2, <2>3, <2>4
<1>17. TypeOK'
  <2>1. lost' \in 0..Len(Stream)
    BY <1>2, <1>5, <1>10, <1>15
  <2>2. pc' \in {"free", "dispatch", "carry", "body", "scan"}
    BY <1>15
  <2> QED BY <1>1, <1>4, <1>15, <2>1, <2>2 DEF TypeOK
<1>18. Phases'
  BY <1>1, <1>15 DEF Phases
<1>19. Windows'
  <2>1. /\ \A i \in 1..Len(fifo') : fifo'[i].pay # <<>>
        /\ \A i \in 1..Len(read') : read'[i].pay # <<>>
    BY <1>1, <1>4 DEF Windows
  <2>2. Len(Payloads(read')) + Len(Payloads(fifo')) + Len(buf') =< pos'
    <3>1. read' = t /\ fifo' = fifo /\ pos' = pos
      BY <1>1
    <3> QED BY <1>2, <1>3, <1>5, <1>6, <1>8, <1>15, <3>1
  <2>3. lost' =< Handed(read)' /\ lost' =< pos'
    BY <1>1, <1>2, <1>5, <1>9, <1>10, <1>15
  <2>4. Real(Payloads(fifo'), pos' - Len(Payloads(fifo')), lost')
    <3>1. Len(Payloads(fifo')) = 0
      BY <1>1, <1>3
    <3> QED BY <3>1 DEF Real
  <2>5. Real(Payloads(read'), Handed(read)', lost')
    <3>1. Real(Payloads(t), h + k, lost')
      <4>1. h + k \in Int /\ lost \in Int /\ lost' \in Int
        BY <1>2, <1>5, <1>15
      <4> QED BY <1>6, <1>11, <1>15, <4>1, RealMono
    <3> QED BY <1>1, <1>9, <3>1
  <2>6. Real(buf', Cur', lost')
    <3>1. CASE buf' = <<>>
      BY <3>1 DEF Real
    <3>2. CASE buf' = Pay(r) /\ lost' = lost
      <4>1. Cur' = h
        <5>1. Len(buf') = k
          BY <3>2 DEF k
        <5> QED BY <1>2, <1>5, <1>16, <5>1
      <4> QED BY <1>11, <3>2, <4>1
    <3> QED BY <1>14, <3>1, <3>2
  <2> QED BY <2>1, <2>2, <2>3, <2>4, <2>5, <2>6 DEF Windows
<1>20. (lost' = lost /\ Cur' = Cur) \/ (lost' > 0 /\ Cur' =< lost')
  <2>1. CASE r.type = "ip" /\ buf' = Pay(r) /\ lost' = lost
    <3>1. Len(buf') = k
      BY <2>1 DEF k
    <3>2. Cur' = Cur
      BY <1>2, <1>5, <1>13, <1>16, <3>1
    <3> QED BY <2>1, <3>2
  <2>2. CASE r.type = "ip" /\ lost' = h + k
    BY <1>2, <1>5, <1>15, <1>16, <2>2
  <2>3. CASE r.type # "ip" /\ buf' = <<>> /\ lost' = lost
    <3>1. Len(buf') = 0 /\ k = 0
      BY <1>5, <2>3
    <3>2. Cur' = Cur
      BY <1>2, <1>5, <1>13, <1>16, <3>1
    <3> QED BY <2>3, <3>2
  <2> QED BY <1>14, <2>1, <2>2, <2>3
<1> QED BY <1>17, <1>18, <1>19, <1>20

\* The interface goes down or up, or the handler is done.
LEMMA IdleStep ==
  ASSUME TypeOK, Phases, Windows, SetUp \/ RecvDone \/ UNCHANGED vars
  PROVE  TypeOK' /\ Phases' /\ Windows' /\ Cur' = Cur
<1>1. /\ UNCHANGED <<pos, fifo, read, buf, hdr_carry, partial, left, out, lost>>
      /\ up' \in BOOLEAN
      /\ pc' = pc \/ (pc = "dispatch" /\ pc' = "free" /\ read = <<>>)
  BY DEF SetUp, RecvDone, vars, chip, parked, TypeOK
<1>2. Handed(read)' = Handed(read) /\ Cur' = Cur
  BY <1>1 DEF Handed, Cur
<1>3. TypeOK'
  BY <1>1 DEF TypeOK
<1>4. Phases'
  BY <1>1 DEF Phases
<1>5. lost' =< Handed(read)' \/ (pc' = "dispatch" /\ Len(read') = 1 /\ lost' = pos')
  <2>1. Len(read) = 1 => read # <<>>
    OBVIOUS
  <2> QED BY <1>1, <1>2, <2>1 DEF Windows
<1>6. Windows'
  BY <1>1, <1>2, <1>5 DEF Windows
<1> QED BY <1>2, <1>3, <1>4, <1>6

-----------------------------------------------------------------------------
(* The theorems.                                                           *)

LEMMA RxInit == Init => RxInv
<1> SUFFICES ASSUME Init PROVE RxInv
  OBVIOUS
<1>1. /\ pos = 0 /\ fifo = <<>> /\ up = TRUE /\ pc = "free" /\ read = <<>> /\ buf = <<>>
      /\ hdr_carry = <<>> /\ partial = <<>> /\ left = 0 /\ out = <<>> /\ lost = 0
  BY DEF Init
<1>2. /\ Len(Stream) \in Nat /\ Hdr \in Nat /\ Hdr >= 2 /\ MaxSize \in Nat /\ Backlog \in Nat
      /\ Len(Size) \in Nat
  BY StreamTypes, FramesTypes, HeaderAssumption, BlockAssumption
<1>3. TypeOK
  BY <1>1, <1>2 DEF TypeOK
<1>4. Payloads(<<>>) = <<>> /\ Len(<<>>) = 0
  <2>1. <<>> \in Seq(Runs)
    OBVIOUS
  <2> QED BY <2>1, PayloadFacts
<1>5. Handed(read) = 0
  BY <1>1, <1>4 DEF Handed
<1>6. Cur = 0 /\ Parked = 0
  BY <1>1, <1>4, <1>5 DEF Cur, Parked
<1>7. Phases /\ Parking
  BY <1>1 DEF Phases, Parking, OneParked
<1>8. Windows
  BY <1>1, <1>4, <1>5 DEF Windows, Real
<1>9. Synced
  BY <1>1, <1>3, <1>6, <1>8, LostAll
<1>10. Clean
  <2>1. Cut(1) = 0
    BY CutFacts
  <2>2. AtFrame(0 + 1)
    BY <1>1, <1>4, <1>6, <2>1 DEF AtFrame, Real
  <2>3. Flat(out) = SubSeq(Stream, 1, 0)
    <3>1. out \in Seq(Seq(Symbols))
      BY <1>3 DEF TypeOK
    <3>2. Flat(out) = <<>>
      BY <1>1, <3>1, FlatFacts
    <3>3. SubSeq(Stream, 1, 0) = <<>>
      BY StreamTypes
    <3> QED BY <3>2, <3>3
  <2>4. Len(out) = 0
    BY <1>1
  <2> QED BY <1>1, <1>2, <2>1, <2>2, <2>3, <2>4 DEF Clean
<1> QED BY <1>3, <1>7, <1>8, <1>9, <1>10 DEF RxInv

LEMMA RxStep == RxInv /\ [Next]_vars => RxInv'
<1> SUFFICES ASSUME RxInv, [Next]_vars PROVE RxInv'
  OBVIOUS
<1>1. TypeOK /\ Parking /\ Phases /\ Windows /\ Clean /\ Synced
  BY DEF RxInv
<1>2. Parking'
  BY <1>1, ParkingStep
<1>3. CASE Walk
  BY <1>1, <1>2, <1>3, WalkWindows, CleanWalk, SyncedWalk DEF RxInv
<1>4. CASE ChipSend \/ SetUp \/ RecvDone \/ UNCHANGED vars
  <2>1. TypeOK' /\ Phases' /\ Windows' /\ Cur' = Cur
    BY <1>1, <1>4, ChipStep, IdleStep
  <2>2. UNCHANGED <<hdr_carry, partial, left, out, lost>>
    BY <1>4 DEF ChipSend, SetUp, RecvDone, vars, parked
  <2> QED BY <1>1, <1>2, <2>1, <2>2, Quiet DEF RxInv
<1>5. CASE Fetch \/ Dispatch
  <2>1. /\ TypeOK' /\ Phases' /\ Windows'
        /\ (lost' = lost /\ Cur' = Cur) \/ (lost' > 0 /\ Cur' =< lost')
    BY <1>1, <1>5, FetchStep, DispatchStep
  <2>2. UNCHANGED <<hdr_carry, partial, left, out>>
    BY <1>5 DEF Fetch, Dispatch, parked
  <2>3. CASE lost' = lost /\ Cur' = Cur
    BY <1>1, <1>2, <2>1, <2>2, <2>3, Quiet DEF RxInv
  <2>4. CASE lost' > 0 /\ Cur' =< lost'
    <3>1. Synced'
      BY <2>1, <2>4, LostAllNext
    <3>2. lost' # 0
      BY <2>1, <2>4 DEF TypeOK
    <3>3. Clean'
      BY <3>2 DEF Clean
    <3> QED BY <1>2, <2>1, <3>1, <3>3 DEF RxInv
  <2> QED BY <2>1, <2>3, <2>4
<1> QED BY <1>3, <1>4, <1>5 DEF Next, Recv, Walk

LEMMA RxAlways == Spec => []RxInv
BY RxInit, RxStep, PTL DEF Spec

\* What is parked never exceeds a header or a frame, and no counter leaves its
\* range, for any stream, any split into runs and any failure.
THEOREM ReceiveTypes == Spec => []TypeOK
<1>1. RxInv => TypeOK
  BY DEF RxInv
<1> QED BY <1>1, RxAlways, PTL

LEMMA ConservedHolds == RxInv => StreamConserved
<1> SUFFICES ASSUME RxInv, lost = 0
             PROVE  /\ Flat(out) \o partial \o hdr_carry \o buf \o Payloads(read) \o Payloads(fifo)
                         = SubSeq(Stream, 1, pos)
                    /\ \A i \in 1..Len(out) : i <= Len(Size) /\ out[i] = Frame(i)
  BY DEF StreamConserved
<1>1. TypeOK /\ Parking /\ Windows /\ Clean
  BY DEF RxInv
<1> DEFINE k == Len(out)
           c == Cut(k + 1)
           lp == Len(partial)
           lh == Len(hdr_carry)
           lb == Len(buf)
           lr == Len(Payloads(read))
           lf == Len(Payloads(fifo))
           W(n) == SubSeq(Stream, 1, n)
<1>2. /\ k =< Len(Size) /\ \A i \in 1..k : out[i] = Frame(i)
      /\ Flat(out) = W(c) /\ AtFrame(k + 1)
  BY <1>1 DEF Clean
<1>3. /\ Parked = c /\ Real(partial, c, 0) /\ Real(hdr_carry, c, 0)
  BY <1>2 DEF AtFrame
<1>4. /\ Len(Stream) \in Nat /\ pos \in Nat /\ pos =< Len(Stream)
      /\ Payloads(read) \in Seq(Symbols) /\ Payloads(fifo) \in Seq(Symbols)
      /\ partial \in Seq(Symbols) /\ hdr_carry \in Seq(Symbols) /\ buf \in Seq(Symbols)
      /\ lp \in Nat /\ lh \in Nat /\ lb \in Nat /\ lr \in Nat /\ lf \in Nat
      /\ Cur = c + lp + lh /\ Handed(read) = c + lp + lh + lb
      /\ pos = c + lp + lh + lb + lr + lf /\ c \in Nat
  <2>1. /\ Len(Stream) \in Nat /\ pos \in Nat /\ pos =< Len(Stream)
        /\ Payloads(read) \in Seq(Symbols) /\ Payloads(fifo) \in Seq(Symbols)
        /\ lp \in Nat /\ lh \in Nat /\ lb \in Nat /\ lr \in Nat /\ lf \in Nat
        /\ Parked \in Int /\ Parked + lp + lh = Cur /\ Cur + lb = Handed(read)
        /\ Handed(read) = pos - lr - lf /\ Handed(read) \in Nat /\ Cur \in Nat
    BY <1>1, Positions
  <2>2. partial \in Seq(Symbols) /\ hdr_carry \in Seq(Symbols) /\ buf \in Seq(Symbols)
    BY <1>1 DEF TypeOK
  <2>3. c \in Nat
    <3>1. k + 1 \in 1..Len(Size) + 1
      BY <1>1, <1>2, FramesTypes DEF TypeOK
    <3> QED BY <3>1, CutFacts
  <2> HIDE DEF k, c, lp, lh, lb, lr, lf
  <2>4. Cur = c + lp + lh /\ Handed(read) = c + lp + lh + lb
    BY <1>3, <2>1, <2>3
  <2>5. pos = c + lp + lh + lb + lr + lf
    BY <2>1, <2>3, <2>4
  <2> QED BY <2>1, <2>2, <2>3, <2>4, <2>5
\* One more window, right after those before it
<1>5. ASSUME NEW s \in Seq(Symbols), NEW n \in Nat, n + Len(s) =< Len(Stream), Real(s, n, 0)
      PROVE  W(n) \o s = W(n + Len(s))
  <2>1. s = SubSeq(Stream, n + 1, n + Len(s))
    BY <1>5, RealWindow
  <2>2. n + Len(s) \in Nat /\ n =< n + Len(s)
    <3>1. Len(s) \in Nat
      BY <1>5
    <3> QED BY <3>1
  <2>3. SubSeq(Stream, 1, n) \o SubSeq(Stream, n + 1, n + Len(s)) = SubSeq(Stream, 1, n + Len(s))
    BY <1>5, <2>2, WindowsJoin
  <2> QED BY <2>1, <2>3
<1> HIDE DEF k, c, lp, lh, lb, lr, lf, W
<1>6. c + lp =< Len(Stream) /\ c + lp + lh =< Len(Stream) /\ c + lp + lh + lb =< Len(Stream)
      /\ c + lp + lh + lb + lr =< Len(Stream)
  BY <1>4
<1>7. W(c) \o partial = W(c + lp)
  BY <1>3, <1>4, <1>5, <1>6 DEF lp
<1>8. W(c + lp) \o hdr_carry = W(c + lp + lh)
  <2>1. Real(hdr_carry, c + lp, 0)
    <3>1. CASE hdr_carry = <<>>
      BY <3>1 DEF Real
    <3>2. CASE partial = <<>>
      <4>1. c + lp = c
        BY <1>4, <3>2 DEF lp
      <4> QED BY <1>3, <4>1
    <3> QED BY <1>1, <3>1, <3>2 DEF Parking, OneParked
  <2>2. c + lp \in Nat
    BY <1>4
  <2> QED BY <1>4, <1>5, <1>6, <2>1, <2>2 DEF lh
<1>9. W(c + lp + lh) \o buf = W(c + lp + lh + lb)
  <2>1. Real(buf, c + lp + lh, 0)
    BY <1>1, <1>4 DEF Windows
  <2>2. c + lp + lh \in Nat
    BY <1>4
  <2> QED BY <1>4, <1>5, <1>6, <2>1, <2>2 DEF lb
<1>10. W(c + lp + lh + lb) \o Payloads(read) = W(c + lp + lh + lb + lr)
  <2>1. Real(Payloads(read), c + lp + lh + lb, 0)
    BY <1>1, <1>4 DEF Windows
  <2>2. c + lp + lh + lb \in Nat
    BY <1>4
  <2> QED BY <1>4, <1>5, <1>6, <2>1, <2>2 DEF lr
<1>11. W(c + lp + lh + lb + lr) \o Payloads(fifo) = W(pos)
  <2>1. c + lp + lh + lb + lr \in Nat /\ pos - lf = c + lp + lh + lb + lr
    BY <1>4
  <2>2. Real(Payloads(fifo), c + lp + lh + lb + lr, 0)
    <3>1. Real(Payloads(fifo), pos - lf, 0)
      BY <1>1 DEF Windows, lf
    <3> QED BY <2>1, <3>1
  <2> QED BY <1>4, <1>5, <2>1, <2>2 DEF lf
<1>12. \A i \in 1..Len(out) : i =< Len(Size) /\ out[i] = Frame(i)
  <2>1. Len(out) \in Nat
    BY <1>1 DEF TypeOK
  <2>2. k = Len(out)
    BY DEF k
  <2> QED BY <1>2, <2>1, <2>2, FramesTypes
<1>13. W(pos) = SubSeq(Stream, 1, pos)
  BY DEF W
<1> QED BY <1>2, <1>7, <1>8, <1>9, <1>10, <1>11, <1>12, <1>13

\* As long as no byte is lost, the frames handed up, what is parked and what
\* is still to be looked at are the stream, cut exactly at its frames, however
\* the chip cuts it into runs and whichever payload mimics a header.
THEOREM StreamIsConserved == Spec => []StreamConserved
BY RxAlways, ConservedHolds, PTL

\* A frame starts in one place only.
LEMMA StartIsCut ==
  ASSUME NEW f \in 1..Len(Size)
  PROVE  Start(f) = Cut(f) + 1
<1>1. 1 \in 1..Size[f] /\ Cut(f) \in Nat /\ f \in Nat
  <2>1. Hdr \in Nat /\ Size[f] \in Nat /\ Size[f] > Hdr /\ Len(Size) \in Nat
    BY FramesTypes
  <2> QED BY <2>1, FrameWindow
<1>2. Cut(f) + 1 \in 1..Len(Stream) /\ Stream[Cut(f) + 1] = <<f, 1>>
  BY <1>1, StreamBytes
<1>3. ASSUME NEW p \in 1..Len(Stream), Stream[p] = <<f, 1>>
      PROVE  p = Cut(f) + 1
  <2>1. PICK g \in 1..Len(Size) : \E i \in 1..Size[g] : p = Cut(g) + i
    BY StreamBytes
  <2>2. PICK i \in 1..Size[g] : p = Cut(g) + i
    BY <2>1
  <2>3. Stream[p] = <<g, i>>
    BY <2>2, StreamBytes
  <2>4. g = f /\ i = 1
    BY <1>3, <2>3
  <2> QED BY <2>2, <2>4
<1> QED BY <1>2, <1>3 DEF Start

LEMMA ResyncHolds == RxInv => Resynchronises
<1> SUFFICES ASSUME RxInv, pc = "dispatch", NEW f \in 1..Len(Size),
                    Start(f) > lost + MaxSize,
                    Start(f) + Size[f] - 1 =< Handed(read), NoMimic
             PROVE  \E i \in 1..Len(out) : out[i] = Frame(f)
  BY DEF Resynchronises, NoMimic
<1>1. TypeOK /\ Parking /\ Phases /\ Windows /\ Synced
  BY DEF RxInv
<1>2. /\ Len(Size) \in Nat /\ Hdr \in Nat /\ Hdr >= 2 /\ MaxSize \in Nat
      /\ Size[f] \in Nat /\ Size[f] > Hdr /\ Size[f] =< MaxSize
      /\ Cut(f) \in Nat /\ Cut(f + 1) = Cut(f) + Size[f] /\ f \in 1..Len(Size) + 1
  <2>1. Len(Size) \in Nat /\ f \in 1..Len(Size) + 1
    BY FramesTypes
  <2> QED BY <2>1, HeaderAssumption, FramesTypes, CutFacts
<1>3. /\ lost \in Nat /\ left \in Nat /\ Handed(read) \in Nat /\ Cur \in Nat
      /\ Cur + Len(buf) = Handed(read) /\ Take \in Nat /\ Take > 0
      /\ Len(partial) \in Nat /\ Len(hdr_carry) \in Nat /\ Parked \in Int
      /\ Parked + Len(partial) + Len(hdr_carry) = Cur /\ Take + Len(hdr_carry) = Hdr
  BY <1>1, Positions
<1>4. Cur = Handed(read)
  <2>1. Len(buf) = 0
    BY <1>1 DEF Phases
  <2> QED BY <1>3, <2>1
<1>5. lost + MaxSize =< Cut(f) /\ Cut(f) + Size[f] =< Cur /\ Cut(f) < Cur
  <2>1. Start(f) = Cut(f) + 1
    BY StartIsCut
  <2>2. Cut(f) + 1 > lost + MaxSize /\ (Cut(f) + 1) + Size[f] - 1 =< Cur
    BY <1>4, <2>1
  <2>3. /\ Cut(f) \in Nat /\ Size[f] \in Nat /\ Size[f] > 0 /\ lost \in Nat /\ MaxSize \in Nat
        /\ Cur \in Nat
    BY <1>2, <1>3
  <2> QED BY ONLY <2>2, <2>3
<1>6. CASE Looking
  BY <1>5, <1>6 DEF Looking, Done
<1>7. CASE Misread
  BY <1>2, <1>3, <1>5, <1>7 DEF Misread
<1>8. CASE Misled
  BY <1>2, <1>3, <1>5, <1>8 DEF Misled
<1>9. CASE InStep
  <2>1. PICK g \in 1..Len(Size) : AtFrame(g)
    BY <1>9 DEF InStep
  <2>2. /\ Size[g] \in Nat /\ Size[g] > Hdr /\ Cut(g) \in Nat /\ Parked = Cut(g)
        /\ g \in 1..Len(Size) + 1
    <3>1. g \in 1..Len(Size) + 1
      BY <1>2
    <3> QED BY <2>1, <3>1, FramesTypes, CutFacts DEF AtFrame
  <2>3. Cur < Cut(g) + Size[g]
    <3>1. CASE partial # <<>>
      <4>1. Len(partial) + left = Size[g] /\ left > 0
        BY <2>1, <3>1 DEF AtFrame
      <4>2. Len(hdr_carry) = 0
        BY <1>1, <3>1 DEF Parking, OneParked
      <4> QED BY <1>3, <2>2, <4>1, <4>2
    <3>2. CASE partial = <<>>
      <4>1. Len(partial) = 0 /\ Len(hdr_carry) < Hdr
        BY <1>1, <3>2 DEF TypeOK
      <4>2. Cur = Cut(g) + 0 + Len(hdr_carry)
        BY <1>3, <2>2, <4>1
      <4>3. Cut(g) \in Nat /\ Len(hdr_carry) \in Nat /\ Size[g] \in Nat /\ Hdr \in Nat
            /\ Size[g] > Hdr
        BY <1>2, <1>3, <2>2
      <4> QED BY ONLY <4>1, <4>2, <4>3
    <3> QED BY <3>1, <3>2
  <2>4. f < g
    <3>1. CASE g = f
      <4>1. Cut(f) + Size[f] \in Nat /\ Cur \in Nat /\ Cur < Cut(f) + Size[f]
        BY <1>2, <1>3, <2>3, <3>1
      <4> QED BY ONLY <1>5, <4>1
    <3>2. CASE g < f
      <4>1. Cut(g) + Size[g] =< Cut(f)
        BY <1>2, <2>2, <3>2, CutsAscend
      <4>2. Cut(g) + Size[g] \in Nat
        BY ONLY <2>2
      <4>3. Cut(f) \in Nat /\ Size[f] \in Nat /\ Cur \in Nat
        BY <1>2, <1>3
      <4> QED BY ONLY <1>5, <2>3, <4>1, <4>2, <4>3
    <3> QED BY <1>2, <3>1, <3>2
  <2>5. Cut(f) < Parked
    <3>1. Cut(f) + Size[f] =< Cut(g)
      BY <1>2, <2>2, <2>4, CutsAscend
    <3> QED BY <1>2, <2>2, <3>1
  <2> QED BY <1>5, <1>9, <2>5 DEF InStep, Done
<1> QED BY <1>1, <1>6, <1>7, <1>8, <1>9 DEF Synced

\* A frame that starts MaxSize bytes behind the last loss is delivered whole,
\* whatever was parked when the bytes were lost, for any frames, header length
\* and split into runs.
THEOREM FramesResume == Spec => []Resynchronises
BY RxAlways, ResyncHolds, PTL

-----------------------------------------------------------------------------
(* The mailbox.                                                            *)

MailboxTypes ==
    /\ sent \in Nat /\ mailbox_msg \in Nat /\ latch \subseteq {"msg", "valid"}
    /\ at \in [Getter -> {"out", "loading", "clearing"}]
    /\ accesses \in [Getter -> SUBSET {"msg", "valid"}]
    /\ msg \in [Getter -> Nat] /\ returned \in Seq(Nat)

\* Message n, if it is one, is newer than all that were returned.
Fresh(n) == n # 0 => \A i \in 1..Len(returned) : returned[i] < n

\* A message number is stored once, when it is newer than whatever a getter has.
Latched ==
    /\ mailbox_msg =< sent /\ Fresh(mailbox_msg)
    /\ \A g \in Getter : msg[g] =< sent
    /\ \A i \in 1..Len(returned) : returned[i] =< sent
    /\ "msg" \in latch =>
         /\ mailbox_msg < sent
         /\ \A g \in Getter : msg[g] < sent
         /\ \A i \in 1..Len(returned) : returned[i] < sent

\* What a getter has loaded is still in the variable, or a newer one is, until
\* it stores the cleared byte; after that only a newer one can be.
Loaded(g) ==
    /\ at[g] = "loading" /\ "msg" \notin accesses[g] =>
         Fresh(msg[g]) /\ (msg[g] = 0 \/ msg[g] =< mailbox_msg)
    /\ at[g] = "clearing" =>
         /\ Fresh(msg[g])
         /\ IF "msg" \in accesses[g] THEN msg[g] = 0 \/ msg[g] =< mailbox_msg
                                    ELSE mailbox_msg = 0 \/ msg[g] < mailbox_msg

MailboxInv == MailboxTypes /\ Latched /\ (\A g \in Getter : Loaded(g)) /\ ReturnedOnce

LEMMA LatchKeeps == ASSUME MailboxInv, MboxIrq PROVE MailboxInv'
<1> USE DEF MailboxInv, mailbox
<1>1. CASE LatchRead
  <2>1. MailboxTypes' /\ Latched'
    BY <1>1 DEF LatchRead, MailboxTypes, Latched, Fresh
  <2>2. (\A g \in Getter : Loaded(g)') /\ ReturnedOnce'
    BY <1>1 DEF LatchRead, Loaded, Fresh, ReturnedOnce
  <2> QED BY <2>1, <2>2
<1>2. CASE LatchMsg
  <2>1. /\ "msg" \in latch /\ mailbox_msg' = sent /\ latch' = latch \ {"msg"}
        /\ UNCHANGED <<sent, mailbox_valid, at, accesses, valid, msg, returned>>
    BY <1>2 DEF LatchMsg
  <2>2. MailboxTypes'
    BY <2>1 DEF MailboxTypes
  <2>3. Latched'
    BY <2>1 DEF MailboxTypes, Latched, Fresh
  <2>4. ASSUME NEW g \in Getter PROVE Loaded(g)'
    <3>1. msg[g] < sent /\ msg[g] \in Nat /\ sent \in Nat
      BY <2>1 DEF MailboxTypes, Latched
    <3> QED BY <2>1, <3>1 DEF Loaded, Fresh
  <2>5. ReturnedOnce'
    BY <2>1 DEF ReturnedOnce
  <2> QED BY <2>2, <2>3, <2>4, <2>5
<1>3. CASE LatchValid
  BY <1>3 DEF LatchValid, MailboxTypes, Latched, Fresh, Loaded, ReturnedOnce
<1> QED BY <1>1, <1>2, <1>3 DEF MboxIrq

LEMMA GetKeeps == ASSUME OneGetter, MailboxInv, NEW g \in Getter, Get(g) PROVE MailboxInv'
<1> USE DEF MailboxInv, mailbox
<1>1. \A h \in Getter : h = g
  BY DEF OneGetter
<1>2. CASE GetEnter(g)
  <2>1. /\ at' = [at EXCEPT ![g] = "loading"] /\ accesses' = [accesses EXCEPT ![g] = {"msg", "valid"}]
        /\ UNCHANGED <<sent, latch, mailbox_msg, mailbox_valid, valid, msg, returned>>
    BY <1>2 DEF GetEnter, Goto
  <2>2. MailboxTypes'
    BY <2>1 DEF MailboxTypes
  <2>3. Latched' /\ ReturnedOnce'
    BY <2>1 DEF Latched, Fresh, ReturnedOnce
  <2>4. at'[g] = "loading" /\ "msg" \in accesses'[g]
    BY <2>1 DEF MailboxTypes
  <2>5. \A h \in Getter : Loaded(h)'
    BY <1>1, <2>4 DEF Loaded
  <2> QED BY <2>2, <2>3, <2>5
<1>3. CASE LoadValid(g) \/ ClearValid(g)
  <2>1. /\ accesses' = [accesses EXCEPT ![g] = accesses[g] \ {"valid"}]
        /\ UNCHANGED <<sent, latch, mailbox_msg, at, msg, returned>>
    BY <1>3 DEF LoadValid, ClearValid, Access
  <2>2. MailboxTypes'
    BY <2>1 DEF MailboxTypes
  <2>3. Latched' /\ ReturnedOnce'
    BY <2>1 DEF Latched, Fresh, ReturnedOnce
  <2>4. "msg" \in accesses'[g] <=> "msg" \in accesses[g]
    BY <2>1 DEF MailboxTypes
  <2>5. \A h \in Getter : Loaded(h)'
    BY <1>1, <2>1, <2>4 DEF Loaded, Fresh
  <2> QED BY <2>2, <2>3, <2>5
<1>4. CASE LoadMsg(g)
  <2>1. /\ at[g] = "loading" /\ accesses' = [accesses EXCEPT ![g] = accesses[g] \ {"msg"}]
        /\ msg' = [msg EXCEPT ![g] = mailbox_msg]
        /\ UNCHANGED <<sent, latch, mailbox_msg, at, returned>>
    BY <1>4 DEF LoadMsg, Access
  <2>2. MailboxTypes' /\ msg'[g] = mailbox_msg
    BY <2>1 DEF MailboxTypes
  <2>3. Latched' /\ ReturnedOnce'
    BY <1>1, <2>1, <2>2 DEF Latched, Fresh, ReturnedOnce
  <2>4. Loaded(g)'
    BY <2>1, <2>2 DEF Loaded, Latched, Fresh, MailboxTypes
  <2> QED BY <1>1, <2>2, <2>3, <2>4
<1>5. CASE GetDecide(g)
  <2>1. /\ at[g] = "loading" /\ accesses[g] = {}
        /\ UNCHANGED <<sent, latch, mailbox_msg, mailbox_valid, valid, msg, returned>>
        /\ \/ /\ at' = [at EXCEPT ![g] = "clearing"]
              /\ accesses' = [accesses EXCEPT ![g] = {"msg", "valid"}]
           \/ at' = [at EXCEPT ![g] = "out"] /\ accesses' = [accesses EXCEPT ![g] = {}]
    BY <1>5 DEF GetDecide, Goto
  <2>2. MailboxTypes'
    BY <2>1 DEF MailboxTypes
  <2>3. Latched' /\ ReturnedOnce'
    BY <2>1 DEF Latched, Fresh, ReturnedOnce
  <2>4. (at'[g] = "clearing" /\ "msg" \in accesses'[g]) \/ at'[g] = "out"
    BY <2>1 DEF MailboxTypes
  <2>5. Fresh(msg[g]) /\ (msg[g] = 0 \/ msg[g] =< mailbox_msg)
    BY <2>1 DEF Loaded
  <2>6. \A h \in Getter : Loaded(h)'
    BY <1>1, <2>1, <2>4, <2>5 DEF Loaded, Fresh
  <2> QED BY <2>2, <2>3, <2>6
<1>6. CASE ClearMsg(g)
  <2>1. /\ at[g] = "clearing" /\ "msg" \in accesses[g] /\ mailbox_msg' = 0
        /\ accesses' = [accesses EXCEPT ![g] = accesses[g] \ {"msg"}]
        /\ UNCHANGED <<sent, latch, at, msg, returned>>
    BY <1>6 DEF ClearMsg, Access
  <2>2. MailboxTypes'
    BY <2>1 DEF MailboxTypes
  <2>3. Latched'
    BY <2>1 DEF MailboxTypes, Latched, Fresh
  <2>4. ReturnedOnce' /\ "msg" \notin accesses'[g]
    BY <2>1 DEF ReturnedOnce, MailboxTypes
  <2>5. \A h \in Getter : Loaded(h)'
    BY <1>1, <2>1, <2>4 DEF Loaded, Fresh
  <2> QED BY <2>2, <2>3, <2>4, <2>5
<1>7. CASE GetReturn(g)
  <2>1. /\ at[g] = "clearing" /\ accesses[g] = {}
        /\ at' = [at EXCEPT ![g] = "out"] /\ accesses' = [accesses EXCEPT ![g] = {}]
        /\ UNCHANGED <<sent, latch, mailbox_msg, mailbox_valid, valid, msg>>
        /\ returned' = Append(returned, msg[g]) \/ returned' = returned
    BY <1>7 DEF GetReturn, Goto
  <2>2. Fresh(msg[g]) /\ (mailbox_msg = 0 \/ msg[g] < mailbox_msg)
    BY <2>1 DEF Loaded
  <2>3. /\ returned \in Seq(Nat) /\ msg[g] \in Nat /\ sent \in Nat /\ mailbox_msg \in Nat
    BY DEF MailboxTypes
  <2>4. MailboxTypes'
    <3>1. returned' \in Seq(Nat)
      BY <2>1, <2>3
    <3>2. /\ at' \in [Getter -> {"out", "loading", "clearing"}]
          /\ accesses' \in [Getter -> SUBSET {"msg", "valid"}]
      BY <2>1 DEF MailboxTypes
    <3> QED BY <2>1, <3>1, <3>2 DEF MailboxTypes
  <2>5. at'[g] = "out"
    BY <2>1 DEF MailboxTypes
  <2>6. \A h \in Getter : Loaded(h)'
    BY <1>1, <2>5 DEF Loaded
  <2>7. CASE returned' = returned
    <3>1. Latched' /\ ReturnedOnce'
      BY <2>1, <2>7 DEF Latched, Fresh, ReturnedOnce
    <3> QED BY <2>4, <2>6, <3>1
  <2>8. CASE returned' = Append(returned, msg[g])
    <3>1. /\ Len(returned') = Len(returned) + 1 /\ Len(returned) \in Nat
          /\ \A i \in 1..Len(returned) : returned'[i] = returned[i]
          /\ returned'[Len(returned) + 1] = msg[g]
          /\ \A i \in 1..Len(returned) : returned[i] \in Nat
      BY <2>3, <2>8
    <3>2. \A i \in 1..Len(returned') : i \in 1..Len(returned) \/ returned'[i] = msg[g]
      BY <3>1
    <3>3. Latched'
      BY <2>1, <2>2, <2>3, <3>1, <3>2 DEF Latched, Fresh
    <3>4. \A i \in 1..Len(returned) : returned[i] # 0 /\ msg[g] # 0 => returned[i] < msg[g]
      BY <2>2, <2>3, <3>1 DEF Fresh
    <3>5. ReturnedOnce'
      <4> SUFFICES ASSUME NEW i \in 1..Len(returned'), NEW j \in 1..Len(returned'),
                          i < j, returned'[i] # 0, returned'[j] # 0
                   PROVE  returned'[i] < returned'[j]
        BY DEF ReturnedOnce
      <4>1. i \in 1..Len(returned) /\ returned'[i] = returned[i]
        BY <3>1
      <4>2. CASE j \in 1..Len(returned)
        BY <3>1, <4>1, <4>2 DEF ReturnedOnce
      <4>3. CASE j = Len(returned) + 1
        BY <3>1, <3>4, <4>1, <4>3
      <4> QED BY <3>1, <4>2, <4>3
    <3> QED BY <2>4, <2>6, <3>3, <3>5
  <2> QED BY <2>1, <2>7, <2>8
<1> QED BY <1>2, <1>3, <1>4, <1>5, <1>6, <1>7 DEF Get

\* MSG_GET returns no message twice, nor one after a newer, in whatever order
\* the interrupt handler and the one getter make their accesses to the two
\* plain variables (artosyn_sdio_irqhandler against ARSDIO_IOC_MSG_GET).
THEOREM MessagesAreReturnedOnce ==
    ASSUME OneGetter PROVE MboxSpec => []ReturnedOnce
<1>1. MboxInit => MailboxInv
  <2> SUFFICES ASSUME MboxInit PROVE MailboxInv
    OBVIOUS
  <2>1. MailboxTypes /\ returned = <<>> /\ Len(returned) = 0
    BY DEF MboxInit, MailboxTypes
  <2> QED BY <2>1 DEF MboxInit, MailboxInv, Latched, Loaded, Fresh, ReturnedOnce
<1>2. MailboxInv /\ [MboxNext]_mboxVars => MailboxInv'
  <2> SUFFICES ASSUME MailboxInv, [MboxNext]_mboxVars PROVE MailboxInv'
    OBVIOUS
  <2>1. CASE MboxNext
    BY <2>1, LatchKeeps, GetKeeps DEF MboxNext
  <2>2. CASE UNCHANGED mboxVars
    BY <2>2 DEF mboxVars, MailboxInv, MailboxTypes, Latched, Loaded, Fresh, ReturnedOnce
  <2> QED BY <2>1, <2>2
<1>3. MailboxInv => ReturnedOnce
  BY DEF MailboxInv
<1> QED BY <1>1, <1>2, <1>3, PTL DEF MboxSpec
=============================================================================
