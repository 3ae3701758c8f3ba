-------------------------------- MODULE SdioRx --------------------------------
(***************************************************************************)
(* The receive side of the IP tunnel: artosyn_sdio_recv fetches what the   *)
(* chip has queued, recovers the runs in it from their trailers, and       *)
(* artosyn_rx_ip_stream cuts the payload of the IP runs into frames.       *)
(* Frames follow each other without a gap and runs end anywhere in them,   *)
(* so a frame, or its header, may be parked from one run to the next.      *)
(*                                                                         *)
(* Bytes are symbols: <<f, i>> is the i-th of frame f.  The first one is   *)
(* the 0x45 marker and the second one carries the length; Hdr of them make *)
(* the compressed header.  A frame is known by its symbols, so what comes  *)
(* out can be compared with what went in.                                  *)
(***************************************************************************)
EXTENDS Integers, Sequences, SequencesExt

CONSTANTS
    Size,          \* the wire length of each frame the chip sends, in order
    Hdr,           \* IP_COMPRESSED_HDR
    MaxSize,       \* the longest frame artosyn_ip_hdr_plausible accepts
    Mimic,         \* payload symbols equal to the marker byte
    Claim,         \* payload symbols that read as the length MaxSize
    Chunk,         \* how many bytes of the stream a run may hold
    Block,         \* ARSDIO_BLOCK
    MaxRuns,       \* ARSDIO_MAX_RUNS
    Backlog,       \* runs the chip queues before the host reads: a bound for TLC
    Strangers,     \* types of the other runs: "cmd" is known, "other" is not
    RecvFails,     \* whether CMD53 reads and skb allocations may fail
    IfDown         \* whether sdio0 is taken down and up again

ASSUME HeaderAssumption == Hdr \in Nat /\ Hdr >= 2
ASSUME SizeAssumption ==
    /\ MaxSize \in Nat /\ Size \in Seq(Nat)
    /\ \A f \in 1..Len(Size) : Size[f] \in Hdr + 1..MaxSize
ASSUME BlockAssumption ==
    /\ Block \in Nat /\ Block >= 2 /\ MaxRuns \in Nat \ {0} /\ Backlog \in Nat
    /\ Chunk \subseteq Nat \ {0}
ASSUME ClaimAssumption == \A s \in Claim : s[2] # 2
ASSUME SwitchAssumption ==
    Strangers \subseteq {"cmd", "other"} /\ RecvFails \in BOOLEAN /\ IfDown \in BOOLEAN

VARIABLES
    pos,           \* bytes of the stream the chip has queued
    fifo,          \* runs the host has not fetched
    up,            \* net_dev_opened
    pc,            \* the next step of the handler; "free" outside it
    read,          \* runs fetched and not yet dispatched
    buf,           \* the payload from off to len
    hdr_carry,
    partial,       \* partial_skb: <<>> is NULL
    left,          \* partial_skb_left
    out,           \* frames handed to netif_rx
    lost           \* bytes of the stream up to the end of the last one lost

chip   == <<pos, fifo>>
parked == <<hdr_carry, partial, left>>
vars   == <<pos, fifo, up, pc, read, buf, hdr_carry, partial, left, out, lost>>

Frame(f)  == [i \in 1..Size[f] |-> <<f, i>>]

\* The sequences of ss, one after the other
Joined(ss) == LET upto[n \in 0..Len(ss)] == IF n = 0 THEN <<>> ELSE upto[n - 1] \o ss[n] IN upto
Flat(ss)   == Joined(ss)[Len(ss)]

Stream    == Flat([f \in 1..Len(Size) |-> Frame(f)])

\* Bytes that belong to no frame: the padding of a block, its trailer and the
\* payload of other runs.
Foreign == <<0, 0>>
Symbols == {Foreign} \cup {Stream[i] : i \in 1..Len(Stream)}

Types == {"ip", "cmd", "other"}
Runs  == [type : Types, pay : Seq(Symbols)]

TypeOK ==
    /\ pos \in 0..Len(Stream) /\ fifo \in Seq(Runs) /\ Len(fifo) <= Backlog
    /\ up \in BOOLEAN
    /\ pc \in {"free", "dispatch", "carry", "body", "scan"}
    /\ read \in Seq(Runs) /\ buf \in Seq(Symbols)
    /\ hdr_carry \in Seq(Symbols) /\ Len(hdr_carry) < Hdr
    /\ partial \in Seq(Symbols) /\ left \in 0..MaxSize
    /\ out \in Seq(Seq(Symbols)) /\ lost \in 0..Len(Stream)

Init ==
    /\ pos = 0 /\ fifo = <<>> /\ up = TRUE
    /\ pc = "free" /\ read = <<>> /\ buf = <<>>
    /\ hdr_carry = <<>> /\ partial = <<>> /\ left = 0
    /\ out = <<>> /\ lost = 0

-----------------------------------------------------------------------------
(* The chip and the interface                                              *)

Queue(type, pay) == fifo' = Append(fifo, [type |-> type, pay |-> pay])

\* Nothing but Fetch looks at what the chip has queued, so a run that is
\* queued while the handler is at work is one queued before the next Fetch.
ChipSend ==
    /\ pc = "free" /\ Len(fifo) < Backlog
    /\ \/ \E n \in Chunk : /\ pos + n <= Len(Stream)
                           /\ Queue("ip", SubSeq(Stream, pos + 1, pos + n))
                           /\ pos' = pos + n
       \/ \E t \in Strangers : Queue(t, <<Foreign>>) /\ pos' = pos
    /\ UNCHANGED <<up, pc, read, buf, parked, out, lost>>

\* ifup and ifdown set the flag and touch neither a parked frame nor a header;
\* only Dispatch looks at it.
SetUp ==
    /\ pc = "dispatch"
    /\ IfDown /\ up' = ~up
    /\ UNCHANGED <<chip, pc, read, buf, parked, out, lost>>

-----------------------------------------------------------------------------
(* artosyn_sdio_recv                                                       *)

\* A run takes up whole blocks, with the trailer at the end of the last one.
Raw(run) == run.pay \o [i \in 1..Block - (Len(run.pay) % Block) |-> Foreign]

\* The walk back over the trailers finds each run from the end of the next,
\* unless it meets an unknown type or has no room for more of them.  Then the
\* whole read is taken for one run, described by the last trailer.
Recovered(runs) ==
    IF Len(runs) <= MaxRuns /\ \A i \in 1..Len(runs) : runs[i].type # "other"
      THEN runs
      ELSE << [type |-> Last(runs).type,
               pay  |-> SubSeq(Flat([i \in 1..Len(runs) |-> Raw(runs[i])]),
                               1, Len(Last(runs).pay))] >>

\* Mutant: the runs are dispatched in the order the walk finds them.
FetchBackwards ==
    /\ pc = "free" /\ fifo # <<>>
    /\ pc' = "dispatch"
    /\ read' = Reverse(fifo)
    /\ fifo' = <<>>
    /\ UNCHANGED <<pos, up, buf, parked, out, lost>>

\* All the FIFO holds is read at once, or gone with a failed CMD53.
Fetch ==
    /\ pc = "free" /\ fifo # <<>>
    /\ pc' = "dispatch"
    /\ \/ /\ read' = Recovered(fifo)
          /\ lost' = IF read' = fifo THEN lost ELSE pos
       \/ RecvFails /\ read' = <<>> /\ lost' = pos
    /\ fifo' = <<>>
    /\ UNCHANGED <<pos, up, buf, parked, out>>

\* The stream that is still to be handed to artosyn_rx_ip_stream, and the
\* number of bytes of the stream that have been.
Payloads(runs) == Flat([i \in 1..Len(runs) |-> IF runs[i].type = "ip" THEN runs[i].pay ELSE <<>>])
Handed(runs)   == pos - Len(Payloads(runs)) - Len(Payloads(fifo))

\* An IP run while sdio0 is down is dropped; other types are not for the stream.
Dispatch ==
    /\ pc = "dispatch" /\ read # <<>>
    /\ read' = Tail(read)
    /\ IF Head(read).type = "ip" /\ up
         THEN buf' = Head(read).pay /\ pc' = "carry" /\ lost' = lost
         ELSE /\ lost' = IF Head(read).type = "ip" THEN Handed(Tail(read)) ELSE lost
              /\ UNCHANGED <<buf, pc>>
    /\ UNCHANGED <<chip, up, parked, out>>

RecvDone ==
    /\ pc = "dispatch" /\ read = <<>>
    /\ pc' = "free"
    /\ UNCHANGED <<chip, up, read, buf, parked, out, lost>>

-----------------------------------------------------------------------------
(* artosyn_rx_ip_stream                                                    *)

Marker(s) == s[2] = 1 \/ s \in Mimic
Length(s) == CASE s[2] = 2   -> Size[s[1]]
               [] s \in Claim -> MaxSize
               [] OTHER       -> 0

\* artosyn_ip_hdr_plausible
Plausible(h) == Marker(h[1]) /\ Length(h[2]) > Hdr

Park(h, p, n) == hdr_carry' = h /\ partial' = p /\ left' = n
Consume(n, next) == buf' = SubSeq(buf, n + 1, Len(buf)) /\ pc' = next

\* netdev_alloc_skb fails and the run is not finished.
NoMem == RecvFails /\ lost' = Handed(read)

\* The header as it is once the run has filled up what was parked of it.
Take   == Hdr - Len(hdr_carry)
Header == hdr_carry \o SubSeq(buf, 1, Take)

CarryNone ==
    /\ pc = "carry" /\ hdr_carry = <<>>
    /\ pc' = "body"
    /\ UNCHANGED <<chip, up, read, buf, parked, out, lost>>

CarryShort ==
    /\ pc = "carry" /\ hdr_carry # <<>> /\ Len(buf) < Take
    /\ Park(hdr_carry \o buf, partial, left)
    /\ Consume(Len(buf), "dispatch")
    /\ UNCHANGED <<chip, up, read, out, lost>>

\* Mutant: the parked header is not forgotten when its frame is started.
CarryFrameKeeps ==
    /\ pc = "carry" /\ hdr_carry # <<>> /\ Len(buf) >= Take
    /\ Plausible(Header)
    /\ Park(hdr_carry, Header, Length(Header[2]) - Hdr)
    /\ Consume(Take, "body")
    /\ UNCHANGED <<chip, up, read, out, lost>>

CarryFrame ==
    /\ pc = "carry" /\ hdr_carry # <<>> /\ Len(buf) >= Take
    /\ Plausible(Header)
    /\ Park(<<>>, Header, Length(Header[2]) - Hdr)
    /\ Consume(Take, "body")
    /\ UNCHANGED <<chip, up, read, out, lost>>

CarryNoMem ==
    /\ pc = "carry" /\ hdr_carry # <<>> /\ Len(buf) >= Take
    /\ Plausible(Header) /\ NoMem
    /\ Park(<<>>, partial, left)
    /\ Consume(Take, "body")
    /\ UNCHANGED <<chip, up, read, out>>

\* The whole header is skipped, the bytes just received included.
CarryJunk ==
    /\ pc = "carry" /\ hdr_carry # <<>> /\ Len(buf) >= Take
    /\ ~Plausible(Header)
    /\ Park(<<>>, partial, left)
    /\ Consume(Take, "body")
    /\ UNCHANGED <<chip, up, read, out, lost>>

BodyNone ==
    /\ pc = "body" /\ partial = <<>>
    /\ pc' = "scan"
    /\ UNCHANGED <<chip, up, read, buf, parked, out, lost>>

BodyMore ==
    /\ pc = "body" /\ partial # <<>> /\ Len(buf) < left
    /\ Park(hdr_carry, partial \o buf, left - Len(buf))
    /\ Consume(Len(buf), "dispatch")
    /\ UNCHANGED <<chip, up, read, out, lost>>

BodyDone ==
    /\ pc = "body" /\ partial # <<>> /\ Len(buf) >= left
    /\ out' = Append(out, partial \o SubSeq(buf, 1, left))
    /\ Park(hdr_carry, <<>>, 0)
    /\ Consume(left, "scan")
    /\ UNCHANGED <<chip, up, read, lost>>

ScanEnd ==
    /\ pc = "scan" /\ buf = <<>>
    /\ pc' = "dispatch"
    /\ UNCHANGED <<chip, up, read, buf, parked, out, lost>>

\* Resync: no marker here, or the byte only looks like one.
ScanSkip ==
    /\ pc = "scan" /\ buf # <<>>
    /\ Marker(buf[1]) => Len(buf) >= Hdr /\ ~Plausible(buf)
    /\ Consume(1, "scan")
    /\ UNCHANGED <<chip, up, read, parked, out, lost>>

ScanPark ==
    /\ pc = "scan" /\ buf # <<>> /\ Len(buf) < Hdr /\ Marker(buf[1])
    /\ Park(buf, partial, left)
    /\ Consume(Len(buf), "dispatch")
    /\ UNCHANGED <<chip, up, read, out, lost>>

ScanNoMem ==
    /\ pc = "scan" /\ Len(buf) >= Hdr /\ Plausible(buf) /\ NoMem
    /\ Consume(Len(buf), "dispatch")
    /\ UNCHANGED <<chip, up, read, parked, out>>

\* Mutant: one byte too many is still to come.
ScanPartialLong ==
    /\ pc = "scan" /\ Len(buf) >= Hdr /\ Plausible(buf) /\ Length(buf[2]) > Len(buf)
    /\ Park(hdr_carry, buf, Length(buf[2]) - Len(buf) + 1)
    /\ Consume(Len(buf), "dispatch")
    /\ UNCHANGED <<chip, up, read, out, lost>>

ScanPartial ==
    /\ pc = "scan" /\ Len(buf) >= Hdr /\ Plausible(buf) /\ Length(buf[2]) > Len(buf)
    /\ Park(hdr_carry, buf, Length(buf[2]) - Len(buf))
    /\ Consume(Len(buf), "dispatch")
    /\ UNCHANGED <<chip, up, read, out, lost>>

ScanFrame ==
    /\ pc = "scan" /\ Len(buf) >= Hdr /\ Plausible(buf) /\ Length(buf[2]) <= Len(buf)
    /\ out' = Append(out, SubSeq(buf, 1, Length(buf[2])))
    /\ Consume(Length(buf[2]), "scan")
    /\ UNCHANGED <<chip, up, read, parked, lost>>

-----------------------------------------------------------------------------

Recv  == Fetch \/ Dispatch \/ RecvDone
Carry == CarryNone \/ CarryShort \/ CarryFrame \/ CarryNoMem \/ CarryJunk
Body  == BodyNone \/ BodyMore \/ BodyDone
Scan  == ScanEnd \/ ScanSkip \/ ScanPark \/ ScanNoMem \/ ScanPartial \/ ScanFrame

Next == ChipSend \/ SetUp \/ Recv \/ Carry \/ Body \/ Scan

Spec == Init /\ [][Next]_vars

-----------------------------------------------------------------------------
(* Properties                                                              *)

\* As long as no byte is lost, the frames handed up, what is parked and what
\* is still to be looked at are the stream, cut exactly at its frames; bytes
\* that mimic a marker do not matter.
StreamConserved ==
    lost = 0 =>
        /\ Flat(out) \o partial \o hdr_carry \o buf \o Payloads(read) \o Payloads(fifo)
             = SubSeq(Stream, 1, pos)
        /\ \A i \in 1..Len(out) : i <= Len(Size) /\ out[i] = Frame(i)

\* A header and a frame are never parked at once: the skb of one would
\* overwrite that of the other.
OneParked == hdr_carry = <<>> \/ partial = <<>>

\* The first byte of frame f, counted from 1.
Start(f) == CHOOSE i \in 1..Len(Stream) : Stream[i] = <<f, 1>>

\* What a failed read, an allocation, an interface that was down or an
\* unreadable trailer costs is bounded: a frame that starts MaxSize bytes
\* after the last loss is delivered whole, whatever was parked before it,
\* unless some payload since then looks like a header.
Resynchronises ==
    pc = "dispatch" =>
        \A f \in 1..Len(Size) :
            /\ Start(f) > lost + MaxSize
            /\ Start(f) + Size[f] - 1 <= Handed(read)
            /\ \A i \in lost + 1..Len(Stream) : Stream[i] \notin Mimic
            => \E i \in 1..Len(out) : out[i] = Frame(f)
=============================================================================
