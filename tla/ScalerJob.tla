------------------------------- MODULE ScalerJob -------------------------------
(***************************************************************************)
(* What an operation of the scaler becomes (ar_scaler.c): the checks of    *)
(* the dma-buf ioctls, the descriptor the engine reads, and the divider    *)
(* of its clock.  ScalerEngine is about when an operation runs; this is    *)
(* about where in memory it may go.                                        *)
(*                                                                         *)
(* A buffer is a mapped segment [base, size].  The descriptor's fields are *)
(* narrower than the numbers that are checked, so that the engine may see  *)
(* others than the driver checked.                                         *)
(***************************************************************************)
EXTENDS Integers, FiniteSets

CONSTANTS
  Granule,     \* strides and offsets are multiples of 16
  WidthEnd,    \* 2^16: a width in the descriptor is the low half of a word
  HeightEnd,   \* 2^13: a height is the bits 28:16 above it
  ChanEnd,     \* 2^5: the channels
  StrideEnd,   \* 2^16: the stride of the source
  AddrEnd,     \* 2^32: an address
  QOne,        \* 2^16: the ratios are in units of its inverse
  LowEnd, HighEnd,  \* 2^32 and 2^5: a difference of ratios is 37 bits in two words
  BatchMax, DescStride, BatchBuf,  \* 255, 0x100 and 0xff00
  Ops,         \* operations: the geometry, the segments of both buffers, the offsets
  Frequencies

VARIABLES
  job,         \* the operation that is resolved, or NoJob
  frequency,   \* sc->frequency
  divider,     \* CTRL_FREQ_DIV
  rate         \* the last frequency above zero that was asked for

jobVars == <<job, frequency, divider, rate>>
NoJob == [kind |-> "none"]

JobInit ==
  /\ frequency = 0 /\ divider = 0 /\ rate = 0
  /\ job = NoJob \/ \E o \in Ops : job = [kind |-> "job", op |-> o]

(***************************************************************************)
(* The checks.                                                             *)
(***************************************************************************)
\* What a field of so many values keeps
Trunc(n, end) == n % end

ar_scaler_validate(o) ==
  /\ o.srcphy # 0 /\ o.srcw # 0 /\ o.srch # 0 /\ o.srcstride % Granule = 0
  /\ o.cropw # 0 /\ o.croph # 0
  /\ o.dstphy # 0 /\ o.dstw # 0 /\ o.dsth # 0 /\ o.dststride % Granule = 0
  /\ o.channels # 0

\* What the arithmetic of the bounds depends on
Geometry(o) ==
  /\ o.src_off % Granule = 0 /\ o.dst_off % Granule = 0
  /\ o.srch # 0 /\ o.srcstride # 0 /\ o.dsth # 0 /\ o.dststride # 0 /\ o.channels # 0
  /\ o.srcw * o.channels =< o.srcstride /\ o.dstw * o.channels =< o.dststride
  /\ o.crop_x + o.cropw =< o.srcw /\ o.crop_y + o.croph =< o.srch

\* Mutant of the next: the images are checked as if they began the buffers.
InsideNoOffset(o) ==
  /\ o.srch * o.srcstride =< o.src.size
  /\ o.dsth * o.dststride =< o.dst.size

\* Whole declared images inside their segments
Inside(o) ==
  /\ o.src_off + o.srch * o.srcstride =< o.src.size
  /\ o.dst_off + o.dsth * o.dststride =< o.dst.size

Src(o) == o.src.base + o.src_off
Dst(o) == o.dst.base + o.dst_off

\* ar_scaler_resolve_dmabuf_op, then ar_scaler_validate with the addresses
Accepted(o) ==
  /\ Geometry(o) /\ Inside(o)
  /\ Src(o) < AddrEnd /\ Dst(o) < AddrEnd
  /\ ar_scaler_validate([srcphy |-> Src(o), dstphy |-> Dst(o), srcw |-> o.srcw,
       srch |-> o.srch, srcstride |-> o.srcstride, cropw |-> o.cropw,
       croph |-> o.croph, dstw |-> o.dstw, dsth |-> o.dsth,
       dststride |-> o.dststride, channels |-> o.channels])

(***************************************************************************)
(* The descriptor.                                                         *)
(***************************************************************************)
DeltaEnd == LowEnd * HighEnd

\* The ratio, and its distance from one: below one it is wrapped.  The
\* dimensions are taken as signed words, here with their sign bits clear.
coordinate_convert(src, dst) ==
  LET ratio == (src * QOne) \div dst
      delta == IF ratio < QOne THEN ratio + DeltaEnd - QOne ELSE ratio - QOne
  IN [ratio |-> Trunc(ratio, LowEnd), lo |-> Trunc(delta, LowEnd),
      hi |-> Trunc(delta \div LowEnd, HighEnd)]

\* 16 bytes a burst where the image shrinks in width and the vertical
\* metric allows it, else 8
Burst(o) ==
  LET vmetric == ((o.croph * 100) \div o.dsth) * o.channels
  IN IF o.cropw >= o.dstw /\ vmetric =< 3199
       THEN 16 \div o.channels ELSE 8 \div o.channels

scaler_build_image(o) ==
  [srcphy |-> Src(o), srcstr |-> Trunc(o.srcstride, StrideEnd),
   srcw |-> Trunc(o.srcw, WidthEnd), srch |-> Trunc(o.srch, HeightEnd),
   crop_x |-> Trunc(o.crop_x, WidthEnd), crop_y |-> Trunc(o.crop_y, HeightEnd),
   cropw |-> Trunc(o.cropw, WidthEnd), croph |-> Trunc(o.croph, HeightEnd),
   channels |-> Trunc(o.channels, ChanEnd), burst |-> Burst(o),
   dstw |-> Trunc(o.dstw, WidthEnd), dsth |-> Trunc(o.dsth, HeightEnd),
   dstphy |-> Dst(o), dststr |-> o.dststride,
   h |-> coordinate_convert(o.cropw, o.dstw), v |-> coordinate_convert(o.croph, o.dsth)]

\* The block of a batch: a descriptor every DescStride bytes
Staged(count) == IF count \in 1..BatchMax THEN count * DescStride ELSE 0

(***************************************************************************)
(* The divider of the clock.                                               *)
(***************************************************************************)
Thresholds == {599, 499, 399, 332, 299, 199, 149, 99}

\* scaler_freq_to_div: one code for each step of the ladder
scaler_freq_to_div(freq) == 1 + Cardinality({t \in Thresholds : freq > t})

SetFrequency(freq) ==
  /\ job = NoJob
  /\ frequency' = freq
  /\ divider' = IF freq # 0 THEN scaler_freq_to_div(freq) ELSE divider
  /\ rate' = IF freq # 0 THEN freq ELSE rate
  /\ UNCHANGED job

\* ar_scaler_hw_init, after a timeout or at resume
HwInit ==
  /\ job = NoJob
  /\ divider' = IF frequency # 0 THEN scaler_freq_to_div(frequency) ELSE divider
  /\ UNCHANGED <<job, frequency, rate>>

JobNext == HwInit \/ \E f \in Frequencies : SetFrequency(f)

JobSpec == JobInit /\ [][JobNext]_jobVars

\* An operation's numbers are unsigned, a full batch has room in its block, and a
\* difference of ratios in its field.
Segment == [base : Nat, size : Nat]
ASSUME JobAssumption ==
  /\ Ops \subseteq [srcw : Nat, srch : Nat, srcstride : Nat, src : Segment, src_off : Nat,
                  crop_x : Nat, crop_y : Nat, cropw : Nat, croph : Nat,
                  dstw : Nat, dsth : Nat, dststride : Nat, dst : Segment, dst_off : Nat,
                  channels : Nat]
  /\ Frequencies \subseteq Nat /\ BatchMax \in Nat /\ DescStride \in Nat /\ BatchBuf \in Nat
  /\ BatchMax * DescStride =< BatchBuf
  /\ {WidthEnd, HeightEnd, ChanEnd, StrideEnd, AddrEnd, QOne, LowEnd, HighEnd} \subseteq Nat \ {0}
  /\ 2 * QOne =< DeltaEnd

(***************************************************************************)
(* Properties.                                                             *)
(***************************************************************************)
\* The bytes of a rectangle of an image
Bytes(from, stride, x, y, w, h, channels) ==
  {from + (y + r) * stride + (x + c) * channels + k :
     r \in 0..(h - 1), c \in 0..(w - 1), k \in 0..(channels - 1)}

\* Whatever a process asks for with dma-bufs, what the engine reads and
\* writes lies in the buffers that were named - with the numbers as they are
\* left by the fields of the descriptor - and so does a full batch in its
\* block (ar_scaler_resolve_dmabuf_op, scaler_build_image).
JobsInside ==
  /\ \A n \in 0..(2 * BatchMax) : Staged(n) =< BatchBuf
  /\ job.kind = "job" /\ Accepted(job.op) =>
       LET i == scaler_build_image(job.op)
           within(b, set) == \A a \in set : b.base =< a /\ a < b.base + b.size
       IN /\ within(job.op.src, Bytes(i.srcphy, i.srcstr, i.crop_x, i.crop_y,
                                      i.cropw, i.croph, i.channels))
          /\ within(job.op.dst, Bytes(i.dstphy, i.dststr, 0, 0, i.dstw, i.dsth,
                                      i.channels))

\* The engine gets each ratio together with its distance from one, as a
\* number of 37 bits with a sign, also where the ratio itself has outgrown its
\* word (coordinate_convert).
RatiosSigned ==
  job.kind = "job" /\ Accepted(job.op) =>
    LET i == scaler_build_image(job.op)
        signed(d) == LET n == d.hi * LowEnd + d.lo
                     IN IF 2 * n < DeltaEnd THEN n + QOne ELSE n + QOne - DeltaEnd
    IN /\ signed(i.h) = (job.op.cropw * QOne) \div job.op.dstw
       /\ signed(i.v) = (job.op.croph * QOne) \div job.op.dsth

\* The clock runs at the last frequency that was asked for, also after resets
\* and after a frequency of zero, which leaves it alone.
DividerFollows ==
  rate # 0 => divider = scaler_freq_to_div(rate)

\* What becomes of an operation, and of the clock it runs with
JobsTrue == JobsInside /\ RatiosSigned /\ DividerFollows
===============================================================================
