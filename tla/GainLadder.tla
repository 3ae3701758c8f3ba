------------------------------ MODULE GainLadder ------------------------------
(***************************************************************************)
(* How a stage of the ISP finds its values for a gain (ar-isp-ladder.h,    *)
(* ar-isp-cm.h, ar-isp-cm2.h, ar-isp-tone.h): a table of gain bands, one   *)
(* record for each; inside a band its record holds, in the gap between two *)
(* the records are blended.  The noise stages walk and blend in binary     *)
(* floating point, as the vendor does; cnf and the colour stages in fixed  *)
(* point; the tone pages in fixed point of their own.                      *)
(*                                                                         *)
(* A table is a sequence of [lo, hi], edges the tuning file holds as       *)
(* floats; a gain is an integer of Q fraction bits.                        *)
(***************************************************************************)
EXTENDS SoftFloat, Sequences

CONSTANTS
  Q,         \* AR_ISP_LADDER_Q
  TShift,    \* AR_ISP_LADDER_T_SHIFT
  ToneBits,  \* AR_ISP_TONE_BLEND_BITS
  WordBits,  \* 32
  Tables,    \* the tables of a file, sequences of [lo, hi]
  MaxBands,  \* the records allocated for a stage
  Counts,    \* what the header of a file may say of their number
  Gains, Words

VARIABLE latch  \* what was derived last: its kind, and what from

LadderInit ==
  latch \in [kind : {"gain"}, table : Tables, count : Counts, interp : BOOLEAN,
             gain : Gains, from : Words, to : Words]

\* ar_isp_ladders_set: userspace stores a gain and latches it.
Latch == /\ latch.kind = "gain"
         /\ \E g \in Gains : latch' = [latch EXCEPT !.gain = g]

-----------------------------------------------------------------------------

One == FromInt(1)

\* floor(f * 2^q) as a word; a shift beyond most is taken for a corrupt file.
Fixed(f, q, most) ==
  LET shift == -(f.exp + q)
  IN IF f.neg \/ f.sig = 0 \/ shift >= WordBits THEN 0
     ELSE IF shift < -most THEN 2^WordBits - 1
     ELSE IF shift <= 0 THEN (f.sig * 2^(-shift)) % 2^WordBits
     ELSE f.sig \div 2^shift

\* ar_isp_f32_q16
Edge(f) == Fixed(f, Q, WordBits - Mant)

\* A count outside the array falls back to what is allocated.
Bands(count) == IF count < 1 \/ count > MaxBands THEN MaxBands ELSE count

\* The first band whose upper edge the gain does not pass, or the last one
FirstBand(count, Holds(_)) ==
  IF \E i \in 1..(count - 1) : Holds(i)
    THEN CHOOSE i \in 1..(count - 1) : Holds(i) /\ \A j \in 1..(i - 1) : ~Holds(j)
    ELSE count

\* ar_isp_ladder_walk, ar_isp_cm_select and ar_isp_cm2_select
Walk(table, count, interp, gain) ==
  LET band == FirstBand(count, LAMBDA i : gain <= Edge(table[i].hi))
      lo   == Edge(table[band].lo)
      prev == Edge(table[band - 1].hi)
      gap  == interp /\ band > 1 /\ gain < lo /\ lo > prev
  IN [band |-> band,
      t |-> IF gap THEN ((gain - prev) * 2^TShift) \div (lo - prev) ELSE 0]

\* Mutant: a gain at the upper edge of a band is no longer in it.
WalkFloatStrict(table, count, interp, gain) ==
  LET g    == ScaleDown(FromInt(gain), Q)
      band == FirstBand(count, LAMBDA i : Below(g, table[i].hi))
      lo   == table[band].lo
      prev == table[band - 1].hi
      t    == Div(Sub(g, prev), Sub(lo, prev))
      gap  == interp /\ band > 1 /\ Below(g, lo) /\ Below(prev, lo)
  IN [band |-> band,
      t |-> IF gap THEN t ELSE Zero(FALSE),
      omt |-> IF gap THEN Sub(One, t) ELSE Zero(FALSE)]

\* ar_isp_ladder_walk_f32
WalkFloat(table, count, interp, gain) ==
  LET g    == ScaleDown(FromInt(gain), Q)
      band == FirstBand(count, LAMBDA i : AtMost(g, table[i].hi))
      lo   == table[band].lo
      prev == table[band - 1].hi
      t    == Div(Sub(g, prev), Sub(lo, prev))
      gap  == interp /\ band > 1 /\ Below(g, lo) /\ Below(prev, lo)
  IN [band |-> band,
      t |-> IF gap THEN t ELSE Zero(FALSE),
      omt |-> IF gap THEN Sub(One, t) ELSE Zero(FALSE)]

\* Division in C
Quotient(n, d) == IF n < 0 THEN -((-n) \div d) ELSE n \div d

\* ar_isp_ladder_blend and ar_isp_ladder_blend_s32
Blend(from, to, t) == Quotient(from * (2^TShift - t) + to * t, 2^TShift)

\* ar_isp_ladder_blend_f32
BlendFloat(from, to, frac) ==
  Trunc(Fma(frac.omt, FromInt(from), Mul(frac.t, FromInt(to))))

\* ar_isp_ladder_read_word and ar_isp_ladder_read_word_f32: one word of the
\* record of the band, given the same word of the record below.
ReadWord(at, from, to) == IF at.t = 0 THEN to ELSE Blend(from, to, at.t)
ReadWordFloat(at, from, to) ==
  IF at.t.sig = 0 THEN to ELSE BlendFloat(from, to, at)

-----------------------------------------------------------------------------
(* The tone selection.                                                     *)

\* ar_isp_tone_select
ToneSelect(table, count, scalar) ==
  LET past == \A i \in 1..count : scalar > Edge(table[i].hi)
      i    == FirstBand(count, LAMBDA j : scalar <= Edge(table[j].hi))
      lo   == Edge(table[i].lo)
      prev == Edge(table[i - 1].hi)
  IN IF past \/ i = 1 \/ scalar >= lo THEN [low |-> i, high |-> i, t |-> 0]
     ELSE [low |-> i - 1, high |-> i,
           t |-> ((scalar - prev) * 2^ToneBits) \div (lo - prev)]

\* ar_isp_tone_blend, in 32 bits as the vendor's
ToneBlend(low, high, t) ==
  IF t = 0 THEN low
  ELSE ((low * (2^ToneBits - t) + high * t) % 2^WordBits) \div 2^ToneBits

-----------------------------------------------------------------------------
(* Properties.                                                             *)

Count == Bands(latch.count)
Integers == Walk(latch.table, Count, latch.interp, latch.gain)
Floats == WalkFloat(latch.table, Count, latch.interp, latch.gain)
Tones == ToneSelect(latch.table, Count, latch.gain)

Within(w, from, to) == (from <= w /\ w <= to) \/ (to <= w /\ w <= from)

\* The bands the gain is in by the file's own edges
Holders == LET g == ScaleDown(FromInt(latch.gain), Q)
           IN {i \in 1..Count : AtMost(latch.table[i].lo, g)
                                   /\ AtMost(g, latch.table[i].hi)}

\* A gain inside a band gets that band's record untouched, in every one of
\* the three walks, whatever the header says of the number of bands.  Where
\* two bands touch it is the lower one.
Verbatim ==
  latch.kind = "gain" =>
    \A i \in Holders :
      (\A j \in Holders : i <= j) => /\ Integers = [band |-> i, t |-> 0]
                                    /\ Floats.band = i /\ Floats.t.sig = 0
                                    /\ Tones = [low |-> i, high |-> i, t |-> 0]

\* Outside, a stage never reads past its records nor below the first one, and
\* a blended word lies between the two it is blended from; in floating point
\* it may also be one nearer to zero, and in fixed point it never is.
Between ==
  latch.kind = "gain" =>
  /\ Integers.band \in 1..Count /\ Floats.band \in 1..Count
  /\ Integers.t \in 0..(2^TShift - 1) /\ (Integers.band = 1 => Integers.t = 0)
  /\ Floats.band = 1 => Floats.t.sig = 0
  /\ Below(Floats.t, One)
  /\ Within(ReadWord(Integers, latch.from, latch.to), latch.from, latch.to)
  /\ LET w == ReadWordFloat(Floats, latch.from, latch.to)
     IN \/ Within(w, latch.from, latch.to)
        \/ Within(w + 1, latch.from, latch.to) /\ w >= 0
        \/ Within(w - 1, latch.from, latch.to) /\ w <= 0
  /\ Tones.low \in 1..Count /\ Tones.high \in {Tones.low, Tones.low + 1}
  /\ Tones.t \in 0..(2^ToneBits - 1)
  /\ (latch.from >= 0 /\ latch.to >= 0) =>
       Within(ToneBlend(latch.from, latch.to, Tones.t), latch.from, latch.to)
=============================================================================
