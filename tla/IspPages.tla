------------------------------- MODULE IspPages -------------------------------
(***************************************************************************)
(* The pages the ISP fetches by itself and the colour matrices, as the     *)
(* driver builds them from the tuning file (ar-isp-codec.h,                *)
(* ar-isp-colour.h).  A record of a page is a row of equal slots, the      *)
(* fields of the hardware's words laid end to end; a curve is a row of     *)
(* segments, each given by its two ends in adjacent slots.                 *)
(***************************************************************************)
EXTENDS IspBanks

CONSTANTS
  Records,  \* of a gamma page
  Span,     \* stored entries of a curve to a knot, four knots to a curve
  SlotBits, \* of a sample
  Levels,   \* of the knots
  Most      \* the largest coefficient, below 2^(Mant - 1)

PageInit ==
  \/ latch \in [kind : {"curve"}, low : [0..3 -> Levels], high : Levels, t : {0, 2^ToneBits \div 3}]
  \/ latch \in [kind : {"coefficient"},
                f : {Zero(FALSE), Zero(TRUE)}
                      \cup [neg : BOOLEAN, sig : 2^(Mant - 1)..(2^Mant - 1),
                            exp : -(Q + WordBits + 1)..2]]

Samples == 4 * Records
Entries == 4 * Span
Slot(v) == v % 2^SlotBits

\* A stored curve rises by one an entry, and leaps, or falls, at the knots.
Stored(knots, i) == knots[i \div Span] + (i % Span)
Blended(i) == Slot(ToneBlend(Stored(latch.low, i), Stored([k \in 0..3 |-> latch.high], i), latch.t))

\* ar_isp_gamma_from_blob: one entry in so many, none below those before it
Decimated(k) == Blended(k * (Entries \div Samples))
Sample == [k \in 0..(Samples - 1) |->
             LET upto == {Decimated(j) : j \in 0..k}
             IN CHOOSE v \in upto : \A w \in upto : w <= v]

\* Mutant: nothing comes after the last sample.
AfterZero(final) == 0

\* The sample after the last one, from the final entry of the curve
After(final) == IF final < Sample[Samples - 1] THEN Sample[Samples - 1] ELSE final

\* ar_isp_gamma_pack_page
GammaRecord(i) ==
  LET s(k)  == Sample[4 * i + k]
      next  == IF i + 1 < Records THEN s(4) ELSE Slot(After(Blended(Entries - 1)))
  IN <<s(0), s(1), s(1), s(2), s(2), s(3), s(3), next>>

\* ar_isp_drc_pack_bank: three samples, the last one the first of the next
DrcRecord(i) ==
  <<Blended(2 * i), Blended(2 * i + 1), Blended(2 * i + 1), Blended(2 * i + 2)>>

\* ar_isp_f32_scale, and the magnitude of ar_isp_f32_q8sm
Scale(f) ==
  LET shift == -(f.exp + Q)
  IN IF f.sig = 0 \/ shift >= WordBits THEN 0
     ELSE IF shift <= 0 \/ f.sig \div 2^shift > Most THEN Most
     ELSE f.sig \div 2^shift

\* One lens shading gain, and one coefficient of a matrix: the sign is the bit
\* above the magnitude.
LscGain(f) == IF f.neg THEN 0 ELSE Scale(f)
CcmWord(f) == IF f.sig = 0 THEN 0
              ELSE Scale(f) + IF f.neg THEN Most + 1 ELSE 0

-----------------------------------------------------------------------------
(* Properties.                                                             *)

\* The slots of a page, end to end
Row(Record(_), count, size) ==
  [k \in 1..(count * size) |-> Record((k - 1) \div size)[1 + ((k - 1) % size)]]
Joined(row) == \A k \in 1..(Len(row) \div 2 - 1) : row[2 * k] = row[2 * k + 1]

\* The hardware interpolates inside a segment: every one starts where the one
\* before it ends, across records too, the gamma curve never falls, its top
\* does not fall to black, and a stored curve that rises is not changed.
CurvesJoined ==
  latch.kind = "curve" =>
    LET gamma == Row(GammaRecord, Records, 8)
        drc   == Row(DrcRecord, Samples \div 2, 4)
    IN /\ Joined(gamma) /\ Joined(drc)
       /\ \A k \in 1..(Len(gamma) - 1) : gamma[k] <= gamma[k + 1]
       /\ gamma[1] = Decimated(0)
       /\ (\A j \in 1..(Samples - 1) : Decimated(j - 1) <= Decimated(j)) =>
            \A j \in 0..(Samples - 1) : gamma[2 * j + 1] = Decimated(j)

\* A coefficient is the file's, towards zero, or the largest there is with its
\* sign: a corrupt file spills into no neighbour.
CoefficientsFit ==
  latch.kind = "coefficient" =>
    LET f    == latch.f
        word == CcmWord(f)
        mag  == word % (Most + 1)
        Holds(m) == IF f.exp + Q >= 0 THEN m <= f.sig * 2^(f.exp + Q)
                    ELSE IF f.exp + Q < -WordBits THEN m = 0
                    ELSE m * 2^(-(f.exp + Q)) <= f.sig
    IN /\ word \in 0..(2 * Most + 1) /\ (word > Most => f.neg)
       /\ Holds(mag) /\ (mag < Most => ~Holds(mag + 1))
       /\ LscGain(f) = IF f.neg THEN 0 ELSE mag
=============================================================================
