------------------------------- MODULE IspBanks -------------------------------
(***************************************************************************)
(* The register banks the gain stages derive from the tuning file          *)
(* (ar-isp-rnr.h, -lnr.h, -de3d.h, -de3d-geom.h, -cfa.h, -cnf.h, -cm2.h):  *)
(* which word of a record feeds which bits, and what is computed on the    *)
(* way.  A register is a set of bits, each with the words it is from and   *)
(* the bit of the field they make.                                         *)
(***************************************************************************)
EXTENDS GainLadder, FiniteSets

CONSTANTS
  Widths,     \* padded frame widths
  Strengths,  \* of the de3d knob
  ShiftMax    \* AR_ISP_CNF_NORM_SHIFT_MAX

BankInit ==
  \/ latch \in [kind : {"layout"}]
  \/ latch \in [kind : {"width"}, width : Widths]
  \/ latch \in [kind : {"strength"}, value : Words, knob : Strengths,
                ceil : {120, 200}]

\* width bits at shift: of a number computed from words, of one word, or a
\* bit the driver sets itself
Computed(words, width, shift) ==
  {[bit |-> shift + b, words |-> words, of |-> b] : b \in 0..(width - 1)}
Field(word, width, shift) == Computed({word}, width, shift)
Set(bit) == Computed({}, 1, bit)

Bits(reg) == {b.bit : b \in reg}
WordsOf(reg) == UNION {b.words : b \in reg}

\* No bit is driven by two words, nor outside the register.
Clean(reg) == Bits(reg) \subseteq 0..31 /\ Cardinality(Bits(reg)) = Cardinality(reg)

-----------------------------------------------------------------------------
(* rnr                                                                     *)

\* ar_isp_rnr_from_blob
RnrLadder(reg) == Field(2 + reg, 16, 0) \cup Field(14 + reg, 16, 16)

\* ar_isp_rnr_pack
RnrPack(word, n, width, step) ==
  UNION {Field(word + i, width, i * step) : i \in 0..(n - 1)}

\* Mutant: a block is taken to be a word shorter than it is.
RnrBlockShort(i) ==
  LET word == 54 + 16 * i
  IN <<RnrPack(word, 4, 8, 8), RnrPack(word + 4, 4, 8, 8),
       RnrPack(word + 8, 3, 5, 8), RnrPack(word + 11, 3, 5, 8),
       RnrPack(word + 14, 3, 5, 8)>>

\* ar_isp_rnr_tail_from_blob: four triples, then two blocks of five
RnrTriple(i) ==
  LET word == 26 + 7 * i
  IN <<RnrPack(word, 2, 12, 16), RnrPack(word + 2, 1, 12, 0),
       RnrPack(word + 3, 4, 5, 8)>>

RnrBlock(i) ==
  LET word == 54 + 17 * i
  IN <<RnrPack(word, 4, 8, 8), RnrPack(word + 4, 4, 8, 8),
       RnrPack(word + 8, 3, 5, 8), RnrPack(word + 11, 3, 5, 8),
       RnrPack(word + 14, 3, 5, 8)>>

RnrBank == [reg \in 1..12 |-> RnrLadder(reg - 1)]
             \o RnrTriple(0) \o RnrTriple(1) \o RnrTriple(2) \o RnrTriple(3)
             \o RnrBlock(0) \o RnrBlock(1)

-----------------------------------------------------------------------------
(* lnr: the curve, four bytes of sixteen to a register, in two runs        *)

LnrCurve(i) ==
  LET off == IF i < 16 THEN <<"low", i>> ELSE <<"high", i - 16>>
  IN UNION {Field(<<off, k>>, 8, 8 * k) : k \in 0..3}

\* The scalar fields: six of the first register, then pairs
Pair(lo, hi, width, shift) == Field(lo, width, 0) \cup Field(hi, width, shift)
LnrScalars == [reg \in (0..17) \cup (20..37) |->
  LET k == (reg - 1) \div 2
      \* words 22 to 33 in columns of four, row by row
      Turned(n) == 22 + 4 * (n % 3) + n \div 3
  IN CASE reg = 0 -> Field(0, 1, 2) \cup Field(1, 1, 6) \cup Field(2, 1, 8)
                       \cup Field(3, 1, 9) \cup Field(4, 1, 12) \cup Field(5, 8, 24)
       [] reg \in 1..8 -> IF reg % 2 = 1 THEN Pair(6 + k, 10 + k, 13, 16)
                          ELSE Pair(14 + k, 18 + k, 13, 16)
       [] reg \in 9..14 -> Pair(Turned(2 * reg - 18), Turned(2 * reg - 17), 13, 16)
       [] reg \in 15..17 -> Pair(2 * reg + 102, 2 * reg + 103, 8, 8)
       [] reg = 20 -> Pair(36, 37, 10, 16)
       [] reg \in 21..24 -> Pair(2 * reg - 4, 2 * reg - 3, 10, 10)
       [] reg = 25 -> Field(46, 10, 0)
       [] reg \in 26..27 -> Pair(2 * reg - 5, 2 * reg - 4, 16, 16)
       [] reg = 28 -> Field(51, 16, 0)
       [] reg \in 29..32 -> Pair(2 * reg - 6, 2 * reg - 5, 10, 10)
       [] reg = 33 -> Field(60, 10, 0)
       [] reg \in 34..35 -> Pair(2 * reg - 7, 2 * reg - 6, 16, 16)
       [] reg = 36 -> Field(65, 16, 0)
       [] reg = 37 -> Pair(66, 67, 10, 16)]

-----------------------------------------------------------------------------
(* de3d: fields are named by their byte offsets in the record              *)

Slope(hi, lo) == Computed({hi, lo}, 16, 16)

\* ar_isp_de3d_from_blob, with the bits ar_isp_de3d_regs lets it write
De3dScalars == <<
  [reg |-> Field(4, 1, 3) \cup Field(8, 1, 2), mask |-> 2..3],
  [reg |-> Slope(24, 20) \cup Field(20, 8, 8) \cup Field(24, 8, 0), mask |-> 0..31],
  [reg |-> Field(28, 8, 24) \cup Field(32, 8, 16) \cup Field(36, 8, 8)
             \cup Field(40, 8, 0), mask |-> 0..31],
  [reg |-> Slope(48, 44) \cup Field(44, 8, 8) \cup Field(48, 8, 0), mask |-> 0..31],
  [reg |-> Field(52, 14, 0), mask |-> 0..13],
  [reg |-> Field(56, 9, 16) \cup Field(64, 8, 0), mask |-> (16..24) \cup 0..7],
  [reg |-> Field(68, 9, 0), mask |-> 0..8],
  [reg |-> Field(72, 8, 24) \cup Field(76, 8, 16) \cup Field(80, 8, 8)
             \cup Field(84, 8, 0), mask |-> 0..31],
  [reg |-> Field(88, 8, 0), mask |-> 0..7],
  [reg |-> Field(92, 14, 0), mask |-> 0..13],
  [reg |-> Field(200, 1, 26) \cup Field(204, 1, 27) \cup Field(208, 1, 28)
             \cup Field(212, 1, 29) \cup Field(216, 3, 4) \cup Field(220, 3, 0)
             \cup Set(16), mask |-> (26..29) \cup {16} \cup (4..6) \cup 0..2],
  [reg |-> Field(108, 8, 16) \cup Field(112, 8, 8) \cup Field(116, 8, 0),
   mask |-> 0..23],
  [reg |-> UNION {Field(124 + 4 * k, 1, k) : k \in 0..3}
             \cup UNION {Field(736 + 4 * k, 1, 4 + k) : k \in 0..3}
             \cup Field(752, 8, 8) \cup Field(756, 8, 16), mask |-> 0..23],
  [reg |-> Field(140, 8, 0) \cup Computed({140, 144}, 8, 8)
             \cup Field(148, 8, 16) \cup Field(152, 8, 24), mask |-> 0..31],
  [reg |-> Field(156, 13, 0) \cup Field(160, 10, 16), mask |-> (0..12) \cup 16..25],
  [reg |-> Field(164, 12, 0) \cup Field(168, 10, 16), mask |-> (0..11) \cup 16..25],
  [reg |-> Field(172, 9, 0), mask |-> 0..8],
  [reg |-> Field(176, 8, 24) \cup Field(180, 8, 16) \cup Field(184, 8, 8)
             \cup Field(188, 8, 0), mask |-> 0..31],
  [reg |-> Field(192, 8, 0), mask |-> 0..7] >>

De3dCurve(i) == UNION {Field(<<"curve", 4 * i + k>>, 8, 24 - 8 * k) : k \in 0..3}

\* ar_isp_de3d_slope
De3dSlope(hi, lo) ==
  IF hi = lo THEN 0
  ELSE LET n == IF hi > lo THEN 65532 \div (hi - lo) ELSE -(65532 \div (lo - hi))
       IN n % 65536

\* ar_isp_de3d_strength
Strength(v, knob, ceil) ==
  IF knob = 50 THEN v
  ELSE IF knob < 50 THEN Quotient(knob * v, 50)
  ELSE Quotient((50 * ceil) - ((100 - knob) * (ceil - v)), 50)

CeilDiv(a, b) == (a + b - 1) \div b
Align256(v) == ((v + 255) \div 256) * 256

\* ar_isp_de3d_geom_pack, field by field
Hts == 2200
Geometry(width) ==
  LET blank  == (Hts - width)
      blocks == CeilDiv(width, 16)
  IN [delay   |-> blank + (blank * 5) \div 100 + 200,
      stride  |-> Align256(CeilDiv(width, 20) * 16),
      stride2 |-> Align256(CeilDiv(width, 8)),
      blocks  |-> blocks - 1,
      residue |-> (width \div 2) - (7 * blocks) - 1,
      tiles   |-> CeilDiv(width, 320),
      pad     |-> (20 - (width % 20)) % 20]

-----------------------------------------------------------------------------
(* cfa: runs of registers, fed by runs of words                            *)

CfaRuns == <<[reg |-> 0, word |-> 0, count |-> 4], [reg |-> 15, word |-> 4, count |-> 7],
             [reg |-> 23, word |-> 11, count |-> 19],
             [reg |-> 43, word |-> 30, count |-> 11]>>

\* ar_isp_cfa_low_source and ar_isp_cfa_high_source: in a gap only
CfaLow(word) == IF word = 6 THEN 4 ELSE IF word = 28 THEN 26 ELSE word
CfaHigh(word) == IF word = 28 THEN 26 ELSE word

CfaFeeds == {[reg |-> CfaRuns[r].reg + k, word |-> CfaRuns[r].word + k] :
               r \in 1..4, k \in 0..18}
CfaFed == {f \in CfaFeeds : \E r \in 1..4 :
             f.reg - CfaRuns[r].reg = f.word - CfaRuns[r].word
               /\ f.word - CfaRuns[r].word \in 0..(CfaRuns[r].count - 1)}

-----------------------------------------------------------------------------
(* cnf and cm2                                                             *)

Clamp(v, lo, hi) == IF v < lo THEN lo ELSE IF v > hi THEN hi ELSE v

\* ar_isp_cnf_strength_from_blob, after the blend
CnfStrength(v) == Clamp(v, 1, 6)

CnfQuot(square, shift) == (2^shift * 2 + square) \div (2 * square)

\* ar_isp_cnf_normalise: from the largest shift down, to the first that fits
CnfNorm(v) ==
  LET square == CnfStrength(v) * CnfStrength(v)
      fits   == {s \in 9..ShiftMax : CnfQuot(square, s) <= 4094}
      shift  == IF fits = {} THEN 9 ELSE CHOOSE s \in fits : \A q \in fits : q <= s
  IN [quot |-> CnfQuot(square, shift), shift |-> shift]

\* ar_isp_cnf_pack, and ar_isp_cnf_norm_pack with the bit of register A
CnfPacked == Field("strength", 4, 1) \cup Set(5)
CnfNormPacked == Field("quot", 12, 0) \cup Field("shift", 5, 12) \cup Set(17)

\* ar_isp_cnf_static_pack: the upper field is the wider in the even ones
CnfStatic(i) ==
  LET lo == (i \div 2) + 6 * (i % 2)
  IN Field(lo, 11, 0) \cup Field(lo + 3, IF i % 2 = 0 THEN 11 ELSE 9, 11)

\* ar_isp_cm2_from_blob: bounds that crossed leave a width too large to divide.
Cm2Recip(hi, lo) == IF hi > lo THEN 1024 \div (hi - lo) ELSE 0

-----------------------------------------------------------------------------
(* Properties.                                                             *)

Once(bank, words) ==
  /\ \A i \in DOMAIN bank : Clean(bank[i])
  /\ \A w \in words :
       Cardinality({i \in DOMAIN bank : w \in WordsOf(bank[i])}) = 1
  /\ \A i \in DOMAIN bank : WordsOf(bank[i]) \subseteq words

\* Every word of a record reaches exactly one register, and no two of them
\* share a bit there; a de3d register, which is read, changed and written back,
\* is given all the bits of its mask and no other.
FieldsDisjoint ==
  latch.kind = "layout" =>
    /\ Once(RnrBank, 2..87)
    /\ Once([i \in 1..48 |-> LnrCurve(i - 1)],
            {<<<<"low", i>>, k>> : i \in 0..15, k \in 0..3}
              \cup {<<<<"high", i>>, k>> : i \in 0..31, k \in 0..3})
    /\ Once(LnrScalars, (0..33) \cup (36..67) \cup (132..137))
    /\ \A i \in DOMAIN De3dScalars :
         Clean(De3dScalars[i].reg) /\ Bits(De3dScalars[i].reg) = De3dScalars[i].mask
    /\ \A i \in 0..31 : Clean(De3dCurve(i)) /\ Bits(De3dCurve(i)) = 0..31
    /\ Cardinality(CfaFed) = 41
    /\ {f.word : f \in CfaFed} = 0..40
    /\ Cardinality({f.reg : f \in CfaFed}) = 41
    /\ {CfaHigh(w) : w \in 0..40} = (0..40) \ {28}
    /\ Once([i \in 1..6 |-> CnfStatic(i - 1)], 0..11)
    /\ Clean(CnfPacked) /\ Bits(CnfPacked) \subseteq 1..7
    /\ Clean(CnfNormPacked) /\ Bits(CnfNormPacked) = 0..17

\* What a stage computes on the way stays inside the field it is packed into:
\* nothing spills into a neighbour, at any width, strength or record.
FieldsHold ==
  /\ latch.kind = "width" =>
       LET g == Geometry(latch.width)
       IN /\ g.delay \in 0..(2^13 - 1) /\ g.blocks \in 0..255 /\ g.residue \in 0..255
          /\ g.tiles \in 0..63 /\ g.pad \in 0..19 /\ g.stride < 2^16
          /\ g.stride % 256 = 0 /\ 20 * g.stride >= 16 * latch.width
          /\ 8 * g.stride2 >= latch.width /\ (latch.width + g.pad) % 20 = 0
  /\ latch.kind = "strength" =>
       LET v == Magnitude(latch.value)
           s == Strength(v, latch.knob, latch.ceil)
       IN /\ Within(s, v, IF latch.knob < 50 THEN 0 ELSE latch.ceil)
          /\ latch.knob = 100 => s = latch.ceil
          /\ De3dSlope(latch.value, latch.ceil) \in 0..65535
  /\ latch.kind = "gain" =>
       LET v == CnfStrength(ReadWord(Integers, latch.from, latch.to))
           n == CnfNorm(v)
       IN /\ v \in 1..6 /\ n.quot \in 0..4095 /\ n.shift \in 0..31
          \* It keeps at least eleven bits, and is never halfway between two.
          /\ n.quot > 2046
          /\ Magnitude(2 * n.quot * v * v - 2 * 2^(n.shift)) < v * v
          /\ Cm2Recip(latch.to, latch.from) \in 0..1024
=============================================================================
