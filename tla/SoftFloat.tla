------------------------------- MODULE SoftFloat -------------------------------
(***************************************************************************)
(* The slice of binary floating point the gain ladders blend in            *)
(* (ar-isp-softfloat.h), with the widths of the format as parameters: a    *)
(* number is (-1)^neg * sig * 2^exp, its significand of Mant bits, and     *)
(* sig = 0 is the zero.  Significands are taken apart and put together by  *)
(* shifts, as the code does it, and what comes out is compared with the    *)
(* rounding of the exact quotient.                                         *)
(***************************************************************************)
EXTENDS Integers

CONSTANTS
  Mant,     \* AR_F32_MANT_BITS
  NormBit,  \* AR_F32_NORM_BIT
  DivBits,  \* the extra bits of a quotient
  IntMax    \* S32_MAX

\* fls64: the place of the highest bit
Fls(n) == IF n = 0 THEN 0 ELSE CHOOSE b \in 1..31 : 2^(b - 1) <= n /\ n \div 2^(b - 1) = 1

Zero(neg) == [neg |-> neg, sig |-> 0, exp |-> 0]
Float(neg, sig, exp) == [neg |-> neg, sig |-> sig, exp |-> exp]

\* ar_f32_round_pack: to nearest, ties to even.
RoundPack(neg, sig, exp, sticky) ==
  LET shift == Fls(sig) - Mant
      kept  == sig \div 2^shift
      rem   == sig % 2^shift
      up    == \/ rem > 2^(shift - 1)
               \/ rem = 2^(shift - 1) /\ (sticky \/ kept % 2 = 1)
      sum   == IF up THEN kept + 1 ELSE kept
  IN CASE sig = 0    -> Zero(neg)
       [] shift <= 0 -> Float(neg, sig * 2^(-shift), exp + shift)
       [] sum = 2^Mant -> Float(neg, sum \div 2, exp + shift + 1)
       [] OTHER -> Float(neg, sum, exp + shift)

FromInt(v) == IF v = 0 THEN Zero(FALSE)
              ELSE RoundPack(v < 0, IF v < 0 THEN -v ELSE v, 0, FALSE)

ScaleDown(a, shift) == IF a.sig = 0 THEN a ELSE [a EXCEPT !.exp = @ - shift]

Mul(a, b) ==
  IF a.sig = 0 \/ b.sig = 0 THEN Zero(a.neg # b.neg)
  ELSE RoundPack(a.neg # b.neg, a.sig * b.sig, a.exp + b.exp, FALSE)

\* ar_f32_norm: the highest bit at NormBit
Norm(a) ==
  LET shift == NormBit + 1 - Fls(a.sig)
  IN Float(a.neg, a.sig * 2^shift, a.exp - shift)

\* Shifted down by d, and whether bits were lost
Align(a, d) ==
  IF d > NormBit + 1 THEN [sig |-> 0, sticky |-> TRUE]
  ELSE [sig |-> a.sig \div 2^d, sticky |-> a.sig % 2^d # 0]

\* Of two normalised numbers, the first with the larger exponent
AddAligned(x, y) ==
  LET low  == Align(y, x.exp - y.exp)
      diff == IF x.sig >= low.sig THEN x.sig - low.sig ELSE low.sig - x.sig
      \* The dropped bits belong to the smaller operand.
      less == IF low.sticky /\ diff # 0 THEN diff - 1 ELSE diff
      neg  == IF x.sig >= low.sig THEN x.neg ELSE y.neg
  IN IF x.neg = y.neg THEN RoundPack(x.neg, x.sig + low.sig, x.exp, low.sticky)
     ELSE IF less = 0 THEN Zero(FALSE)
     ELSE RoundPack(neg, less, x.exp, low.sticky)

\* ar_f32_add_up: one rounding, of operands not rounded before.
AddUp(x, y) ==
  IF x.sig = 0 /\ y.sig = 0 THEN Zero(x.neg /\ y.neg)
  ELSE IF x.sig = 0 THEN RoundPack(y.neg, y.sig, y.exp, FALSE)
  ELSE IF y.sig = 0 THEN RoundPack(x.neg, x.sig, x.exp, FALSE)
  ELSE IF Norm(x).exp >= Norm(y).exp THEN AddAligned(Norm(x), Norm(y))
  ELSE AddAligned(Norm(y), Norm(x))

Sub(a, b) == AddUp(a, [b EXCEPT !.neg = ~@])

Div(a, b) ==
  IF a.sig = 0 \/ b.sig = 0 THEN Zero(a.neg # b.neg)
  ELSE RoundPack(a.neg # b.neg, (a.sig * 2^DivBits) \div b.sig,
                 a.exp - b.exp - DivBits, (a.sig * 2^DivBits) % b.sig # 0)

\* ar_f32_fma: the product is not rounded.
Fma(a, b, c) == AddUp(Float(a.neg # b.neg, a.sig * b.sig, a.exp + b.exp), c)

\* ar_f32_to_s32_trunc: towards zero, saturating.
Trunc(a) ==
  LET mag == IF a.exp >= 0 THEN a.sig * 2^(a.exp) ELSE a.sig \div 2^(-a.exp)
  IN IF mag > IntMax THEN IF a.neg THEN -IntMax - 1 ELSE IntMax
     ELSE IF a.neg THEN -mag ELSE mag

\* Over numbers that are not negative the bit patterns order as they do; one
\* with its sign bit set compares above all of them.
AtMost(a, b) ==
  \/ a = b
  \/ ~a.neg /\ (b.neg \/ a.sig = 0)
  \/ ~a.neg /\ ~b.neg /\ b.sig # 0
       /\ (a.exp < b.exp \/ (a.exp = b.exp /\ a.sig <= b.sig))
Below(a, b) == AtMost(a, b) /\ a # b

-----------------------------------------------------------------------------
(* What the operations are to return.                                      *)

Magnitude(n) == IF n < 0 THEN -n ELSE n

\* f is the number with Mant bits nearest to n/d, the even one of two.
IsNearest(f, n, d) ==
  LET up   == IF f.exp > 0 THEN 2^(f.exp) ELSE 1
      down == IF f.exp < 0 THEN 2^(-f.exp) ELSE 1
      ulp  == up * d
      err  == f.sig * ulp - Magnitude(n) * down
  IN IF n = 0 THEN f.sig = 0
     ELSE /\ f.neg = (n < 0)
          /\ 2^(Mant - 1) <= f.sig /\ f.sig < 2^Mant
          /\ 2 * Magnitude(err) <= ulp
          /\ (2 * Magnitude(err) = ulp) => f.sig % 2 = 0
          \* The numbers below a power of two are twice as close.
          /\ (f.sig = 2^(Mant - 1) /\ err > 0) => 4 * err <= ulp

Signed(a) == IF a.neg THEN -a.sig ELSE a.sig
Rounds(f, m, exp) == IF exp >= 0 THEN IsNearest(f, m * 2^exp, 1)
                     ELSE IsNearest(f, m, 2^(-exp))
Least(i, j) == IF i < j THEN i ELSE j

\* a * b + c, and the exponent it is given at
Product(a, b) == Signed(a) * Signed(b)
Floor(a, b, c) == Least(a.exp + b.exp, c.exp)
Total(a, b, c) == Product(a, b) * 2^(a.exp + b.exp - Floor(a, b, c))
                    + Signed(c) * 2^(c.exp - Floor(a, b, c))

\* Every operation rounds once, to nearest and to even: the blend of a stage
\* is then the vendor's to the last bit.
RoundedOnce(a, b, c) ==
  /\ Rounds(Mul(a, b), Product(a, b), a.exp + b.exp)
  /\ Rounds(AddUp(a, c), Total(a, FromInt(1), c), Floor(a, FromInt(1), c))
  /\ Rounds(Sub(a, c), Total(a, FromInt(1), [c EXCEPT !.neg = ~@]),
            Floor(a, FromInt(1), c))
  /\ Rounds(Fma(a, b, c), Total(a, b, c), Floor(a, b, c))
  /\ b.sig # 0 =>
       LET n == a.exp - b.exp
           s == IF b.neg THEN -Signed(a) ELSE Signed(a)
       IN IsNearest(Div(a, b), IF n > 0 THEN s * 2^n ELSE s,
                               IF n < 0 THEN b.sig * 2^(-n) ELSE b.sig)
  /\ Magnitude(Trunc(a)) * (IF a.exp < 0 THEN 2^(-a.exp) ELSE 1)
       <= a.sig * (IF a.exp > 0 THEN 2^(a.exp) ELSE 1)
=============================================================================
