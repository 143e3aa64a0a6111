------------------------------ MODULE CrayTypes ------------------------------
(***************************************************************************)
(* Machine words and the Cray floating point format (cray_types.h,         *)
(* cray_float.cpp).  A word is the set of the positions of its one bits,   *)
(* so that &, | and ~ are set operations.  The real sizes are 15 exponent  *)
(* and 48 fraction bits, with 8 guard bits in the multiplier; the offsets  *)
(* and limits below are the same fractions of the reduced exponent range.  *)
(***************************************************************************)
EXTENDS Integers, FiniteSets, FiniteSetsExt

CONSTANTS FractSize,    \* CFloat_t::FractSize (48)
          ExpSize,      \* CFloat_t::ExpSize (15)
          Guard,        \* guard bits of the multiplier (8)
          Correction,   \* CorrectionFactor of the multiplier (18)
          HalfDrop      \* fraction bits a half precision product lacks (19)

W == 1 + ExpSize + FractSize
Bits == 0 .. W - 1
Word == SUBSET Bits

Num(w) == MapThenSumSet(LAMBDA b : 2^b, w)

(* Two's complement: a negative number has all its high bits set. *)
ToWord(n) == {b \in Bits : (n \div 2^b) % 2 = 1}

Complement(w) == Bits \ w
Xor(v, w) == (v \ w) \cup (w \ v)
IsNegative(w) == W - 1 \in w

-----------------------------------------------------------------------------
ExpOfs == 2^(ExpSize - 1) + 1
ExpMin == 2^(ExpSize - 2)

IsPositive(w) == ~IsNegative(w)
RawExp(w) == Num({b - FractSize : b \in {c \in w : c >= FractSize /\ c < W - 1}})
UFract(w) == Num({b \in w : b < FractSize})

(* The constructor: exponent and fraction are cut to their fields. *)
CFloat(exp, positive, fract) ==
  ToWord(  (IF positive THEN 0 ELSE 2^(W - 1))
         + ((exp + ExpOfs) % 2^ExpSize) * 2^FractSize
         + (fract % 2^FractSize))

Exp(w) == RawExp(w) - ExpOfs

UnderflowOrValue(w) == IF RawExp(w) < ExpMin THEN {} ELSE w

(* The loop shifts left until the leading fraction bit is set or the       *)
(* exponent has come down to ExpMin.                                       *)
Normalize(w) ==
  LET f == UFract(w)
      lead == CHOOSE n \in 0 .. FractSize : 2^(FractSize - n) > f
                                         /\ (n < FractSize => 2^(FractSize - n - 1) <= f)
      room == IF RawExp(w) > ExpMin THEN RawExp(w) - ExpMin ELSE 0
      n == IF lead < room THEN lead ELSE room
  IN  IF f = 0 THEN {} ELSE CFloat(Exp(w) - n, IsPositive(w), f * 2^n)

(* Mutant: the carry out of the fraction is lost. *)
SumToFloatNoCarry(top, positive, size) == CFloat(top, positive, size)
SumToFloat(top, positive, size) ==
  IF size >= 2^FractSize THEN CFloat(top + 1, positive, size \div 2)
                         ELSE CFloat(top, positive, size)

Add(x, y) ==
  LET a == UnderflowOrValue(x)
      b == UnderflowOrValue(y)
      top == IF Exp(a) > Exp(b) THEN Exp(a) ELSE Exp(b)
      fa == UFract(a) \div 2^(top - Exp(a))
      fb == UFract(b) \div 2^(top - Exp(b))
      sum == (IF IsPositive(a) THEN fa ELSE -fa) + (IF IsPositive(b) THEN fb ELSE -fb)
      positive == IF IsPositive(a) = IsPositive(b) THEN IsPositive(a) ELSE sum >= 0
      size == IF sum < 0 THEN -sum ELSE sum
  IN  UnderflowOrValue(Normalize(SumToFloat(top, positive, size)))

Negate(x) == Xor(x, {W - 1})
Sub(x, y) == Add(x, Negate(y))

(* The array multiplier: the multiplicand is shifted right, and loses its  *)
(* low bits, for every bit of the multiplier.                              *)
Product(fa, fb) ==
  MapThenSumSet(LAMBDA n : IF (fb \div 2^(FractSize - 1 - n)) % 2 = 1
                           THEN (fa * 2^Guard) \div 2^n ELSE 0, 0 .. FractSize - 1)

MultBy(x, y, rounding, half, twoMinus, integer) ==
  LET a == IF RawExp(x) = 0 THEN x ELSE UnderflowOrValue(x)
      b == IF RawExp(y) = 0 THEN y ELSE UnderflowOrValue(y)
      factor == Correction + (IF rounding THEN 2^(Guard - 1) + 2^(Guard - 2) ELSE 0)
                + (IF half THEN 2^(HalfDrop + Guard - 2) + 2^(HalfDrop + Guard - 3) ELSE 0)
      raw == (IF twoMinus THEN factor - Product(UFract(a), UFract(b))
                          ELSE factor + Product(UFract(a), UFract(b)))
             % 2^(FractSize + 2 * Guard)                          \* uint64_t
      carry == (raw \div 2^(FractSize + Guard)) % 2 = 1
      exp == Exp(a) + Exp(b) + (IF carry THEN 1 ELSE 0)
      fract == IF carry THEN raw \div 2 ELSE raw
      drop == 2^(HalfDrop + Guard)
      positive == IsPositive(a) = IsPositive(b)
  IN  IF a = {} \/ b = {} THEN {}
      ELSE IF integer THEN CFloat(-ExpOfs, positive, raw \div 2^(Guard + 1))
      ELSE IF exp + ExpOfs < ExpMin THEN {}
      ELSE CFloat(exp, positive, (IF half THEN fract - (fract % drop) ELSE fract) \div 2^Guard)

Mult(x, y, rounding, half, twoMinus) ==
  MultBy(x, y, rounding, half, twoMinus, RawExp(x) = 0 /\ RawExp(y) = 0)

RoundedMult(x, y) == Mult(x, y, TRUE, FALSE, FALSE)
HalfPrecisionMult(x, y) == Mult(x, y, FALSE, TRUE, FALSE)
ReciprocIterate(x, y) == Mult(x, y, FALSE, FALSE, TRUE)

-----------------------------------------------------------------------------
PopulationCnt(w) == Cardinality(w)
PopulationCntParity(w) == Cardinality(w) % 2
LeadingZeroCnt(w) == IF w = {} THEN W ELSE W - 1 - Max(w)

ShiftRight(w, n) == IF n >= W THEN {} ELSE {b - n : b \in {c \in w : c >= n}}
ShiftLeft(w, n) == IF n >= W THEN {} ELSE {b + n : b \in {c \in w : c + n < W}}

(* Mutant: the case of a shift by a whole word and more is missing. *)
DoubleShiftRightShort(first, second, n) ==
  IF n = 0 THEN second ELSE ShiftRight(second, n) \cup ShiftLeft(first, W - (n % W))
DoubleShiftRight(first, second, n) ==
  IF n >= 2 * W THEN {}
  ELSE IF n >= W THEN ShiftRight(first, n - W)
  ELSE IF n = 0 THEN second
  ELSE ShiftRight(second, n) \cup ShiftLeft(first, W - n)

DoubleShiftLeft(first, second, n) ==
  IF n >= 2 * W THEN {}
  ELSE IF n >= W THEN ShiftLeft(second, n - W)
  ELSE IF n = 0 THEN first
  ELSE ShiftLeft(first, n) \cup ShiftRight(second, W - n)
=============================================================================
