------------------------------- MODULE Numbers -------------------------------
(***************************************************************************)
(* The numbers of native types, at small widths: the integers of SKG, and  *)
(* binary floats of two precisions.  Floats are integers times powers of   *)
(* two; fractions would only shift the exponents.                          *)
(***************************************************************************)
EXTENDS Integers

CONSTANTS
  Width,               \* i64: bits of an integer
  Single, Double,      \* f32, f64: bits of the mantissa
  MaxExponent          \* of a single float that is finite

ASSUME NumbersAssumption ==
  /\ Width \in Nat \ {0} /\ Single \in Nat \ {0} /\ Double \in Nat \ {0}
  /\ Single < Double /\ MaxExponent \in Nat

MinInt == - 2 ^ (Width - 1)

MaxInt == 2 ^ (Width - 1) - 1

Magnitude(n) == IF n < 0 THEN - n ELSE n

Sign(n) == IF n < 0 THEN - 1 ELSE 1

\* Magnitudes have fewer bits than this.
MaxBits == 2 * Width

BitLength(m) == CHOOSE b \in 0..MaxBits : m < 2 ^ b /\ (b > 0 => 2 ^ (b - 1) <= m)

\* All bits of zero are zero bits.
TrailingZeros(m) ==
  IF m = 0 THEN Width
  ELSE CHOOSE z \in 0..MaxBits : m % 2 ^ z = 0 /\ m % 2 ^ (z + 1) # 0

integer_exact(n, precision) ==
  LET needed == BitLength(Magnitude(n)) - precision
  IN  needed <= 0 \/ TrailingZeros(Magnitude(n)) >= needed

\* The conversion `as` of the language: the nearest float, and of two the one with
\* an even mantissa.
Rounded(n, precision) ==
  LET m == Magnitude(n)
      length == BitLength(m)
      unit == IF length > precision THEN 2 ^ (length - precision) ELSE 1
      rest == m % unit
      up == 2 * rest > unit \/ (2 * rest = unit /\ (m \div unit) % 2 = 1)
  IN  Sign(n) * ((m \div unit) + (IF up THEN 1 ELSE 0)) * unit

FiniteSingle(n) == Magnitude(n) < 2 ^ (Single + MaxExponent)

\* What a conversion may lose, said without bits: a number is a float of a
\* precision if it is a product of a mantissa and a power of two.
IsFloat(n, precision) ==
  \E e \in 0..MaxBits : \E m \in 0..(2 ^ precision - 1) : Magnitude(n) = m * 2 ^ e
=============================================================================
