------------------------------- MODULE Float16 -------------------------------
(***************************************************************************)
(* util.h and dllmain.cpp: what becomes of the x of a vertex of the HUD    *)
(* glass.  It is stored in 16 bits, widened by float32, multiplied by      *)
(* s_scale and narrowed by float16, which flush and clamp instead of       *)
(* handling denormals and infinities.                                      *)
(*                                                                         *)
(* A number is its bits: a half one of 0 .. 2^16 - 1, a float a sign and   *)
(* the other 31 bits, with the masks and shifts of the code as quotients   *)
(* and remainders.                                                         *)
(***************************************************************************)
EXTENDS Integers

CONSTANTS
  Halves,   \* the coordinates that a mesh may hold
  Scales    \* the values of s_scale, as the bits of a float that is not negative

SignBit == 32768            \* 0x8000
HalfOne == 1024             \* the least normal half, 0x0400
HalfInfinity == 31744       \* 0x7c00
HalfMax == 31743            \* 0x7bff

Mantissa == 8388608         \* 2^23
One == 1065353216           \* 1.0f
Infinity == 2139095040      \* 0x7f800000

ASSUME Float16Assumption ==
  /\ Halves \subseteq Nat /\ \A h \in Halves : h < 2 * SignBit
  /\ Scales \subseteq Nat

VARIABLES
  x,       \* the half in the vertex buffer
  given,   \* the half that the mesh was loaded with
  scale,   \* the value of s_scale that is read
  f,       \* the float on the stack
  stage    \* "loaded", "wide", "scaled" or "stored"

vars == <<x, given, scale, f, stage>>

Sign(h) == h \div SignBit
Magnitude(h) == h % SignBit
Exponent(bits) == bits \div Mantissa

Float32(h) ==
  [sign |-> Sign(h),
   bits |-> IF Magnitude(h) < HalfOne THEN 0 ELSE Magnitude(h) * 8192 + 939524096]

\* Mutant: a number that is too large wraps instead of being clamped.
NarrowWraps(bits) ==
  IF Exponent(bits) < 113 THEN 0 ELSE (bits \div 8192 - 114688) % SignBit

\* Mutant: the exponent of the largest halves is clamped as well.
NarrowClampsEarly(bits) ==
  IF Exponent(bits) < 113 THEN 0
  ELSE IF Exponent(bits) >= 142 THEN HalfMax ELSE bits \div 8192 - 114688

\* Flush to zero, clamp to the largest half, or cut off thirteen bits.
Narrow(bits) ==
  IF Exponent(bits) < 113 THEN 0
  ELSE IF Exponent(bits) > 142 THEN HalfMax ELSE bits \div 8192 - 114688

ToFloat16(g) == Narrow(g.bits) + g.sign * SignBit

-----------------------------------------------------------------------------
(* The product of a widened half and a scale, rounded to the nearest float *)
(* as the processor does.                                                  *)

\* The product of the significands, of 11 and 24 bits, is High * 4096 + Low.
Significand(bits) == Mantissa + (bits % Mantissa)
Short(bits) == Significand(bits) \div 8192
Low(a, b) == (Short(a) * (Significand(b) % 4096)) % 4096
High(a, b) ==
  Short(a) * (Significand(b) \div 4096) + ((Short(a) * (Significand(b) % 4096)) \div 4096)

Nearest(quotient, rest, unit) ==
  IF 2 * rest > unit \/ (2 * rest = unit /\ quotient % 2 = 1) THEN quotient + 1
  ELSE quotient

\* The significand of the product has 34 or 35 bits.
Carries(a, b) == High(a, b) >= 4194304
Rounded(a, b) ==
  LET unit == IF Carries(a, b) THEN 2048 ELSE 1024 IN
  Nearest(High(a, b) * (4096 \div unit) + (Low(a, b) \div unit), Low(a, b) % unit, unit)

ProductExponent(a, b) ==
  Exponent(a) + Exponent(b) - 127 + IF Carries(a, b) THEN 1 ELSE 0

Product(a, b) ==
  IF b >= Infinity THEN Infinity
  ELSE IF a = 0 \/ Exponent(b) = 0 \/ ProductExponent(a, b) < 1 THEN 0
  ELSE IF ProductExponent(a, b) > 254 THEN Infinity
  ELSE (ProductExponent(a, b) - 1) * Mantissa + Rounded(a, b)

\* The product of zero and infinity is the negative of the two quiet NaNs, and
\* so is 0.f / 0.f, which a scale above Infinity stands for.
Times(g, b) ==
  [sign |-> IF b > Infinity \/ (b = Infinity /\ g.bits = 0) THEN 1 ELSE g.sign,
   bits |-> Product(g.bits, b)]

-----------------------------------------------------------------------------
(* One round of the loop of BSTriShapeParse. *)

Init ==
  /\ x \in Halves
  /\ given = x
  /\ scale \in Scales
  /\ f = Float32(0)
  /\ stage = "loaded"

Stage(from, to) == stage = from /\ stage' = to

Widen ==
  /\ Stage("loaded", "wide")
  /\ f' = Float32(x)
  /\ UNCHANGED <<x, given, scale>>

Scale ==
  /\ Stage("wide", "scaled")
  /\ f' = Times(f, scale)
  /\ UNCHANGED <<x, given, scale>>

\* Mutant: the product is rounded up to the next half.
StoreRoundsUp ==
  /\ Stage("scaled", "stored")
  /\ x' = ToFloat16([f EXCEPT !.bits = @ + 8191])
  /\ UNCHANGED <<given, scale, f>>

Store ==
  /\ Stage("scaled", "stored")
  /\ x' = ToFloat16(f)
  /\ UNCHANGED <<given, scale, f>>

Next == Widen \/ Scale \/ Store

Spec == Init /\ [][Next]_vars

-----------------------------------------------------------------------------
(* Correctness. *)

\* Whatever s_scale is, also after a division by a height of zero, the mesh
\* is never given an infinity or something that is not a number
\* (dllmain.cpp:228-230, util.h:193-216).
NeverInfinite == stage = "stored" => Magnitude(x) < HalfInfinity

InRange(h) == IF h < HalfOne THEN 0 ELSE IF h > HalfMax THEN HalfMax ELSE h

\* At 16:9 the scale is 1 and the glass is left as it is, down to the bit,
\* except that a denormal becomes zero and an infinity the largest half
\* (dllmain.cpp:229-230, 244-249).
SameAspectKeeps ==
  stage = "stored" /\ scale = One =>
    /\ Sign(x) = Sign(given)
    /\ Magnitude(x) = InRange(Magnitude(given))

Supported(h) == Magnitude(h) \in HalfOne .. HalfMax
Finite(b) == Exponent(b) \in 1 .. 254

\* The exact product cut off to the eleven bits of a half, as a half.
CutOff(a, b) ==
  (ProductExponent(a, b) - 113) * 1024
    + (IF Carries(a, b) THEN High(a, b) \div 4096 ELSE High(a, b) \div 2048)

\* The thirteen bits behind them, which all are ones just below the next half.
Behind(a, b) ==
  IF Carries(a, b) THEN (High(a, b) % 4096) * 2 + (Low(a, b) \div 2048)
  ELSE (High(a, b) % 2048) * 4 + (Low(a, b) \div 1024)

\* Rounding twice is harmless: the coordinate is the exact product cut off, or
\* the next half if the product is so close to it that its float is that half;
\* outside of the range it is zero or the largest half
\* (dllmain.cpp:244-249, util.h:200-215).
ProductCutOff ==
  stage = "stored" /\ Finite(scale) /\ Supported(given) =>
    LET a == Float32(given).bits
        exact == CutOff(a, scale)
        nearly == Behind(a, scale) = 8191
    IN /\ Sign(x) = Sign(given)
       /\ Magnitude(x) = InRange(exact) \/ (nearly /\ Magnitude(x) = InRange(exact + 1))

Coordinate(h) == IF Sign(h) = 1 THEN -Magnitude(h) ELSE Magnitude(h)
Place(h) == ToFloat16(Times(Float32(h), scale))

\* A vertex does not change sides with its neighbour: of two coordinates that
\* follow each other the first is not placed behind the second (dllmain.cpp:244-249).
OrderKept ==
  stage = "stored" /\ Finite(scale) /\ Supported(given) /\ Supported(given + 1) =>
    IF Sign(given) = 1 THEN Coordinate(Place(given + 1)) <= Coordinate(x)
    ELSE Coordinate(x) <= Coordinate(Place(given + 1))
=============================================================================
