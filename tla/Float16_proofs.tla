---------------------------- MODULE Float16_proofs ---------------------------
(***************************************************************************)
(* Proofs about Float16: what the loop of BSTriShapeParse leaves in the    *)
(* mesh for every half and every scale.  The product of two significands   *)
(* is the only one of two unknowns; Parts bounds it, and from there on the *)
(* arithmetic is linear.                                                   *)
(***************************************************************************)
EXTENDS Float16, WellFoundedInduction, TLAPS

IsWord(h) == h \in Nat /\ h <= 65535

\* What stage each variable belongs to.
Inv ==
  /\ IsWord(given)
  /\ scale \in Nat
  /\ stage \in {"loaded", "wide", "scaled", "stored"}
  /\ stage # "stored" => x = given
  /\ stage = "wide" => f = Float32(given)
  /\ stage = "scaled" => f = Times(Float32(given), scale)
  /\ stage = "stored" => x = ToFloat16(Times(Float32(given), scale))

-----------------------------------------------------------------------------
(* The operators. *)

\* Flushing and clamping leave a finite half without a sign, whatever the bits.
LEMMA NarrowRange ==
  ASSUME NEW b \in Int
  PROVE  Narrow(b) \in Nat /\ Narrow(b) <= HalfMax
<1>1. CASE Exponent(b) < 113
  BY SMT, <1>1 DEF Narrow, HalfMax
<1>2. CASE Exponent(b) > 142
  BY SMT, <1>2 DEF Narrow, HalfMax, Exponent, Mantissa
<1>3. CASE Exponent(b) >= 113 /\ Exponent(b) <= 142
  <2>0. Exponent(b) \in Int
    BY SMT DEF Exponent, Mantissa
  <2>1. b \div 8192 - 114688 \in Nat /\ b \div 8192 - 114688 <= HalfMax
    BY SMT, <1>3 DEF HalfMax, Exponent, Mantissa
  <2> QED
    BY SMT, <1>3, <2>0, <2>1 DEF Narrow
<1> QED
  BY SMT, <1>1, <1>2, <1>3 DEF Exponent, Mantissa

\* The sign goes into the highest bit and nowhere else.
LEMMA Stored ==
  ASSUME NEW g, g.bits \in Int, g.sign \in {0, 1}
  PROVE  /\ IsWord(ToFloat16(g))
         /\ Magnitude(ToFloat16(g)) = Narrow(g.bits)
         /\ Sign(ToFloat16(g)) = g.sign
<1> DEFINE n == Narrow(g.bits)  s == g.sign
<1>1. n \in Nat /\ n <= HalfMax /\ s \in {0, 1}
  BY NarrowRange
<1>2. ToFloat16(g) = n + s * SignBit
  BY DEF ToFloat16
<1> HIDE DEF n, s
<1>3. /\ n + s * 32768 \in Nat /\ n + s * 32768 <= 65535
      /\ (n + s * 32768) % 32768 = n
      /\ (n + s * 32768) \div 32768 = s
  <2>1. CASE s = 0
    BY SMT, <1>1, <2>1 DEF HalfMax
  <2>2. CASE s = 1
    BY SMT, <1>1, <2>2 DEF HalfMax
  <2> QED
    BY SMT, <1>1, <2>1, <2>2
<1>4. ToFloat16(g) = n + s * 32768
  BY SMT, <1>2 DEF SignBit
<1>5. /\ Magnitude(ToFloat16(g)) = ToFloat16(g) % 32768
      /\ Sign(ToFloat16(g)) = ToFloat16(g) \div 32768
  BY SMT DEF Magnitude, Sign, SignBit
<1>6. /\ IsWord(ToFloat16(g))
      /\ Magnitude(ToFloat16(g)) = n
      /\ Sign(ToFloat16(g)) = s
  BY SMT, <1>3, <1>4, <1>5 DEF IsWord
<1> QED
  BY SMT, <1>6 DEF n, s

\* A widened half has whole bits.
LEMMA Wide ==
  ASSUME NEW h, IsWord(h)
  PROVE  /\ Float32(h).bits \in Nat
         /\ Float32(h).sign = Sign(h) /\ Sign(h) \in {0, 1}
BY SMT DEF Float32, Magnitude, SignBit, IsWord, HalfOne, Sign

\* A product has whole bits and a sign.
LEMMA ProductType ==
  ASSUME NEW a \in Nat, NEW b \in Nat
  PROVE  Product(a, b) \in Int
<1> DEFINE s == Short(a)  u == Significand(b)
<1>1. s \in Int /\ u \in Int
  BY SMT DEF Short, Significand, Mantissa
<1>2. u \div 4096 \in Int /\ u % 4096 \in Int
  BY SMT, <1>1
<1> HIDE DEF s, u
<1>3. s * (u \div 4096) \in Int /\ s * (u % 4096) \in Int
  BY SMT, <1>1, <1>2
<1>4. High(a, b) \in Int /\ Low(a, b) \in Int
  <2>1. High(a, b) = s * (u \div 4096) + ((s * (u % 4096)) \div 4096)
    BY SMT DEF High, s, u
  <2>2. Low(a, b) = (s * (u % 4096)) % 4096
    BY SMT DEF Low, s, u
  <2> QED
    BY SMT, <1>3, <2>1, <2>2
<1>5. Rounded(a, b) \in Int
  BY SMT, <1>4 DEF Rounded, Nearest
<1>6. ProductExponent(a, b) \in Int
  BY SMT DEF ProductExponent, Exponent, Mantissa
<1> QED
  BY SMT, <1>5, <1>6 DEF Product, Infinity, Mantissa

LEMMA TimesType ==
  ASSUME NEW h, IsWord(h), NEW b \in Nat
  PROVE  /\ Times(Float32(h), b).bits \in Int
         /\ Times(Float32(h), b).sign \in {0, 1}
<1>1. Float32(h).bits \in Nat /\ Float32(h).sign \in {0, 1}
  BY SMT, Wide
<1>2. Product(Float32(h).bits, b) \in Int
  BY SMT, <1>1, ProductType
<1> QED
  BY SMT, <1>1, <1>2 DEF Times

\* Multiplying a normal half by one gives the same bits.
LEMMA TimesOne ==
  ASSUME NEW m \in Nat, m >= HalfOne, m <= 32767
  PROVE  Product(m * 8192 + 939524096, One) = m * 8192 + 939524096
<1> DEFINE a == m * 8192 + 939524096
<1>1. a \in Nat /\ a # 0 /\ a % Mantissa = (m % 1024) * 8192
        /\ Exponent(a) = m \div 1024 + 112
  BY SMT DEF Mantissa, Exponent, HalfOne
<1>2. Short(a) = 1024 + (m % 1024)
  BY SMT, <1>1 DEF Short, Significand, Mantissa
<1>3. Significand(One) = 8388608 /\ Exponent(One) = 127
  BY SMT DEF Significand, Mantissa, One, Exponent
<1> HIDE DEF a
<1>4. Significand(One) % 4096 = 0 /\ Significand(One) \div 4096 = 2048
  BY SMT, <1>3
<1>5. Low(a, One) = 0 /\ High(a, One) = Short(a) * 2048
  BY SMT, <1>2, <1>4 DEF Low, High
<1>6. ~Carries(a, One)
  BY SMT, <1>2, <1>5 DEF Carries
<1>7. Rounded(a, One) = Short(a) * 8192
  BY SMT, <1>2, <1>5, <1>6 DEF Rounded, Nearest
<1>8. ProductExponent(a, One) = m \div 1024 + 112
  BY SMT, <1>1, <1>3, <1>6 DEF ProductExponent
<1>9. /\ ProductExponent(a, One) \in Int
      /\ ProductExponent(a, One) >= 1 /\ ProductExponent(a, One) <= 254
  BY SMT, <1>8 DEF HalfOne
<1>10. Product(a, One) = (ProductExponent(a, One) - 1) * Mantissa + Rounded(a, One)
  BY SMT, <1>1, <1>3, <1>9 DEF Product, One, Infinity
<1>11. m = (m \div 1024) * 1024 + (m % 1024) /\ m \div 1024 \in Nat /\ m % 1024 \in Nat
  BY SMT DEF HalfOne
<1>12. Product(a, One) = (m \div 1024 + 111) * 8388608 + (1024 + (m % 1024)) * 8192
  <2>1. ProductExponent(a, One) - 1 = m \div 1024 + 111
    BY SMT, <1>8, <1>11
  <2>2. Rounded(a, One) = (1024 + (m % 1024)) * 8192
    BY SMT, <1>2, <1>7
  <2> QED
    BY SMT, <1>10, <2>1, <2>2 DEF Mantissa
<1>13. (m \div 1024 + 111) * 8388608 + (1024 + (m % 1024)) * 8192 = m * 8192 + 939524096
  <2>1. ASSUME NEW q \in Nat, NEW r \in Nat
        PROVE  (q + 111) * 8388608 + (1024 + r) * 8192 = (q * 1024 + r) * 8192 + 939524096
    BY SMT
  <2> QED
    BY SMT, <1>11, <2>1
<1> QED
  <2>1. Product(a, One) = m * 8192 + 939524096
    BY SMT, <1>12, <1>13
  <2> QED
    BY SMT, <2>1 DEF a

\* A half that goes through float32 and float16 with a scale of one.
LEMMA RoundTrip ==
  ASSUME NEW h, IsWord(h)
  PROVE  Narrow(Times(Float32(h), One).bits) = InRange(Magnitude(h))
<1>1. PICK m \in Nat : m <= 32767 /\ m = Magnitude(h)
  BY SMT DEF Magnitude, SignBit, IsWord
<1>2. Times(Float32(h), One).bits = Product(Float32(h).bits, One)
  BY SMT DEF Times
<1>3. Float32(h).bits = IF m < HalfOne THEN 0 ELSE m * 8192 + 939524096
  BY SMT, <1>1 DEF Float32
<1>4. CASE m < HalfOne
  <2>1. Product(0, One) = 0
    BY SMT DEF Product, One, Infinity
  <2>2. Narrow(0) = 0
    BY SMT DEF Narrow, Exponent, Mantissa
  <2> QED
    BY SMT, <1>1, <1>2, <1>3, <1>4, <2>1, <2>2 DEF InRange
<1>5. CASE m >= HalfOne
  <2>1. m \in Nat /\ m >= HalfOne /\ m <= 32767
    BY SMT, <1>1, <1>5 DEF HalfOne
  <2>2. Times(Float32(h), One).bits = m * 8192 + 939524096
    BY SMT, <1>2, <1>3, <1>5, <2>1, TimesOne DEF HalfOne
  <2>3. Exponent(m * 8192 + 939524096) = m \div 1024 + 112
    BY SMT, <2>1 DEF Exponent, Mantissa, HalfOne
  <2>4. (m * 8192 + 939524096) \div 8192 - 114688 = m
    BY SMT, <2>1 DEF HalfOne
  <2>5. Narrow(m * 8192 + 939524096) = IF m > HalfMax THEN HalfMax ELSE m
    BY SMT, <2>1, <2>3, <2>4 DEF Narrow, HalfMax, HalfOne
  <2> QED
    BY SMT, <1>1, <1>5, <2>1, <2>2, <2>5 DEF InRange, HalfOne
<1> QED
  BY SMT, <1>4, <1>5 DEF HalfOne

-----------------------------------------------------------------------------
(* The product. *)

Within(n, least, most) == n \in Int /\ least <= n /\ n <= most

\* The parts of a widened half.
LEMMA WideParts ==
  ASSUME NEW m \in Nat, m >= HalfOne, m <= HalfMax
  PROVE  LET a == m * 8192 + 939524096
         IN  /\ a \in Nat /\ a # 0
             /\ Exponent(a) = m \div 1024 + 112 /\ Within(Exponent(a), 113, 142)
             /\ Short(a) = 1024 + (m % 1024) /\ Within(Short(a), 1024, 2047)
<1> USE DEF Within
<1> DEFINE a == m * 8192 + 939524096
<1>1. a \in Nat /\ a # 0 /\ a % Mantissa = (m % 1024) * 8192
      /\ Exponent(a) = m \div 1024 + 112 /\ Within(Exponent(a), 113, 142)
  BY SMT DEF Mantissa, Exponent, HalfOne, HalfMax
<1>2. Short(a) = 1024 + (m % 1024)
  BY SMT, <1>1 DEF Short, Significand, Mantissa
<1>3. Within(1024 + (m % 1024), 1024, 2047)
  BY SMT
<1> HIDE DEF a
<1>4. /\ a \in Nat /\ a # 0
      /\ Exponent(a) = m \div 1024 + 112 /\ Within(Exponent(a), 113, 142)
      /\ Short(a) = 1024 + (m % 1024) /\ Within(Short(a), 1024, 2047)
  BY SMT, <1>1, <1>2, <1>3
<1> QED
  BY SMT, <1>4 DEF a

\* Limits of a product.
LEMMA Bounds ==
  ASSUME NEW p \in Nat, NEW q \in Nat, NEW p0 \in Nat, NEW p1 \in Nat, NEW q0 \in Nat, NEW q1 \in Nat,
         p0 <= p, p <= p1, q0 <= q, q <= q1
  PROVE  p0 * q0 <= p * q /\ p * q <= p1 * q1
<1> USE DEF Within
<1>1. p0 * q0 <= p * q0 /\ p * q0 <= p * q
  BY SMT
<1>2. p * q <= p1 * q /\ p1 * q <= p1 * q1
  BY SMT
<1>3. /\ p0 * q0 \in Nat /\ p * q0 \in Nat /\ p * q \in Nat /\ p1 * q \in Nat
      /\ p1 * q1 \in Nat
  BY SMT
<1> QED
  BY SMT, <1>1, <1>2, <1>3

LEMMA SignificandRange ==
  ASSUME NEW b \in Nat
  PROVE  /\ Within(Significand(b), 8388608, 16777215)
         /\ Within(Significand(b) \div 4096, 2048, 4095)
         /\ Within(Significand(b) % 4096, 0, 4095)
         /\ Significand(b) = (Significand(b) \div 4096) * 4096 + (Significand(b) % 4096)
<1> USE DEF Within
<1>1. Within(Significand(b), 8388608, 16777215)
  BY SMT DEF Significand, Mantissa
<1> QED
  BY SMT, <1>1

\* High and Low are the two parts of the product of the significands.
LEMMA Parts ==
  ASSUME NEW a \in Nat, NEW b \in Nat, Within(Short(a), 1024, 2047)
  PROVE  /\ Within(High(a, b), 2097152, 8388607)
         /\ Within(Low(a, b), 0, 4095)
         /\ High(a, b) * 4096 + Low(a, b) = Short(a) * Significand(b)
<1> USE DEF Within
<1> DEFINE s == Short(a)
           u == Significand(b)
           high == u \div 4096
           low == u % 4096
           sh == s * high
           sl == s * low
<1>1. /\ Within(s, 1024, 2047) /\ Within(high, 2048, 4095) /\ Within(low, 0, 4095)
      /\ u = high * 4096 + low
  BY SMT, SignificandRange
<1>2. High(a, b) = sh + (sl \div 4096) /\ Low(a, b) = sl % 4096
  BY SMT DEF High, Low
<1> HIDE DEF s, u, high, low
<1>3. /\ 1024 * 2048 <= sh /\ sh <= s * 4095
      /\ 0 <= sl /\ sl <= s * 4095
      /\ sh \in Nat /\ sl \in Nat
  <2>1. s \in Nat /\ high \in Nat /\ low \in Nat
    BY SMT, <1>1
  <2>2. 1024 * 2048 <= s * high /\ s * high <= s * 4095
    BY SMT, <1>1, <2>1, Bounds
  <2>3. 0 <= s * low /\ s * low <= s * 4095
    BY SMT, <1>1, <2>1
  <2>4. s * high \in Nat /\ s * low \in Nat
    BY SMT, <2>1
  <2> QED
    BY SMT, <2>2, <2>3, <2>4
<1>4. s * u = sh * 4096 + sl
  <2>1. ASSUME NEW i \in Int, NEW j \in Int, NEW k \in Int
        PROVE  i * (j * 4096 + k) = (i * j) * 4096 + (i * k)
    BY SMT
  <2>2. s \in Int /\ high \in Int /\ low \in Int
    BY SMT, <1>1
  <2> QED
    BY SMT, <1>1, <2>1, <2>2
<1> HIDE DEF sh, sl
<1>5. /\ Within(sh + (sl \div 4096), 2097152, 8388607)
      /\ Within(sl % 4096, 0, 4095)
      /\ (sh + (sl \div 4096)) * 4096 + (sl % 4096) = sh * 4096 + sl
  BY SMT, <1>1, <1>3
<1> QED
  BY SMT, <1>2, <1>4, <1>5 DEF s, u

\* The bits of the product that a float keeps, before they are rounded.
Quotient(a, b) ==
  IF Carries(a, b) THEN High(a, b) * 2 + (Low(a, b) \div 2048)
  ELSE High(a, b) * 4 + (Low(a, b) \div 1024)

\* Rounding gives them or the next float.
LEMMA RoundedIs ==
  ASSUME NEW a \in Nat, NEW b \in Nat, Within(Short(a), 1024, 2047)
  PROVE  /\ Within(Quotient(a, b), 8388608, 16777215)
         /\ Rounded(a, b) \in {Quotient(a, b), Quotient(a, b) + 1}
<1>1. Within(High(a, b), 2097152, 8388607) /\ Within(Low(a, b), 0, 4095)
  BY SMT, Parts
<1> USE DEF Within
<1>2. CASE Carries(a, b)
  <2>1. High(a, b) >= 4194304
    BY SMT, <1>2 DEF Carries
  <2> QED
    BY SMT, <1>1, <1>2, <2>1 DEF Quotient, Rounded, Nearest
<1>3. CASE ~Carries(a, b)
  <2>1. ~(High(a, b) >= 4194304)
    BY SMT, <1>3 DEF Carries
  <2> QED
    BY SMT, <1>1, <1>3, <2>1 DEF Quotient, Rounded, Nearest
<1> QED
  BY SMT, <1>2, <1>3

\* What a half keeps of them, and what it does not.
LEMMA CutOffIs ==
  ASSUME NEW a \in Nat, NEW b \in Nat, Within(Short(a), 1024, 2047)
  PROVE  /\ CutOff(a, b) = (ProductExponent(a, b) - 113) * 1024 + (Quotient(a, b) \div 8192)
         /\ Behind(a, b) = Quotient(a, b) % 8192
<1>1. Within(High(a, b), 2097152, 8388607) /\ Within(Low(a, b), 0, 4095)
  BY SMT, Parts
<1> USE DEF Within
<1>2. CASE Carries(a, b)
  <2>1. ASSUME NEW n \in Nat, NEW d \in Nat, d < 2
        PROVE  /\ (n * 2 + d) \div 8192 = n \div 4096
               /\ (n * 2 + d) % 8192 = (n % 4096) * 2 + d
    BY SMT, <2>1
  <2>2. High(a, b) \in Nat /\ Low(a, b) \div 2048 \in Nat /\ Low(a, b) \div 2048 < 2
    BY SMT, <1>1
  <2> QED
    BY SMT, <1>2, <2>1, <2>2 DEF Quotient, CutOff, Behind
<1>3. CASE ~Carries(a, b)
  <2>1. ASSUME NEW n \in Nat, NEW d \in Nat, d < 4
        PROVE  /\ (n * 4 + d) \div 8192 = n \div 2048
               /\ (n * 4 + d) % 8192 = (n % 2048) * 4 + d
    BY SMT, <2>1
  <2>2. High(a, b) \in Nat /\ Low(a, b) \div 1024 \in Nat /\ Low(a, b) \div 1024 < 4
    BY SMT, <1>1
  <2> QED
    BY SMT, <1>3, <2>1, <2>2 DEF Quotient, CutOff, Behind
<1> QED
  BY SMT, <1>2, <1>3

\* The half that is stored is the exact product cut off, or the next one.
LEMMA NarrowProduct ==
  ASSUME NEW a \in Nat, NEW b \in Nat, a # 0, Within(Short(a), 1024, 2047), Finite(b)
  PROVE  LET exact == CutOff(a, b)
         IN  \/ Narrow(Product(a, b)) = InRange(exact)
             \/ Behind(a, b) = 8191 /\ Narrow(Product(a, b)) = InRange(exact + 1)
<1> USE DEF Within
<1> DEFINE e == ProductExponent(a, b)
           q == Quotient(a, b)
           r == Rounded(a, b)
<1>1. e \in Int
  BY SMT DEF ProductExponent, Exponent, Mantissa
<1>2. Within(q, 8388608, 16777215) /\ r \in {q, q + 1}
  BY SMT, RoundedIs
<1>3. CutOff(a, b) = (e - 113) * 1024 + (q \div 8192) /\ Behind(a, b) = q % 8192
  BY SMT, CutOffIs
<1>4. Product(a, b) = IF e < 1 THEN 0
                      ELSE IF e > 254 THEN Infinity ELSE (e - 1) * Mantissa + r
  <2>1. ~(b >= Infinity) /\ Exponent(b) # 0
    BY SMT DEF Finite, Exponent, Mantissa, Infinity
  <2> QED
    BY SMT, <2>1 DEF Product
<1> HIDE DEF e, q, r
<1>5. CASE e < 1
  <2>1. Narrow(0) = 0
    BY SMT DEF Narrow, Exponent, Mantissa
  <2>2. (e - 113) * 1024 + (q \div 8192) < HalfOne
    BY SMT, <1>1, <1>2, <1>5 DEF HalfOne
  <2> QED
    BY SMT, <1>3, <1>4, <1>5, <2>1, <2>2 DEF InRange
<1>6. CASE e > 254
  <2>1. Narrow(Infinity) = HalfMax
    BY SMT DEF Narrow, Exponent, Mantissa, Infinity
  <2>2. (e - 113) * 1024 + (q \div 8192) > HalfMax
    BY SMT, <1>1, <1>2, <1>6 DEF HalfMax
  <2>3. ~((e - 113) * 1024 + (q \div 8192) < HalfOne)
    BY SMT, <1>1, <1>2, <1>6 DEF HalfOne
  <2>4. ~(e < 1)
    BY SMT, <1>1, <1>6
  <2> QED
    BY SMT, <1>3, <1>4, <1>6, <2>1, <2>2, <2>3, <2>4 DEF InRange
<1>7. CASE Within(e, 1, 254)
  <2> DEFINE bits == (e - 1) * 8388608 + r
  <2>1. Product(a, b) = bits
    <3>1. ~(e < 1) /\ ~(e > 254)
      BY SMT, <1>7
    <3> QED
      BY SMT, <1>4, <3>1 DEF Mantissa
  <2>2. /\ Exponent(bits) = e - 1 + (r \div 8388608)
        /\ bits \div 8192 - 114688 = (e - 113) * 1024 + (r \div 8192)
        /\ r \div 8388608 \in {1, 2} /\ (r \div 8388608 = 2 <=> r = 16777216)
    BY SMT, <1>2, <1>7 DEF Exponent, Mantissa
  <2>3. r \div 8192 = q \div 8192 \/ (q % 8192 = 8191 /\ r \div 8192 = q \div 8192 + 1)
    BY SMT, <1>2
  <2>4. Within(q \div 8192, 1024, 2047)
    BY SMT, <1>2
  <2>5. r = 16777216 <=> r \div 8192 = 2048
    BY SMT, <1>2
  <2>6. r \div 8192 \in Int /\ r \div 8388608 \in Int
    BY SMT, <1>2
  <2>7. Narrow(bits) = InRange((e - 113) * 1024 + (r \div 8192))
    <3> DEFINE k == r \div 8192
               c == r \div 8388608
    <3>1. /\ Within(k, 1024, 2048) /\ c \in {1, 2} /\ (c = 2 <=> k = 2048)
      BY SMT, <2>2, <2>3, <2>4, <2>5, <2>6
    <3>2. Narrow(bits) = IF e - 1 + c < 113 THEN 0
                         ELSE IF e - 1 + c > 142 THEN HalfMax ELSE (e - 113) * 1024 + k
      BY SMT, <2>2 DEF Narrow
    <3> HIDE DEF k, c, bits
    <3> QED
      BY SMT, <1>7, <3>1, <3>2 DEF InRange, HalfOne, HalfMax, k
  <2> HIDE DEF bits
  <2>8. CASE r \div 8192 = q \div 8192
    BY SMT, <1>3, <2>1, <2>7, <2>8
  <2>9. CASE q % 8192 = 8191 /\ r \div 8192 = q \div 8192 + 1
    <3>1. (e - 113) * 1024 + (r \div 8192) = (e - 113) * 1024 + (q \div 8192) + 1
      BY SMT, <1>7, <2>4, <2>9
    <3> QED
      BY SMT, <1>3, <2>1, <2>7, <2>9, <3>1
  <2> QED
    BY SMT, <2>3, <2>8, <2>9
<1> QED
  BY SMT, <1>1, <1>5, <1>6, <1>7

-----------------------------------------------------------------------------
(* The order of products. *)

\* The product of the significands, rounded to a multiple of unit.
RoundTo(p, unit) == Nearest(p \div unit, p % unit, unit)

LEMMA RoundedOf ==
  ASSUME NEW a \in Nat, NEW b \in Nat, Within(Short(a), 1024, 2047)
  PROVE  LET p == Short(a) * Significand(b)
         IN  /\ p \in Nat
             /\ Carries(a, b) <=> p >= 4194304 * 4096
             /\ Rounded(a, b) = IF Carries(a, b) THEN RoundTo(p, 2048) ELSE RoundTo(p, 1024)
<1> DEFINE p == Short(a) * Significand(b)
           h == High(a, b)
           l == Low(a, b)
<1>1. Within(h, 2097152, 8388607) /\ Within(l, 0, 4095) /\ h * 4096 + l = p
  BY SMT, Parts
<1> HIDE DEF p
<1>2. Carries(a, b) <=> h >= 4194304
  BY SMT DEF Carries
<1>3. Rounded(a, b) = IF Carries(a, b) THEN Nearest(h * 2 + (l \div 2048), l % 2048, 2048)
                      ELSE Nearest(h * 4 + (l \div 1024), l % 1024, 1024)
  BY SMT DEF Rounded
<1> HIDE DEF h, l
<1> USE DEF Within
<1>4. p \in Nat /\ (h >= 4194304 <=> p >= 4194304 * 4096)
  BY SMT, <1>1
<1>5. p \div 2048 = h * 2 + (l \div 2048) /\ p % 2048 = l % 2048
  BY SMT, <1>1
<1>6. p \div 1024 = h * 4 + (l \div 1024) /\ p % 1024 = l % 1024
  BY SMT, <1>1
<1>7. Rounded(a, b) = IF Carries(a, b) THEN RoundTo(p, 2048) ELSE RoundTo(p, 1024)
  BY SMT, <1>3, <1>5, <1>6 DEF RoundTo
<1> QED
  BY SMT, <1>2, <1>4, <1>7 DEF p

\* Rounding keeps the order.
LEMMA RoundToMonotone ==
  ASSUME NEW p \in Nat, NEW q \in Nat, p <= q, NEW unit \in {1024, 2048}
  PROVE  RoundTo(p, unit) <= RoundTo(q, unit)
<1>1. CASE unit = 1024
  BY SMT, <1>1 DEF RoundTo, Nearest
<1>2. CASE unit = 2048
  BY SMT, <1>2 DEF RoundTo, Nearest
<1> QED
  BY SMT, <1>1, <1>2

\* The bits of a product, but for the exponents that are added.
Carry(a, b) == IF Carries(a, b) THEN 1 ELSE 0
Grown(a, b) == Carry(a, b) * 8388608 + Rounded(a, b)
Exponents(a, b) == Exponent(a) + Exponent(b) - 127

LEMMA ProductIs ==
  ASSUME NEW a \in Nat, NEW b \in Nat, a # 0, Within(Short(a), 1024, 2047), Finite(b)
  PROVE  /\ Exponents(a, b) \in Int /\ Carry(a, b) \in {0, 1} /\ Grown(a, b) \in Nat
         /\ Grown(a, b) >= (Carry(a, b) + 1) * 8388608
         /\ Grown(a, b) <= (Carry(a, b) + 2) * 8388608
         /\ Product(a, b) = IF Exponents(a, b) + Carry(a, b) < 1 THEN 0
                            ELSE IF Exponents(a, b) + Carry(a, b) > 254 THEN 2139095040
                            ELSE (Exponents(a, b) - 1) * 8388608 + Grown(a, b)
<1> DEFINE c == Carry(a, b)
           e == Exponents(a, b)
           r == Rounded(a, b)
<1>1. c \in {0, 1}
  BY SMT DEF Carry
<1>2. e \in Int
  BY SMT DEF Exponents, Exponent, Mantissa
<1>3. r \in Nat /\ r >= 8388608 /\ r <= 16777216
  BY SMT, RoundedIs DEF Within
<1>4. Product(a, b) = IF e + c < 1 THEN 0
                      ELSE IF e + c > 254 THEN 2139095040 ELSE (e + c - 1) * 8388608 + r
  <2>1. ~(b >= Infinity) /\ Exponent(b) # 0
    BY SMT DEF Finite, Exponent, Mantissa, Infinity
  <2>2. ProductExponent(a, b) = e + c
    BY SMT DEF ProductExponent, Exponents, Carry
  <2>3. Product(a, b) = IF ProductExponent(a, b) < 1 THEN 0
                        ELSE IF ProductExponent(a, b) > 254 THEN Infinity
                        ELSE (ProductExponent(a, b) - 1) * Mantissa + r
    BY SMT, <2>1 DEF Product
  <2>4. Infinity = 2139095040 /\ Mantissa = 8388608
    BY SMT DEF Infinity, Mantissa
  <2> HIDE DEF c, e, r
  <2> QED
    BY SMT, <1>1, <1>2, <1>3, <2>2, <2>3, <2>4
<1>5. Grown(a, b) = c * 8388608 + r
  BY SMT DEF Grown
<1> HIDE DEF c, e, r
<1>6. /\ c * 8388608 + r \in Nat
      /\ c * 8388608 + r >= (c + 1) * 8388608 /\ c * 8388608 + r <= (c + 2) * 8388608
      /\ (e + c - 1) * 8388608 + r = (e - 1) * 8388608 + (c * 8388608 + r)
  BY SMT, <1>1, <1>2, <1>3
<1> QED
  BY SMT, <1>1, <1>2, <1>4, <1>5, <1>6 DEF c, e

\* The exponent and the bits decide about the order, up to infinity and down to zero.
LEMMA Compare ==
  ASSUME NEW a \in Nat, NEW b \in Nat, a # 0, Within(Short(a), 1024, 2047), Finite(b),
         NEW a2 \in Nat, a2 # 0, Within(Short(a2), 1024, 2047),
         Exponents(a, b) + Carry(a, b) <= Exponents(a2, b) + Carry(a2, b),
         Exponents(a, b) * 8388608 + Grown(a, b) <= Exponents(a2, b) * 8388608 + Grown(a2, b)
  PROVE  Product(a, b) <= Product(a2, b)
<1>1. ASSUME NEW e \in Int, NEW c \in {0, 1}, NEW g \in Nat, NEW p,
             g >= (c + 1) * 8388608, g <= (c + 2) * 8388608,
             p = IF e + c < 1 THEN 0
                 ELSE IF e + c > 254 THEN 2139095040 ELSE (e - 1) * 8388608 + g,
             NEW e2 \in Int, NEW c2 \in {0, 1}, NEW g2 \in Nat, NEW p2,
             g2 >= (c2 + 1) * 8388608, g2 <= (c2 + 2) * 8388608,
             p2 = IF e2 + c2 < 1 THEN 0
                  ELSE IF e2 + c2 > 254 THEN 2139095040 ELSE (e2 - 1) * 8388608 + g2,
             e + c <= e2 + c2, e * 8388608 + g <= e2 * 8388608 + g2
      PROVE  p <= p2
  BY SMT, <1>1
<1> QED
  BY SMT, <1>1, ProductIs

\* A product has bits of a float.
LEMMA ProductNat ==
  ASSUME NEW m \in Nat, m >= HalfOne, m <= HalfMax, NEW b \in Nat, Finite(b)
  PROVE  Product(m * 8192 + 939524096, b) \in Nat
<1> DEFINE a == m * 8192 + 939524096
<1>1. a \in Nat /\ a # 0 /\ Within(Short(a), 1024, 2047)
  BY SMT, WideParts
<1> HIDE DEF a
<1>2. ASSUME NEW e \in Int, NEW c \in {0, 1}, NEW g \in Nat, g >= (c + 1) * 8388608
      PROVE  (IF e + c < 1 THEN 0 ELSE IF e + c > 254 THEN 2139095040
              ELSE (e - 1) * 8388608 + g) \in Nat
  BY SMT, <1>2
<1>3. Product(a, b) \in Nat
  BY SMT, <1>1, <1>2, ProductIs
<1> QED
  BY SMT, <1>3 DEF a

\* Of two neighbours the greater has the greater product.
LEMMA NextProduct ==
  ASSUME NEW m \in Nat, m >= HalfOne, m + 1 <= HalfMax, NEW b \in Nat, Finite(b)
  PROVE  Product(m * 8192 + 939524096, b) <= Product((m + 1) * 8192 + 939524096, b)
<1> DEFINE a == m * 8192 + 939524096
           a2 == (m + 1) * 8192 + 939524096
           s == Short(a)
           s2 == Short(a2)
           u == Significand(b)
<1>1. /\ a \in Nat /\ a # 0 /\ Exponent(a) = m \div 1024 + 112
      /\ s = 1024 + (m % 1024) /\ Within(s, 1024, 2047)
  BY SMT, WideParts DEF HalfMax
<1>2. /\ a2 \in Nat /\ a2 # 0 /\ Exponent(a2) = (m + 1) \div 1024 + 112
      /\ s2 = 1024 + ((m + 1) % 1024) /\ Within(s2, 1024, 2047)
  BY SMT, WideParts DEF HalfOne
<1>3. Within(u, 8388608, 16777215)
  BY SMT, SignificandRange
<1>4. /\ Carries(a, b) <=> s * u >= 4194304 * 4096
      /\ Rounded(a, b) = IF Carries(a, b) THEN RoundTo(s * u, 2048) ELSE RoundTo(s * u, 1024)
  BY SMT, <1>1, RoundedOf
<1>5. /\ Carries(a2, b) <=> s2 * u >= 4194304 * 4096
      /\ Rounded(a2, b) = IF Carries(a2, b) THEN RoundTo(s2 * u, 2048) ELSE RoundTo(s2 * u, 1024)
  BY SMT, <1>2, RoundedOf
<1>6. /\ Carry(a, b) \in {0, 1} /\ Grown(a, b) \in Nat
      /\ Grown(a, b) >= (Carry(a, b) + 1) * 8388608
      /\ Grown(a, b) <= (Carry(a, b) + 2) * 8388608
  BY SMT, <1>1, ProductIs
<1>7. /\ Carry(a2, b) \in {0, 1} /\ Grown(a2, b) \in Nat
      /\ Grown(a2, b) >= (Carry(a2, b) + 1) * 8388608
      /\ Grown(a2, b) <= (Carry(a2, b) + 2) * 8388608
  BY SMT, <1>2, ProductIs
<1>8. Exponent(b) \in Int
  BY SMT DEF Finite, Exponent, Mantissa
<1> HIDE DEF a, a2, s, s2, u
<1>9. CASE m % 1024 < 1023
  <2>1. s2 = s + 1 /\ Exponent(a2) = Exponent(a) /\ Exponent(a) \in Int
    BY SMT, <1>1, <1>2, <1>9
  <2>2. s * u \in Nat /\ s2 * u \in Nat /\ s * u <= s2 * u
    <3>1. s \in Nat /\ u \in Nat
      BY SMT, <1>1, <1>3 DEF Within
    <3>2. (s + 1) * u = s * u + u /\ s * u \in Nat
      BY SMT, <3>1
    <3> QED
      BY SMT, <2>1, <3>1, <3>2
  <2>3. CASE Carries(a, b) <=> Carries(a2, b)
    <3>1. Rounded(a, b) <= Rounded(a2, b)
      <4>1. RoundTo(s * u, 2048) <= RoundTo(s2 * u, 2048)
        BY SMT, <2>2, RoundToMonotone
      <4>2. RoundTo(s * u, 1024) <= RoundTo(s2 * u, 1024)
        BY SMT, <2>2, RoundToMonotone
      <4> QED
        BY SMT, <1>4, <1>5, <2>3, <4>1, <4>2
    <3>2. Carry(a, b) = Carry(a2, b)
      BY SMT, <2>3 DEF Carry
    <3>3. Grown(a, b) <= Grown(a2, b)
      <4>1. Rounded(a, b) \in Int /\ Rounded(a2, b) \in Int
        BY SMT, <1>1, <1>2, RoundedIs DEF Within, s, s2
      <4> QED
        BY SMT, <1>6, <3>1, <3>2, <4>1 DEF Grown
    <3> QED
      BY SMT, <1>1, <1>2, <1>6, <1>7, <1>8, <2>1, <3>2, <3>3, Compare DEF Exponents, a, a2, s, s2
  <2>4. CASE ~(Carries(a, b) <=> Carries(a2, b))
    <3>1. ~Carries(a, b) /\ Carries(a2, b)
      BY SMT, <1>4, <1>5, <2>2, <2>4
    <3>2. Carry(a, b) = 0 /\ Carry(a2, b) = 1
      BY SMT, <3>1 DEF Carry
    <3>3. Grown(a, b) <= Grown(a2, b)
      BY SMT, <1>6, <1>7, <3>2
    <3> QED
      BY SMT, <1>1, <1>2, <1>6, <1>7, <1>8, <2>1, <3>2, <3>3, Compare DEF Exponents, a, a2, s, s2
  <2> QED
    BY SMT, <2>3, <2>4
<1>10. CASE m % 1024 = 1023
  <2>1. s = 2047 /\ s2 = 1024 /\ Exponent(a2) = Exponent(a) + 1 /\ Exponent(a) \in Int
    BY SMT, <1>1, <1>2, <1>10
  <2>2. ~Carries(a2, b) /\ Rounded(a2, b) = u
    <3>1. 1024 * u < 4194304 * 4096 /\ 1024 * u \in Nat /\ u \in Int
      BY SMT, <1>3 DEF Within
    <3>2. RoundTo(1024 * u, 1024) = u
      BY SMT, <1>3 DEF RoundTo, Nearest, Within
    <3> QED
      BY SMT, <1>5, <2>1, <3>1, <3>2
  <2>3. Carry(a2, b) = 0 /\ Grown(a2, b) = u
    <3>1. u \in Int
      BY SMT, <1>3 DEF Within
    <3> QED
      BY SMT, <2>2, <3>1 DEF Carry, Grown
  <2>4. Grown(a, b) <= 8388608 + u
    <3>1. CASE Carries(a, b)
      <4>1. RoundTo(2047 * u, 2048) <= u
        BY SMT, <1>3 DEF RoundTo, Nearest, Within
      <4>2. RoundTo(2047 * u, 2048) \in Int
        BY SMT, <1>3 DEF RoundTo, Nearest, Within
      <4>3. Grown(a, b) = 8388608 + RoundTo(2047 * u, 2048)
        BY SMT, <1>4, <2>1, <3>1, <4>2 DEF Grown, Carry
      <4>4. u \in Int
        BY SMT, <1>3 DEF Within
      <4> QED
        BY SMT, <4>1, <4>2, <4>3, <4>4
    <3>2. CASE ~Carries(a, b)
      <4>1. Carry(a, b) = 0
        BY SMT, <3>2 DEF Carry
      <4> QED
        BY SMT, <1>3, <1>6, <4>1 DEF Within
    <3> QED
      BY SMT, <3>1, <3>2
  <2> QED
    BY SMT, <1>1, <1>2, <1>3, <1>6, <1>8, <2>1, <2>3, <2>4, Compare DEF Exponents, Within, a, a2, s, s2
<1>11. m % 1024 \in 0 .. 1023
  BY SMT
<1> QED
  BY SMT, <1>9, <1>10, <1>11 DEF a, a2

\* Narrowing keeps the order.
LEMMA NarrowMonotone ==
  ASSUME NEW p \in Nat, NEW q \in Nat, p <= q
  PROVE  Narrow(p) <= Narrow(q)
BY SMT DEF Narrow, Exponent, Mantissa, HalfMax

-----------------------------------------------------------------------------
(* The loop. *)

LEMMA InitInv == Init => Inv
<1> SUFFICES ASSUME Init PROVE Inv
  OBVIOUS
<1>1. IsWord(given) /\ scale \in Nat
  <2>1. (\A h \in Halves : IsWord(h)) /\ Scales \subseteq Nat
    BY SMT, Float16Assumption DEF SignBit, IsWord
  <2> QED
    BY SMT, <2>1 DEF Init, IsWord
<1> QED
  BY SMT, <1>1 DEF Init, Inv

LEMMA StepInv == Inv /\ [Next]_vars => Inv'
<1> SUFFICES ASSUME Inv, [Next]_vars PROVE Inv'
  OBVIOUS
<1>1. CASE Widen
  BY SMT, <1>1 DEF Inv, Widen, Stage
<1>2. CASE Scale
  BY SMT, <1>2 DEF Inv, Scale, Stage
<1>3. CASE Store
  BY SMT, <1>3 DEF Inv, Store, Stage
<1>4. CASE UNCHANGED vars
  BY SMT, <1>4 DEF Inv, vars
<1> QED
  BY SMT, <1>1, <1>2, <1>3, <1>4 DEF Next

LEMMA Invariance == Spec => []Inv
BY InitInv, StepInv, PTL DEF Spec

\* The mesh never holds an infinity or a value that is not a number
\* (util.h:193-216, dllmain.cpp:228-230).
THEOREM Numbers == Spec => []NeverInfinite
<1>1. Inv => NeverInfinite
  <2> SUFFICES ASSUME Inv, stage = "stored" PROVE Magnitude(x) < HalfInfinity
    BY SMT DEF NeverInfinite
  <2> DEFINE g == Times(Float32(given), scale)
  <2>1. g.bits \in Int /\ g.sign \in {0, 1}
    BY SMT, TimesType DEF Inv
  <2>2. x = ToFloat16(g)
    BY SMT DEF Inv
  <2> HIDE DEF g
  <2>3. Magnitude(x) = Narrow(g.bits)
    BY SMT, <2>1, <2>2, Stored
  <2>4. Narrow(g.bits) \in Nat /\ Narrow(g.bits) <= HalfMax
    BY SMT, <2>1, NarrowRange
  <2>5. Magnitude(x) <= 31743 /\ Magnitude(x) \in Nat
    BY SMT, <2>3, <2>4 DEF HalfMax
  <2> QED
    BY SMT, <2>5 DEF HalfInfinity
<1> QED
  BY <1>1, Invariance, PTL

\* At 16:9 the glass is left as it is (dllmain.cpp:229-230, 244-249).
THEOREM SameAspect == Spec => []SameAspectKeeps
<1>1. Inv => SameAspectKeeps
  <2> SUFFICES ASSUME Inv, stage = "stored", scale = One
               PROVE  /\ Sign(x) = Sign(given)
                      /\ Magnitude(x) = InRange(Magnitude(given))
    BY SMT DEF SameAspectKeeps
  <2> DEFINE g == Times(Float32(given), One)
  <2>1. g.bits \in Int /\ g.sign \in {0, 1}
    BY SMT, TimesType DEF Inv, One
  <2>2. g.sign = Sign(given)
    <3>1. Float32(given).sign = Sign(given)
      BY SMT, Wide DEF Inv
    <3> QED
      BY SMT, <3>1 DEF Times, One, Infinity
  <2>3. x = ToFloat16(g)
    BY SMT DEF Inv
  <2>4. Narrow(g.bits) = InRange(Magnitude(given))
    BY SMT, RoundTrip DEF Inv
  <2> HIDE DEF g
  <2> QED
    BY SMT, <2>1, <2>2, <2>3, <2>4, Stored
<1> QED
  BY <1>1, Invariance, PTL

\* What is in the mesh at the end.
LEMMA PlacedAt ==
  ASSUME NEW h, IsWord(h), NEW b \in Nat, Finite(b)
  PROVE  LET y == ToFloat16(Times(Float32(h), b))
         IN  /\ Sign(y) = Sign(h) /\ Sign(h) \in {0, 1}
             /\ Magnitude(y) = Narrow(Product(Float32(h).bits, b))
             /\ Magnitude(y) \in Nat
<1> DEFINE g == Times(Float32(h), b)
<1>1. g.bits \in Int /\ g.sign \in {0, 1}
  BY SMT, TimesType
<1>2. /\ Float32(h).sign = Sign(h) /\ Sign(h) \in {0, 1}
      /\ g.bits = Product(Float32(h).bits, b)
  BY SMT, Wide DEF Times
<1>3. g.sign = Sign(h)
  <2>1. ~(b > Infinity) /\ ~(b = Infinity)
    BY SMT DEF Finite, Exponent, Mantissa, Infinity
  <2> QED
    BY SMT, <1>2, <2>1 DEF Times
<1> HIDE DEF g
<1>4. Magnitude(ToFloat16(g)) = Narrow(g.bits) /\ Sign(ToFloat16(g)) = g.sign
  BY SMT, <1>1, Stored
<1>5. Narrow(g.bits) \in Nat
  BY SMT, <1>1, NarrowRange
<1> QED
  BY SMT, <1>2, <1>3, <1>4, <1>5 DEF g

\* A half with a normal magnitude.
LEMMA SupportedParts ==
  ASSUME NEW h, IsWord(h), Supported(h)
  PROVE  /\ Magnitude(h) \in Nat /\ Magnitude(h) >= HalfOne /\ Magnitude(h) <= HalfMax
         /\ Float32(h).bits = Magnitude(h) * 8192 + 939524096
BY SMT DEF IsWord, Supported, Magnitude, SignBit, HalfOne, HalfMax, Float32

\* For every finite scale, not only those of common windows, a coordinate is the
\* exact product cut off, or the next half when the product is closer to it than
\* a float can tell (dllmain.cpp:244-249, util.h:200-215).
THEOREM CutsOff == Spec => []ProductCutOff
<1>1. Inv => ProductCutOff
  <2> DEFINE a == Float32(given).bits
  <2> SUFFICES ASSUME Inv, stage = "stored", Finite(scale), Supported(given)
               PROVE  /\ Sign(x) = Sign(given)
                      /\ \/ Magnitude(x) = InRange(CutOff(a, scale))
                         \/ /\ Behind(a, scale) = 8191
                            /\ Magnitude(x) = InRange(CutOff(a, scale) + 1)
    BY SMT DEF ProductCutOff
  <2>1. IsWord(given) /\ scale \in Nat /\ x = ToFloat16(Times(Float32(given), scale))
    BY SMT DEF Inv
  <2>2. Sign(x) = Sign(given) /\ Magnitude(x) = Narrow(Product(a, scale))
    BY SMT, <2>1, PlacedAt
  <2>3. a \in Nat /\ a # 0 /\ Within(Short(a), 1024, 2047)
    BY SMT, <2>1, SupportedParts, WideParts
  <2> HIDE DEF a
  <2> QED
    BY SMT, <2>1, <2>2, <2>3, NarrowProduct
<1> QED
  BY <1>1, Invariance, PTL

\* The next half has the same sign.
LEMMA NextHalf ==
  ASSUME NEW h, IsWord(h), Supported(h), Supported(h + 1)
  PROVE  IsWord(h + 1) /\ Sign(h + 1) = Sign(h) /\ Magnitude(h + 1) = Magnitude(h) + 1
<1>1. h \in Nat /\ h <= 65535 /\ h % 32768 <= 31743
  BY SMT, SupportedParts DEF IsWord, Magnitude, SignBit, HalfMax
<1>2. h + 1 <= 65535 /\ (h + 1) % 32768 = (h % 32768) + 1 /\ (h + 1) \div 32768 = h \div 32768
  BY SMT, <1>1
<1> QED
  BY SMT, <1>1, <1>2 DEF IsWord, Magnitude, SignBit, Sign

\* For every finite scale, of two coordinates that follow each other the first is
\* not placed behind the second (dllmain.cpp:244-249).
THEOREM Ordered == Spec => []OrderKept
<1>1. Inv => OrderKept
  <2> DEFINE y == Place(given + 1)
             m == Magnitude(given)
  <2> SUFFICES ASSUME Inv, stage = "stored", Finite(scale), Supported(given),
                      Supported(given + 1)
               PROVE  IF Sign(given) = 1 THEN Coordinate(y) <= Coordinate(x)
                      ELSE Coordinate(x) <= Coordinate(y)
    BY SMT DEF OrderKept
  <2>1. IsWord(given) /\ scale \in Nat /\ x = ToFloat16(Times(Float32(given), scale))
    BY SMT DEF Inv
  <2>2. IsWord(given + 1) /\ Sign(given + 1) = Sign(given) /\ Magnitude(given + 1) = m + 1
    BY SMT, <2>1, NextHalf
  <2>3. /\ m \in Nat /\ m >= HalfOne /\ m <= HalfMax /\ m + 1 <= HalfMax
        /\ Float32(given).bits = m * 8192 + 939524096
        /\ Float32(given + 1).bits = (m + 1) * 8192 + 939524096
    BY SMT, <2>1, <2>2, SupportedParts
  <2>4. /\ Sign(x) = Sign(given) /\ Sign(given) \in {0, 1} /\ Magnitude(x) \in Nat
        /\ Magnitude(x) = Narrow(Product(m * 8192 + 939524096, scale))
    BY SMT, <2>1, <2>3, PlacedAt
  <2>5. /\ Sign(y) = Sign(given) /\ Magnitude(y) \in Nat
        /\ Magnitude(y) = Narrow(Product((m + 1) * 8192 + 939524096, scale))
    BY SMT, <2>1, <2>2, <2>3, PlacedAt DEF Place
  <2>6. Magnitude(x) <= Magnitude(y)
    <3> DEFINE p == Product(m * 8192 + 939524096, scale)
               q == Product((m + 1) * 8192 + 939524096, scale)
    <3>1. m + 1 \in Nat /\ m + 1 >= HalfOne
      BY SMT, <2>3 DEF HalfOne
    <3>2. p \in Nat /\ q \in Nat
      BY SMT, <2>1, <2>3, <3>1, ProductNat DEF HalfMax
    <3>3. p <= q
      BY SMT, <2>1, <2>3, NextProduct
    <3> HIDE DEF p, q
    <3>4. Narrow(p) <= Narrow(q)
      BY SMT, <3>2, <3>3, NarrowMonotone
    <3> QED
      BY SMT, <2>4, <2>5, <3>4 DEF p, q
  <2> HIDE DEF y
  <2> QED
    BY SMT, <2>4, <2>5, <2>6 DEF Coordinate
<1> QED
  BY <1>1, Invariance, PTL

-----------------------------------------------------------------------------
(* The order of all coordinates, from that of neighbours. *)

\* A set of natural numbers has a least one.
LEMMA LeastNat ==
  ASSUME NEW S, S \subseteq Nat, S # {}
  PROVE  \E n \in S : \A k \in S : n <= k
<1>1. IsWellFoundedOn(OpToRel(<, Nat), Nat)
  BY NatLessThanWellFounded
<1>2. PICK n \in S : \A k \in S : ~(<<k, n>> \in OpToRel(<, Nat))
  BY <1>1, WFMin
<1>3. ASSUME NEW k \in S PROVE n <= k
  <2>1. n \in Nat /\ k \in Nat /\ <<k, n>> \in Nat \X Nat
    OBVIOUS
  <2>2. ~(k < n)
    BY <1>2, <2>1 DEF OpToRel
  <2> QED
    BY <2>1, <2>2
<1> QED
  BY <1>3

\* The bits of a half without its sign as a float.
Widened(m) == IF m < HalfOne THEN 0 ELSE m * 8192 + 939524096

\* The range of the normal halves.
LEMMA Limits == HalfOne \in Nat /\ HalfMax \in Nat /\ 0 < HalfOne /\ HalfOne < HalfMax
BY DEF HalfOne, HalfMax

\* Of any two halves the greater has the greater product.
LEMMA ProductGrows ==
  ASSUME NEW b \in Nat, Finite(b)
  PROVE  \A n \in 0 .. HalfMax : /\ Product(Widened(n), b) \in Nat
                                 /\ \A m \in 0 .. n : Product(Widened(m), b) <= Product(Widened(n), b)
<1> DEFINE P(m) == Product(Widened(m), b)
<1>1. ASSUME NEW n \in 0 .. HalfMax, n < HalfOne PROVE P(n) = 0
  <2>1. ~(b >= Infinity)
    BY SMT DEF Finite, Exponent, Mantissa, Infinity
  <2> QED
    BY <1>1, <2>1 DEF Widened, Product
<1>2. ASSUME NEW n \in 0 .. HalfMax, n >= HalfOne PROVE P(n) \in Nat
  <2>1. Widened(n) = n * 8192 + 939524096 /\ n \in Nat /\ n <= HalfMax
    BY <1>2 DEF Widened, HalfOne, HalfMax
  <2> QED
    BY <1>2, <2>1, ProductNat
<1>3. \A n \in 0 .. HalfMax : n \in Nat /\ P(n) \in Nat
  <2> HIDE DEF P
  <2> QED
    BY <1>1, <1>2, Limits
<1>4. ASSUME NEW n \in 0 .. HalfMax, n + 1 \in 0 .. HalfMax PROVE P(n) <= P(n + 1)
  <2>1. CASE n < HalfOne
    <3> HIDE DEF P
    <3> QED
      BY <1>1, <1>3, <1>4, <2>1
  <2>2. CASE n >= HalfOne
    <3>1. /\ n \in Nat /\ n + 1 <= HalfMax
          /\ Widened(n) = n * 8192 + 939524096 /\ Widened(n + 1) = (n + 1) * 8192 + 939524096
      BY <1>4, <2>2 DEF Widened, HalfOne, HalfMax
    <3> QED
      BY <2>2, <3>1, NextProduct
  <2> QED
    BY <2>1, <2>2 DEF HalfOne
<1> HIDE DEF P
<1> DEFINE Disorder == {n \in 0 .. HalfMax : \E m \in 0 .. n : ~(P(m) <= P(n))}
<1>5. ASSUME Disorder # {} PROVE FALSE
  <2>1. PICK n \in Disorder : \A k \in Disorder : n <= k
    BY <1>3, <1>5, LeastNat
  <2>2. n \in 0 .. HalfMax /\ n \in Nat
    BY <1>3
  <2>3. PICK m \in 0 .. n : ~(P(m) <= P(n))
    BY <2>1
  <2>4. m \in 0 .. HalfMax /\ P(m) \in Nat /\ P(n) \in Nat
    BY <1>3, <2>2, <2>3, Limits
  <2>5. m < n
    BY <2>2, <2>3, <2>4
  <2> DEFINE k == n - 1
  <2>6. k \in 0 .. HalfMax /\ k + 1 = n /\ m \in 0 .. k /\ ~(n <= k)
    BY <2>2, <2>4, <2>5, Limits
  <2> HIDE DEF k
  <2>7. k \notin Disorder
    BY <2>1, <2>6
  <2>8. P(m) <= P(k)
    BY <2>6, <2>7
  <2>9. P(k) <= P(n) /\ P(k) \in Nat
    BY <1>3, <1>4, <2>2, <2>6
  <2> QED
    BY <2>3, <2>4, <2>8, <2>9
<1> QED
  BY <1>3, <1>5 DEF P

\* Halves that are numbers, denormal ones among them.
IsNumber(h) == IsWord(h) /\ Magnitude(h) <= HalfMax

\* Whichever two coordinates of a mesh are taken, on one side of the middle or on
\* both, the first is not placed behind the second.
AnyOrderKept ==
  stage = "stored" /\ Finite(scale) /\ IsNumber(given) =>
    \A h \in Nat : IsNumber(h) =>
      /\ Coordinate(given) <= Coordinate(h) => Coordinate(x) <= Coordinate(Place(h))
      /\ Coordinate(h) <= Coordinate(given) => Coordinate(Place(h)) <= Coordinate(x)

\* What a number is placed at.
LEMMA PlacedNumber ==
  ASSUME NEW h, IsNumber(h), NEW b \in Nat, Finite(b)
  PROVE  LET y == ToFloat16(Times(Float32(h), b))
         IN  /\ Sign(y) = Sign(h) /\ Sign(h) \in {0, 1} /\ Magnitude(h) \in 0 .. HalfMax
             /\ Magnitude(y) = Narrow(Product(Widened(Magnitude(h)), b))
             /\ Magnitude(y) \in Nat
<1>1. IsWord(h) /\ Magnitude(h) \in 0 .. HalfMax
  BY SMT DEF IsNumber, IsWord, Magnitude, SignBit, HalfMax
<1>2. Float32(h).bits = Widened(Magnitude(h))
  BY DEF Float32, Widened
<1> QED
  BY <1>1, <1>2, PlacedAt

\* Two numbers of the same sign keep their order, and so do two of different
\* signs.
LEMMA PlacedInOrder ==
  ASSUME NEW g, IsNumber(g), NEW h, IsNumber(h), NEW b \in Nat, Finite(b),
         Coordinate(g) <= Coordinate(h)
  PROVE  Coordinate(ToFloat16(Times(Float32(g), b))) <= Coordinate(ToFloat16(Times(Float32(h), b)))
<1> DEFINE y == ToFloat16(Times(Float32(g), b))
           z == ToFloat16(Times(Float32(h), b))
           m == Magnitude(g)
           n == Magnitude(h)
<1>1. /\ Sign(y) = Sign(g) /\ Sign(g) \in {0, 1} /\ m \in 0 .. HalfMax
      /\ Magnitude(y) = Narrow(Product(Widened(m), b)) /\ Magnitude(y) \in Nat
  BY PlacedNumber
<1>2. /\ Sign(z) = Sign(h) /\ Sign(h) \in {0, 1} /\ n \in 0 .. HalfMax
      /\ Magnitude(z) = Narrow(Product(Widened(n), b)) /\ Magnitude(z) \in Nat
  BY PlacedNumber
<1>3. /\ Coordinate(g) = IF Sign(g) = 1 THEN -m ELSE m
      /\ Coordinate(h) = IF Sign(h) = 1 THEN -n ELSE n
      /\ Coordinate(y) = IF Sign(g) = 1 THEN -Magnitude(y) ELSE Magnitude(y)
      /\ Coordinate(z) = IF Sign(h) = 1 THEN -Magnitude(z) ELSE Magnitude(z)
  BY <1>1, <1>2 DEF Coordinate
<1> SUFFICES Coordinate(y) <= Coordinate(z)
  OBVIOUS
<1> HIDE DEF y, z, m, n
<1>4. ASSUME NEW i \in 0 .. HalfMax, NEW j \in 0 .. HalfMax, i <= j
      PROVE  Narrow(Product(Widened(i), b)) <= Narrow(Product(Widened(j), b))
  <2>1. i \in 0 .. j
    BY <1>4 DEF HalfMax
  <2>2. Product(Widened(i), b) \in Nat /\ Product(Widened(j), b) \in Nat
        /\ Product(Widened(i), b) <= Product(Widened(j), b)
    BY <2>1, ProductGrows
  <2> QED
    BY <2>2, NarrowMonotone
<1>5. Narrow(Product(Widened(0), b)) = 0
  <2>1. ~(b >= Infinity)
    BY SMT DEF Finite, Exponent, Mantissa, Infinity
  <2>2. Product(Widened(0), b) = 0
    BY <2>1 DEF Widened, Product, HalfOne
  <2> QED
    BY <2>2 DEF Narrow, Exponent, Mantissa
<1>6. m \in Nat /\ n \in Nat
  BY <1>1, <1>2, Limits
<1>7. CASE Sign(g) = 0 /\ Sign(h) = 0
  <2>1. m <= n
    BY <1>3, <1>6, <1>7
  <2>2. Magnitude(y) <= Magnitude(z)
    BY <1>1, <1>2, <1>4, <2>1
  <2> QED
    BY <1>3, <1>7, <2>2
<1>8. CASE Sign(g) = 1 /\ Sign(h) = 1
  <2>1. n <= m
    BY <1>3, <1>6, <1>8
  <2>2. Magnitude(z) <= Magnitude(y)
    BY <1>1, <1>2, <1>4, <2>1
  <2> QED
    BY <1>1, <1>2, <1>3, <1>8, <2>2
<1>9. CASE Sign(g) = 1 /\ Sign(h) = 0
  BY <1>1, <1>2, <1>3, <1>9
<1>10. CASE Sign(g) = 0 /\ Sign(h) = 1
  <2>1. m = 0 /\ n = 0
    BY <1>3, <1>6, <1>10
  <2>2. Magnitude(y) = 0 /\ Magnitude(z) = 0
    BY <1>1, <1>2, <1>5, <2>1
  <2> QED
    BY <1>3, <1>10, <2>2
<1> QED
  BY <1>1, <1>2, <1>7, <1>8, <1>9, <1>10

\* For every finite scale and any two numbers, not only neighbours, the mesh is not
\* turned inside out: the product, the rounding of the float, the flush of the
\* denormals and the clamp keep their order (dllmain.cpp:244-249, util.h:180-216).
THEOREM AllOrdered == Spec => []AnyOrderKept
<1>1. Inv => AnyOrderKept
  <2> SUFFICES ASSUME Inv, stage = "stored", Finite(scale), IsNumber(given), NEW h \in Nat, IsNumber(h)
               PROVE  /\ Coordinate(given) <= Coordinate(h) => Coordinate(x) <= Coordinate(Place(h))
                      /\ Coordinate(h) <= Coordinate(given) => Coordinate(Place(h)) <= Coordinate(x)
    BY DEF AnyOrderKept
  <2>1. scale \in Nat /\ x = ToFloat16(Times(Float32(given), scale))
    BY DEF Inv
  <2> QED
    BY <2>1, PlacedInOrder DEF Place
<1> QED
  BY <1>1, Invariance, PTL
=============================================================================
