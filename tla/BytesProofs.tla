----------------------------- MODULE BytesProofs -----------------------------
(***************************************************************************)
(* Lemmas about numbers as bytes and sequences of bytes, for the proofs    *)
(* about frames and message bodies.                                        *)
(***************************************************************************)
EXTENDS Bytes, SequenceTheorems, WellFoundedInduction, TLAPS

-----------------------------------------------------------------------------
(* Induction.  A set is named for the property, so that the theorem that   *)
(* < is well-founded can be used.                                          *)

LEMMA LeastNat ==
  ASSUME NEW T \in SUBSET Nat, T # {}
  PROVE  \E x \in T : \A y \in T : x <= y
<1>1. IsWellFoundedOn(OpToRel(<, Nat), Nat)
  BY NatLessThanWellFounded
<1>2. \A x, y \in Nat : <<y, x>> \in OpToRel(<, Nat) <=> y < x
  BY DEF OpToRel
<1>3. \E x \in T : \A y \in T : ~(<<y, x>> \in OpToRel(<, Nat))
  BY <1>1, WFMin
<1>4. \E x \in T : \A y \in T : ~(y < x)
  BY <1>2, <1>3, Zenon
<1> QED BY <1>4

\* A set of numbers that has 0, and with each number the next, has them all.
LEMMA Induct ==
  ASSUME NEW G \in SUBSET Nat, 0 \in G, \A n \in G : n + 1 \in G
  PROVE  G = Nat
<1> SUFFICES ASSUME Nat \ G # {} PROVE FALSE
  OBVIOUS
<1>1. PICK x \in Nat \ G : \A y \in Nat \ G : x <= y
  BY LeastNat
<1>2. x # 0 /\ x - 1 \in Nat
  BY <1>1
<1>3. x - 1 \in G
  BY <1>1, <1>2
<1> QED BY <1>1, <1>2, <1>3

-----------------------------------------------------------------------------
(* Bytes. *)

LEMMA Division ==
  ASSUME NEW n \in Nat, NEW m \in Nat \ {0}
  PROVE  n \div m \in Nat /\ n % m \in 0 .. m - 1 /\ n = m * (n \div m) + (n % m)
<1> DEFINE q == n \div m
           r == n % m
<1>1. q \in Nat /\ r \in 0 .. m - 1 /\ n = m * q + r
  OBVIOUS
<1> QED BY <1>1

\* n is a multiple of m, and less than m.
Splits(n, m, high, low) ==
  m \in Nat \ {0} /\ high \in Nat /\ low \in 0 .. m - 1 /\ n = m * high + low

LEMMA DivisionUnique ==
  ASSUME NEW m, NEW high, NEW low, NEW n, Splits(n, m, high, low)
  PROVE  n % m = low /\ n \div m = high /\ n \in Nat
<1>0. m \in Nat \ {0} /\ high \in Nat /\ low \in 0 .. m - 1 /\ n = m * high + low
  BY DEF Splits
<1> DEFINE q == n \div m
           r == n % m
<1>1. m * high \in Nat
  BY <1>0
<1>2. n \in Nat
  BY <1>0, <1>1
<1>3. q \in Nat /\ r \in 0 .. m - 1 /\ n = m * q + r
  BY <1>0, <1>2, Division
<1> HIDE DEF q, r
<1>4. CASE q > high
  <2>1. q - high - 1 \in Nat /\ m * (q - high - 1) >= 0
    BY <1>0, <1>3, <1>4
  <2>2. m * (q - high - 1) = m * q - m * high - m
    BY <1>0, <1>3
  <2> QED BY <1>0, <1>1, <1>3, <2>1, <2>2
<1>5. CASE high > q
  <2>1. high - q - 1 \in Nat /\ m * (high - q - 1) >= 0
    BY <1>0, <1>3, <1>5
  <2>2. m * (high - q - 1) = m * high - m * q - m
    BY <1>0, <1>3
  <2> QED BY <1>0, <1>1, <1>3, <2>1, <2>2
<1>6. CASE q = high
  <2>1. r = low
    BY <1>0, <1>1, <1>3, <1>6
  <2> QED BY <1>2, <1>6, <2>1 DEF q, r
<1>7. q \in Nat /\ high \in Nat
  BY <1>0, <1>3
<1>8. q > high \/ high > q \/ q = high
  BY <1>7
<1> QED BY <1>2, <1>4, <1>5, <1>6, <1>8, Zenon

LEMMA DivisionSmall ==
  ASSUME NEW m \in Nat \ {0}, NEW n \in 0 .. m - 1
  PROVE  n % m = n
<1>1. Splits(n, m, 0, n)
  BY DEF Splits
<1> QED BY <1>1, DivisionUnique

LEMMA ShortNat == Short \subseteq Nat
<1>1. \A high, low \in Byte : 256 * high + low \in Nat
  BY DEF Byte
<1> QED BY <1>1 DEF Short

\* Two bytes give the number they were made of, in either order.
LEMMA TwoBytes ==
  ASSUME NEW n \in Short
  PROVE  /\ Le16(n) \in Seq(Byte) /\ Len(Le16(n)) = 2
         /\ Be16(n) \in Seq(Byte) /\ Len(Be16(n)) = 2
         /\ FromLe16(<<Le16(n)[1], Le16(n)[2]>>) = n
         /\ FromBe16(<<Be16(n)[1], Be16(n)[2]>>) = n
<1>0. PICK m \in Nat \ {0} : m = 256
  OBVIOUS
<1>1. PICK high \in Byte, low \in Byte : n = m * high + low
  BY <1>0 DEF Short
<1>2. Splits(n, m, high, low) /\ high \in 0 .. m - 1
  BY <1>0, <1>1 DEF Byte, Splits
<1>3. n % m = low /\ n \div m = high /\ high % m = high
  BY <1>2, DivisionUnique, DivisionSmall
<1>6. Le16(n) = <<low, high>> /\ Be16(n) = <<high, low>>
  BY <1>0, <1>3 DEF Le16, Be16
<1>7. Le16(n) \in Seq(Byte) /\ Len(Le16(n)) = 2 /\ Be16(n) \in Seq(Byte) /\ Len(Be16(n)) = 2
  BY <1>6
<1>8. Le16(n)[1] = low /\ Le16(n)[2] = high /\ Be16(n)[1] = high /\ Be16(n)[2] = low
  BY <1>6
<1>9. FromLe16(<<low, high>>) = n /\ FromBe16(<<high, low>>) = n
  <2>1. n = 256 * high + low
    BY <1>0, <1>1
  <2> QED BY <2>1 DEF FromLe16, FromBe16, Byte
<1> QED BY <1>7, <1>8, <1>9

\* Four bytes give the number they were made of.
LEMMA FourBytes ==
  ASSUME NEW n \in Nat, Fits32(n)
  PROVE  /\ Le32(n) \in Seq(Byte) /\ Len(Le32(n)) = 4
         /\ \A b : b[1] = Le32(n)[1] /\ b[2] = Le32(n)[2] /\ b[3] = Le32(n)[3]
                  /\ b[4] = Le32(n)[4] => FromLe32(b) = n
<1>0. PICK m \in Nat \ {0} : m = 256
  OBVIOUS
<1>1. PICK q1 \in Nat, b1 \in 0 .. m - 1 : q1 = n \div m /\ b1 = n % m /\ n = m * q1 + b1
  BY Division
<1>2. PICK q2 \in Nat, b2 \in 0 .. m - 1 : q2 = q1 \div m /\ b2 = q1 % m /\ q1 = m * q2 + b2
  BY Division
<1>3. PICK b4 \in Nat, b3 \in 0 .. m - 1 : b4 = q2 \div m /\ b3 = q2 % m /\ q2 = m * b4 + b3
  BY Division
<1>4. b4 \in 0 .. m - 1 /\ b4 % m = b4
  <2>1. b4 \in 0 .. m - 1
    BY <1>0, <1>1, <1>2, <1>3 DEF Fits32, Byte
  <2> QED BY <2>1, DivisionSmall
<1>5. Le32(n) = <<b1, b2, b3, b4>>
  BY <1>0, <1>1, <1>2, <1>3, <1>4 DEF Le32
<1>6. b1 \in Byte /\ b2 \in Byte /\ b3 \in Byte /\ b4 \in Byte
  BY <1>0, <1>4 DEF Byte
<1>7. ASSUME NEW b, b[1] = b1, b[2] = b2, b[3] = b3, b[4] = b4
      PROVE  FromLe32(b) = n
  <2>1. FromLe32(b) = b1 + m * (b2 + m * (b3 + m * b4))
    BY <1>0, <1>7 DEF FromLe32
  <2>2. b3 + m * b4 = q2
    BY <1>3
  <2>3. b2 + m * q2 = q1
    BY <1>2
  <2>4. b1 + m * q1 = n
    BY <1>1
  <2> QED BY <2>1, <2>2, <2>3, <2>4
<1> QED BY <1>5, <1>6, <1>7

LEMMA SmallShort ==
  ASSUME NEW n \in Byte PROVE n \in Short /\ n \in Nat
<1>1. n = 256 * 0 + n /\ 0 \in Byte
  BY DEF Byte
<1>2. PICK high \in Byte : high = 0
  BY <1>1
<1>3. n = 256 * high + n
  BY <1>2 DEF Byte
<1>4. \E low \in Byte : n = 256 * high + low
  BY <1>3, Zenon
<1>5. n \in Short
  BY <1>4 DEF Short
<1> QED BY <1>5, ShortNat

\* s begins with t.
Begins(s, t) == Len(t) <= Len(s) /\ \A i \in 1 .. Len(t) : s[i] = t[i]

\* Three sequences of bytes behind one another.
LEMMA Concat3 ==
  ASSUME NEW a \in Seq(Byte), NEW b \in Seq(Byte), NEW c \in Seq(Byte)
  PROVE  /\ a \o b \o c \in Seq(Byte) /\ Len(a \o b \o c) = Len(a) + Len(b) + Len(c)
         /\ \A i \in 1 .. Len(a) + Len(b) + Len(c) :
              (a \o b \o c)[i] = IF i <= Len(a) THEN a[i]
                                 ELSE IF i <= Len(a) + Len(b) THEN b[i - Len(a)]
                                 ELSE c[i - (Len(a) + Len(b))]
<1>1. /\ a \o b \in Seq(Byte) /\ Len(a \o b) = Len(a) + Len(b)
      /\ \A i \in 1 .. Len(a) + Len(b) :
           (a \o b)[i] = IF i <= Len(a) THEN a[i] ELSE b[i - Len(a)]
  BY ConcatProperties
<1>2. Len(a) \in Nat /\ Len(b) \in Nat /\ Len(c) \in Nat
  BY LenProperties
<1> DEFINE ab == a \o b
<1> HIDE DEF ab
<1>3. /\ ab \o c \in Seq(Byte) /\ Len(ab \o c) = Len(ab) + Len(c)
      /\ \A i \in 1 .. Len(ab) + Len(c) :
           (ab \o c)[i] = IF i <= Len(ab) THEN ab[i] ELSE c[i - Len(ab)]
  BY <1>1, ConcatProperties DEF ab
<1>4. a \o b \o c = ab \o c
  BY DEF ab
<1>5. /\ Len(ab) = Len(a) + Len(b)
      /\ \A i \in 1 .. Len(ab) : ab[i] = IF i <= Len(a) THEN a[i] ELSE b[i - Len(a)]
  BY <1>1 DEF ab
<1> QED BY <1>2, <1>3, <1>4, <1>5

LEMMA Associative ==
  ASSUME NEW a \in Seq(Byte), NEW b \in Seq(Byte), NEW c \in Seq(Byte)
  PROVE  (a \o b) \o c = a \o (b \o c)
BY ConcatAssociative

\* n elements of s, behind its first d.
LEMMA PartOf ==
  ASSUME NEW S, NEW s \in Seq(S), NEW d \in Nat, NEW n \in Nat, d + n <= Len(s)
  PROVE  /\ SubSeq(s, d + 1, d + n) \in Seq(S) /\ Len(SubSeq(s, d + 1, d + n)) = n
         /\ \A i \in 1 .. n : SubSeq(s, d + 1, d + n)[i] = s[d + i]
<1>0. PICK a \in Nat : a = d + 1
  OBVIOUS
<1>1. PICK b \in Nat : b = d + n
  OBVIOUS
<1>2. Len(s) \in Nat
  BY LenProperties
<1>3. \A i \in a .. b : s[i] \in S
  <2> TAKE i \in a .. b
  <2>1. i \in 1 .. Len(s)
    BY <1>0, <1>1, <1>2
  <2> QED BY <2>1, ElementOfSeq
<1> DEFINE t == SubSeq(s, a, b)
<1>4. /\ t \in Seq(S) /\ Len(t) = IF a <= b THEN b - a + 1 ELSE 0
      /\ \A i \in 1 .. b - a + 1 : t[i] = s[a + i - 1]
  BY <1>3, SubSeqProperties
<1>6. t = SubSeq(s, d + 1, d + n)
  BY <1>0, <1>1
<1> HIDE DEF t
<1>5. Len(t) = n /\ \A i \in 1 .. n : t[i] = s[d + i]
  BY <1>0, <1>1, <1>4
<1> QED BY <1>4, <1>5, <1>6

\* s without its first d elements.
Rest(s, d) == SubSeq(s, d + 1, Len(s))

LEMMA RestSeq ==
  ASSUME NEW S, NEW s \in Seq(S), NEW d \in Nat, d <= Len(s)
  PROVE  /\ Rest(s, d) \in Seq(S) /\ Len(Rest(s, d)) = Len(s) - d
         /\ \A i \in 1 .. Len(s) - d : Rest(s, d)[i] = s[d + i]
<1>0. PICK t : t = Rest(s, d)
  OBVIOUS
<1>1. PICK n \in Nat : n = Len(s)
  BY LenProperties
<1>2. \A i \in d + 1 .. n : s[i] \in S
  <2> TAKE i \in d + 1 .. n
  <2>1. i \in 1 .. Len(s)
    BY <1>1
  <2> QED BY <2>1, ElementOfSeq
<1>3. PICK m \in Int : m = d + 1
  BY <1>1
<1>4. t = SubSeq(s, m, n) /\ \A i \in m .. n : s[i] \in S
  BY <1>0, <1>1, <1>2, <1>3 DEF Rest
<1>5. /\ t \in Seq(S) /\ Len(t) = IF m <= n THEN n - m + 1 ELSE 0
      /\ \A i \in 1 .. n - m + 1 : t[i] = s[m + i - 1]
  BY <1>4, SubSeqProperties
<1>6. d \in Nat /\ d <= n
  BY <1>1
<1>7. Len(t) = n - d
  BY <1>3, <1>5, <1>6
<1>8. \A i \in 1 .. n - d : t[i] = s[d + i]
  BY <1>3, <1>5, <1>6
<1> QED BY <1>0, <1>1, <1>5, <1>7, <1>8

LEMMA RestNext ==
  ASSUME NEW S, NEW s \in Seq(S), NEW d \in Nat, d <= Len(s), Rest(s, d) # <<>>
  PROVE  /\ d + 1 \in 1 .. Len(s)
         /\ Head(Rest(s, d)) = s[d + 1] /\ Tail(Rest(s, d)) = Rest(s, d + 1)
<1>1. PICK n \in Nat : n = Len(s)
  BY LenProperties
<1>2. PICK t : t = Rest(s, d)
  OBVIOUS
<1>3. /\ t \in Seq(S) /\ Len(t) = n - d
      /\ \A i \in 1 .. n - d : t[i] = s[d + i]
  BY <1>1, <1>2, RestSeq
<1>4. d \in Nat /\ d < n
  <2>1. d # n
    BY <1>1, <1>2, <1>3, EmptySeq
  <2> QED BY <1>1, <2>1
<1>5. /\ Head(t) = t[1] /\ Tail(t) \in Seq(S) /\ Len(Tail(t)) = Len(t) - 1
      /\ \A i \in 1 .. Len(Tail(t)) : Tail(t)[i] = t[i + 1]
  BY <1>2, <1>3, HeadTailProperties
<1>6. Head(t) = s[d + 1]
  BY <1>3, <1>4, <1>5
<1>7. PICK e \in Nat : e = d + 1 /\ e <= n
  BY <1>1, <1>4
<1>8. PICK u : u = Rest(s, e)
  OBVIOUS
<1>9. /\ u \in Seq(S) /\ Len(u) = n - e
      /\ \A i \in 1 .. n - e : u[i] = s[e + i]
  <2>1. e <= Len(s)
    BY <1>1, <1>7
  <2>2. /\ u \in Seq(S) /\ Len(u) = Len(s) - e
        /\ \A i \in 1 .. Len(s) - e : u[i] = s[e + i]
    BY <1>8, <2>1, RestSeq
  <2> QED BY <1>1, <2>2
<1>10. Len(u) = Len(Tail(t))
  <2>1. Len(u) = n - e /\ Len(Tail(t)) = (n - d) - 1
    BY <1>3, <1>5, <1>9
  <2> QED BY <1>1, <1>4, <1>7, <2>1
<1>11. ASSUME NEW i \in 1 .. Len(u) PROVE u[i] = Tail(t)[i]
  <2>1. /\ i \in 1 .. n - e /\ i \in 1 .. Len(Tail(t)) /\ i + 1 \in 1 .. n - d
        /\ e + i = d + (i + 1)
    BY <1>3, <1>4, <1>5, <1>7, <1>9, <1>10
  <2> QED BY <1>3, <1>5, <1>9, <2>1
<1>12. u = Tail(t)
  BY <1>5, <1>9, <1>10, <1>11, SeqEqual
<1>13. d + 1 \in 1 .. Len(s)
  BY <1>1, <1>4
<1>14. Tail(t) = Rest(s, d + 1)
  BY <1>7, <1>8, <1>12
<1> QED BY <1>2, <1>6, <1>13, <1>14

LEMMA RestEmpty ==
  ASSUME NEW S, NEW s \in Seq(S), NEW d \in Nat, d <= Len(s)
  PROVE  Rest(s, d) = <<>> <=> d = Len(s)
<1>1. PICK n \in Nat : n = Len(s)
  BY LenProperties
<1>2. PICK t : t = Rest(s, d)
  OBVIOUS
<1>3. t \in Seq(S) /\ Len(t) = n - d
  BY <1>1, <1>2, RestSeq
<1> QED BY <1>1, <1>2, <1>3, EmptySeq

LEMMA RestWhole ==
  ASSUME NEW S, NEW s \in Seq(S)
  PROVE  Rest(s, 0) = s
<1>1. Len(s) \in Nat /\ 0 <= Len(s)
  BY LenProperties
<1>2. /\ Rest(s, 0) \in Seq(S) /\ Len(Rest(s, 0)) = Len(s) - 0
      /\ \A i \in 1 .. Len(s) - 0 : Rest(s, 0)[i] = s[0 + i]
  BY <1>1, RestSeq
<1>3. Len(Rest(s, 0)) = Len(s) /\ \A i \in 1 .. Len(s) : Rest(s, 0)[i] = s[i]
  BY <1>1, <1>2
<1> QED BY <1>2, <1>3, SeqEqual

LEMMA RestOfRest ==
  ASSUME NEW S, NEW s \in Seq(S), NEW d \in Nat, NEW e \in Nat, d + e <= Len(s)
  PROVE  Rest(Rest(s, d), e) = Rest(s, d + e)
<1>1. PICK n \in Nat : n = Len(s)
  BY LenProperties
<1>2. PICK t : t = Rest(s, d)
  OBVIOUS
<1>3. /\ t \in Seq(S) /\ Len(t) = n - d
      /\ \A i \in 1 .. n - d : t[i] = s[d + i]
  <2>1. d <= Len(s)
    BY <1>1
  <2>2. /\ t \in Seq(S) /\ Len(t) = Len(s) - d
        /\ \A i \in 1 .. Len(s) - d : t[i] = s[d + i]
    BY <1>2, <2>1, RestSeq
  <2> QED BY <1>1, <2>2
<1>4. PICK u : u = Rest(t, e)
  OBVIOUS
<1>5. /\ u \in Seq(S) /\ Len(u) = (n - d) - e
      /\ \A i \in 1 .. (n - d) - e : u[i] = t[e + i]
  <2>0. t \in Seq(S)
    BY <1>3
  <2>1. e <= Len(t) /\ Len(t) = n - d
    BY <1>1, <1>3
  <2>2. /\ u \in Seq(S) /\ Len(u) = Len(t) - e
        /\ \A i \in 1 .. Len(t) - e : u[i] = t[e + i]
    BY <1>4, <2>0, <2>1, RestSeq, Zenon
  <2> QED BY <2>1, <2>2
<1>6. PICK f \in Nat : f = d + e /\ f <= n
  BY <1>1
<1>7. PICK v : v = Rest(s, f)
  OBVIOUS
<1>8. /\ v \in Seq(S) /\ Len(v) = n - f
      /\ \A i \in 1 .. n - f : v[i] = s[f + i]
  <2>1. f <= Len(s)
    BY <1>1, <1>6
  <2>2. /\ v \in Seq(S) /\ Len(v) = Len(s) - f
        /\ \A i \in 1 .. Len(s) - f : v[i] = s[f + i]
    BY <1>7, <2>1, RestSeq
  <2> QED BY <1>1, <2>2
<1>9. Len(u) = Len(v)
  BY <1>5, <1>6, <1>8
<1>10. ASSUME NEW i \in 1 .. Len(u) PROVE u[i] = v[i]
  <2>1. i \in 1 .. (n - d) - e /\ i \in 1 .. n - f /\ e + i \in 1 .. n - d /\ d + (e + i) = f + i
    BY <1>5, <1>6
  <2> QED BY <1>3, <1>5, <1>8, <2>1
<1>11. u = v
  BY <1>5, <1>8, <1>9, <1>10, SeqEqual
<1> QED BY <1>2, <1>4, <1>6, <1>7, <1>11

=============================================================================
