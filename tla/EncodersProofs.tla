---------------------------- MODULE EncodersProofs ----------------------------
(***************************************************************************)
(* Proofs about Encoders, for all builds and requests.                     *)
(*                                                                         *)
(* The calls of an encoder are a list fixed at the start, and so is where  *)
(* each of them begins (Lay).  EncInv says that the calls made so far have *)
(* left their bytes there (Stage), where nothing came later but the length *)
(* that is patched in.                                                     *)
(***************************************************************************)
EXTENDS EncodersProperties, BytesProofs

-----------------------------------------------------------------------------
(* Lists of calls. *)

CallName == {"u8", "bytes", "align_buf", "cdr_align", "hdr_off", "check", "rest_len", "patch"}

Call ==
  {w \in [call : CallName, n : Byte, data : Seq(Byte)] :
     w.call \in {"align_buf", "cdr_align"} => w.n \in {2, 4}}

\* The bytes a call made at p writes, the header noted at h, the buffer of size B.
Data(w, p, h, B) ==
  CASE w.call = "u8"        -> <<w.n>>
    [] w.call = "bytes"     -> w.data
    [] w.call = "rest_len"  -> Le16(B - h - 4)
    [] w.call = "align_buf" -> Zeros(Padding(p, w.n))
    [] w.call = "cdr_align" -> Zeros(Padding(p - (h + 4), w.n))
    [] OTHER                -> <<>>

\* Calls made one after another: the i-th ends at q[i], the header noted at h[i].
Laid(w, q, h, B, n) ==
  /\ q \in [0 .. n -> Nat] /\ h \in [0 .. n -> Nat]
  /\ q[0] = 0 /\ h[0] = 0
  /\ \A i \in 1 .. n :
       /\ q[i] = q[i - 1] + Len(Data(w[i], q[i - 1], h[i - 1], B))
       /\ h[i] = IF w[i].call = "hdr_off" THEN q[i - 1] ELSE h[i - 1]

Lay(w, q, h, B) == Laid(w, q, h, B, Len(w))

Sequence(S, s, n) == s \in Seq(S) /\ Len(s) = n

LEMMA PaddingNat ==
  ASSUME NEW p \in Int, NEW n \in {2, 4}
  PROVE  Padding(p, n) \in 0 .. n - 1
<1>1. CASE n = 2
  <2>1. p % 2 \in 0 .. 1
    OBVIOUS
  <2> QED BY <1>1, <2>1 DEF Padding
<1>2. CASE n = 4
  <2>1. p % 4 \in 0 .. 3
    OBVIOUS
  <2> QED BY <1>2, <2>1 DEF Padding
<1> QED BY <1>1, <1>2

\* Two bytes, whatever the number: a u16 is cut.
LEMMA Le16Bytes ==
  ASSUME NEW n \in Int
  PROVE  Sequence(Byte, Le16(n), 2) /\ Sequence(Byte, Be16(n), 2)
<1>1. n % 256 \in 0 .. 255 /\ n \div 256 \in Int
  OBVIOUS
<1>2. (n \div 256) % 256 \in 0 .. 255
  BY <1>1
<1>3. PICK a \in Byte, b \in Byte : a = n % 256 /\ b = (n \div 256) % 256
  BY <1>1, <1>2 DEF Byte
<1>4. Le16(n) = <<a, b>> /\ Be16(n) = <<b, a>>
  BY <1>3 DEF Le16, Be16
<1>5. Sequence(Byte, <<a, b>>, 2) /\ Sequence(Byte, <<b, a>>, 2)
  BY DEF Sequence
<1> QED BY <1>4, <1>5

LEMMA ZerosSeq ==
  ASSUME NEW n \in Nat
  PROVE  Sequence(Byte, Zeros(n), n)
<1>1. Zeros(n) \in [1 .. n -> Byte]
  BY DEF Zeros, Byte
<1> QED BY <1>1 DEF Sequence

LEMMA DataSeq ==
  ASSUME NEW w \in Call, NEW p \in Nat, NEW h \in Nat, NEW B \in Nat
  PROVE  Data(w, p, h, B) \in Seq(Byte) /\ Len(Data(w, p, h, B)) \in Nat
<1>1. Data(w, p, h, B) \in Seq(Byte)
  <2>1. w.call \in CallName /\ w.n \in Byte /\ w.data \in Seq(Byte)
    BY DEF Call
  <2>2. CASE w.call = "u8"
    BY <2>1, <2>2 DEF Data
  <2>3. CASE w.call = "bytes"
    BY <2>1, <2>3 DEF Data
  <2>4. CASE w.call = "rest_len"
    <3>1. (B - h) - 4 \in Int
      OBVIOUS
    <3>2. Le16(B - h - 4) \in Seq(Byte)
      BY <3>1, Le16Bytes DEF Sequence
    <3> QED BY <2>4, <3>2 DEF Data
  <2>5. CASE w.call = "align_buf"
    <3>1. w.n \in {2, 4}
      BY <2>5 DEF Call
    <3>2. Padding(p, w.n) \in Nat
      BY <3>1, PaddingNat
    <3>3. Zeros(Padding(p, w.n)) \in Seq(Byte)
      BY <3>2, ZerosSeq DEF Sequence
    <3> QED BY <2>5, <3>3 DEF Data
  <2>6. CASE w.call = "cdr_align"
    <3>1. w.n \in {2, 4} /\ p - (h + 4) \in Int
      BY <2>6 DEF Call
    <3>2. Padding(p - (h + 4), w.n) \in Nat
      BY <3>1, PaddingNat
    <3>3. Zeros(Padding(p - (h + 4), w.n)) \in Seq(Byte)
      BY <3>2, ZerosSeq DEF Sequence
    <3> QED BY <2>6, <3>3 DEF Data
  <2>7. CASE w.call \in {"hdr_off", "check", "patch"}
    BY <2>7 DEF Data
  <2> QED BY <2>1, <2>2, <2>3, <2>4, <2>5, <2>6, <2>7 DEF CallName
<1> QED BY <1>1, LenProperties

\* One call more.
LEMMA OneMore ==
  ASSUME NEW w \in Seq(Call), NEW B \in Nat, NEW n \in Nat, n + 1 <= Len(w),
         NEW q, NEW h, Laid(w, q, h, B, n)
  PROVE  \E q2, h2 : Laid(w, q2, h2, B, n + 1)
<1>1. n + 1 \in 1 .. Len(w) /\ w[n + 1] \in Call
  BY LenProperties, ElementOfSeq
<1>2. q[n] \in Nat /\ h[n] \in Nat
  BY DEF Laid
<1>3. PICK l \in Nat : l = Len(Data(w[n + 1], q[n], h[n], B))
  BY <1>1, <1>2, DataSeq
<1>4. PICK e \in Nat : e = IF w[n + 1].call = "hdr_off" THEN q[n] ELSE h[n]
  BY <1>2
<1> DEFINE q2 == [i \in 0 .. n + 1 |-> IF i = n + 1 THEN q[n] + l ELSE q[i]]
           h2 == [i \in 0 .. n + 1 |-> IF i = n + 1 THEN e ELSE h[i]]
<1>5. /\ q2 \in [0 .. n + 1 -> Nat] /\ h2 \in [0 .. n + 1 -> Nat]
      /\ \A i \in 0 .. n : q2[i] = q[i] /\ h2[i] = h[i]
      /\ q2[n + 1] = q[n] + l /\ h2[n + 1] = e
  BY <1>2 DEF Laid
<1> HIDE DEF q2, h2
<1>6. ASSUME NEW i \in 1 .. n + 1
      PROVE  /\ q2[i] = q2[i - 1] + Len(Data(w[i], q2[i - 1], h2[i - 1], B))
             /\ h2[i] = IF w[i].call = "hdr_off" THEN q2[i - 1] ELSE h2[i - 1]
  <2>1. CASE i = n + 1
    <3>1. i - 1 = n /\ n \in 0 .. n
      BY <2>1
    <3>2. q2[i - 1] = q[n] /\ h2[i - 1] = h[n]
      BY <1>5, <3>1
    <3> QED BY <1>3, <1>4, <1>5, <2>1, <3>2
  <2>2. CASE i # n + 1
    <3>1. i \in 1 .. n /\ i \in 0 .. n /\ i - 1 \in 0 .. n
      BY <2>2
    <3>2. q2[i - 1] = q[i - 1] /\ h2[i - 1] = h[i - 1] /\ q2[i] = q[i] /\ h2[i] = h[i]
      BY <1>5, <3>1
    <3> QED BY <3>1, <3>2 DEF Laid
  <2> QED BY <2>1, <2>2
<1>7. q2[0] = 0 /\ h2[0] = 0
  BY <1>5 DEF Laid
<1>8. Laid(w, q2, h2, B, n + 1)
  BY <1>5, <1>6, <1>7 DEF Laid
<1> QED BY <1>8

LEMMA LayExists ==
  ASSUME NEW w \in Seq(Call), NEW B \in Nat
  PROVE  \E q, h : Lay(w, q, h, B)
<1> DEFINE G == {n \in Nat : n <= Len(w) => \E q, h : Laid(w, q, h, B, n)}
<1>1. 0 \in G
  <2>1. Laid(w, [i \in 0 .. 0 |-> 0], [i \in 0 .. 0 |-> 0], B, 0)
    BY DEF Laid
  <2> QED BY <2>1
<1>2. Len(w) \in Nat
  BY LenProperties
<1>3. ASSUME NEW n \in G PROVE n + 1 \in G
  <2> SUFFICES ASSUME n + 1 <= Len(w) PROVE \E q, h : Laid(w, q, h, B, n + 1)
    OBVIOUS
  <2>1. n \in Nat /\ n <= Len(w)
    BY <1>2
  <2>2. PICK q, h : Laid(w, q, h, B, n)
    BY <2>1
  <2> QED BY <2>1, <2>2, OneMore
<1> HIDE DEF G
<1>4. G = Nat
  <2>1. G \in SUBSET Nat
    BY DEF G
  <2> QED BY <1>1, <1>3, <2>1, Induct
<1>5. Len(w) \in G
  BY <1>2, <1>4
<1> QED BY <1>2, <1>5 DEF G, Lay

\* No call begins before an earlier one ends.
LEMMA LayGrows ==
  ASSUME NEW w \in Seq(Call), NEW B \in Nat, NEW q, NEW h, Lay(w, q, h, B),
         NEW i \in 0 .. Len(w), NEW j \in 0 .. Len(w), i <= j
  PROVE  q[i] \in Nat /\ q[j] \in Nat /\ q[i] <= q[j]
<1>1. PICK n \in Nat : n = Len(w)
  BY LenProperties
<1> DEFINE G == {d \in Nat : i + d <= n => q[i] <= q[i + d]}
<1>2. \A k \in 0 .. n : q[k] \in Nat /\ h[k] \in Nat
  BY <1>1 DEF Lay, Laid
<1>3. 0 \in G
  BY <1>1, <1>2
<1>4. ASSUME NEW d \in G PROVE d + 1 \in G
  <2> SUFFICES ASSUME i + (d + 1) <= n PROVE q[i] <= q[i + (d + 1)]
    OBVIOUS
  <2>1. PICK k \in 0 .. n : k = i + d
    BY <1>1
  <2>2. k + 1 \in 1 .. n /\ (k + 1) - 1 = k /\ i + (d + 1) = k + 1 /\ k + 1 \in 0 .. n
    BY <1>1, <2>1
  <2>3. q[i] <= q[k]
    BY <2>1
  <2>4. w[k + 1] \in Call
    BY <1>1, <2>2, ElementOfSeq
  <2>5. PICK l \in Nat : l = Len(Data(w[k + 1], q[k], h[k], B))
    BY <1>2, <2>4, DataSeq
  <2>6. q[k + 1] = q[k] + l
    BY <1>1, <2>2, <2>5 DEF Lay, Laid
  <2> HIDE DEF G
  <2> QED BY <1>1, <1>2, <2>2, <2>3, <2>6
<1> HIDE DEF G
<1>5. G = Nat
  <2>1. G \in SUBSET Nat
    BY DEF G
  <2> QED BY <1>3, <1>4, <2>1, Induct
<1>6. j - i \in G /\ i + (j - i) = j
  BY <1>1, <1>5
<1>7. q[i] <= q[j]
  BY <1>1, <1>6 DEF G
<1> QED BY <1>1, <1>2, <1>7

-----------------------------------------------------------------------------
(* Parts of a list. *)

\* s is the part of w behind its first a.
At(w, a, s) == a + Len(s) <= Len(w) /\ \A k \in 1 .. Len(s) : w[a + k] = s[k]

LEMMA ConcatHas ==
  ASSUME NEW S, NEW f \in Seq(S), NEW g \in Seq(S), NEW c, c = f \o g
  PROVE  /\ c \in Seq(S) /\ Len(c) = Len(f) + Len(g)
         /\ \A i \in 1 .. Len(f) : c[i] = f[i]
         /\ \A i \in 1 .. Len(g) : c[Len(f) + i] = g[i]
<1> DEFINE d == f \o g
<1>1. /\ d \in Seq(S) /\ Len(d) = Len(f) + Len(g)
      /\ \A i \in 1 .. Len(f) + Len(g) : d[i] = IF i <= Len(f) THEN f[i] ELSE g[i - Len(f)]
  BY ConcatProperties, ZenonT(60)
<1>2. c = d
  OBVIOUS
<1> HIDE DEF d
<1>3. Len(f) \in Nat /\ Len(g) \in Nat
  BY LenProperties
<1>4. ASSUME NEW i \in 1 .. Len(f) PROVE d[i] = f[i]
  <2>1. i \in 1 .. Len(f) + Len(g) /\ i <= Len(f)
    BY <1>3
  <2> QED BY <1>1, <2>1
<1>5. ASSUME NEW i \in 1 .. Len(g) PROVE d[Len(f) + i] = g[i]
  <2>1. Len(f) + i \in 1 .. Len(f) + Len(g) /\ ~(Len(f) + i <= Len(f)) /\ (Len(f) + i) - Len(f) = i
    BY <1>3
  <2> QED BY <1>1, <2>1
<1> QED BY <1>1, <1>2, <1>4, <1>5

\* A list made of two has the one, and behind it the other.
LEMMA ConcatAt ==
  ASSUME NEW S, NEW w \in Seq(S), NEW a \in Nat, NEW f \in Seq(S), NEW g \in Seq(S),
         At(w, a, f \o g)
  PROVE  At(w, a, f) /\ At(w, a + Len(f), g)
<1>1. PICK c : c = f \o g
  OBVIOUS
<1>2. /\ c \in Seq(S) /\ Len(c) = Len(f) + Len(g)
      /\ \A i \in 1 .. Len(f) : c[i] = f[i]
      /\ \A i \in 1 .. Len(g) : c[Len(f) + i] = g[i]
  BY <1>1, ConcatHas
<1>3. PICK m \in Nat, n \in Nat, z \in Nat : m = Len(f) /\ n = Len(g) /\ z = Len(w)
  BY LenProperties
<1>4. a + (m + n) <= z /\ \A k \in 1 .. m + n : w[a + k] = c[k]
  BY <1>1, <1>2, <1>3 DEF At
<1>5. ASSUME NEW k \in 1 .. m PROVE w[a + k] = f[k]
  <2>1. k \in 1 .. m + n
    OBVIOUS
  <2> QED BY <1>2, <1>3, <1>4, <2>1
<1>6. ASSUME NEW k \in 1 .. n PROVE w[(a + m) + k] = g[k]
  <2>1. m + k \in 1 .. m + n /\ (a + m) + k = a + (m + k)
    OBVIOUS
  <2>2. w[a + (m + k)] = c[m + k] /\ c[m + k] = g[k]
    BY <1>2, <1>3, <1>4, <2>1
  <2> QED BY <2>1, <2>2
<1> QED BY <1>3, <1>4, <1>5, <1>6 DEF At

LEMMA ConcatIs ==
  ASSUME NEW S, NEW m \in Nat, NEW n \in Nat, NEW f, NEW g, Sequence(S, f, m), Sequence(S, g, n)
  PROVE  Sequence(S, f \o g, m + n)
<1>1. f \in Seq(S) /\ g \in Seq(S)
  BY DEF Sequence
<1>2. f \o g \in Seq(S) /\ Len(f \o g) = Len(f) + Len(g)
  BY <1>1
<1> QED BY <1>2 DEF Sequence

\* Lists joined one behind the other are at their places.
LEMMA ConcatParts ==
  ASSUME NEW S, NEW w \in Seq(S), NEW m \in Nat, NEW n \in Nat, NEW f, NEW g,
         Sequence(S, f, m), Sequence(S, g, n), At(w, 0, f \o g)
  PROVE  At(w, 0, f) /\ At(w, m, g)
<1>1. f \in Seq(S) /\ g \in Seq(S) /\ Len(f) = m /\ 0 \in Nat
  BY DEF Sequence
<1>2. At(w, 0, f) /\ At(w, 0 + Len(f), g)
  BY <1>1, ConcatAt
<1> QED BY <1>1, <1>2

LEMMA AtSelf ==
  ASSUME NEW S, NEW w \in Seq(S)
  PROVE  At(w, 0, w)
BY LenProperties DEF At

-----------------------------------------------------------------------------
(* Requests. *)

LEMMA RequestFields ==
  ASSUME NEW r \in Request
  PROVE  /\ r.op \in XmlOps \cup {"client", "read", "write"} /\ r.sid \in Byte
         /\ r.seq \in Short /\ r.req \in Short /\ r.oid \in Short /\ r.parent \in Short
         /\ r.seq \in Nat /\ r.req \in Nat /\ r.oid \in Nat /\ r.parent \in Nat
         /\ r.name \in Seq(Byte) /\ r.type \in Seq(Byte) /\ r.body \in Seq(Byte)
BY ShortNat DEF Request

LEMMA SmallBytes ==
  0 \in Byte /\ 1 \in Byte /\ 2 \in Byte /\ 3 \in Byte /\ 4 \in Byte /\ 5 \in Byte
  /\ 6 \in Byte /\ 7 \in Byte /\ 8 \in Byte
BY DEF Byte

-----------------------------------------------------------------------------
(* What each call adds. *)

LEMMA Le32Bytes ==
  ASSUME NEW n \in Nat
  PROVE  Sequence(Byte, Le32(n), 4)
<1>1. PICK n1 \in Nat, a \in Byte : n1 = n \div 256 /\ a = n % 256
  BY Division DEF Byte
<1>2. PICK n2 \in Nat, b \in Byte : n2 = n1 \div 256 /\ b = n1 % 256
  BY Division DEF Byte
<1>3. PICK n3 \in Nat, c \in Byte : n3 = n2 \div 256 /\ c = n2 % 256
  BY Division DEF Byte
<1>4. PICK d \in Byte : d = n3 % 256
  BY Division DEF Byte
<1>5. Le32(n) = <<a, b, c, d>>
  BY <1>1, <1>2, <1>3, <1>4 DEF Le32
<1>6. Sequence(Byte, <<a, b, c, d>>, 4)
  BY DEF Sequence
<1> QED BY <1>5, <1>6

LEMMA CallsAre ==
  /\ \A v \in Byte : U8(v) \in Call
  /\ \A d \in Seq(Byte) : Put(d) \in Call
  /\ \A n \in {2, 4} : AlignBuf(n) \in Call /\ CdrAlign(n) \in Call
  /\ HdrOff \in Call /\ Check \in Call /\ RestLen \in Call /\ Patch \in Call
<1>1. <<>> \in Seq(Byte) /\ 0 \in Byte /\ 2 \in Byte /\ 4 \in Byte
  BY DEF Byte
<1> QED BY <1>1 DEF Call, CallName, U8, Put, AlignBuf, CdrAlign, HdrOff, Check, RestLen, Patch

\* The call behind the first j adds l bytes, and leaves the header where it is.
Goes(q, h, j, l) == q[j + 1] = q[j] + l /\ h[j + 1] = h[j]

IsLay(w, q, h, B, j) ==
  w \in Seq(Call) /\ B \in Nat /\ Lay(w, q, h, B) /\ j \in Nat /\ j + 1 <= Len(w)

LEMMA LayStep ==
  ASSUME NEW w, NEW q, NEW h, NEW B, NEW j, IsLay(w, q, h, B, j)
  PROVE  /\ q[j] \in Nat /\ h[j] \in Nat /\ w[j + 1] \in Call
         /\ q[j + 1] = q[j] + Len(Data(w[j + 1], q[j], h[j], B))
         /\ h[j + 1] = IF w[j + 1].call = "hdr_off" THEN q[j] ELSE h[j]
<1>1. PICK n \in Nat : n = Len(w)
  BY LenProperties DEF IsLay
<1>2. j \in 0 .. n /\ j + 1 \in 1 .. n /\ (j + 1) - 1 = j
  BY <1>1 DEF IsLay
<1>3. w[j + 1] \in Call
  BY <1>1, <1>2, ElementOfSeq DEF IsLay
<1> QED BY <1>1, <1>2, <1>3 DEF IsLay, Lay, Laid

LEMMA GoesU8 ==
  ASSUME NEW w, NEW q, NEW h, NEW B, NEW j, IsLay(w, q, h, B, j),
         NEW v, w[j + 1] = U8(v)
  PROVE  Goes(q, h, j, 1)
<1>1. w[j + 1].call = "u8"
  BY DEF U8
<1>2. Len(Data(w[j + 1], q[j], h[j], B)) = 1
  <2>1. Data(w[j + 1], q[j], h[j], B) = <<w[j + 1].n>>
    BY <1>1 DEF Data
  <2>2. \A x : Len(<<x>>) = 1
    OBVIOUS
  <2> QED BY <2>1, <2>2
<1>3. w[j + 1].call # "hdr_off"
  BY <1>1
<1>4. q[j + 1] = q[j] + Len(Data(w[j + 1], q[j], h[j], B)) /\ h[j + 1] = h[j]
  BY <1>3, LayStep
<1> QED BY <1>4, <1>2 DEF Goes

LEMMA GoesPut ==
  ASSUME NEW w, NEW q, NEW h, NEW B, NEW j, IsLay(w, q, h, B, j),
         NEW d, w[j + 1] = Put(d), NEW l, Len(d) = l
  PROVE  Goes(q, h, j, l)
<1>1. w[j + 1].call = "bytes" /\ w[j + 1].data = d
  BY DEF Put
<1>2. Len(Data(w[j + 1], q[j], h[j], B)) = l
  BY <1>1 DEF Data
<1> QED BY <1>1, <1>2, LayStep DEF Goes

LEMMA GoesNowhere ==
  ASSUME NEW w, NEW q, NEW h, NEW B, NEW j, IsLay(w, q, h, B, j),
         w[j + 1] \in {Check, Patch}
  PROVE  Goes(q, h, j, 0)
<1>1. w[j + 1].call \in {"check", "patch"}
  BY DEF Check, Patch
<1>2. Len(Data(w[j + 1], q[j], h[j], B)) = 0
  BY <1>1 DEF Data
<1>3. q[j] + 0 = q[j]
  BY LayStep
<1> QED BY <1>1, <1>2, <1>3, LayStep DEF Goes

LEMMA GoesRestLen ==
  ASSUME NEW w, NEW q, NEW h, NEW B, NEW j, IsLay(w, q, h, B, j),
         w[j + 1] = RestLen
  PROVE  Goes(q, h, j, 2)
<1>1. w[j + 1].call = "rest_len"
  BY DEF RestLen
<1>2. B \in Nat /\ h[j] \in Nat
  <2>1. h[j] \in Nat
    BY LayStep
  <2> QED BY <2>1 DEF IsLay
<1>3. Len(Data(w[j + 1], q[j], h[j], B)) = 2
  <2>1. (B - h[j]) - 4 \in Int
    BY <1>2
  <2>2. Len(Le16(B - h[j] - 4)) = 2
    BY <2>1, Le16Bytes DEF Sequence
  <2> QED BY <1>1, <2>2 DEF Data
<1>4. w[j + 1].call # "hdr_off"
  BY <1>1
<1>5. q[j + 1] = q[j] + Len(Data(w[j + 1], q[j], h[j], B)) /\ h[j + 1] = h[j]
  BY <1>4, LayStep
<1> QED BY <1>5, <1>3 DEF Goes

LEMMA GoesAlign ==
  ASSUME NEW w, NEW q, NEW h, NEW B, NEW j, IsLay(w, q, h, B, j), NEW n \in {2, 4},
         NEW l,
         \/ w[j + 1] = AlignBuf(n) /\ l = Padding(q[j], n)
         \/ w[j + 1] = CdrAlign(n) /\ l = Padding(q[j] - (h[j] + 4), n)
  PROVE  l \in 0 .. n - 1 /\ Goes(q, h, j, l)
<1>1. q[j] \in Nat /\ h[j] \in Nat
  BY LayStep
<1>2. q[j] - (h[j] + 4) \in Int
  BY <1>1
<1>3. l \in 0 .. n - 1 /\ l \in Nat
  BY <1>1, <1>2, PaddingNat
<1>4. Data(w[j + 1], q[j], h[j], B) = Zeros(l)
  BY DEF Data, AlignBuf, CdrAlign
<1>5. Len(Data(w[j + 1], q[j], h[j], B)) = l
  BY <1>3, <1>4, ZerosSeq DEF Sequence
<1>6. w[j + 1].call # "hdr_off"
  BY DEF AlignBuf, CdrAlign
<1>7. Goes(q, h, j, l)
  BY <1>5, <1>6, LayStep DEF Goes
<1> QED BY <1>3, <1>7

LEMMA GoesHdrOff ==
  ASSUME NEW w, NEW q, NEW h, NEW B, NEW j, IsLay(w, q, h, B, j),
         w[j + 1] = HdrOff
  PROVE  q[j + 1] = q[j] /\ h[j + 1] = q[j]
<1>1. w[j + 1].call = "hdr_off"
  BY DEF HdrOff
<1>2. Len(Data(w[j + 1], q[j], h[j], B)) = 0
  BY <1>1 DEF Data
<1>3. q[j] + 0 = q[j]
  BY LayStep
<1> QED BY <1>1, <1>2, <1>3, LayStep

-----------------------------------------------------------------------------
(* The parts the encoders share. *)

HeaderCalls(sid) == IF sid < SessionIdWithoutClientKey THEN 4 ELSE 3

NoPatch(w, first, last) == \A j \in first .. last : w[j].call # "patch"

HeaderAt(w, sid, stream, seq) ==
  /\ w[1] = U8(sid) /\ w[2] = U8(stream) /\ w[3] = Put(Le16(seq))
  /\ sid < SessionIdWithoutClientKey => w[4] = Put(ClientKey)

LEMMA KeyBytes == ClientKey \in Seq(Byte) /\ Len(ClientKey) = 4
BY EncodersAssumption

LEMMA HeaderPart ==
  ASSUME NEW sid \in Byte, NEW stream \in Byte, NEW seq \in Nat
  PROVE  /\ Sequence(Call, SessionHeader(sid, stream, seq), HeaderCalls(sid))
         /\ \A w : At(w, 0, SessionHeader(sid, stream, seq)) =>
                     /\ HeaderAt(w, sid, stream, seq)
                     /\ NoPatch(w, 1, HeaderCalls(sid))
<1>1. PICK a \in Call, b \in Call, c \in Call, k \in Call :
        a = U8(sid) /\ b = U8(stream) /\ c = Put(Le16(seq)) /\ k = Put(ClientKey)
  <2>1. Le16(seq) \in Seq(Byte)
    BY Le16Bytes DEF Sequence
  <2>2. ClientKey \in Seq(Byte)
    BY KeyBytes
  <2> QED BY <2>1, <2>2, CallsAre
<1>2. sid \in Nat
  BY DEF Byte
<1>3. a.call # "patch" /\ b.call # "patch" /\ c.call # "patch" /\ k.call # "patch"
  BY <1>1 DEF U8, Put
<1>4. CASE sid < SessionIdWithoutClientKey
  <2>1. SessionHeader(sid, stream, seq) = <<a, b, c>> \o <<k>>
    BY <1>1, <1>4 DEF SessionHeader, KeyIf
  <2>2. <<a, b, c>> \o <<k>> = <<a, b, c, k>>
    <3>1. PICK f, e, d : f = <<a, b, c>> /\ e = <<k>> /\ d = f \o e
      OBVIOUS
    <3>2. /\ f \in Seq(Call) /\ Len(f) = 3 /\ f[1] = a /\ f[2] = b /\ f[3] = c
          /\ e \in Seq(Call) /\ Len(e) = 1 /\ e[1] = k
      BY <3>1
    <3>3. /\ d \in Seq(Call) /\ Len(d) = Len(f) + Len(e)
          /\ \A i \in 1 .. Len(f) : d[i] = f[i]
          /\ \A i \in 1 .. Len(e) : d[Len(f) + i] = e[i]
      BY <3>1, <3>2, ConcatHas
    <3>4. Len(d) = 4 /\ d[1] = a /\ d[2] = b /\ d[3] = c /\ d[3 + 1] = k
      BY <3>2, <3>3
    <3>5. PICK t : t = <<a, b, c, k>>
      OBVIOUS
    <3>6. t \in Seq(Call) /\ Len(t) = 4 /\ t[1] = a /\ t[2] = b /\ t[3] = c /\ t[4] = k
      BY <3>5
    <3>7. \A i \in 1 .. 4 : i = 1 \/ i = 2 \/ i = 3 \/ i = 3 + 1
      OBVIOUS
    <3>8. \A i \in 1 .. Len(d) : d[i] = t[i]
      BY <3>4, <3>6, <3>7
    <3>9. d = t
      BY <3>3, <3>4, <3>6, <3>8, SeqEqual
    <3> QED BY <3>1, <3>5, <3>9
  <2>3. SessionHeader(sid, stream, seq) = <<a, b, c, k>> /\ HeaderCalls(sid) = 4
    BY <1>4, <2>1, <2>2 DEF HeaderCalls
  <2>4. Sequence(Call, <<a, b, c, k>>, 4)
    BY DEF Sequence
  <2>5. ASSUME NEW w, At(w, 0, <<a, b, c, k>>)
        PROVE  w[1] = a /\ w[2] = b /\ w[3] = c /\ w[4] = k
    BY <2>5 DEF At
  <2>6. ASSUME NEW w, At(w, 0, <<a, b, c, k>>)
        PROVE  HeaderAt(w, sid, stream, seq) /\ NoPatch(w, 1, 4)
    <3>1. w[1] = a /\ w[2] = b /\ w[3] = c /\ w[4] = k
      BY <2>5, <2>6
    <3>2. \A j \in 1 .. 4 : j = 1 \/ j = 2 \/ j = 3 \/ j = 4
      OBVIOUS
    <3> QED BY <1>1, <1>3, <3>1, <3>2 DEF HeaderAt, NoPatch
  <2> QED BY <2>3, <2>4, <2>6
<1>5. CASE ~(sid < SessionIdWithoutClientKey)
  <2>1. SessionHeader(sid, stream, seq) = <<a, b, c>> \o <<>>
    BY <1>1, <1>5 DEF SessionHeader, KeyIf
  <2>2. <<a, b, c>> \o <<>> = <<a, b, c>>
    OBVIOUS
  <2>3. SessionHeader(sid, stream, seq) = <<a, b, c>> /\ HeaderCalls(sid) = 3
    BY <1>5, <2>1, <2>2 DEF HeaderCalls
  <2>4. Sequence(Call, <<a, b, c>>, 3)
    BY DEF Sequence
  <2>5. ASSUME NEW w, At(w, 0, <<a, b, c>>)
        PROVE  w[1] = a /\ w[2] = b /\ w[3] = c
    BY <2>5 DEF At
  <2>6. ASSUME NEW w, At(w, 0, <<a, b, c>>)
        PROVE  HeaderAt(w, sid, stream, seq) /\ NoPatch(w, 1, 3)
    <3>1. w[1] = a /\ w[2] = b /\ w[3] = c
      BY <2>5, <2>6
    <3>2. \A j \in 1 .. 3 : j = 1 \/ j = 2 \/ j = 3
      OBVIOUS
    <3> QED BY <1>1, <1>3, <1>5, <3>1, <3>2 DEF HeaderAt, NoPatch
  <2> QED BY <2>3, <2>4, <2>6
<1> QED BY <1>4, <1>5

SubAt(w, a, id, flags) ==
  /\ w[a + 1] = AlignBuf(4) /\ w[a + 2] = HdrOff
  /\ w[a + 3] = U8(id) /\ w[a + 4] = U8(flags) /\ w[a + 5] = Put(Le16(0))

LEMMA SubPart ==
  ASSUME NEW id \in Byte, NEW flags \in Byte
  PROVE  /\ Sequence(Call, SubHeader(id, flags), 5)
         /\ \A w : \A a \in Nat : At(w, a, SubHeader(id, flags)) =>
                     SubAt(w, a, id, flags) /\ NoPatch(w, a + 1, a + 5)
<1>1. PICK b \in Call, c \in Call, d \in Call, e \in Call, f \in Call :
        b = AlignBuf(4) /\ c = HdrOff /\ d = U8(id) /\ e = U8(flags) /\ f = Put(Le16(0))
  <2>1. Le16(0) \in Seq(Byte)
    BY Le16Bytes DEF Sequence
  <2> QED BY <2>1, CallsAre
<1>2. /\ b.call # "patch" /\ c.call # "patch" /\ d.call # "patch" /\ e.call # "patch"
      /\ f.call # "patch"
  BY <1>1 DEF U8, Put, AlignBuf, HdrOff
<1>3. SubHeader(id, flags) = <<b, c, d, e, f>>
  BY <1>1 DEF SubHeader
<1>4. Sequence(Call, <<b, c, d, e, f>>, 5)
  BY DEF Sequence
<1>5. ASSUME NEW w, NEW a \in Nat, At(w, a, <<b, c, d, e, f>>)
      PROVE  SubAt(w, a, id, flags) /\ NoPatch(w, a + 1, a + 5)
  <2>1. w[a + 1] = b /\ w[a + 2] = c /\ w[a + 3] = d /\ w[a + 4] = e /\ w[a + 5] = f
    BY <1>5 DEF At
  <2>2. \A j \in a + 1 .. a + 5 : j = a + 1 \/ j = a + 2 \/ j = a + 3 \/ j = a + 4 \/ j = a + 5
    OBVIOUS
  <2> QED BY <1>1, <1>2, <2>1, <2>2 DEF SubAt, NoPatch
<1> QED BY <1>3, <1>4, <1>5

RefAt(w, a, req, oid) == w[a + 1] = Put(Be16(req)) /\ w[a + 2] = Put(Be16(oid))

LEMMA RefPart ==
  ASSUME NEW req \in Nat, NEW oid \in Nat
  PROVE  /\ Sequence(Call, ObjectRef(req, oid), 2)
         /\ \A w : \A a \in Nat : At(w, a, ObjectRef(req, oid)) =>
                     RefAt(w, a, req, oid) /\ NoPatch(w, a + 1, a + 2)
<1>1. PICK b \in Call, c \in Call : b = Put(Be16(req)) /\ c = Put(Be16(oid))
  <2>1. Be16(req) \in Seq(Byte) /\ Be16(oid) \in Seq(Byte)
    BY Le16Bytes DEF Sequence
  <2> QED BY <2>1, CallsAre
<1>2. b.call # "patch" /\ c.call # "patch"
  BY <1>1 DEF Put
<1>3. ObjectRef(req, oid) = <<b, c>>
  BY <1>1 DEF ObjectRef
<1>4. Sequence(Call, <<b, c>>, 2)
  BY DEF Sequence
<1>5. ASSUME NEW w, NEW a \in Nat, At(w, a, <<b, c>>)
      PROVE  RefAt(w, a, req, oid) /\ NoPatch(w, a + 1, a + 2)
  <2>1. w[a + 1] = b /\ w[a + 2] = c
    BY <1>5 DEF At
  <2>2. \A j \in a + 1 .. a + 2 : j = a + 1 \/ j = a + 2
    OBVIOUS
  <2> QED BY <1>1, <1>2, <2>1, <2>2 DEF RefAt, NoPatch
<1> QED BY <1>3, <1>4, <1>5

TextAt(w, a, text) ==
  /\ w[a + 1] = CdrAlign(4) /\ w[a + 2] = Put(Le32(Len(text) + 1)) /\ w[a + 3] = Put(text)
  /\ w[a + 4] = U8(0) /\ w[a + 5] = Check

LEMMA TextPart ==
  ASSUME NEW text \in Seq(Byte)
  PROVE  /\ Sequence(Call, CdrString(text), 5)
         /\ \A w : \A a \in Nat : At(w, a, CdrString(text)) =>
                     TextAt(w, a, text) /\ NoPatch(w, a + 1, a + 5)
<1>1. PICK b \in Call, c \in Call, d \in Call, e \in Call, f \in Call :
        /\ b = CdrAlign(4) /\ c = Put(Le32(Len(text) + 1)) /\ d = Put(text)
        /\ e = U8(0) /\ f = Check
  <2>1. Len(text) + 1 \in Nat
    BY LenProperties
  <2>2. Le32(Len(text) + 1) \in Seq(Byte)
    BY <2>1, Le32Bytes DEF Sequence
  <2>3. 0 \in Byte
    BY DEF Byte
  <2> QED BY <2>2, <2>3, CallsAre
<1>2. /\ b.call # "patch" /\ c.call # "patch" /\ d.call # "patch" /\ e.call # "patch"
      /\ f.call # "patch"
  BY <1>1 DEF U8, Put, CdrAlign, Check
<1>3. CdrString(text) = <<b, c, d, e, f>>
  BY <1>1 DEF CdrString
<1>4. Sequence(Call, <<b, c, d, e, f>>, 5)
  BY DEF Sequence
<1>5. ASSUME NEW w, NEW a \in Nat, At(w, a, <<b, c, d, e, f>>)
      PROVE  TextAt(w, a, text) /\ NoPatch(w, a + 1, a + 5)
  <2>1. w[a + 1] = b /\ w[a + 2] = c /\ w[a + 3] = d /\ w[a + 4] = e /\ w[a + 5] = f
    BY <1>5 DEF At
  <2>2. \A j \in a + 1 .. a + 5 : j = a + 1 \/ j = a + 2 \/ j = a + 3 \/ j = a + 4 \/ j = a + 5
    OBVIOUS
  <2> QED BY <1>1, <1>2, <2>1, <2>2 DEF TextAt, NoPatch
<1> QED BY <1>3, <1>4, <1>5

-----------------------------------------------------------------------------
(* Where the shared parts put their bytes. *)

\* The header's bytes, and the calls it took.
HeaderLaid(q, h, sid) ==
  LET g == HeaderCalls(sid)
  IN  q[0] = 0 /\ q[1] = 1 /\ q[2] = 2 /\ q[3] = 4 /\ q[g] = MsgHeaderLen(sid) /\ h[g] = 0

LEMMA HeaderLays ==
  ASSUME NEW w \in Seq(Call), NEW q, NEW h, NEW B \in Nat, Lay(w, q, h, B),
         NEW sid \in Byte, NEW stream, NEW seq \in Nat, HeaderAt(w, sid, stream, seq),
         HeaderCalls(sid) <= Len(w)
  PROVE  HeaderLaid(q, h, sid)
<1>0. HeaderCalls(sid) \in {3, 4} /\ Len(w) \in Nat /\ sid \in Nat
  BY LenProperties DEF HeaderCalls, Byte
<1>1. IsLay(w, q, h, B, 0) /\ IsLay(w, q, h, B, 1) /\ IsLay(w, q, h, B, 2)
  BY <1>0 DEF IsLay
<1>2. w[0 + 1] = U8(sid) /\ w[1 + 1] = U8(stream) /\ w[2 + 1] = Put(Le16(seq))
  BY DEF HeaderAt
<1>3. Len(Le16(seq)) = 2 /\ Len(ClientKey) = 4
  BY Le16Bytes, KeyBytes DEF Sequence
<1>4. Goes(q, h, 0, 1)
  BY <1>1, <1>2, GoesU8
<1>5. Goes(q, h, 1, 1)
  BY <1>1, <1>2, GoesU8
<1>6. Goes(q, h, 2, 2)
  BY <1>1, <1>2, <1>3, GoesPut
<1>7. q[0] = 0 /\ h[0] = 0
  BY DEF Lay, Laid
<1>8. q[1] = 1 /\ q[2] = 2 /\ q[3] = 4 /\ h[3] = 0
  BY <1>4, <1>5, <1>6, <1>7 DEF Goes
<1>9. CASE sid < SessionIdWithoutClientKey
  <2>1. HeaderCalls(sid) = 4 /\ w[3 + 1] = Put(ClientKey)
    BY <1>9 DEF HeaderAt, HeaderCalls
  <2>2. IsLay(w, q, h, B, 3)
    BY <1>0, <2>1 DEF IsLay
  <2>3. Goes(q, h, 3, 4)
    BY <1>3, <2>1, <2>2, GoesPut
  <2>4. q[4] = 8 /\ h[4] = 0
    BY <1>8, <2>3 DEF Goes
  <2> QED BY <1>7, <1>8, <1>9, <2>1, <2>4 DEF HeaderLaid, MsgHeaderLen
<1>10. CASE ~(sid < SessionIdWithoutClientKey)
  BY <1>7, <1>8, <1>10 DEF HeaderLaid, MsgHeaderLen, HeaderCalls
<1> QED BY <1>9, <1>10

SubLaid(q, h, a, n) ==
  /\ q[a + 2] = n /\ q[a + 3] = n + 1 /\ q[a + 4] = n + 2 /\ q[a + 5] = n + 4
  /\ h[a + 5] = n

LEMMA SubLays ==
  ASSUME NEW w \in Seq(Call), NEW q, NEW h, NEW B \in Nat, Lay(w, q, h, B),
         NEW a \in Nat, NEW id, NEW flags, SubAt(w, a, id, flags), a + 5 <= Len(w),
         NEW n \in {4, 8}, q[a] = n
  PROVE  SubLaid(q, h, a, n)
<1>0. Len(w) \in Nat
  BY LenProperties
<1>1. /\ IsLay(w, q, h, B, a) /\ IsLay(w, q, h, B, a + 1) /\ IsLay(w, q, h, B, a + 2)
      /\ IsLay(w, q, h, B, a + 3) /\ IsLay(w, q, h, B, a + 4)
  BY <1>0 DEF IsLay
<1>2. /\ w[a + 1] = AlignBuf(4) /\ w[(a + 1) + 1] = HdrOff /\ w[(a + 2) + 1] = U8(id)
      /\ w[(a + 3) + 1] = U8(flags) /\ w[(a + 4) + 1] = Put(Le16(0))
  BY DEF SubAt
<1>3. Padding(n, 4) = 0
  BY DEF Padding
<1>4. Goes(q, h, a, 0)
  <2>1. Padding(q[a], 4) = 0
    BY <1>3
  <2>2. 4 \in {2, 4}
    OBVIOUS
  <2> QED BY <1>1, <1>2, <2>1, <2>2, GoesAlign
<1>5. q[a + 1] = n
  BY <1>4 DEF Goes
<1>6. q[(a + 1) + 1] = q[a + 1] /\ h[(a + 1) + 1] = q[a + 1]
  BY <1>1, <1>2, GoesHdrOff
<1>7. Goes(q, h, a + 2, 1)
  BY <1>1, <1>2, GoesU8
<1>8. Goes(q, h, a + 3, 1)
  BY <1>1, <1>2, GoesU8
<1>9. Len(Le16(0)) = 2
  BY Le16Bytes DEF Sequence
<1>10. Goes(q, h, a + 4, 2)
  BY <1>1, <1>2, <1>9, GoesPut
<1>11. q[a + 2] = n /\ h[a + 2] = n
  BY <1>5, <1>6
<1>12. q[a + 3] = n + 1 /\ h[a + 3] = n
  BY <1>7, <1>11 DEF Goes
<1>13. q[a + 4] = n + 2 /\ h[a + 4] = n
  BY <1>8, <1>12 DEF Goes
<1>14. q[a + 5] = n + 4 /\ h[a + 5] = n
  BY <1>10, <1>13 DEF Goes
<1> QED BY <1>11, <1>12, <1>13, <1>14 DEF SubLaid

RefLaid(q, h, a, p, n) ==
  q[a] = p /\ q[a + 1] = p + 2 /\ q[a + 2] = p + 4 /\ h[a + 2] = n

LEMMA RefLays ==
  ASSUME NEW w \in Seq(Call), NEW q, NEW h, NEW B \in Nat, Lay(w, q, h, B),
         NEW a \in Nat, NEW req \in Nat, NEW oid \in Nat, RefAt(w, a, req, oid),
         a + 2 <= Len(w), NEW p \in Nat, q[a] = p, NEW n, h[a] = n
  PROVE  RefLaid(q, h, a, p, n)
<1>0. Len(w) \in Nat
  BY LenProperties
<1>1. IsLay(w, q, h, B, a) /\ IsLay(w, q, h, B, a + 1)
  BY <1>0 DEF IsLay
<1>2. w[a + 1] = Put(Be16(req)) /\ w[(a + 1) + 1] = Put(Be16(oid))
  BY DEF RefAt
<1>3. Len(Be16(req)) = 2 /\ Len(Be16(oid)) = 2
  BY Le16Bytes DEF Sequence
<1>4. Goes(q, h, a, 2)
  BY <1>1, <1>2, <1>3, GoesPut
<1>5. Goes(q, h, a + 1, 2)
  BY <1>1, <1>2, <1>3, GoesPut
<1>6. q[a + 1] = p + 2 /\ h[a + 1] = n
  BY <1>4 DEF Goes
<1> QED BY <1>5, <1>6 DEF Goes, RefLaid

\* The text of t bytes behind p bytes, of which a payload of 6 came first.
TextLaid(q, h, a, n, t) ==
  /\ q[a + 1] = n + 12 /\ q[a + 2] = n + 16 /\ q[a + 3] = n + 16 + t
  /\ q[a + 4] = n + 17 + t /\ q[a + 5] = n + 17 + t /\ h[a + 5] = n

LEMMA TextLays ==
  ASSUME NEW w \in Seq(Call), NEW q, NEW h, NEW B \in Nat, Lay(w, q, h, B),
         NEW a \in Nat, NEW text \in Seq(Byte), TextAt(w, a, text), a + 5 <= Len(w),
         NEW n \in Nat, q[a] = n + 10, h[a] = n, NEW t \in Nat, t = Len(text)
  PROVE  TextLaid(q, h, a, n, t)
<1>0. Len(w) \in Nat
  BY LenProperties
<1>1. /\ IsLay(w, q, h, B, a) /\ IsLay(w, q, h, B, a + 1) /\ IsLay(w, q, h, B, a + 2)
      /\ IsLay(w, q, h, B, a + 3) /\ IsLay(w, q, h, B, a + 4)
  BY <1>0 DEF IsLay
<1>2. /\ w[a + 1] = CdrAlign(4) /\ w[(a + 1) + 1] = Put(Le32(Len(text) + 1))
      /\ w[(a + 2) + 1] = Put(text) /\ w[(a + 3) + 1] = U8(0) /\ w[(a + 4) + 1] = Check
  BY DEF TextAt
<1>3. Padding(q[a] - (h[a] + 4), 4) = 2
  <2>1. q[a] - (h[a] + 4) = 6
    OBVIOUS
  <2> QED BY <2>1 DEF Padding
<1>4. Goes(q, h, a, 2)
  <2>1. 4 \in {2, 4}
    OBVIOUS
  <2> QED BY <1>1, <1>2, <1>3, <2>1, GoesAlign
<1>5. Len(Le32(Len(text) + 1)) = 4
  <2>1. Len(text) + 1 \in Nat
    OBVIOUS
  <2> QED BY <2>1, Le32Bytes DEF Sequence
<1>6. Goes(q, h, a + 1, 4)
  BY <1>1, <1>2, <1>5, GoesPut
<1>7. Goes(q, h, a + 2, t)
  BY <1>1, <1>2, GoesPut
<1>8. Goes(q, h, a + 3, 1)
  BY <1>1, <1>2, GoesU8
<1>9. Goes(q, h, a + 4, 0)
  BY <1>1, <1>2, GoesNowhere
<1>10. q[a + 1] = n + 12 /\ h[a + 1] = n
  BY <1>4 DEF Goes
<1>11. q[a + 2] = n + 16 /\ h[a + 2] = n
  BY <1>6, <1>10 DEF Goes
<1>12. q[a + 3] = n + 16 + t /\ h[a + 3] = n
  BY <1>7, <1>11 DEF Goes
<1>13. q[a + 4] = n + 17 + t /\ h[a + 4] = n
  BY <1>8, <1>12 DEF Goes
<1>14. q[a + 5] = n + 17 + t /\ h[a + 5] = n
  BY <1>9, <1>13 DEF Goes
<1> QED BY <1>10, <1>11, <1>12, <1>13, <1>14 DEF TextLaid

-----------------------------------------------------------------------------
(* CREATE_CLIENT. *)

LEMMA MaskedByte ==
  ASSUME NEW sid \in Byte
  PROVE  /\ Masked(sid) \in Byte
         /\ Masked(sid) < SessionIdWithoutClientKey <=> sid < SessionIdWithoutClientKey
<1>1. sid \in Nat /\ 0 \in Byte /\ 128 \in Byte
  BY DEF Byte
<1> QED BY <1>1 DEF Masked, SessionIdWithoutClientKey

ClientAt(w, a, r) ==
  /\ w[a + 1] = Put(Cookie) /\ w[a + 2] = Put(Version) /\ w[a + 3] = Put(Vendor)
  /\ w[a + 4] = Put(ClientKey) /\ w[a + 5] = U8(r.sid) /\ w[a + 6] = U8(0)
  /\ w[a + 7] = CdrAlign(2) /\ w[a + 8] = Put(Le16(Mtu)) /\ w[a + 9] = Patch

\* The calls of an encoder of this kind.
ClientList(w, r) ==
  LET g == HeaderCalls(r.sid)
  IN  /\ w \in Seq(Call) /\ Len(w) = g + 14
      /\ HeaderAt(w, Masked(r.sid), StreamNone, 0)
      /\ SubAt(w, g, SubmsgCreateClient, FlagLe)
      /\ ClientAt(w, g + 5, r)
      /\ NoPatch(w, 1, g + 13)

LEMMA ClientTail ==
  ASSUME NEW r \in Request
  PROVE  \E s : /\ s = <<Put(Cookie), Put(Version), Put(Vendor), Put(ClientKey), U8(r.sid),
                         U8(0), CdrAlign(2), Put(Le16(Mtu)), Patch>>
                /\ Sequence(Call, s, 9)
                /\ \A w : \A a \in Nat : At(w, a, s) =>
                            ClientAt(w, a, r) /\ NoPatch(w, a + 1, a + 8)
<1>1. PICK b \in Call, c \in Call, d \in Call, e \in Call, f \in Call :
        /\ b = Put(Cookie) /\ c = Put(Version) /\ d = Put(Vendor) /\ e = Put(ClientKey)
        /\ f = U8(r.sid)
  <2>1. Cookie \in Seq(Byte)
    <3>1. 88 \in Byte /\ 82 \in Byte /\ 67 \in Byte /\ 69 \in Byte
      BY DEF Byte
    <3> QED BY <3>1 DEF Cookie
  <2>2. Version \in Seq(Byte) /\ Vendor \in Seq(Byte)
    <3>1. 1 \in Byte /\ 0 \in Byte /\ 15 \in Byte
      BY DEF Byte
    <3> QED BY <3>1 DEF Version, Vendor
  <2>3. r.sid \in Byte
    BY RequestFields
  <2> QED BY <2>1, <2>2, <2>3, KeyBytes, CallsAre
<1>2. PICK i \in Call, j \in Call, k \in Call, l \in Call :
        i = U8(0) /\ j = CdrAlign(2) /\ k = Put(Le16(Mtu)) /\ l = Patch
  <2>1. Le16(Mtu) \in Seq(Byte)
    <3>1. Mtu \in Int
      BY DEF Mtu
    <3> QED BY <3>1, Le16Bytes DEF Sequence
  <2> QED BY <2>1, SmallBytes, CallsAre
<1>3. /\ b.call # "patch" /\ c.call # "patch" /\ d.call # "patch" /\ e.call # "patch"
      /\ f.call # "patch" /\ i.call # "patch" /\ j.call # "patch" /\ k.call # "patch"
  BY <1>1, <1>2 DEF U8, Put, CdrAlign
<1>4. PICK s : s = <<b, c, d, e, f, i, j, k, l>>
  OBVIOUS
<1>5. s \in Seq(Call) /\ Len(s) = 9
  BY <1>4
<1>6. /\ s[1] = b /\ s[2] = c /\ s[3] = d /\ s[4] = e /\ s[5] = f
      /\ s[6] = i /\ s[7] = j /\ s[8] = k /\ s[9] = l
  BY <1>4
<1>7. ASSUME NEW w, NEW a \in Nat, At(w, a, s)
      PROVE  ClientAt(w, a, r) /\ NoPatch(w, a + 1, a + 8)
  <2>1. \A x \in 1 .. 9 : w[a + x] = s[x]
    BY <1>5, <1>7 DEF At
  <2>2. /\ w[a + 1] = b /\ w[a + 2] = c /\ w[a + 3] = d /\ w[a + 4] = e /\ w[a + 5] = f
        /\ w[a + 6] = i /\ w[a + 7] = j /\ w[a + 8] = k /\ w[a + 9] = l
    BY <1>6, <2>1
  <2>3. \A x \in a + 1 .. a + 8 :
           \/ x = a + 1 \/ x = a + 2 \/ x = a + 3 \/ x = a + 4 \/ x = a + 5
           \/ x = a + 6 \/ x = a + 7 \/ x = a + 8
    OBVIOUS
  <2> QED BY <1>1, <1>2, <1>3, <2>2, <2>3 DEF ClientAt, NoPatch
<1> QED BY <1>1, <1>2, <1>4, <1>5, <1>7 DEF Sequence

LEMMA ClientCalls ==
  ASSUME NEW r \in Request, r.op = "client"
  PROVE  ClientList(Encode(r), r)
<1>1. PICK s : /\ s = <<Put(Cookie), Put(Version), Put(Vendor), Put(ClientKey), U8(r.sid),
                        U8(0), CdrAlign(2), Put(Le16(Mtu)), Patch>>
               /\ Sequence(Call, s, 9)
               /\ \A x : \A a \in Nat : At(x, a, s) =>
                           ClientAt(x, a, r) /\ NoPatch(x, a + 1, a + 8)
  BY ClientTail
<1>2. PICK head : head = SessionHeader(Masked(r.sid), StreamNone, 0)
  OBVIOUS
<1>3. PICK sub : sub = SubHeader(SubmsgCreateClient, FlagLe)
  OBVIOUS
<1>4. r.sid \in Byte
  BY RequestFields
<1>5. PICK g \in {3, 4} : g = HeaderCalls(r.sid)
  BY DEF HeaderCalls
<1>6. HeaderCalls(Masked(r.sid)) = g
  BY <1>4, <1>5, MaskedByte DEF HeaderCalls
<1>7. /\ Sequence(Call, head, g)
      /\ At(Encode(r), 0, head) =>
           HeaderAt(Encode(r), Masked(r.sid), StreamNone, 0) /\ NoPatch(Encode(r), 1, g)
  <2>1. Masked(r.sid) \in Byte /\ StreamNone \in Byte
    BY <1>4, MaskedByte, SmallBytes DEF StreamNone
  <2> QED BY <1>2, <1>6, <2>1, HeaderPart
<1>8. g \in Nat /\ g + 5 \in Nat
  OBVIOUS
<1>9. /\ Sequence(Call, sub, 5)
      /\ At(Encode(r), g, sub) =>
           SubAt(Encode(r), g, SubmsgCreateClient, FlagLe) /\ NoPatch(Encode(r), g + 1, g + 5)
  <2>1. SubmsgCreateClient \in Byte /\ FlagLe \in Byte
    BY SmallBytes DEF SubmsgCreateClient, FlagLe
  <2> QED BY <1>3, <1>8, <2>1, SubPart
<1>10. PICK w : w = (head \o sub) \o s
  OBVIOUS
<1>11. Encode(r) = w
  <2>1. r.op \notin XmlOps /\ r.op # "read" /\ r.op # "write"
    BY DEF XmlOps, FormattedOps
  <2>2. Encode(r) = CreateClient(r)
    BY <2>1 DEF Encode
  <2> QED BY <1>1, <1>2, <1>3, <1>10, <2>2 DEF CreateClient
<1>12. Sequence(Call, head \o sub, g + 5)
  BY <1>7, <1>8, <1>9, ConcatIs
<1>13. w \in Seq(Call) /\ Len(w) = g + 14
  <2>1. Sequence(Call, w, (g + 5) + 9)
    BY <1>1, <1>8, <1>10, <1>12, ConcatIs
  <2> QED BY <2>1 DEF Sequence
<1>14. At(w, 0, head \o sub) /\ At(w, g + 5, s)
  <2>1. At(w, 0, (head \o sub) \o s)
    BY <1>10, <1>13, AtSelf
  <2> QED BY <1>1, <1>8, <1>12, <1>13, <2>1, ConcatParts
<1>15. At(w, 0, head) /\ At(w, g, sub)
  BY <1>7, <1>8, <1>9, <1>13, <1>14, ConcatParts
<1>16. HeaderAt(w, Masked(r.sid), StreamNone, 0) /\ NoPatch(w, 1, g)
  BY <1>7, <1>11, <1>15
<1>17. SubAt(w, g, SubmsgCreateClient, FlagLe) /\ NoPatch(w, g + 1, g + 5)
  BY <1>9, <1>11, <1>15
<1>18. ClientAt(w, g + 5, r) /\ NoPatch(w, (g + 5) + 1, (g + 5) + 8)
  BY <1>1, <1>8, <1>14
<1>19. NoPatch(w, 1, g + 13)
  BY <1>8, <1>16, <1>17, <1>18 DEF NoPatch
<1> QED BY <1>5, <1>11, <1>13, <1>16, <1>17, <1>18, <1>19 DEF ClientList

-----------------------------------------------------------------------------
(* CREATE. *)

CreateAt(w, a, r) ==
  IF r.op = "participant"
  THEN w[a + 1] = CdrAlign(2) /\ w[a + 2] = Put(Le16(0))
  ELSE w[a + 1] = Put(Be16(r.parent))

CreateTailCalls(r) == IF r.op = "participant" THEN 2 ELSE 1

CreateList(w, r) ==
  LET g == HeaderCalls(r.sid)
      k == CreateTailCalls(r)
  IN  /\ w \in Seq(Call) /\ Len(w) = g + 16 + k
      /\ HeaderAt(w, r.sid, StreamBestEffort, r.seq)
      /\ SubAt(w, g, SubmsgCreate, FlagsCreate)
      /\ RefAt(w, g + 5, r.req, r.oid)
      /\ w[g + 8] = U8(EntityKind[r.op]) /\ w[g + 9] = U8(ReprAsXml)
      /\ TextAt(w, g + 9, Text(r))
      /\ CreateAt(w, g + 14, r)
      /\ w[g + 15 + k] = Patch /\ w[g + 16 + k] = Check
      /\ NoPatch(w, 1, g + 14 + k)

LEMMA KindByte ==
  ASSUME NEW op \in XmlOps
  PROVE  EntityKind[op] \in Byte
BY SmallBytes DEF EntityKind, XmlOps, FormattedOps

LEMMA KindPart ==
  ASSUME NEW op \in XmlOps
  PROVE  \E s : /\ s = <<U8(EntityKind[op]), U8(ReprAsXml)>>
                /\ Sequence(Call, s, 2)
                /\ \A w : \A a \in Nat : At(w, a, s) =>
                            /\ w[a + 1] = U8(EntityKind[op]) /\ w[a + 2] = U8(ReprAsXml)
                            /\ NoPatch(w, a + 1, a + 2)
<1>1. PICK b \in Call, c \in Call : b = U8(EntityKind[op]) /\ c = U8(ReprAsXml)
  <2>1. ReprAsXml \in Byte
    BY SmallBytes DEF ReprAsXml
  <2> QED BY <2>1, KindByte, CallsAre
<1>2. b.call # "patch" /\ c.call # "patch"
  BY <1>1 DEF U8
<1>3. PICK s : s = <<b, c>>
  OBVIOUS
<1>4. s \in Seq(Call) /\ Len(s) = 2 /\ s[1] = b /\ s[2] = c
  BY <1>3
<1>5. ASSUME NEW w, NEW a \in Nat, At(w, a, s)
      PROVE  w[a + 1] = b /\ w[a + 2] = c /\ NoPatch(w, a + 1, a + 2)
  <2>1. w[a + 1] = b /\ w[a + 2] = c
    BY <1>4, <1>5 DEF At
  <2>2. \A j \in a + 1 .. a + 2 : j = a + 1 \/ j = a + 2
    OBVIOUS
  <2> QED BY <1>2, <2>1, <2>2 DEF NoPatch
<1> QED BY <1>1, <1>3, <1>4, <1>5 DEF Sequence

LEMMA CreateTailPart ==
  ASSUME NEW r \in Request
  PROVE  /\ Sequence(Call, CreateTail(r), CreateTailCalls(r))
         /\ \A w : \A a \in Nat : At(w, a, CreateTail(r)) =>
                     CreateAt(w, a, r) /\ NoPatch(w, a + 1, a + CreateTailCalls(r))
<1>1. PICK b \in Call, c \in Call, d \in Call :
        b = CdrAlign(2) /\ c = Put(Le16(0)) /\ d = Put(Be16(r.parent))
  <2>1. Le16(0) \in Seq(Byte)
    BY Le16Bytes DEF Sequence
  <2>2. Be16(r.parent) \in Seq(Byte)
    <3>1. r.parent \in Int
      BY RequestFields
    <3> QED BY <3>1, Le16Bytes DEF Sequence
  <2> QED BY <2>1, <2>2, CallsAre
<1>2. b.call # "patch" /\ c.call # "patch" /\ d.call # "patch"
  BY <1>1 DEF Put, CdrAlign
<1>3. CASE r.op = "participant"
  <2>1. PICK s : s = <<b, c>>
    OBVIOUS
  <2>2. CreateTail(r) = s /\ CreateTailCalls(r) = 2
    BY <1>1, <1>3, <2>1 DEF CreateTail, CreateTailCalls
  <2>3. s \in Seq(Call) /\ Len(s) = 2 /\ s[1] = b /\ s[2] = c
    BY <2>1
  <2>4. ASSUME NEW w, NEW a \in Nat, At(w, a, s)
        PROVE  CreateAt(w, a, r) /\ NoPatch(w, a + 1, a + 2)
    <3>1. w[a + 1] = b /\ w[a + 2] = c
      BY <2>3, <2>4 DEF At
    <3>2. \A j \in a + 1 .. a + 2 : j = a + 1 \/ j = a + 2
      OBVIOUS
    <3> QED BY <1>1, <1>2, <1>3, <3>1, <3>2 DEF CreateAt, NoPatch
  <2> QED BY <2>2, <2>3, <2>4 DEF Sequence
<1>4. CASE r.op # "participant"
  <2>1. PICK s : s = <<d>>
    OBVIOUS
  <2>2. CreateTail(r) = s /\ CreateTailCalls(r) = 1
    BY <1>1, <1>4, <2>1 DEF CreateTail, CreateTailCalls
  <2>3. s \in Seq(Call) /\ Len(s) = 1 /\ s[1] = d
    BY <2>1
  <2>4. ASSUME NEW w, NEW a \in Nat, At(w, a, s)
        PROVE  CreateAt(w, a, r) /\ NoPatch(w, a + 1, a + 1)
    <3>1. w[a + 1] = d
      BY <2>3, <2>4 DEF At
    <3>2. \A j \in a + 1 .. a + 1 : j = a + 1
      OBVIOUS
    <3> QED BY <1>1, <1>2, <1>4, <3>1, <3>2 DEF CreateAt, NoPatch
  <2> QED BY <2>2, <2>3, <2>4 DEF Sequence
<1> QED BY <1>3, <1>4

EndAt(w, a) == w[a + 1] = Patch /\ w[a + 2] = Check

LEMMA EndPart ==
  /\ Sequence(Call, <<Patch, Check>>, 2)
  /\ \A w : \A a \in Nat : At(w, a, <<Patch, Check>>) => EndAt(w, a)
<1>1. PICK b \in Call, c \in Call : b = Patch /\ c = Check
  BY CallsAre
<1>2. PICK s : s = <<b, c>>
  OBVIOUS
<1>3. s \in Seq(Call) /\ Len(s) = 2 /\ s[1] = b /\ s[2] = c
  BY <1>2
<1>4. ASSUME NEW w, NEW a \in Nat, At(w, a, s)
      PROVE  EndAt(w, a)
  <2>1. w[a + 1] = b /\ w[a + 2] = c
    BY <1>3, <1>4 DEF At
  <2> QED BY <1>1, <2>1 DEF EndAt
<1> QED BY <1>1, <1>2, <1>3, <1>4 DEF Sequence

LEMMA CreateCalls ==
  ASSUME NEW r \in Request, r.op \in XmlOps, Text(r) \in Seq(Byte)
  PROVE  CreateList(Encode(r), r)
<1>1. PICK kind : /\ kind = <<U8(EntityKind[r.op]), U8(ReprAsXml)>>
                  /\ Sequence(Call, kind, 2)
                  /\ \A x : \A a \in Nat : At(x, a, kind) =>
                       /\ x[a + 1] = U8(EntityKind[r.op]) /\ x[a + 2] = U8(ReprAsXml)
                       /\ NoPatch(x, a + 1, a + 2)
  BY KindPart
<1>2. PICK head : head = SessionHeader(r.sid, StreamBestEffort, r.seq)
  OBVIOUS
<1>3. PICK sub : sub = SubHeader(SubmsgCreate, FlagsCreate)
  OBVIOUS
<1>4. PICK ref : ref = ObjectRef(r.req, r.oid)
  OBVIOUS
<1>5. PICK text : text = CdrString(Text(r))
  OBVIOUS
<1>6. PICK tail : tail = CreateTail(r)
  OBVIOUS
<1>7. PICK end : end = <<Patch, Check>>
  OBVIOUS
<1>8. r.sid \in Byte /\ r.seq \in Nat /\ r.req \in Nat /\ r.oid \in Nat
  BY RequestFields
<1>9. PICK g \in {3, 4} : g = HeaderCalls(r.sid)
  BY DEF HeaderCalls
<1>10. PICK k \in {1, 2} : k = CreateTailCalls(r)
  BY DEF CreateTailCalls
<1>11. g \in Nat /\ k \in Nat /\ g + 5 \in Nat /\ g + 7 \in Nat /\ g + 9 \in Nat
       /\ g + 14 \in Nat /\ g + 14 + k \in Nat
  OBVIOUS
<1>12. PICK w : w = (((((head \o sub) \o ref) \o kind) \o text) \o tail) \o end
  OBVIOUS
<1>13. /\ Sequence(Call, head, g)
       /\ At(w, 0, head) => HeaderAt(w, r.sid, StreamBestEffort, r.seq) /\ NoPatch(w, 1, g)
  <2>1. StreamBestEffort \in Byte
    BY SmallBytes DEF StreamBestEffort
  <2> QED BY <1>2, <1>8, <1>9, <2>1, HeaderPart
<1>14. /\ Sequence(Call, sub, 5)
       /\ At(w, g, sub) =>
            SubAt(w, g, SubmsgCreate, FlagsCreate) /\ NoPatch(w, g + 1, g + 5)
  <2>1. SubmsgCreate \in Byte /\ FlagsCreate \in Byte
    BY SmallBytes DEF SubmsgCreate, FlagsCreate
  <2> QED BY <1>3, <1>11, <2>1, SubPart
<1>15. /\ Sequence(Call, ref, 2)
       /\ At(w, g + 5, ref) =>
            RefAt(w, g + 5, r.req, r.oid) /\ NoPatch(w, (g + 5) + 1, (g + 5) + 2)
  BY <1>4, <1>8, <1>11, RefPart
<1>16. /\ Sequence(Call, text, 5)
       /\ At(w, g + 9, text) =>
            TextAt(w, g + 9, Text(r)) /\ NoPatch(w, (g + 9) + 1, (g + 9) + 5)
  BY <1>5, <1>11, TextPart
<1>17. /\ Sequence(Call, tail, k)
       /\ At(w, g + 14, tail) =>
            CreateAt(w, g + 14, r) /\ NoPatch(w, (g + 14) + 1, (g + 14) + k)
  BY <1>6, <1>10, <1>11, CreateTailPart
<1>18. Sequence(Call, end, 2) /\ (At(w, g + 14 + k, end) => EndAt(w, g + 14 + k))
  BY <1>7, <1>11, EndPart
<1>19. Sequence(Call, head \o sub, g + 5)
  BY <1>11, <1>13, <1>14, ConcatIs
<1>20. Sequence(Call, (head \o sub) \o ref, g + 7)
  <2>1. Sequence(Call, (head \o sub) \o ref, (g + 5) + 2)
    BY <1>11, <1>15, <1>19, ConcatIs
  <2> QED BY <1>11, <2>1
<1>21. Sequence(Call, ((head \o sub) \o ref) \o kind, g + 9)
  <2>1. Sequence(Call, ((head \o sub) \o ref) \o kind, (g + 7) + 2)
    BY <1>1, <1>11, <1>20, ConcatIs
  <2> QED BY <1>11, <2>1
<1>22. Sequence(Call, (((head \o sub) \o ref) \o kind) \o text, g + 14)
  <2>1. Sequence(Call, (((head \o sub) \o ref) \o kind) \o text, (g + 9) + 5)
    BY <1>11, <1>16, <1>21, ConcatIs
  <2> QED BY <1>11, <2>1
<1>23. Sequence(Call, ((((head \o sub) \o ref) \o kind) \o text) \o tail, g + 14 + k)
  BY <1>11, <1>17, <1>22, ConcatIs
<1>24. w \in Seq(Call) /\ Len(w) = g + 16 + k
  <2>1. Sequence(Call, w, (g + 14 + k) + 2)
    BY <1>11, <1>12, <1>18, <1>23, ConcatIs
  <2> QED BY <1>11, <2>1 DEF Sequence
<1>25. /\ At(w, 0, ((((head \o sub) \o ref) \o kind) \o text) \o tail)
       /\ At(w, g + 14 + k, end)
  <2>1. At(w, 0, (((((head \o sub) \o ref) \o kind) \o text) \o tail) \o end)
    BY <1>12, <1>24, AtSelf
  <2> QED BY <1>11, <1>18, <1>23, <1>24, <2>1, ConcatParts
<1>26. At(w, 0, (((head \o sub) \o ref) \o kind) \o text) /\ At(w, g + 14, tail)
  BY <1>11, <1>17, <1>22, <1>24, <1>25, ConcatParts
<1>27. At(w, 0, ((head \o sub) \o ref) \o kind) /\ At(w, g + 9, text)
  BY <1>11, <1>16, <1>21, <1>24, <1>26, ConcatParts
<1>28. At(w, 0, (head \o sub) \o ref) /\ At(w, g + 7, kind)
  BY <1>1, <1>11, <1>20, <1>24, <1>27, ConcatParts
<1>29. At(w, 0, head \o sub) /\ At(w, g + 5, ref)
  BY <1>11, <1>15, <1>19, <1>24, <1>28, ConcatParts
<1>30. At(w, 0, head) /\ At(w, g, sub)
  BY <1>11, <1>13, <1>14, <1>24, <1>29, ConcatParts
<1>31. /\ w[g + 8] = U8(EntityKind[r.op]) /\ w[g + 9] = U8(ReprAsXml)
       /\ NoPatch(w, g + 8, g + 9)
  <2>1. /\ w[(g + 7) + 1] = U8(EntityKind[r.op]) /\ w[(g + 7) + 2] = U8(ReprAsXml)
        /\ NoPatch(w, (g + 7) + 1, (g + 7) + 2)
    BY <1>1, <1>11, <1>28
  <2> QED BY <1>11, <2>1
<1>32. w[g + 15 + k] = Patch /\ w[g + 16 + k] = Check
  <2>1. w[(g + 14 + k) + 1] = Patch /\ w[(g + 14 + k) + 2] = Check
    BY <1>18, <1>25 DEF EndAt
  <2> QED BY <1>11, <2>1
<1>33. NoPatch(w, 1, g + 14 + k)
  <2>1. NoPatch(w, 1, g) /\ NoPatch(w, g + 1, g + 5) /\ NoPatch(w, (g + 5) + 1, (g + 5) + 2)
        /\ NoPatch(w, g + 8, g + 9) /\ NoPatch(w, (g + 9) + 1, (g + 9) + 5)
        /\ NoPatch(w, (g + 14) + 1, (g + 14) + k)
    BY <1>13, <1>14, <1>15, <1>16, <1>17, <1>26, <1>27, <1>29, <1>30, <1>31
  <2> QED BY <1>11, <2>1 DEF NoPatch
<1>34. Encode(r) = w
  <2>1. r.op # "client"
    BY DEF XmlOps, FormattedOps
  <2>2. r.op # "read" /\ r.op # "write"
    BY DEF XmlOps, FormattedOps
  <2>3. Encode(r) = Create(r)
    BY <2>1, <2>2 DEF Encode
  <2> QED BY <1>1, <1>2, <1>3, <1>4, <1>5, <1>6, <1>7, <1>12, <2>3 DEF Create
<1>35. /\ HeaderAt(w, r.sid, StreamBestEffort, r.seq)
       /\ SubAt(w, g, SubmsgCreate, FlagsCreate) /\ RefAt(w, g + 5, r.req, r.oid)
       /\ TextAt(w, g + 9, Text(r)) /\ CreateAt(w, g + 14, r)
  BY <1>13, <1>14, <1>15, <1>16, <1>17, <1>26, <1>27, <1>29, <1>30
<1> QED BY <1>9, <1>10, <1>24, <1>31, <1>32, <1>33, <1>34, <1>35 DEF CreateList

-----------------------------------------------------------------------------
(* READ_DATA. *)

ReadAt(w, a) ==
  /\ w[a + 1] = U8(StreamBestEffort) /\ w[a + 2] = U8(FormatData) /\ w[a + 3] = U8(0)
  /\ w[a + 4] = U8(0) /\ w[a + 5] = Patch /\ w[a + 6] = Check

ReadList(w, r) ==
  LET g == HeaderCalls(r.sid)
  IN  /\ w \in Seq(Call) /\ Len(w) = g + 13
      /\ HeaderAt(w, r.sid, StreamBestEffort, r.seq)
      /\ SubAt(w, g, SubmsgReadData, FlagLe)
      /\ RefAt(w, g + 5, r.req, r.oid)
      /\ ReadAt(w, g + 7)
      /\ NoPatch(w, 1, g + 11)

LEMMA ReadTail ==
  \E s : /\ s = <<U8(StreamBestEffort), U8(FormatData), U8(0), U8(0), Patch, Check>>
         /\ Sequence(Call, s, 6)
         /\ \A w : \A a \in Nat : At(w, a, s) => ReadAt(w, a) /\ NoPatch(w, a + 1, a + 4)
<1>1. PICK b \in Call, c \in Call, d \in Call, e \in Call, f \in Call :
        /\ b = U8(StreamBestEffort) /\ c = U8(FormatData) /\ d = U8(0)
        /\ e = Patch /\ f = Check
  <2>1. StreamBestEffort \in Byte /\ FormatData \in Byte /\ 0 \in Byte
    BY SmallBytes DEF StreamBestEffort, FormatData
  <2> QED BY <2>1, CallsAre
<1>2. b.call # "patch" /\ c.call # "patch" /\ d.call # "patch"
  BY <1>1 DEF U8
<1>3. PICK s : s = <<b, c, d, d, e, f>>
  OBVIOUS
<1>4. s \in Seq(Call) /\ Len(s) = 6
  BY <1>3
<1>5. s[1] = b /\ s[2] = c /\ s[3] = d /\ s[4] = d /\ s[5] = e /\ s[6] = f
  BY <1>3
<1>6. ASSUME NEW w, NEW a \in Nat, At(w, a, s)
      PROVE  ReadAt(w, a) /\ NoPatch(w, a + 1, a + 4)
  <2>1. \A x \in 1 .. 6 : w[a + x] = s[x]
    BY <1>4, <1>6 DEF At
  <2>2. /\ w[a + 1] = b /\ w[a + 2] = c /\ w[a + 3] = d /\ w[a + 4] = d
        /\ w[a + 5] = e /\ w[a + 6] = f
    BY <1>5, <2>1
  <2>3. \A x \in a + 1 .. a + 4 : x = a + 1 \/ x = a + 2 \/ x = a + 3 \/ x = a + 4
    OBVIOUS
  <2> QED BY <1>1, <1>2, <2>2, <2>3 DEF ReadAt, NoPatch
<1> QED BY <1>1, <1>3, <1>4, <1>6 DEF Sequence

LEMMA ReadCalls ==
  ASSUME NEW r \in Request, r.op = "read"
  PROVE  ReadList(Encode(r), r)
<1>1. PICK s : /\ s = <<U8(StreamBestEffort), U8(FormatData), U8(0), U8(0), Patch, Check>>
               /\ Sequence(Call, s, 6)
               /\ \A x : \A a \in Nat : At(x, a, s) =>
                           ReadAt(x, a) /\ NoPatch(x, a + 1, a + 4)
  BY ReadTail
<1>2. PICK head : head = SessionHeader(r.sid, StreamBestEffort, r.seq)
  OBVIOUS
<1>3. PICK sub : sub = SubHeader(SubmsgReadData, FlagLe)
  OBVIOUS
<1>4. PICK ref : ref = ObjectRef(r.req, r.oid)
  OBVIOUS
<1>5. r.sid \in Byte /\ r.seq \in Nat /\ r.req \in Nat /\ r.oid \in Nat
  BY RequestFields
<1>6. PICK g \in {3, 4} : g = HeaderCalls(r.sid)
  BY DEF HeaderCalls
<1>7. g \in Nat /\ g + 5 \in Nat /\ g + 7 \in Nat
  OBVIOUS
<1>8. PICK w : w = ((head \o sub) \o ref) \o s
  OBVIOUS
<1>9. /\ Sequence(Call, head, g)
      /\ At(w, 0, head) => HeaderAt(w, r.sid, StreamBestEffort, r.seq) /\ NoPatch(w, 1, g)
  <2>1. StreamBestEffort \in Byte
    BY SmallBytes DEF StreamBestEffort
  <2> QED BY <1>2, <1>5, <1>6, <2>1, HeaderPart
<1>10. /\ Sequence(Call, sub, 5)
       /\ At(w, g, sub) =>
            SubAt(w, g, SubmsgReadData, FlagLe) /\ NoPatch(w, g + 1, g + 5)
  <2>1. SubmsgReadData \in Byte /\ FlagLe \in Byte
    BY SmallBytes DEF SubmsgReadData, FlagLe
  <2> QED BY <1>3, <1>7, <2>1, SubPart
<1>11. /\ Sequence(Call, ref, 2)
       /\ At(w, g + 5, ref) =>
            RefAt(w, g + 5, r.req, r.oid) /\ NoPatch(w, (g + 5) + 1, (g + 5) + 2)
  BY <1>4, <1>5, <1>7, RefPart
<1>12. Sequence(Call, head \o sub, g + 5)
  BY <1>7, <1>9, <1>10, ConcatIs
<1>13. Sequence(Call, (head \o sub) \o ref, g + 7)
  <2>1. Sequence(Call, (head \o sub) \o ref, (g + 5) + 2)
    BY <1>7, <1>11, <1>12, ConcatIs
  <2> QED BY <1>7, <2>1
<1>14. w \in Seq(Call) /\ Len(w) = g + 13
  <2>1. Sequence(Call, w, (g + 7) + 6)
    BY <1>1, <1>7, <1>8, <1>13, ConcatIs
  <2> QED BY <1>7, <2>1 DEF Sequence
<1>15. At(w, 0, (head \o sub) \o ref) /\ At(w, g + 7, s)
  <2>1. At(w, 0, ((head \o sub) \o ref) \o s)
    BY <1>8, <1>14, AtSelf
  <2> QED BY <1>1, <1>7, <1>13, <1>14, <2>1, ConcatParts
<1>16. At(w, 0, head \o sub) /\ At(w, g + 5, ref)
  BY <1>7, <1>11, <1>12, <1>14, <1>15, ConcatParts
<1>17. At(w, 0, head) /\ At(w, g, sub)
  BY <1>7, <1>9, <1>10, <1>14, <1>16, ConcatParts
<1>18. ReadAt(w, g + 7) /\ NoPatch(w, (g + 7) + 1, (g + 7) + 4)
  BY <1>1, <1>7, <1>15
<1>19. NoPatch(w, 1, g + 11)
  <2>1. NoPatch(w, 1, g) /\ NoPatch(w, g + 1, g + 5) /\ NoPatch(w, (g + 5) + 1, (g + 5) + 2)
    BY <1>9, <1>10, <1>11, <1>16, <1>17
  <2> QED BY <1>7, <1>18, <2>1 DEF NoPatch
<1>20. Encode(r) = w
  <2>1. r.op \notin XmlOps /\ r.op # "client" /\ r.op # "write"
    BY DEF XmlOps, FormattedOps
  <2>2. Encode(r) = ReadData(r)
    BY <2>1 DEF Encode
  <2> QED BY <1>1, <1>2, <1>3, <1>4, <1>8, <2>2 DEF ReadData
<1> QED BY <1>6, <1>9, <1>10, <1>11, <1>14, <1>16, <1>17, <1>18, <1>19, <1>20 DEF ReadList

-----------------------------------------------------------------------------
(* The headers of a WRITE_DATA. *)

WriteAt(w, a) ==
  /\ w[a + 1] = HdrOff /\ w[a + 2] = U8(SubmsgWriteData) /\ w[a + 3] = U8(FlagLe + FormatData)
  /\ w[a + 4] = RestLen

WriteList(w, r) ==
  LET g == HeaderCalls(r.sid)
  IN  /\ w \in Seq(Call) /\ Len(w) = g + 6
      /\ HeaderAt(w, r.sid, StreamBestEffort, r.seq)
      /\ WriteAt(w, g)
      /\ RefAt(w, g + 4, 0, r.oid)
      /\ NoPatch(w, 1, g + 6)

LEMMA WritePart ==
  \E s : /\ s = <<HdrOff, U8(SubmsgWriteData), U8(FlagLe + FormatData), RestLen>>
         /\ Sequence(Call, s, 4)
         /\ \A w : \A a \in Nat : At(w, a, s) => WriteAt(w, a) /\ NoPatch(w, a + 1, a + 4)
<1>1. PICK b \in Call, c \in Call, d \in Call, e \in Call :
        b = HdrOff /\ c = U8(SubmsgWriteData) /\ d = U8(FlagLe + FormatData) /\ e = RestLen
  <2>1. SubmsgWriteData \in Byte /\ FlagLe + FormatData \in Byte
    BY DEF SubmsgWriteData, FlagLe, FormatData, Byte
  <2> QED BY <2>1, CallsAre
<1>2. b.call # "patch" /\ c.call # "patch" /\ d.call # "patch" /\ e.call # "patch"
  BY <1>1 DEF U8, HdrOff, RestLen
<1>3. PICK s : s = <<b, c, d, e>>
  OBVIOUS
<1>4. s \in Seq(Call) /\ Len(s) = 4
  BY <1>3
<1>5. s[1] = b /\ s[2] = c /\ s[3] = d /\ s[4] = e
  BY <1>3
<1>6. ASSUME NEW w, NEW a \in Nat, At(w, a, s)
      PROVE  WriteAt(w, a) /\ NoPatch(w, a + 1, a + 4)
  <2>1. \A x \in 1 .. 4 : w[a + x] = s[x]
    BY <1>4, <1>6 DEF At
  <2>2. w[a + 1] = b /\ w[a + 2] = c /\ w[a + 3] = d /\ w[a + 4] = e
    BY <1>5, <2>1
  <2>3. \A x \in a + 1 .. a + 4 : x = a + 1 \/ x = a + 2 \/ x = a + 3 \/ x = a + 4
    OBVIOUS
  <2> QED BY <1>1, <1>2, <2>2, <2>3 DEF WriteAt, NoPatch
<1> QED BY <1>1, <1>3, <1>4, <1>6 DEF Sequence

LEMMA WriteCalls ==
  ASSUME NEW r \in Request, r.op = "write"
  PROVE  WriteList(Encode(r), r)
<1>1. PICK s : /\ s = <<HdrOff, U8(SubmsgWriteData), U8(FlagLe + FormatData), RestLen>>
               /\ Sequence(Call, s, 4)
               /\ \A x : \A a \in Nat : At(x, a, s) =>
                           WriteAt(x, a) /\ NoPatch(x, a + 1, a + 4)
  BY WritePart
<1>2. PICK head : head = SessionHeader(r.sid, StreamBestEffort, r.seq)
  OBVIOUS
<1>3. PICK ref : ref = ObjectRef(0, r.oid)
  OBVIOUS
<1>4. r.sid \in Byte /\ r.seq \in Nat /\ r.oid \in Nat /\ 0 \in Nat
  BY RequestFields
<1>5. PICK g \in {3, 4} : g = HeaderCalls(r.sid)
  BY DEF HeaderCalls
<1>6. g \in Nat /\ g + 4 \in Nat
  OBVIOUS
<1>7. PICK w : w = (head \o s) \o ref
  OBVIOUS
<1>8. /\ Sequence(Call, head, g)
      /\ At(w, 0, head) => HeaderAt(w, r.sid, StreamBestEffort, r.seq) /\ NoPatch(w, 1, g)
  <2>1. StreamBestEffort \in Byte
    BY SmallBytes DEF StreamBestEffort
  <2> QED BY <1>2, <1>4, <1>5, <2>1, HeaderPart
<1>9. /\ Sequence(Call, ref, 2)
      /\ At(w, g + 4, ref) =>
           RefAt(w, g + 4, 0, r.oid) /\ NoPatch(w, (g + 4) + 1, (g + 4) + 2)
  BY <1>3, <1>4, <1>6, RefPart
<1>10. Sequence(Call, head \o s, g + 4)
  BY <1>1, <1>6, <1>8, ConcatIs
<1>11. w \in Seq(Call) /\ Len(w) = g + 6
  <2>1. Sequence(Call, w, (g + 4) + 2)
    BY <1>6, <1>7, <1>9, <1>10, ConcatIs
  <2> QED BY <1>6, <2>1 DEF Sequence
<1>12. At(w, 0, head \o s) /\ At(w, g + 4, ref)
  <2>1. At(w, 0, (head \o s) \o ref)
    BY <1>7, <1>11, AtSelf
  <2> QED BY <1>6, <1>9, <1>10, <1>11, <2>1, ConcatParts
<1>13. At(w, 0, head) /\ At(w, g, s)
  BY <1>1, <1>6, <1>8, <1>11, <1>12, ConcatParts
<1>14. WriteAt(w, g) /\ NoPatch(w, g + 1, g + 4)
  BY <1>1, <1>6, <1>13
<1>15. NoPatch(w, 1, g + 6)
  <2>1. NoPatch(w, 1, g) /\ NoPatch(w, (g + 4) + 1, (g + 4) + 2)
    BY <1>8, <1>9, <1>12, <1>13
  <2> QED BY <1>6, <1>14, <2>1 DEF NoPatch
<1>16. Encode(r) = w
  <2>1. r.op \notin XmlOps /\ r.op # "client" /\ r.op # "read"
    BY DEF XmlOps, FormattedOps
  <2>2. Encode(r) = WriteHeaders(r)
    BY <2>1 DEF Encode
  <2> QED BY <1>1, <1>2, <1>3, <1>7, <2>2 DEF WriteHeaders
<1> QED BY <1>5, <1>8, <1>9, <1>11, <1>12, <1>13, <1>14, <1>15, <1>16 DEF WriteList

-----------------------------------------------------------------------------
(* Where each encoder puts its bytes. *)

ClientLaid(q, h, r) ==
  LET g == HeaderCalls(r.sid)
      n == MsgHeaderLen(r.sid)
  IN  /\ HeaderLaid(q, h, r.sid) /\ SubLaid(q, h, g, n)
      /\ q[g + 6] = n + 8 /\ q[g + 7] = n + 10 /\ q[g + 8] = n + 12 /\ q[g + 9] = n + 16
      /\ q[g + 10] = n + 17 /\ q[g + 11] = n + 18 /\ q[g + 12] = n + 18
      /\ q[g + 13] = n + 20 /\ q[g + 14] = n + 20 /\ h[g + 13] = n

LEMMA HeaderSizes ==
  ASSUME NEW sid \in Byte
  PROVE  /\ HeaderCalls(sid) \in {3, 4} /\ MsgHeaderLen(sid) \in {4, 8}
         /\ HeaderCalls(sid) \in Nat /\ MsgHeaderLen(sid) \in Nat
BY DEF HeaderCalls, MsgHeaderLen

LEMMA ClientLays ==
  ASSUME NEW r \in Request, NEW w, ClientList(w, r), NEW q, NEW h, NEW B \in Nat,
         Lay(w, q, h, B)
  PROVE  ClientLaid(q, h, r)
<1>1. PICK g \in {3, 4}, n \in {4, 8} : g = HeaderCalls(r.sid) /\ n = MsgHeaderLen(r.sid)
  BY RequestFields, HeaderSizes
<1>2. r.sid \in Byte /\ Masked(r.sid) \in Byte
  BY RequestFields, MaskedByte
<1>3. HeaderCalls(Masked(r.sid)) = g /\ MsgHeaderLen(Masked(r.sid)) = n
  BY <1>1, <1>2, MaskedByte DEF HeaderCalls, MsgHeaderLen
<1>4. w \in Seq(Call) /\ Len(w) = g + 14 /\ g \in Nat /\ n \in Nat
  BY <1>1, SMTT(60) DEF ClientList
<1>5. /\ HeaderAt(w, Masked(r.sid), StreamNone, 0)
      /\ SubAt(w, g, SubmsgCreateClient, FlagLe) /\ ClientAt(w, g + 5, r)
  BY <1>1 DEF ClientList
<1>6. HeaderLaid(q, h, Masked(r.sid))
  <2>1. HeaderCalls(Masked(r.sid)) <= Len(w) /\ 0 \in Nat
    BY <1>3, <1>4
  <2> QED BY <1>2, <1>4, <1>5, <2>1, HeaderLays
<1>7. HeaderLaid(q, h, r.sid) /\ q[g] = n
  BY <1>1, <1>3, <1>6 DEF HeaderLaid
<1>8. SubLaid(q, h, g, n)
  <2>1. g + 5 <= Len(w)
    BY <1>4
  <2> QED BY <1>4, <1>5, <1>7, <2>1, SubLays
<1>9. /\ IsLay(w, q, h, B, g + 5) /\ IsLay(w, q, h, B, g + 6) /\ IsLay(w, q, h, B, g + 7)
      /\ IsLay(w, q, h, B, g + 8) /\ IsLay(w, q, h, B, g + 9) /\ IsLay(w, q, h, B, g + 10)
      /\ IsLay(w, q, h, B, g + 11) /\ IsLay(w, q, h, B, g + 12) /\ IsLay(w, q, h, B, g + 13)
  BY <1>4 DEF IsLay
<1>10. /\ w[(g + 5) + 1] = Put(Cookie) /\ w[(g + 6) + 1] = Put(Version)
       /\ w[(g + 7) + 1] = Put(Vendor) /\ w[(g + 8) + 1] = Put(ClientKey)
       /\ w[(g + 9) + 1] = U8(r.sid) /\ w[(g + 10) + 1] = U8(0) /\ w[(g + 11) + 1] = CdrAlign(2)
       /\ w[(g + 12) + 1] = Put(Le16(Mtu)) /\ w[(g + 13) + 1] = Patch
  BY <1>4, <1>5 DEF ClientAt
<1>11. Len(Cookie) = 4 /\ Len(Version) = 2 /\ Len(Vendor) = 2 /\ Len(ClientKey) = 4
  BY KeyBytes DEF Cookie, Version, Vendor
<1>12. Len(Le16(Mtu)) = 2
  <2>1. Mtu \in Int
    BY DEF Mtu
  <2> QED BY <2>1, Le16Bytes DEF Sequence
<1>13. q[g + 5] = n + 4 /\ h[g + 5] = n
  BY <1>8 DEF SubLaid
<1>14. Goes(q, h, g + 5, 4)
  BY <1>9, <1>10, <1>11, GoesPut
<1>15. q[g + 6] = n + 8 /\ h[g + 6] = n
  BY <1>4, <1>13, <1>14 DEF Goes
<1>16. Goes(q, h, g + 6, 2)
  BY <1>9, <1>10, <1>11, GoesPut
<1>17. q[g + 7] = n + 10 /\ h[g + 7] = n
  BY <1>4, <1>15, <1>16 DEF Goes
<1>18. Goes(q, h, g + 7, 2)
  BY <1>9, <1>10, <1>11, GoesPut
<1>19. q[g + 8] = n + 12 /\ h[g + 8] = n
  BY <1>4, <1>17, <1>18 DEF Goes
<1>20. Goes(q, h, g + 8, 4)
  BY <1>9, <1>10, <1>11, GoesPut
<1>21. q[g + 9] = n + 16 /\ h[g + 9] = n
  BY <1>4, <1>19, <1>20 DEF Goes
<1>22. Goes(q, h, g + 9, 1)
  BY <1>9, <1>10, GoesU8
<1>23. q[g + 10] = n + 17 /\ h[g + 10] = n
  BY <1>4, <1>21, <1>22 DEF Goes
<1>24. Goes(q, h, g + 10, 1)
  BY <1>9, <1>10, GoesU8
<1>25. q[g + 11] = n + 18 /\ h[g + 11] = n
  BY <1>4, <1>23, <1>24 DEF Goes
<1>26. Padding(q[g + 11] - (h[g + 11] + 4), 2) = 0
  <2>1. q[g + 11] - (h[g + 11] + 4) = 14
    BY <1>4, <1>25
  <2> QED BY <2>1 DEF Padding
<1>27. Goes(q, h, g + 11, 0)
  <2>1. 2 \in {2, 4}
    OBVIOUS
  <2> QED BY <1>9, <1>10, <1>26, <2>1, GoesAlign
<1>28. q[g + 12] = n + 18 /\ h[g + 12] = n
  BY <1>4, <1>25, <1>27 DEF Goes
<1>29. Goes(q, h, g + 12, 2)
  BY <1>9, <1>10, <1>12, GoesPut
<1>30. q[g + 13] = n + 20 /\ h[g + 13] = n
  BY <1>4, <1>28, <1>29 DEF Goes
<1>31. Goes(q, h, g + 13, 0)
  BY <1>9, <1>10, GoesNowhere
<1>32. q[g + 14] = n + 20
  BY <1>4, <1>30, <1>31 DEF Goes
<1> QED BY <1>1, <1>7, <1>8, <1>15, <1>17, <1>19, <1>21, <1>23, <1>25, <1>28, <1>30, <1>32
        DEF ClientLaid

\* The padding in front of the domain of a participant.
DomainPad(t) == Padding(13 + t, 2)

CreateLaid(q, h, r, t) ==
  LET g == HeaderCalls(r.sid)
      n == MsgHeaderLen(r.sid)
      k == CreateTailCalls(r)
  IN  /\ HeaderLaid(q, h, r.sid) /\ SubLaid(q, h, g, n) /\ RefLaid(q, h, g + 5, n + 4, n)
      /\ q[g + 8] = n + 9 /\ q[g + 9] = n + 10 /\ TextLaid(q, h, g + 9, n, t)
      /\ IF r.op = "participant"
         THEN q[g + 15] = n + 17 + t + DomainPad(t) /\ q[g + 16] = n + 19 + t + DomainPad(t)
         ELSE q[g + 15] = n + 19 + t
      /\ q[g + 15 + k] = q[g + 14 + k] /\ q[g + 16 + k] = q[g + 14 + k] /\ h[g + 14 + k] = n

LEMMA CreateLays ==
  ASSUME NEW r \in Request, NEW w, CreateList(w, r), NEW q, NEW h, NEW B \in Nat,
         Lay(w, q, h, B), NEW t \in Nat, Text(r) \in Seq(Byte), t = Len(Text(r))
  PROVE  CreateLaid(q, h, r, t)
<1>1. PICK g \in {3, 4}, n \in {4, 8}, k \in {1, 2} :
        g = HeaderCalls(r.sid) /\ n = MsgHeaderLen(r.sid) /\ k = CreateTailCalls(r)
  BY RequestFields, HeaderSizes DEF CreateTailCalls
<1>2. r.sid \in Byte /\ r.seq \in Nat /\ r.req \in Nat /\ r.oid \in Nat /\ r.parent \in Nat
  BY RequestFields
<1>3. w \in Seq(Call) /\ Len(w) = g + 16 + k /\ g \in Nat /\ n \in Nat /\ k \in Nat
  <2>1. g \in Nat /\ n \in Nat /\ k \in Nat
    OBVIOUS
  <2>2. w \in Seq(Call) /\ Len(w) = g + 16 + k
    BY <1>1, Zenon DEF CreateList
  <2> QED BY <2>1, <2>2
<1>4. /\ HeaderAt(w, r.sid, StreamBestEffort, r.seq)
      /\ SubAt(w, g, SubmsgCreate, FlagsCreate) /\ RefAt(w, g + 5, r.req, r.oid)
      /\ w[g + 8] = U8(EntityKind[r.op]) /\ w[g + 9] = U8(ReprAsXml)
      /\ TextAt(w, g + 9, Text(r)) /\ CreateAt(w, g + 14, r)
      /\ w[g + 15 + k] = Patch /\ w[g + 16 + k] = Check
  BY <1>1 DEF CreateList
<1>5. HeaderLaid(q, h, r.sid) /\ q[g] = n
  <2>1. HeaderCalls(r.sid) <= Len(w)
    BY <1>1, <1>3
  <2>2. HeaderLaid(q, h, r.sid)
    BY <1>2, <1>3, <1>4, <2>1, HeaderLays
  <2> QED BY <1>1, <2>2 DEF HeaderLaid
<1>6. SubLaid(q, h, g, n)
  <2>1. g + 5 <= Len(w)
    BY <1>3
  <2> QED BY <1>3, <1>4, <1>5, <2>1, SubLays
<1>7. RefLaid(q, h, g + 5, n + 4, n)
  <2>1. g + 5 \in Nat /\ n + 4 \in Nat /\ (g + 5) + 2 <= Len(w)
    BY <1>3
  <2>2. q[g + 5] = n + 4 /\ h[g + 5] = n
    BY <1>6 DEF SubLaid
  <2> QED BY <1>2, <1>3, <1>4, <2>1, <2>2, RefLays
<1>8. q[g + 7] = n + 8 /\ h[g + 7] = n
  <2>1. q[(g + 5) + 2] = (n + 4) + 4 /\ h[(g + 5) + 2] = n
    BY <1>7 DEF RefLaid
  <2> QED BY <1>3, <2>1
<1>9. /\ IsLay(w, q, h, B, g + 7) /\ IsLay(w, q, h, B, g + 8)
      /\ IsLay(w, q, h, B, g + 14) /\ IsLay(w, q, h, B, g + 14 + k)
      /\ IsLay(w, q, h, B, g + 15 + k)
  BY <1>3 DEF IsLay
<1>10. w[(g + 7) + 1] = U8(EntityKind[r.op]) /\ w[(g + 8) + 1] = U8(ReprAsXml)
  BY <1>3, <1>4
<1>11. Goes(q, h, g + 7, 1)
  BY <1>9, <1>10, GoesU8
<1>12. q[g + 8] = n + 9 /\ h[g + 8] = n
  BY <1>3, <1>8, <1>11 DEF Goes
<1>13. Goes(q, h, g + 8, 1)
  BY <1>9, <1>10, GoesU8
<1>14. q[g + 9] = n + 10 /\ h[g + 9] = n
  BY <1>3, <1>12, <1>13 DEF Goes
<1>15. TextLaid(q, h, g + 9, n, t)
  <2>1. g + 9 \in Nat /\ (g + 9) + 5 <= Len(w)
    BY <1>3
  <2> QED BY <1>3, <1>4, <1>14, <2>1, TextLays
<1>16. q[g + 14] = n + 17 + t /\ h[g + 14] = n
  <2>1. q[(g + 9) + 5] = n + 17 + t /\ h[(g + 9) + 5] = n
    BY <1>15 DEF TextLaid
  <2> QED BY <1>3, <2>1
<1>17. /\ IF r.op = "participant"
          THEN q[g + 15] = n + 17 + t + DomainPad(t) /\ q[g + 16] = n + 19 + t + DomainPad(t)
          ELSE q[g + 15] = n + 19 + t
       /\ h[g + 14 + k] = n
  <2>1. CASE r.op = "participant"
    <3>1. k = 2 /\ w[(g + 14) + 1] = CdrAlign(2) /\ w[(g + 14) + 2] = Put(Le16(0))
      BY <1>1, <1>4, <2>1 DEF CreateAt, CreateTailCalls
    <3>2. PICK p \in Nat : p = DomainPad(t)
      <4>1. 13 + t \in Int /\ 2 \in {2, 4}
        OBVIOUS
      <4> QED BY <4>1, PaddingNat DEF DomainPad
    <3>3. p = Padding(q[g + 14] - (h[g + 14] + 4), 2)
      <4>1. q[g + 14] - (h[g + 14] + 4) = 13 + t
        BY <1>3, <1>16
      <4> QED BY <3>2, <4>1 DEF DomainPad
    <3>4. Goes(q, h, g + 14, p)
      <4>1. 2 \in {2, 4}
        OBVIOUS
      <4> QED BY <1>9, <3>1, <3>3, <4>1, GoesAlign
    <3>5. q[g + 15] = n + 17 + t + p /\ h[g + 15] = n
      BY <1>3, <1>16, <3>4 DEF Goes
    <3>6. IsLay(w, q, h, B, g + 15)
      BY <1>3, <3>1 DEF IsLay
    <3>7. Len(Le16(0)) = 2 /\ w[(g + 15) + 1] = Put(Le16(0))
      BY <1>3, <3>1, Le16Bytes DEF Sequence
    <3>8. Goes(q, h, g + 15, 2)
      BY <3>6, <3>7, GoesPut
    <3>9. q[g + 16] = n + 19 + t + p /\ h[g + 16] = n
      BY <1>3, <3>5, <3>8 DEF Goes
    <3> QED BY <1>3, <2>1, <3>1, <3>2, <3>5, <3>9
  <2>2. CASE r.op # "participant"
    <3>1. k = 1 /\ w[(g + 14) + 1] = Put(Be16(r.parent))
      BY <1>1, <1>4, <2>2 DEF CreateAt, CreateTailCalls
    <3>2. Len(Be16(r.parent)) = 2
      <4>1. r.parent \in Int
        BY <1>2
      <4> QED BY <4>1, Le16Bytes DEF Sequence
    <3>3. Goes(q, h, g + 14, 2)
      BY <1>9, <3>1, <3>2, GoesPut
    <3>4. q[g + 15] = n + 19 + t /\ h[g + 15] = n
      BY <1>3, <1>16, <3>3 DEF Goes
    <3> QED BY <1>3, <2>2, <3>1, <3>4
  <2> QED BY <2>1, <2>2
<1>18. w[(g + 14 + k) + 1] = Patch /\ w[(g + 15 + k) + 1] = Check
  <2>1. (g + 14 + k) + 1 = g + 15 + k /\ (g + 15 + k) + 1 = g + 16 + k
    BY <1>3
  <2> QED BY <1>4, <2>1
<1>19. Goes(q, h, g + 14 + k, 0) /\ Goes(q, h, g + 15 + k, 0)
  BY <1>9, <1>18, GoesNowhere
<1>20. q[g + 15 + k] = q[g + 14 + k] /\ q[g + 16 + k] = q[g + 14 + k]
  <2>1. q[g + 14 + k] \in Nat
    BY <1>9, LayStep
  <2>2. (g + 14 + k) + 1 = g + 15 + k /\ (g + 15 + k) + 1 = g + 16 + k
    BY <1>3
  <2>3. q[(g + 14 + k) + 1] = q[g + 14 + k] + 0 /\ q[(g + 15 + k) + 1] = q[g + 15 + k] + 0
    BY <1>19 DEF Goes
  <2> QED BY <2>1, <2>2, <2>3
<1> QED BY <1>1, <1>5, <1>6, <1>7, <1>12, <1>14, <1>15, <1>17, <1>20 DEF CreateLaid

ReadLaid(q, h, r) ==
  LET g == HeaderCalls(r.sid)
      n == MsgHeaderLen(r.sid)
  IN  /\ HeaderLaid(q, h, r.sid) /\ SubLaid(q, h, g, n) /\ RefLaid(q, h, g + 5, n + 4, n)
      /\ q[g + 8] = n + 9 /\ q[g + 9] = n + 10 /\ q[g + 10] = n + 11 /\ q[g + 11] = n + 12
      /\ q[g + 12] = n + 12 /\ q[g + 13] = n + 12 /\ h[g + 11] = n

LEMMA ReadLays ==
  ASSUME NEW r \in Request, NEW w, ReadList(w, r), NEW q, NEW h, NEW B \in Nat,
         Lay(w, q, h, B)
  PROVE  ReadLaid(q, h, r)
<1>1. PICK g \in {3, 4}, n \in {4, 8} : g = HeaderCalls(r.sid) /\ n = MsgHeaderLen(r.sid)
  BY RequestFields, HeaderSizes
<1>2. r.sid \in Byte /\ r.seq \in Nat /\ r.req \in Nat /\ r.oid \in Nat
  BY RequestFields
<1>3. w \in Seq(Call) /\ Len(w) = g + 13 /\ g \in Nat /\ n \in Nat
  BY <1>1, SMTT(60) DEF ReadList
<1>4. /\ HeaderAt(w, r.sid, StreamBestEffort, r.seq)
      /\ SubAt(w, g, SubmsgReadData, FlagLe) /\ RefAt(w, g + 5, r.req, r.oid)
      /\ ReadAt(w, g + 7)
  BY <1>1 DEF ReadList
<1>5. HeaderLaid(q, h, r.sid) /\ q[g] = n
  <2>1. HeaderCalls(r.sid) <= Len(w)
    BY <1>1, <1>3
  <2>2. HeaderLaid(q, h, r.sid)
    BY <1>2, <1>3, <1>4, <2>1, HeaderLays
  <2> QED BY <1>1, <2>2 DEF HeaderLaid
<1>6. SubLaid(q, h, g, n)
  <2>1. g + 5 <= Len(w)
    BY <1>3
  <2> QED BY <1>3, <1>4, <1>5, <2>1, SubLays
<1>7. RefLaid(q, h, g + 5, n + 4, n)
  <2>1. g + 5 \in Nat /\ n + 4 \in Nat /\ (g + 5) + 2 <= Len(w)
    BY <1>3
  <2>2. q[g + 5] = n + 4 /\ h[g + 5] = n
    BY <1>6 DEF SubLaid
  <2> QED BY <1>2, <1>3, <1>4, <2>1, <2>2, RefLays
<1>8. q[g + 7] = n + 8 /\ h[g + 7] = n
  <2>1. q[(g + 5) + 2] = (n + 4) + 4 /\ h[(g + 5) + 2] = n
    BY <1>7 DEF RefLaid
  <2> QED BY <1>3, <2>1
<1>9. /\ IsLay(w, q, h, B, g + 7) /\ IsLay(w, q, h, B, g + 8) /\ IsLay(w, q, h, B, g + 9)
      /\ IsLay(w, q, h, B, g + 10) /\ IsLay(w, q, h, B, g + 11) /\ IsLay(w, q, h, B, g + 12)
  BY <1>3 DEF IsLay
<1>10. /\ w[(g + 7) + 1] = U8(StreamBestEffort) /\ w[(g + 8) + 1] = U8(FormatData)
       /\ w[(g + 9) + 1] = U8(0) /\ w[(g + 10) + 1] = U8(0) /\ w[(g + 11) + 1] = Patch
       /\ w[(g + 12) + 1] = Check
  BY <1>3, <1>4 DEF ReadAt
<1>11. Goes(q, h, g + 7, 1) /\ Goes(q, h, g + 8, 1) /\ Goes(q, h, g + 9, 1)
       /\ Goes(q, h, g + 10, 1)
  BY <1>9, <1>10, GoesU8
<1>12. Goes(q, h, g + 11, 0) /\ Goes(q, h, g + 12, 0)
  BY <1>9, <1>10, GoesNowhere
<1>13. q[g + 8] = n + 9 /\ h[g + 8] = n
  BY <1>3, <1>8, <1>11 DEF Goes
<1>14. q[g + 9] = n + 10 /\ h[g + 9] = n
  BY <1>3, <1>11, <1>13 DEF Goes
<1>15. q[g + 10] = n + 11 /\ h[g + 10] = n
  BY <1>3, <1>11, <1>14 DEF Goes
<1>16. q[g + 11] = n + 12 /\ h[g + 11] = n
  BY <1>3, <1>11, <1>15 DEF Goes
<1>17. q[g + 12] = n + 12 /\ q[g + 13] = n + 12
  BY <1>3, <1>12, <1>16 DEF Goes
<1> QED BY <1>1, <1>5, <1>6, <1>7, <1>13, <1>14, <1>15, <1>16, <1>17 DEF ReadLaid

WriteLaid(q, h, r) ==
  LET g == HeaderCalls(r.sid)
      n == MsgHeaderLen(r.sid)
  IN  /\ HeaderLaid(q, h, r.sid)
      /\ q[g + 1] = n /\ q[g + 2] = n + 1 /\ q[g + 3] = n + 2 /\ h[g + 3] = n
      /\ q[g + 4] = n + 4 /\ RefLaid(q, h, g + 4, n + 4, n)

LEMMA WriteLays ==
  ASSUME NEW r \in Request, NEW w, WriteList(w, r), NEW q, NEW h, NEW B \in Nat,
         Lay(w, q, h, B)
  PROVE  WriteLaid(q, h, r)
<1>1. PICK g \in {3, 4}, n \in {4, 8} : g = HeaderCalls(r.sid) /\ n = MsgHeaderLen(r.sid)
  BY RequestFields, HeaderSizes
<1>2. r.sid \in Byte /\ r.seq \in Nat /\ 0 \in Nat /\ r.oid \in Nat
  BY RequestFields
<1>3. w \in Seq(Call) /\ Len(w) = g + 6 /\ g \in Nat /\ n \in Nat
  BY <1>1 DEF WriteList
<1>4. /\ HeaderAt(w, r.sid, StreamBestEffort, r.seq) /\ WriteAt(w, g)
      /\ RefAt(w, g + 4, 0, r.oid)
  BY <1>1 DEF WriteList
<1>5. HeaderLaid(q, h, r.sid) /\ q[g] = n
  <2>1. HeaderCalls(r.sid) <= Len(w)
    BY <1>1, <1>3
  <2>2. HeaderLaid(q, h, r.sid)
    BY <1>2, <1>3, <1>4, <2>1, HeaderLays
  <2> QED BY <1>1, <2>2 DEF HeaderLaid
<1>6. /\ IsLay(w, q, h, B, g) /\ IsLay(w, q, h, B, g + 1) /\ IsLay(w, q, h, B, g + 2)
      /\ IsLay(w, q, h, B, g + 3)
  BY <1>3 DEF IsLay
<1>7. /\ w[g + 1] = HdrOff /\ w[(g + 1) + 1] = U8(SubmsgWriteData)
      /\ w[(g + 2) + 1] = U8(FlagLe + FormatData) /\ w[(g + 3) + 1] = RestLen
  BY <1>3, <1>4 DEF WriteAt
<1>8. q[g + 1] = n /\ h[g + 1] = n
  BY <1>5, <1>6, <1>7, GoesHdrOff
<1>9. Goes(q, h, g + 1, 1) /\ Goes(q, h, g + 2, 1)
  BY <1>6, <1>7, GoesU8
<1>10. Goes(q, h, g + 3, 2)
  BY <1>6, <1>7, GoesRestLen
<1>11. q[g + 2] = n + 1 /\ h[g + 2] = n
  BY <1>3, <1>8, <1>9 DEF Goes
<1>12. q[g + 3] = n + 2 /\ h[g + 3] = n
  BY <1>3, <1>9, <1>11 DEF Goes
<1>13. q[g + 4] = n + 4 /\ h[g + 4] = n
  BY <1>3, <1>10, <1>12 DEF Goes
<1>14. RefLaid(q, h, g + 4, n + 4, n)
  <2>1. g + 4 \in Nat /\ n + 4 \in Nat /\ (g + 4) + 2 <= Len(w)
    BY <1>3
  <2> QED BY <1>2, <1>3, <1>4, <1>13, <2>1, RefLays
<1> QED BY <1>1, <1>5, <1>8, <1>11, <1>12, <1>13, <1>14 DEF WriteLaid

-----------------------------------------------------------------------------
(* The text. *)

Joins(j, parts, n) ==
  j = [i \in 0 .. n |-> IF i = 0 THEN <<>> ELSE j[i - 1] \o parts[i]]

LEMMA JoinsExists ==
  ASSUME NEW parts \in Seq(Seq(Byte)), NEW k \in Nat
  PROVE  \E j : Joins(j, parts, k)
<1> DEFINE G == {n \in Nat : \E j : Joins(j, parts, n)}
<1>1. 0 \in G
  <2>1. Joins([i \in 0 .. 0 |-> <<>>], parts, 0)
    BY DEF Joins
  <2> QED BY <2>1
<1>2. ASSUME NEW n \in G PROVE n + 1 \in G
  <2>1. n \in Nat
    OBVIOUS
  <2>2. PICK j : Joins(j, parts, n)
    OBVIOUS
  <2> DEFINE c == [i \in 0 .. n + 1 |-> IF i = n + 1 THEN j[n] \o parts[n + 1] ELSE j[i]]
  <2>3. ASSUME NEW i \in 0 .. n + 1
        PROVE  c[i] = IF i = 0 THEN <<>> ELSE c[i - 1] \o parts[i]
    <3>1. CASE i = n + 1
      <4>1. i # 0 /\ i - 1 = n
        BY <2>1, <3>1
      <4>2. c[i] = j[n] \o parts[n + 1]
        BY <3>1
      <4>3. c[n] = j[n]
        BY <2>1
      <4> QED BY <3>1, <4>1, <4>2, <4>3
    <3>2. CASE i # n + 1
      <4>1. i \in 0 .. n /\ c[i] = j[i]
        BY <2>1, <3>2
      <4>2. j[i] = IF i = 0 THEN <<>> ELSE j[i - 1] \o parts[i]
        BY <2>2, <4>1 DEF Joins
      <4>3. i # 0 => c[i - 1] = j[i - 1]
        BY <2>1, <4>1
      <4> QED BY <4>1, <4>2, <4>3
    <3> QED BY <3>1, <3>2
  <2>4. c = [i \in 0 .. n + 1 |-> c[i]]
    OBVIOUS
  <2> HIDE DEF c
  <2>5. Joins(c, parts, n + 1)
    BY <2>3, <2>4 DEF Joins
  <2> QED BY <2>1, <2>5
<1> HIDE DEF G
<1>3. G = Nat
  <2>1. G \in SUBSET Nat
    BY DEF G
  <2> QED BY <1>1, <1>2, <2>1, Induct
<1>4. k \in G
  BY <1>3
<1> QED BY <1>4 DEF G

\* Each part adds its length.
Grows(j, parts) ==
  /\ j[0] = <<>>
  /\ \A n \in 0 .. Len(parts) : j[n] \in Seq(Byte) /\ Len(j[n]) \in Nat
  /\ \A n \in 1 .. Len(parts) : Len(j[n]) = Len(j[n - 1]) + Len(parts[n])

LEMMA JoinedGrows ==
  ASSUME NEW parts \in Seq(Seq(Byte))
  PROVE  Grows(Joined(parts), parts)
<1>1. PICK l \in Nat : l = Len(parts)
  BY LenProperties
<1>2. PICK j : j = CHOOSE x : Joins(x, parts, l)
  OBVIOUS
<1>3. Joins(j, parts, l)
  <2>1. \E x : Joins(x, parts, l)
    BY JoinsExists
  <2> QED BY <1>2, <2>1
<1>4. Joined(parts) = j
  BY <1>1, <1>2 DEF Joined, Joins
<1>5. \A n \in 1 .. l : parts[n] \in Seq(Byte) /\ Len(parts[n]) \in Nat
  <2>1. \A n \in 1 .. l : parts[n] \in Seq(Byte)
    BY <1>1, ElementOfSeq
  <2> QED BY <2>1, LenProperties
<1>6. j[0] = <<>> /\ \A n \in 1 .. l : j[n] = j[n - 1] \o parts[n]
  <2>1. \A n \in 0 .. l : j[n] = IF n = 0 THEN <<>> ELSE j[n - 1] \o parts[n]
    BY <1>3 DEF Joins
  <2>2. 0 \in 0 .. l /\ \A n \in 1 .. l : n \in 0 .. l /\ n # 0
    OBVIOUS
  <2> QED BY <2>1, <2>2
<1> DEFINE G == {n \in Nat : n <= l => j[n] \in Seq(Byte)}
<1>7. 0 \in G
  BY <1>6, EmptySeq
<1>8. ASSUME NEW n \in G PROVE n + 1 \in G
  <2> SUFFICES ASSUME n + 1 <= l PROVE j[n + 1] \in Seq(Byte)
    OBVIOUS
  <2>1. n \in Nat /\ n + 1 \in 1 .. l /\ (n + 1) - 1 = n
    OBVIOUS
  <2>2. j[n] \in Seq(Byte)
    BY <2>1
  <2>3. j[n + 1] = j[n] \o parts[n + 1] /\ parts[n + 1] \in Seq(Byte)
    BY <1>5, <1>6, <2>1
  <2> QED BY <2>2, <2>3
<1> HIDE DEF G
<1>9. G = Nat
  <2>1. G \in SUBSET Nat
    BY DEF G
  <2> QED BY <1>7, <1>8, <2>1, Induct
<1>10. \A n \in 0 .. l : j[n] \in Seq(Byte)
  <2>1. ASSUME NEW n \in 0 .. l PROVE j[n] \in Seq(Byte)
    <3>1. n \in G /\ n <= l
      BY <1>9
    <3> QED BY <3>1 DEF G
  <2> QED BY <2>1
<1>11. \A n \in 0 .. l : Len(j[n]) \in Nat
  BY <1>10, LenProperties
<1>12. ASSUME NEW n \in 1 .. l PROVE Len(j[n]) = Len(j[n - 1]) + Len(parts[n])
  <2>1. n - 1 \in 0 .. l
    OBVIOUS
  <2>2. j[n - 1] \in Seq(Byte) /\ parts[n] \in Seq(Byte) /\ j[n] = j[n - 1] \o parts[n]
    BY <1>5, <1>6, <1>10, <2>1
  <2> QED BY <2>2
<1> QED BY <1>1, <1>4, <1>6, <1>10, <1>11, <1>12 DEF Grows

\* write! gets as far as the capacity lets it: that far there is.
LEMMA FormattedSeq ==
  ASSUME NEW parts \in Seq(Seq(Byte)), NEW max \in Nat
  PROVE  Formatted(parts, max) \in Seq(Byte)
<1>1. PICK l \in Nat : l = Len(parts)
  BY LenProperties
<1>2. PICK j : j = Joined(parts)
  OBVIOUS
<1>3. /\ j[0] = <<>>
      /\ \A n \in 0 .. l : j[n] \in Seq(Byte) /\ Len(j[n]) \in Nat
  BY <1>1, <1>2, JoinedGrows DEF Grows
<1>4. PICK fit : fit = {n \in 0 .. l : Len(j[n]) <= max}
  OBVIOUS
<1>5. Formatted(parts, max) = j[CHOOSE n \in fit : \A m \in fit : m <= n]
  BY <1>1, <1>2, <1>4 DEF Formatted
<1>6. fit \subseteq 0 .. l /\ 0 \in fit
  BY <1>3, <1>4, EmptySeq
<1>7. \E n \in fit : \A m \in fit : m <= n
  <2>1. PICK T \in SUBSET Nat : T = {x \in Nat : x <= l /\ l - x \in fit}
    OBVIOUS
  <2>2. l \in T
    BY <1>6, <2>1
  <2>3. PICK x \in T : \A y \in T : x <= y
    BY <2>2, LeastNat
  <2>4. x \in Nat /\ x <= l /\ l - x \in fit
    BY <2>1, <2>3
  <2>5. ASSUME NEW m \in fit PROVE m <= l - x
    <3>1. m \in 0 .. l
      BY <1>6
    <3>2. l - m \in Nat /\ l - m <= l /\ l - (l - m) = m
      BY <3>1
    <3>3. l - m \in T
      BY <2>1, <3>2
    <3>4. x <= l - m
      BY <2>3, <3>3
    <3> QED BY <2>4, <3>1, <3>4
  <2> QED BY <2>4, <2>5
<1>8. PICK top : top = CHOOSE n \in fit : \A m \in fit : m <= n
  OBVIOUS
<1>9. top \in fit /\ \A m \in fit : m <= top
  BY <1>7, <1>8
<1>10. top \in 0 .. l
  BY <1>6, <1>9
<1>11. Formatted(parts, max) = j[top]
  BY <1>5, <1>8
<1> QED BY <1>3, <1>10, <1>11

LEMMA WholeSeq ==
  ASSUME NEW parts \in Seq(Seq(Byte))
  PROVE  Whole(parts) \in Seq(Byte)
<1>1. PICK l \in Nat : l = Len(parts)
  BY LenProperties
<1>2. PICK j : j = Joined(parts)
  OBVIOUS
<1>3. \A n \in 0 .. l : j[n] \in Seq(Byte)
  BY <1>1, <1>2, JoinedGrows DEF Grows
<1> QED BY <1>1, <1>2, <1>3 DEF Whole

LEMMA BuildIs ==
  ASSUME build \in Build
  PROVE  /\ build.tx \in Nat /\ 28 <= build.tx /\ build.tx <= 65535 /\ build.tx % 2 = 0
         /\ build.topic \in Nat
         /\ \A op \in FormattedOps : build.xml[op] \in Nat
         /\ \A op \in XmlOps : /\ build.literals[op] \in Seq(Seq(Byte))
                              /\ Len(build.literals[op]) = LiteralParts[op]
         /\ \A r \in build.requests : r \in Request
BY EncodersAssumption

LEMMA TxLenIs ==
  ASSUME build \in Build, NEW r
  PROVE  /\ TxLen(r) \in Nat /\ 28 <= TxLen(r) /\ TxLen(r) <= 65535
         /\ TxLen(r) % 2 = 0
<1>1. build.tx \in Nat /\ 28 <= build.tx /\ build.tx <= 65535 /\ build.tx % 2 = 0
  BY BuildIs
<1>2. CASE r.op = "client"
  BY <1>2 DEF TxLen
<1>3. CASE r.op # "client"
  BY <1>1, <1>3 DEF TxLen
<1> QED BY <1>2, <1>3

LEMMA LiteralSeq ==
  ASSUME build \in Build, NEW op \in XmlOps, NEW k \in 1 .. LiteralParts[op]
  PROVE  build.literals[op][k] \in Seq(Byte) /\ Len(build.literals[op][k]) \in Nat
<1>1. PICK l : l = build.literals[op]
  OBVIOUS
<1>2. l \in Seq(Seq(Byte)) /\ k \in 1 .. Len(l)
  BY <1>1, BuildIs
<1>3. l[k] \in Seq(Byte)
  BY <1>2, ElementOfSeq
<1> QED BY <1>1, <1>3, LenProperties

LEMMA DdsTopicSeq ==
  ASSUME NEW name \in Seq(Byte)
  PROVE  DdsTopic(name) \in Seq(Byte)
<1>1. PICK rest : rest = IF name # <<>> /\ name[1] = Slash THEN Tail(name) ELSE name
  OBVIOUS
<1>2. rest \in Seq(Byte)
  <2>1. CASE name # <<>>
    <3>1. Tail(name) \in Seq(Byte)
      BY <2>1, HeadTailProperties
    <3> QED BY <1>1, <3>1
  <2>2. CASE name = <<>>
    BY <1>1, <2>2
  <2> QED BY <2>1, <2>2
<1>3. PICK rt : rt = <<114, 116, Slash>>
  OBVIOUS
<1>4. rt \in Seq(Byte)
  <2>1. 114 \in Byte /\ 116 \in Byte /\ Slash \in Byte
    BY DEF Byte, Slash
  <2> QED BY <1>3, <2>1
<1>5. rt \o rest \in Seq(Byte)
  BY <1>2, <1>4
<1> QED BY <1>1, <1>3, <1>5 DEF DdsTopic

LEMMA PartsSeq ==
  ASSUME build \in Build, NEW r \in build.requests, r.op \in XmlOps
  PROVE  Parts(r) \in Seq(Seq(Byte))
<1>1. PICK l : l = build.literals[r.op]
  OBVIOUS
<1>2. l \in Seq(Seq(Byte)) /\ Len(l) = LiteralParts[r.op] /\ r \in Request
  BY <1>1, BuildIs
<1>3. r.name \in Seq(Byte) /\ r.type \in Seq(Byte) /\ DdsTopic(r.name) \in Seq(Byte)
  BY <1>2, RequestFields, DdsTopicSeq
<1>4. CASE r.op = "participant"
  <2>1. ~NamesTopic(r) /\ r.op \notin {"publisher", "subscriber"}
    BY <1>4 DEF NamesTopic
  <2>2. Len(l) = 2
    BY <1>2, <1>4 DEF LiteralParts
  <2>3. PICK a \in Seq(Byte), c \in Seq(Byte) : a = l[1] /\ c = l[2]
    <3>1. 1 \in 1 .. LiteralParts[r.op] /\ 2 \in 1 .. LiteralParts[r.op]
      BY <1>2, <2>2
    <3> QED BY <1>1, <3>1, LiteralSeq
  <2>4. Parts(r) = <<a, r.name, c>>
    BY <1>1, <1>4, <2>1, <2>3 DEF Parts
  <2>5. PICK b \in Seq(Byte) : b = r.name
    BY <1>3
  <2>6. <<a, b, c>> \in Seq(Seq(Byte))
    OBVIOUS
  <2> QED BY <2>4, <2>5, <2>6
<1>5. CASE NamesTopic(r)
  <2>1. r.op # "participant" /\ r.op \notin {"publisher", "subscriber"}
    BY <1>5 DEF NamesTopic
  <2>2. Len(l) = 3
    BY <1>2, <1>5 DEF LiteralParts, NamesTopic
  <2>3. PICK a \in Seq(Byte), c \in Seq(Byte), e \in Seq(Byte) : a = l[1] /\ c = l[2] /\ e = l[3]
    <3>1. /\ 1 \in 1 .. LiteralParts[r.op] /\ 2 \in 1 .. LiteralParts[r.op]
          /\ 3 \in 1 .. LiteralParts[r.op]
      BY <1>2, <2>2
    <3> QED BY <1>1, <3>1, LiteralSeq
  <2>4. Parts(r) = <<a, DdsTopic(r.name), c, r.type, e>>
    BY <1>1, <1>5, <2>1, <2>3 DEF Parts
  <2>5. PICK b \in Seq(Byte), d \in Seq(Byte) : b = DdsTopic(r.name) /\ d = r.type
    BY <1>3
  <2>6. <<a, b, c, d, e>> \in Seq(Seq(Byte))
    OBVIOUS
  <2> QED BY <2>4, <2>5, <2>6
<1>6. CASE r.op \in {"publisher", "subscriber"}
  <2>1. r.op # "participant" /\ ~NamesTopic(r)
    BY <1>6 DEF NamesTopic
  <2>2. Parts(r) = l
    BY <1>1, <1>6, <2>1 DEF Parts
  <2> QED BY <1>2, <2>2
<1> QED BY <1>4, <1>5, <1>6 DEF XmlOps, FormattedOps, NamesTopic

LEMMA TextSeq ==
  ASSUME build \in Build, NEW r \in build.requests
  PROVE  Text(r) \in Seq(Byte) /\ Len(Text(r)) \in Nat
<1>1. Text(r) \in Seq(Byte)
  <2>1. r.op \in XmlOps => Parts(r) \in Seq(Seq(Byte))
    BY PartsSeq
  <2>2. CASE r.op \in FormattedOps
    <3>1. Parts(r) \in Seq(Seq(Byte)) /\ build.xml[r.op] \in Nat
      BY <2>1, <2>2, BuildIs DEF XmlOps
    <3>2. Formatted(Parts(r), build.xml[r.op]) \in Seq(Byte)
      BY <3>1, FormattedSeq
    <3> QED BY <2>2, <3>2 DEF Text
  <2>3. CASE r.op \in XmlOps \ FormattedOps
    <3>1. Whole(Parts(r)) \in Seq(Byte)
      BY <2>1, <2>3, WholeSeq
    <3> QED BY <2>3, <3>1 DEF Text
  <2>4. CASE r.op \notin XmlOps
    BY <2>4, EmptySeq DEF Text, XmlOps
  <2> QED BY <2>2, <2>3, <2>4
<1> QED BY <1>1, LenProperties

-----------------------------------------------------------------------------
(* What the steps need to know of a list. *)

\* The call that leaves room for the length of the payload.
Place(r) == IF r.op = "write" THEN 0 ELSE HeaderCalls(r.sid) + 5

\* A patch fills that room, and no byte follows it.
Patches(w, q, h, B, place) ==
  \A j \in 1 .. Len(w) : w[j].call = "patch" =>
    /\ place \in 1 .. j - 1 /\ q[place - 1] = h[j - 1] + 2 /\ q[place] = h[j - 1] + 4
    /\ h[j - 1] + 4 <= B
    /\ \A i \in j + 1 .. Len(w) : w[i].call = "check"

\* The checks up to the i-th call pass.
Passed(w, q, B, n) == \A i \in 1 .. n : w[i].call = "check" => q[i] <= B

\* What slices the buffer begins within it, if the checks before it pass.
Slices(w, q, B) ==
  \A j \in 1 .. Len(w) :
    w[j].call \in {"bytes", "rest_len"} /\ Passed(w, q, B, j - 1) => q[j - 1] <= B

Shape(r, w, q, h, B) ==
  /\ Patches(w, q, h, B, Place(r))
  /\ Slices(w, q, B)
  /\ Passed(w, q, B, Len(w)) => q[Len(w)] <= B
  /\ r.op = "write" => q[Len(w)] = Prefix(r.sid) /\ q[Len(w)] <= B
  /\ r.op # "write" /\ Len(xml) = Len(Text(r)) => q[Len(w)] = SizeOf(r)

\* A list whose end is in the buffer slices nothing behind it.
LEMMA ShortSlices ==
  ASSUME NEW w \in Seq(Call), NEW B \in Nat, NEW q, NEW h, Lay(w, q, h, B), q[Len(w)] <= B
  PROVE  Slices(w, q, B)
<1>1. PICK n \in Nat : n = Len(w)
  BY LenProperties
<1>2. ASSUME NEW j \in 1 .. n PROVE q[j - 1] <= B
  <2>1. j - 1 \in 0 .. n /\ n \in 0 .. n /\ j - 1 <= n
    OBVIOUS
  <2>2. q[j - 1] \in Nat /\ q[n] \in Nat /\ q[j - 1] <= q[n]
    BY <1>1, <2>1, LayGrows
  <2> QED BY <1>1, <2>2
<1> QED BY <1>1, <1>2 DEF Slices

LEMMA ClientShape ==
  ASSUME NEW r \in Request, r.op = "client", NEW w, ClientList(w, r), NEW q, NEW h,
         NEW B \in Nat, 28 <= B, Lay(w, q, h, B)
  PROVE  Shape(r, w, q, h, B)
<1>1. PICK g \in Nat, n \in Nat :
        g = HeaderCalls(r.sid) /\ n = MsgHeaderLen(r.sid) /\ n <= 8 /\ g >= 3
  <2>1. r.sid \in Byte
    BY RequestFields
  <2> QED BY <2>1 DEF HeaderCalls, MsgHeaderLen
<1>2. ClientLaid(q, h, r)
  BY ClientLays
<1>3. w \in Seq(Call) /\ Len(w) = g + 14 /\ NoPatch(w, 1, g + 13) /\ w[(g + 5) + 9] = Patch
  BY <1>1 DEF ClientList, ClientAt
<1>4. q[g + 14] = n + 20 /\ q[g + 4] = n + 2 /\ q[g + 5] = n + 4 /\ h[g + 13] = n
  BY <1>1, <1>2 DEF ClientLaid, SubLaid
<1>5. q[Len(w)] = n + 20 /\ q[Len(w)] <= B
  BY <1>1, <1>3, <1>4, SMTT(60)
<1>6. Slices(w, q, B)
  BY <1>3, <1>5, ShortSlices
<1>7. Place(r) = g + 5
  BY <1>1 DEF Place
<1>8. Patches(w, q, h, B, g + 5)
  <2> SUFFICES ASSUME NEW j \in 1 .. g + 14, w[j].call = "patch"
               PROVE  /\ g + 5 \in 1 .. j - 1 /\ q[(g + 5) - 1] = h[j - 1] + 2
                      /\ q[g + 5] = h[j - 1] + 4 /\ h[j - 1] + 4 <= B
                      /\ \A i \in j + 1 .. g + 14 : w[i].call = "check"
    BY <1>3 DEF Patches
  <2>1. j = g + 14
    BY <1>1, <1>3 DEF NoPatch
  <2>2. j - 1 = g + 13 /\ (g + 5) - 1 = g + 4 /\ g + 5 \in 1 .. j - 1
        /\ \A i \in j + 1 .. g + 14 : FALSE
    BY <1>1, <2>1
  <2> QED BY <1>1, <1>4, <2>2
<1>9. q[Len(w)] = SizeOf(r)
  <2>1. r.op # "participant" /\ r.op \notin XmlOps \ {"participant"}
        /\ r.op # "read" /\ r.op # "write"
    BY DEF XmlOps, FormattedOps
  <2>2. SizeOf(r) = n + 4 + 16
    BY <1>1, <2>1 DEF SizeOf
  <2> QED BY <1>1, <1>5, <2>2
<1> QED BY <1>5, <1>6, <1>7, <1>8, <1>9 DEF Shape

LEMMA ReadShape ==
  ASSUME NEW r \in Request, r.op = "read", NEW w, ReadList(w, r), NEW q, NEW h,
         NEW B \in Nat, 28 <= B, Lay(w, q, h, B)
  PROVE  Shape(r, w, q, h, B)
<1>1. PICK g \in Nat, n \in Nat :
        g = HeaderCalls(r.sid) /\ n = MsgHeaderLen(r.sid) /\ n <= 8 /\ g >= 3
  <2>1. r.sid \in Byte
    BY RequestFields
  <2> QED BY <2>1 DEF HeaderCalls, MsgHeaderLen
<1>2. ReadLaid(q, h, r)
  BY ReadLays
<1>3. /\ w \in Seq(Call) /\ Len(w) = g + 13 /\ NoPatch(w, 1, g + 11)
      /\ w[(g + 7) + 6] = Check
  BY <1>1 DEF ReadList, ReadAt
<1>4. q[g + 13] = n + 12 /\ q[g + 4] = n + 2 /\ q[g + 5] = n + 4 /\ h[g + 11] = n
  BY <1>1, <1>2 DEF ReadLaid, SubLaid
<1>5. q[Len(w)] = n + 12 /\ q[Len(w)] <= B
  BY <1>1, <1>3, <1>4, SMTT(60)
<1>6. Slices(w, q, B)
  BY <1>3, <1>5, ShortSlices
<1>7. Place(r) = g + 5
  BY <1>1 DEF Place
<1>8. Patches(w, q, h, B, g + 5)
  <2> SUFFICES ASSUME NEW j \in 1 .. g + 13, w[j].call = "patch"
               PROVE  /\ g + 5 \in 1 .. j - 1 /\ q[(g + 5) - 1] = h[j - 1] + 2
                      /\ q[g + 5] = h[j - 1] + 4 /\ h[j - 1] + 4 <= B
                      /\ \A i \in j + 1 .. g + 13 : w[i].call = "check"
    BY <1>3 DEF Patches
  <2>1. w[g + 13].call = "check"
    <3>1. w[(g + 7) + 6].call = "check" /\ (g + 7) + 6 = g + 13
      BY <1>1, <1>3 DEF Check
    <3> QED BY <3>1
  <2>2. j = g + 12
    <3>1. j # g + 13
      BY <2>1
    <3>2. ~(j \in 1 .. g + 11)
      BY <1>3 DEF NoPatch
    <3> QED BY <1>1, <3>1, <3>2
  <2>3. j - 1 = g + 11 /\ (g + 5) - 1 = g + 4 /\ g + 5 \in 1 .. j - 1
        /\ \A i \in j + 1 .. g + 13 : i = g + 13
    BY <1>1, <2>2
  <2> QED BY <1>1, <1>4, <2>1, <2>3
<1>9. q[Len(w)] = SizeOf(r)
  <2>1. r.op # "participant" /\ r.op \notin XmlOps \ {"participant"}
        /\ r.op # "client" /\ r.op # "write"
    BY DEF XmlOps, FormattedOps
  <2>2. SizeOf(r) = n + 4 + 8
    BY <1>1, <2>1 DEF SizeOf
  <2> QED BY <1>1, <1>5, <2>2
<1> QED BY <1>5, <1>6, <1>7, <1>8, <1>9 DEF Shape

LEMMA WriteShape ==
  ASSUME NEW r \in Request, r.op = "write", NEW w, WriteList(w, r), NEW q, NEW h,
         NEW B \in Nat, Prefix(r.sid) <= B, Lay(w, q, h, B)
  PROVE  Shape(r, w, q, h, B)
<1>1. PICK g \in Nat, n \in Nat :
        g = HeaderCalls(r.sid) /\ n = MsgHeaderLen(r.sid) /\ n <= 8 /\ g >= 3
  <2>1. r.sid \in Byte
    BY RequestFields
  <2> QED BY <2>1 DEF HeaderCalls, MsgHeaderLen
<1>2. WriteLaid(q, h, r)
  BY WriteLays
<1>3. w \in Seq(Call) /\ Len(w) = g + 6 /\ NoPatch(w, 1, g + 6)
  BY <1>1 DEF WriteList
<1>4. q[(g + 4) + 2] = (n + 4) + 4
  BY <1>1, <1>2 DEF WriteLaid, RefLaid
<1>5. q[Len(w)] = Prefix(r.sid) /\ q[Len(w)] <= B
  <2>1. Prefix(r.sid) = n + 4 + 4
    BY <1>1 DEF Prefix
  <2>2. (g + 4) + 2 = g + 6 /\ (n + 4) + 4 = n + 4 + 4
    BY <1>1
  <2> QED BY <1>3, <1>4, <2>1, <2>2
<1>6. Slices(w, q, B)
  BY <1>3, <1>5, ShortSlices
<1>7. Patches(w, q, h, B, Place(r))
  BY <1>3 DEF Patches, NoPatch
<1> QED BY <1>5, <1>6, <1>7 DEF Shape

LEMMA Odd ==
  ASSUME NEW n \in {4, 8}, NEW t \in Nat, NEW B \in Nat, B % 2 = 0, n + 17 + t <= B
  PROVE  DomainPad(t) \in Nat /\ n + 17 + t + DomainPad(t) <= B
<1>1. PICK half \in Nat : B = 2 * half
  <2>1. B \div 2 \in Nat /\ B = 2 * (B \div 2) + 0
    BY Division
  <2> QED BY <2>1
<1>2. PICK m \in Nat, d \in {0, 1} : 13 + t = 2 * m + d /\ d = (13 + t) % 2
  <2>1. PICK x \in Nat : x = 13 + t
    OBVIOUS
  <2>2. PICK y \in Nat, z \in 0 .. 1 : x = 2 * y + z /\ z = x % 2
    <3>1. x \div 2 \in Nat /\ x % 2 \in 0 .. 2 - 1 /\ x = 2 * (x \div 2) + (x % 2)
      BY Division
    <3> QED BY <3>1
  <2>3. z \in {0, 1}
    OBVIOUS
  <2> QED BY <2>1, <2>2, <2>3
<1>3. DomainPad(t) = d
  <2>1. DomainPad(t) = (2 - d) % 2
    BY <1>2 DEF DomainPad, Padding
  <2> QED BY <2>1
<1>4. n + 17 + t = (2 * m + d) + (n + 4)
  BY <1>2
<1> QED BY <1>1, <1>3, <1>4

LEMMA CreateShape ==
  ASSUME NEW r \in Request, r.op \in XmlOps, NEW w, CreateList(w, r), NEW q, NEW h,
         NEW B \in Nat, 28 <= B, B % 2 = 0, Lay(w, q, h, B), Text(r) \in Seq(Byte)
  PROVE  Shape(r, w, q, h, B)
<1>1. PICK g \in Nat, n \in {4, 8}, k \in {1, 2} :
        g = HeaderCalls(r.sid) /\ n = MsgHeaderLen(r.sid) /\ k = CreateTailCalls(r) /\ g >= 3
  <2>1. r.sid \in Byte
    BY RequestFields
  <2> QED BY <2>1 DEF HeaderCalls, MsgHeaderLen, CreateTailCalls
<1>2. n \in Nat /\ n <= 8 /\ k \in Nat /\ 1 <= k /\ k <= 2
  OBVIOUS
<1>3. PICK t \in Nat : t = Len(Text(r))
  BY LenProperties
<1>4. CreateLaid(q, h, r, t)
  BY <1>3, CreateLays
<1>5. /\ w \in Seq(Call) /\ Len(w) = g + 16 + k /\ NoPatch(w, 1, g + 14 + k)
      /\ w[g + 15 + k] = Patch /\ w[g + 16 + k] = Check
      /\ w[(g + 9) + 4] = U8(0) /\ w[(g + 9) + 5] = Check /\ CreateAt(w, g + 14, r)
  BY <1>1, Zenon DEF CreateList, TextAt
<1>6. /\ q[g + 4] = n + 2 /\ q[g + 5] = n + 4 /\ h[g + 14 + k] = n
      /\ q[(g + 9) + 2] = n + 16 /\ q[(g + 9) + 5] = n + 17 + t
      /\ IF r.op = "participant"
         THEN q[g + 15] = n + 17 + t + DomainPad(t) /\ q[g + 16] = n + 19 + t + DomainPad(t)
         ELSE q[g + 15] = n + 19 + t
      /\ q[g + 16 + k] = q[g + 14 + k]
  BY <1>1, <1>4, Zenon DEF CreateLaid, SubLaid, TextLaid
<1>7. q[g + 11] = n + 16 /\ q[g + 14] = n + 17 + t
  <2>1. (g + 9) + 2 = g + 11 /\ (g + 9) + 5 = g + 14
    BY <1>1
  <2> QED BY <1>6, <2>1
<1>8. w[g + 13].call = "u8" /\ w[g + 14].call = "check" /\ w[g + 15 + k].call = "patch"
      /\ w[g + 16 + k].call = "check"
  <2>1. (g + 9) + 4 = g + 13 /\ (g + 9) + 5 = g + 14
    BY <1>1
  <2> QED BY <1>5, <2>1 DEF U8, Check, Patch
<1>9. Passed(w, q, B, Len(w)) => q[Len(w)] <= B
  <2>1. g + 16 + k \in 1 .. g + 16 + k
    BY <1>2
  <2>2. Len(w) \in 1 .. Len(w) /\ w[Len(w)].call = "check"
    BY <1>5, <1>8, <2>1
  <2> QED BY <2>2 DEF Passed
<1>10. Patches(w, q, h, B, Place(r))
  <2>1. Place(r) = g + 5
    <3>1. r.op # "write"
      BY DEF XmlOps, FormattedOps
    <3> QED BY <1>1, <3>1 DEF Place
  <2> SUFFICES ASSUME NEW j \in 1 .. g + 16 + k, w[j].call = "patch"
               PROVE  /\ g + 5 \in 1 .. j - 1 /\ q[(g + 5) - 1] = h[j - 1] + 2
                      /\ q[g + 5] = h[j - 1] + 4 /\ h[j - 1] + 4 <= B
                      /\ \A i \in j + 1 .. g + 16 + k : w[i].call = "check"
    BY <1>5, <2>1 DEF Patches
  <2>2. j = g + 15 + k
    <3>1. j # g + 16 + k
      BY <1>8
    <3>2. ~(j \in 1 .. g + 14 + k)
      BY <1>5 DEF NoPatch
    <3> QED BY <1>2, <3>1, <3>2
  <2>3. j - 1 = g + 14 + k /\ (g + 5) - 1 = g + 4 /\ g + 5 \in 1 .. j - 1
        /\ \A i \in j + 1 .. g + 16 + k : i = g + 16 + k
    BY <1>2, <2>2
  <2>4. h[j - 1] = n /\ n + 4 <= B
    BY <1>2, <1>6, <2>3
  <2> QED BY <1>6, <1>8, <2>3, <2>4
<1>11. Slices(w, q, B)
  <2> SUFFICES ASSUME NEW j \in 1 .. g + 16 + k, w[j].call \in {"bytes", "rest_len"},
                      Passed(w, q, B, j - 1)
               PROVE  q[j - 1] <= B
    BY <1>5 DEF Slices
  <2>1. CASE j <= g + 12
    <3>1. j - 1 \in 0 .. Len(w) /\ g + 11 \in 0 .. Len(w) /\ j - 1 <= g + 11
      <4>1. PICK z \in Nat : z = g + 16 + k
        BY <1>2
      <4>2. j - 1 \in 0 .. z /\ g + 11 \in 0 .. z /\ j - 1 <= g + 11
        BY <1>2, <2>1, <4>1
      <4> QED BY <1>5, <4>1, <4>2
    <3>2. q[j - 1] \in Nat /\ q[g + 11] \in Nat /\ q[j - 1] <= q[g + 11]
      BY <1>5, <3>1, LayGrows
    <3> QED BY <1>2, <1>7, <3>2
  <2>2. CASE j > g + 12
    <3>1. j # g + 13 /\ j # g + 14 /\ j # g + 15 + k /\ j # g + 16 + k
      BY <1>8
    <3>2. g + 15 <= j /\ j <= g + 14 + k
      BY <1>2, <2>2, <3>1
    <3>3. q[g + 14] <= B
      <4>1. g + 14 \in 1 .. j - 1
        BY <2>2, <3>1
      <4> QED BY <1>8, <4>1 DEF Passed
    <3>4. CASE r.op = "participant"
      <4>1. k = 2 /\ w[(g + 14) + 1] = CdrAlign(2)
        BY <1>1, <1>5, <3>4 DEF CreateAt, CreateTailCalls
      <4>2. w[g + 15].call = "cdr_align"
        <5>1. (g + 14) + 1 = g + 15
          BY <1>1
        <5> QED BY <4>1, <5>1 DEF CdrAlign
      <4>3. j = g + 16 /\ j - 1 = g + 15
        <5>1. j # g + 15
          BY <4>2
        <5> QED BY <1>1, <3>2, <4>1, <5>1, SMTT(60)
      <4>4. q[g + 15] = n + 17 + t + DomainPad(t)
        BY <1>6, <3>4
      <4>5. n + 17 + t + DomainPad(t) <= B
        BY <1>7, <3>3, Odd
      <4> QED BY <4>3, <4>4, <4>5
    <3>5. CASE r.op # "participant"
      <4>1. k = 1
        BY <1>1, <3>5 DEF CreateTailCalls
      <4>2. j - 1 = g + 14
        BY <1>1, <3>2, <4>1, SMTT(60)
      <4> QED BY <3>3, <4>2
    <3> QED BY <3>4, <3>5
  <2> QED BY <1>1, <2>1, <2>2
<1>12. Len(xml) = Len(Text(r)) => q[Len(w)] = SizeOf(r)
  <2> SUFFICES ASSUME Len(xml) = t PROVE q[Len(w)] = SizeOf(r)
    BY <1>3
  <2>1. q[Len(w)] = q[g + 14 + k]
    BY <1>5, <1>6
  <2>2. CASE r.op = "participant"
    <3>1. k = 2 /\ g + 14 + k = g + 16
      BY <1>1, <2>2 DEF CreateTailCalls
    <3>2. q[g + 16] = n + 19 + t + DomainPad(t)
      BY <1>6, <2>2
    <3>3. r.op # "client"
      BY <2>2
    <3>4. 8 + 4 + t + 1 = 13 + t
      OBVIOUS
    <3>5. SizeOf(r) = n + 4 + ((13 + t) + DomainPad(t) + 2)
      BY <1>1, <2>2, <3>3, <3>4 DEF SizeOf, DomainPad
    <3>6. DomainPad(t) \in Nat
      <4>1. 13 + t \in Int /\ 2 \in {2, 4}
        OBVIOUS
      <4> QED BY <4>1, PaddingNat DEF DomainPad
    <3> QED BY <1>2, <2>1, <3>1, <3>2, <3>5, <3>6, SMTT(60)
  <2>3. CASE r.op # "participant"
    <3>1. k = 1 /\ g + 14 + k = g + 15
      BY <1>1, <2>3 DEF CreateTailCalls
    <3>2. q[g + 15] = n + 19 + t
      BY <1>6, <2>3
    <3>3. r.op # "client" /\ r.op # "read" /\ r.op # "write" /\ r.op \in XmlOps \ {"participant"}
      BY <2>3 DEF XmlOps, FormattedOps
    <3>4. SizeOf(r) = n + 4 + ((8 + 4 + t + 1) + 2)
      BY <1>1, <2>3, <3>3 DEF SizeOf
    <3> QED BY <1>2, <2>1, <3>1, <3>2, <3>4
  <2> QED BY <2>2, <2>3
<1>13. r.op # "write"
  BY DEF XmlOps, FormattedOps
<1> QED BY <1>9, <1>10, <1>11, <1>12, <1>13 DEF Shape

\* Every list an encoder makes, in a buffer as long as that of the request.
LEMMA Shaped ==
  ASSUME build \in Build, NEW r \in build.requests, NEW q, NEW h, NEW B \in Nat,
         B = IF r.op = "write" THEN Prefix(r.sid) + Len(r.body) ELSE TxLen(r),
         Lay(Encode(r), q, h, B)
  PROVE  Encode(r) \in Seq(Call) /\ Shape(r, Encode(r), q, h, B)
<1>1. r \in Request /\ 28 <= TxLen(r) /\ TxLen(r) % 2 = 0
  BY BuildIs, TxLenIs
<1>2. CASE r.op = "client"
  <2>1. ClientList(Encode(r), r) /\ B = TxLen(r)
    BY <1>1, <1>2, ClientCalls
  <2> QED BY <1>1, <1>2, <2>1, ClientShape DEF ClientList
<1>3. CASE r.op = "read"
  <2>1. ReadList(Encode(r), r) /\ B = TxLen(r)
    BY <1>1, <1>3, ReadCalls
  <2> QED BY <1>1, <1>3, <2>1, ReadShape DEF ReadList
<1>4. CASE r.op = "write"
  <2>1. WriteList(Encode(r), r)
    BY <1>1, <1>4, WriteCalls
  <2>2. Len(r.body) \in Nat /\ MsgHeaderLen(r.sid) \in Nat
    BY <1>1, RequestFields, LenProperties, HeaderSizes
  <2>3. Prefix(r.sid) <= B
    BY <1>4, <2>2 DEF Prefix
  <2> QED BY <1>1, <1>4, <2>1, <2>3, WriteShape DEF WriteList
<1>5. CASE r.op \in XmlOps
  <2>1. Text(r) \in Seq(Byte)
    BY TextSeq
  <2>2. r.op # "write"
    BY <1>5 DEF XmlOps, FormattedOps
  <2>3. CreateList(Encode(r), r) /\ B = TxLen(r)
    BY <1>1, <1>5, <2>1, <2>2, CreateCalls
  <2> QED BY <1>1, <1>5, <2>1, <2>3, CreateShape DEF CreateList
<1>6. r.op \in XmlOps \cup {"client", "read", "write"}
  BY <1>1, RequestFields
<1> QED BY <1>2, <1>3, <1>4, <1>5, <1>6

-----------------------------------------------------------------------------
(* The invariant. *)

BufSize(r) == IF r.op = "write" THEN Prefix(r.sid) + Len(r.body) ELSE TxLen(r)

DataOf(w, q, h, B, j) == Data(w[j], q[j - 1], h[j - 1], B)

\* The bytes of each call are where it put them, but for those patched later.
Wrote(w, q, h, B, place, c) ==
  \A j \in 1 .. c : j # place =>
    \A k \in 1 .. Len(DataOf(w, q, h, B, j)) :
      q[j - 1] + k <= B => buf[q[j - 1] + k] = DataOf(w, q, h, B, j)[k]

\* What is not written yet is as it was.
Untouched(q, B, old, c) == \A i \in 1 .. B : i > q[c] => buf[i] = old[i]

Known(q, B, c) == \A i \in 1 .. B : i <= q[c] => buf[i] \in Byte

\* A patched length is that of all that follows it.
LengthIn(w, q, h, c) ==
  \A j \in 1 .. c : w[j].call = "patch" =>
    /\ buf[h[c] + 3] = Le16(q[c] - (h[c] + 4))[1]
    /\ buf[h[c] + 4] = Le16(q[c] - (h[c] + 4))[2]

\* The first c calls of w are made, in a buffer of size B that was old.
Stage(w, q, h, B, place, old, c) ==
  /\ c \in Nat /\ c <= Len(w) /\ calls = Rest(w, c)
  /\ pos = q[c] /\ hdr = h[c]
  /\ overflow \in BOOLEAN /\ (overflow <=> q[c] > B)
  /\ buf \in [1 .. B -> Byte \cup {Stale}]
  /\ Passed(w, q, B, c)
  /\ Wrote(w, q, h, B, place, c)
  /\ Untouched(q, B, old, c)
  /\ Known(q, B, c)
  /\ LengthIn(w, q, h, c)

Writing ==
  \E q, h : \E c \in Nat :
    /\ Lay(Encode(request), q, h, BufSize(request))
    /\ Stage(Encode(request), q, h, BufSize(request), Place(request), Buffer(request), c)

Asked == xml = Text(request) /\ ~TopicTooLong(request)

EncInv ==
  /\ WriterTypeOK
  /\ wstate = "start" => pos = 0 /\ hdr = 0 /\ overflow = FALSE
  /\ wstate \in {"start", "encoding"} => frame = <<>>
  /\ wstate \in {"encoding", "sent"} => Asked
  /\ wstate = "encoding" => Writing
  /\ HeardAsMeant
  /\ RefusedIfTooLong

-----------------------------------------------------------------------------
(* One call. *)

LEMMA BufSeq ==
  ASSUME NEW B \in Nat, buf \in [1 .. B -> Byte \cup {Stale}]
  PROVE  buf \in Seq(Byte \cup {Stale}) /\ BufLen = B
BY DEF BufLen

\* What is known of the list while its calls are made.
Listed(w, q, h, B, place) ==
  /\ w \in Seq(Call) /\ B \in Nat /\ Lay(w, q, h, B)
  /\ Patches(w, q, h, B, place) /\ Slices(w, q, B)

NextIs(w, q, h, B, c) ==
  /\ c + 1 <= Len(w) /\ c + 1 \in 1 .. Len(w) /\ w[c + 1] \in Call
  /\ Head(calls) = w[c + 1] /\ Tail(calls) = Rest(w, c + 1)
  /\ q[c] \in Nat /\ h[c] \in Nat /\ q[c + 1] \in Nat /\ h[c + 1] \in Nat
  /\ q[c + 1] = q[c] + Len(Data(w[c + 1], q[c], h[c], B))
  /\ h[c + 1] = IF w[c + 1].call = "hdr_off" THEN q[c] ELSE h[c]

LEMMA NextCall ==
  ASSUME NEW w, NEW q, NEW h, NEW B, NEW place, Listed(w, q, h, B, place),
         NEW c, NEW old, Stage(w, q, h, B, place, old, c), calls # <<>>
  PROVE  NextIs(w, q, h, B, c)
<1>1. w \in Seq(Call) /\ c \in Nat /\ c <= Len(w) /\ calls = Rest(w, c)
  BY DEF Listed, Stage
<1>2. /\ c + 1 \in 1 .. Len(w) /\ Head(Rest(w, c)) = w[c + 1]
      /\ Tail(Rest(w, c)) = Rest(w, c + 1)
  BY <1>1, RestNext
<1>3. Len(w) \in Nat /\ c + 1 <= Len(w)
  BY <1>1, <1>2, LenProperties
<1>4. IsLay(w, q, h, B, c)
  BY <1>1, <1>3 DEF Listed, IsLay
<1>5. /\ q[c] \in Nat /\ h[c] \in Nat /\ w[c + 1] \in Call
      /\ q[c + 1] = q[c] + Len(Data(w[c + 1], q[c], h[c], B))
      /\ h[c + 1] = IF w[c + 1].call = "hdr_off" THEN q[c] ELSE h[c]
  BY <1>4, LayStep
<1>6. c + 1 \in 0 .. Len(w)
  BY <1>1, <1>3
<1>7. q[c + 1] \in Nat /\ h[c + 1] \in Nat
  BY <1>6 DEF Listed, Lay, Laid
<1> QED BY <1>1, <1>2, <1>3, <1>5, <1>7 DEF NextIs

\* After a patch there are only checks.
LEMMA NotAfterPatch ==
  ASSUME NEW w, NEW q, NEW h, NEW B, NEW place, Patches(w, q, h, B, place),
         NEW c \in Nat, c + 1 <= Len(w), Len(w) \in Nat, w[c + 1].call # "check"
  PROVE  \A j \in 1 .. c : w[j].call # "patch"
<1> SUFFICES ASSUME NEW j \in 1 .. c, w[j].call = "patch" PROVE FALSE
  OBVIOUS
<1>1. j \in 1 .. Len(w) /\ c + 1 \in j + 1 .. Len(w)
  OBVIOUS
<1> QED BY <1>1 DEF Patches

\* Where the k-th byte of the j-th call is, among those of the first c.
Within(q, j, k, c) == q[j - 1] \in Nat /\ q[j] \in Nat /\ q[c] \in Nat
                      /\ 1 <= k /\ q[j - 1] + k <= q[j] /\ q[j] <= q[c]

LEMMA DataWithin ==
  ASSUME NEW w, NEW q, NEW h, NEW B, NEW place, Listed(w, q, h, B, place),
         NEW c \in Nat, c <= Len(w), NEW j \in 1 .. c, NEW k \in 1 .. Len(DataOf(w, q, h, B, j))
  PROVE  Within(q, j, k, c) /\ k \in Nat
<1>1. PICK n \in Nat : n = Len(w)
  BY LenProperties DEF Listed
<1>2. j \in Nat /\ j - 1 \in Nat /\ (j - 1) + 1 = j /\ j \in 0 .. n /\ c \in 0 .. n /\ j <= c /\ j <= n
  BY <1>1
<1>3. IsLay(w, q, h, B, j - 1)
  BY <1>1, <1>2 DEF Listed, IsLay
<1>4. /\ q[j - 1] \in Nat /\ h[j - 1] \in Nat /\ w[j] \in Call
      /\ q[j] = q[j - 1] + Len(Data(w[j], q[j - 1], h[j - 1], B))
  <2>1. /\ q[j - 1] \in Nat /\ h[j - 1] \in Nat /\ w[(j - 1) + 1] \in Call
        /\ q[(j - 1) + 1] = q[j - 1] + Len(Data(w[(j - 1) + 1], q[j - 1], h[j - 1], B))
    BY <1>3, LayStep
  <2> QED BY <1>2, <2>1, Zenon
<1>5. PICK l \in Nat : l = Len(Data(w[j], q[j - 1], h[j - 1], B))
  BY <1>4, DataSeq DEF Listed
<1>6. q[c] \in Nat /\ q[j] \in Nat /\ q[j] <= q[c]
  BY <1>1, <1>2, LayGrows DEF Listed
<1>7. k \in 1 .. l
  BY <1>5 DEF DataOf
<1> QED BY <1>4, <1>5, <1>6, <1>7 DEF Within

\* A call that writes, made.
LEMMA WriteStep ==
  ASSUME NEW w, NEW q, NEW h, NEW B, NEW place, Listed(w, q, h, B, place),
         NEW c, NEW old, Stage(w, q, h, B, place, old, c), calls # <<>>,
         w[c + 1].call \notin {"patch", "check", "hdr_off"},
         NEW d, d = Data(w[c + 1], q[c], h[c], B), Write(d)
  PROVE  Stage(w, q, h, B, place, old, c + 1)'
<1>1. NextIs(w, q, h, B, c)
  BY NextCall
<1>2. c \in Nat /\ B \in Nat /\ w \in Seq(Call) /\ Len(w) \in Nat /\ c + 1 <= Len(w)
      /\ w[c + 1] \in Call /\ q[c] \in Nat /\ h[c] \in Nat
  BY <1>1, LenProperties DEF Listed, Stage, NextIs
<1>3. d \in Seq(Byte) /\ Len(d) \in Nat
  BY <1>2, DataSeq
<1>4. PICK p \in Nat, l \in Nat : p = q[c] /\ l = Len(d)
  BY <1>2, <1>3
<1>5. q[c + 1] = p + l /\ h[c + 1] = h[c]
  BY <1>1, <1>4 DEF NextIs
<1>6. pos = p /\ hdr = h[c] /\ overflow \in BOOLEAN /\ (overflow <=> p > B)
      /\ buf \in [1 .. B -> Byte \cup {Stale}]
  BY <1>4 DEF Stage
<1>7. BufLen = B
  BY <1>2, <1>6, BufSeq
<1>8. /\ buf' = [i \in 1 .. B |-> IF i \in p + 1 .. p + l THEN d[i - p] ELSE buf[i]]
      /\ pos' = p + l /\ overflow' = (overflow \/ p + l > B)
      /\ calls' = Tail(calls) /\ hdr' = hdr
  BY <1>4, <1>6, <1>7 DEF Write
<1>9. ASSUME NEW i \in 1 .. B, i \in p + 1 .. p + l
      PROVE  buf'[i] = d[i - p] /\ d[i - p] \in Byte
  <2>1. i - p \in 1 .. l
    BY <1>9
  <2>2. d[i - p] \in Byte
    BY <1>3, <1>4, <2>1, ElementOfSeq
  <2> QED BY <1>8, <1>9, <2>2
<1>10. ASSUME NEW i \in 1 .. B, i \notin p + 1 .. p + l
       PROVE  buf'[i] = buf[i]
  BY <1>8, <1>10
<1>11. pos' = q[c + 1] /\ hdr' = h[c + 1] /\ calls' = Rest(w, c + 1)
  BY <1>1, <1>5, <1>6, <1>8 DEF NextIs
<1>12. overflow' \in BOOLEAN /\ (overflow' <=> q[c + 1] > B)
  <2>1. overflow' \in BOOLEAN
    BY <1>6, <1>8
  <2>2. (p > B \/ p + l > B) <=> p + l > B
    BY <1>2
  <2>3. overflow' <=> (p > B \/ p + l > B)
    BY <1>6, <1>8
  <2> QED BY <1>5, <2>1, <2>2, <2>3
<1>13. buf' \in [1 .. B -> Byte \cup {Stale}]
  <2>1. \A i \in 1 .. B : buf'[i] \in Byte \cup {Stale}
    <3> TAKE i \in 1 .. B
    <3>1. CASE i \in p + 1 .. p + l
      BY <1>9, <3>1
    <3>2. CASE i \notin p + 1 .. p + l
      BY <1>6, <1>10, <3>2
    <3> QED BY <3>1, <3>2
  <2> QED BY <1>8, <2>1
<1>14. Passed(w, q, B, c + 1)'
  <2>1. Passed(w, q, B, c)
    BY DEF Stage
  <2>2. \A i \in 1 .. c + 1 : i \in 1 .. c \/ i = c + 1
    BY <1>2
  <2> QED BY <2>1, <2>2 DEF Passed
<1>15. Wrote(w, q, h, B, place, c + 1)'
  <2> SUFFICES ASSUME NEW j \in 1 .. c + 1, j # place,
                      NEW k \in 1 .. Len(DataOf(w, q, h, B, j)), q[j - 1] + k <= B
               PROVE  buf'[q[j - 1] + k] = DataOf(w, q, h, B, j)[k]
    BY DEF Wrote, DataOf
  <2>1. CASE j = c + 1
    <3>1. (c + 1) - 1 = c
      BY <1>2
    <3>2. DataOf(w, q, h, B, j) = d /\ q[j - 1] = p
      BY <1>4, <2>1, <3>1, Zenon DEF DataOf
    <3>3. k \in 1 .. l
      BY <1>4, <3>2
    <3>4. p + k \in 1 .. B /\ p + k \in p + 1 .. p + l /\ (p + k) - p = k
      BY <1>2, <3>2, <3>3
    <3>5. buf'[p + k] = d[k]
      BY <1>9, <3>4
    <3> QED BY <3>2, <3>5
  <2>2. CASE j # c + 1
    <3>1. j \in 1 .. c
      BY <1>2, <2>2
    <3>2. Within(q, j, k, c) /\ k \in Nat
      BY <1>2, <3>1, DataWithin
    <3>3. q[j - 1] + k \in 1 .. B /\ q[j - 1] + k \notin p + 1 .. p + l
      <4>1. PICK a \in Nat, b \in Nat : a = q[j - 1] /\ b = q[j]
        BY <3>2 DEF Within
      <4>2. 1 <= k /\ a + k <= b /\ b <= p /\ a + k <= B
        BY <1>4, <3>2, <4>1 DEF Within
      <4>3. a + k \in 1 .. B /\ a + k \notin p + 1 .. p + l
        BY <1>2, <3>2, <4>2
      <4> QED BY <4>1, <4>3
    <3>4. buf[q[j - 1] + k] = DataOf(w, q, h, B, j)[k]
      BY <3>1 DEF Stage, Wrote
    <3> QED BY <1>10, <3>3, <3>4
  <2> QED BY <2>1, <2>2
<1>16. Untouched(q, B, old, c + 1)'
  <2> SUFFICES ASSUME NEW i \in 1 .. B, i > q[c + 1] PROVE buf'[i] = old[i]
    BY DEF Untouched
  <2>1. i \notin p + 1 .. p + l /\ i > q[c]
    BY <1>2, <1>4, <1>5
  <2> QED BY <1>10, <2>1 DEF Stage, Untouched
<1>17. Known(q, B, c + 1)'
  <2> SUFFICES ASSUME NEW i \in 1 .. B, i <= q[c + 1] PROVE buf'[i] \in Byte
    BY DEF Known
  <2>1. CASE i \in p + 1 .. p + l
    BY <1>9, <2>1
  <2>2. CASE i \notin p + 1 .. p + l
    <3>1. i <= q[c]
      BY <1>2, <1>4, <1>5, <2>2
    <3>2. buf[i] \in Byte
      BY <3>1 DEF Stage, Known
    <3> QED BY <1>10, <2>2, <3>2
  <2> QED BY <2>1, <2>2
<1>18. LengthIn(w, q, h, c + 1)'
  <2>1. \A j \in 1 .. c : w[j].call # "patch"
    <3>1. w[c + 1].call # "check"
      OBVIOUS
    <3> QED BY <1>2, <3>1, NotAfterPatch DEF Listed
  <2>2. \A j \in 1 .. c + 1 : j \in 1 .. c \/ j = c + 1
    BY <1>2
  <2> QED BY <2>1, <2>2 DEF LengthIn
<1>19. c + 1 \in Nat /\ c + 1 <= Len(w)
  BY <1>2
<1> QED BY <1>11, <1>12, <1>13, <1>14, <1>15, <1>16, <1>17, <1>18, <1>19 DEF Stage

\* A call that writes nothing.
LEMMA SilentStep ==
  ASSUME NEW w, NEW q, NEW h, NEW B, NEW place, Listed(w, q, h, B, place),
         NEW c, NEW old, Stage(w, q, h, B, place, old, c), calls # <<>>,
         w[c + 1].call \in {"hdr_off", "check"}, hdr' = h[c + 1],
         w[c + 1].call = "check" => q[c] <= B,
         buf' = buf, pos' = pos, overflow' = overflow, calls' = Tail(calls)
  PROVE  Stage(w, q, h, B, place, old, c + 1)'
<1>1. NextIs(w, q, h, B, c)
  BY NextCall
<1>2. c \in Nat /\ B \in Nat /\ w \in Seq(Call) /\ Len(w) \in Nat /\ c + 1 <= Len(w)
      /\ q[c] \in Nat
  BY <1>1, LenProperties DEF Listed, Stage, NextIs
<1>3. Data(w[c + 1], q[c], h[c], B) = <<>>
  BY DEF Data
<1>4. q[c + 1] = q[c]
  <2>1. q[c + 1] = q[c] + Len(Data(w[c + 1], q[c], h[c], B))
    BY <1>1 DEF NextIs
  <2>2. Len(<<>>) = 0
    OBVIOUS
  <2> QED BY <1>2, <1>3, <2>1, <2>2
<1>5. \A j \in 1 .. c + 1 : j \in 1 .. c \/ j = c + 1
  BY <1>2
<1>6. Passed(w, q, B, c + 1)'
  <2>1. Passed(w, q, B, c)
    BY DEF Stage
  <2> QED BY <1>4, <1>5, <2>1 DEF Passed
<1>7. Wrote(w, q, h, B, place, c + 1)'
  <2> SUFFICES ASSUME NEW j \in 1 .. c + 1, j # place,
                      NEW k \in 1 .. Len(DataOf(w, q, h, B, j)), q[j - 1] + k <= B
               PROVE  buf[q[j - 1] + k] = DataOf(w, q, h, B, j)[k]
    BY DEF Wrote, DataOf
  <2>1. j # c + 1
    <3> SUFFICES ASSUME j = c + 1 PROVE FALSE
      OBVIOUS
    <3>1. (c + 1) - 1 = c
      BY <1>2
    <3>2. DataOf(w, q, h, B, j) = <<>>
      BY <1>3, <3>1, Zenon DEF DataOf
    <3>3. k \in 1 .. Len(<<>>)
      BY <3>2
    <3> QED BY <3>3
  <2>2. j \in 1 .. c
    BY <1>5, <2>1
  <2> QED BY <2>2 DEF Stage, Wrote
<1>8. Untouched(q, B, old, c + 1)' /\ Known(q, B, c + 1)'
  BY <1>4 DEF Stage, Untouched, Known
<1>9. LengthIn(w, q, h, c + 1)'
  <2>1. CASE w[c + 1].call = "hdr_off"
    <3>1. \A j \in 1 .. c : w[j].call # "patch"
      <4>1. w[c + 1].call # "check"
        BY <2>1
      <4> QED BY <1>2, <4>1, NotAfterPatch DEF Listed
    <3> QED BY <1>5, <2>1, <3>1 DEF LengthIn
  <2>2. CASE w[c + 1].call = "check"
    <3>1. h[c + 1] = h[c]
      BY <1>1, <2>2 DEF NextIs
    <3>2. LengthIn(w, q, h, c)
      BY DEF Stage
    <3>3. w[c + 1].call # "patch"
      BY <2>2
    <3>4. ASSUME NEW j \in 1 .. c + 1, w[j].call = "patch"
          PROVE  /\ buf'[h[c + 1] + 3] = Le16(q[c + 1] - (h[c + 1] + 4))[1]
                 /\ buf'[h[c + 1] + 4] = Le16(q[c + 1] - (h[c + 1] + 4))[2]
      <4>1. j \in 1 .. c
        BY <1>5, <3>3, <3>4
      <4>2. /\ buf[h[c] + 3] = Le16(q[c] - (h[c] + 4))[1]
            /\ buf[h[c] + 4] = Le16(q[c] - (h[c] + 4))[2]
        BY <3>2, <3>4, <4>1 DEF LengthIn
      <4> QED BY <1>4, <3>1, <4>2
    <3> QED BY <3>4, Zenon DEF LengthIn
  <2> QED BY <2>1, <2>2
<1>10. calls' = Rest(w, c + 1) /\ pos' = q[c + 1] /\ c + 1 \in Nat
  BY <1>1, <1>2, <1>4 DEF NextIs, Stage
<1>11. /\ overflow' \in BOOLEAN /\ (overflow' <=> q[c + 1] > B)
       /\ buf' \in [1 .. B -> Byte \cup {Stale}]
  BY <1>4 DEF Stage
<1> QED BY <1>2, <1>6, <1>7, <1>8, <1>9, <1>10, <1>11 DEF Stage

\* The length patched in.
LEMMA PatchStep ==
  ASSUME NEW w, NEW q, NEW h, NEW B, NEW place, Listed(w, q, h, B, place),
         NEW c, NEW old, Stage(w, q, h, B, place, old, c), calls # <<>>,
         w[c + 1].call = "patch", PatchLength
  PROVE  Stage(w, q, h, B, place, old, c + 1)'
<1>1. NextIs(w, q, h, B, c)
  BY NextCall
<1>2. c \in Nat /\ B \in Nat /\ w \in Seq(Call) /\ Len(w) \in Nat /\ c + 1 <= Len(w)
      /\ q[c] \in Nat /\ h[c] \in Nat
  BY <1>1, LenProperties DEF Listed, Stage, NextIs
<1>3. q[c + 1] = q[c] /\ h[c + 1] = h[c]
  <2>1. q[c + 1] = q[c] + Len(Data(w[c + 1], q[c], h[c], B)) /\ h[c + 1] = h[c]
    BY <1>1 DEF NextIs
  <2>2. Data(w[c + 1], q[c], h[c], B) = <<>>
    BY DEF Data
  <2>3. Len(<<>>) = 0
    OBVIOUS
  <2> QED BY <1>2, <2>1, <2>2, <2>3
<1>4. PICK p \in Nat, e \in Nat : p = q[c] /\ e = h[c]
  BY <1>2
<1>5. /\ place \in 1 .. c /\ q[place - 1] = e + 2 /\ q[place] = e + 4 /\ e + 4 <= B
  <2>1. c + 1 \in 1 .. Len(w) /\ (c + 1) - 1 = c
    BY <1>2
  <2>2. /\ place \in 1 .. (c + 1) - 1 /\ q[place - 1] = h[(c + 1) - 1] + 2
        /\ q[place] = h[(c + 1) - 1] + 4 /\ h[(c + 1) - 1] + 4 <= B
    BY <2>1 DEF Listed, Patches
  <2> QED BY <1>4, <2>1, <2>2, Zenon
<1>6. pos = p /\ hdr = e /\ buf \in [1 .. B -> Byte \cup {Stale}]
  BY <1>4 DEF Stage
<1>7. PICK x : x = Le16(p - (e + 4))
  OBVIOUS
<1>8. x[1] \in Byte /\ x[2] \in Byte
  <2>1. p - (e + 4) \in Int
    OBVIOUS
  <2>2. Sequence(Byte, x, 2)
    BY <1>7, <2>1, Le16Bytes
  <2> QED BY <2>2, ElementOfSeq, SMTT(60) DEF Sequence
<1>9. /\ buf' = [buf EXCEPT ![e + 3] = x[1], ![e + 4] = x[2]]
      /\ calls' = Tail(calls) /\ pos' = pos /\ overflow' = overflow /\ hdr' = hdr
  <2>1. BufLen = B
    BY <1>2, <1>6, BufSeq
  <2>2. ~(hdr + 4 > BufLen)
    BY <1>2, <1>5, <1>6, <2>1
  <2> QED BY <1>6, <1>7, <2>2 DEF PatchLength, PayloadOrigin
<1>10. /\ buf' \in [1 .. B -> Byte \cup {Stale}]
       /\ buf'[e + 3] = x[1] /\ buf'[e + 4] = x[2]
       /\ \A i \in 1 .. B : i # e + 3 /\ i # e + 4 => buf'[i] = buf[i]
  <2>1. e + 3 \in 1 .. B /\ e + 4 \in 1 .. B /\ e + 3 # e + 4
    BY <1>2, <1>5
  <2> QED BY <1>6, <1>8, <1>9, <2>1
<1>11. e + 4 <= p
  <2>1. place \in 0 .. Len(w) /\ c \in 0 .. Len(w) /\ place <= c
    BY <1>2, <1>5
  <2>2. q[place] <= q[c]
    BY <1>2, <2>1, LayGrows DEF Listed
  <2> QED BY <1>4, <1>5, <2>2
<1>12. \A j \in 1 .. c + 1 : j \in 1 .. c \/ j = c + 1
  BY <1>2
<1>13. Passed(w, q, B, c + 1)'
  <2>1. Passed(w, q, B, c)
    BY DEF Stage
  <2>2. w[c + 1].call # "check"
    OBVIOUS
  <2> QED BY <1>12, <2>1, <2>2 DEF Passed
<1>14. Wrote(w, q, h, B, place, c + 1)'
  <2> SUFFICES ASSUME NEW j \in 1 .. c + 1, j # place,
                      NEW k \in 1 .. Len(DataOf(w, q, h, B, j)), q[j - 1] + k <= B
               PROVE  buf'[q[j - 1] + k] = DataOf(w, q, h, B, j)[k]
    BY DEF Wrote, DataOf
  <2>1. j # c + 1
    <3> SUFFICES ASSUME j = c + 1 PROVE FALSE
      OBVIOUS
    <3>1. (c + 1) - 1 = c
      BY <1>2
    <3>2. DataOf(w, q, h, B, j) = <<>>
      BY <3>1 DEF DataOf, Data
    <3>3. k \in 1 .. Len(<<>>)
      BY <3>2
    <3> QED BY <3>3
  <2>2. j \in 1 .. c
    BY <1>12, <2>1
  <2>3. Within(q, j, k, c) /\ k \in Nat
    BY <1>2, <2>2, DataWithin
  <2>4. PICK a \in Nat, b \in Nat : a = q[j - 1] /\ b = q[j]
    BY <2>3 DEF Within
  <2>5. 1 <= k /\ a + k <= b /\ a + k <= B
    BY <2>3, <2>4 DEF Within
  <2>6. b <= e + 2 \/ a >= e + 4
    <3>1. place \in 1 .. c /\ j \in Nat /\ place \in Nat
      BY <1>2, <1>5, <2>2
    <3>2. CASE j < place
      <4>1. j \in 0 .. Len(w) /\ place - 1 \in 0 .. Len(w) /\ j <= place - 1
        BY <1>2, <2>2, <3>1, <3>2
      <4>2. q[j] <= q[place - 1]
        BY <1>2, <4>1, LayGrows DEF Listed
      <4> QED BY <1>5, <2>4, <4>2
    <3>3. CASE place < j
      <4>1. place \in 0 .. Len(w) /\ j - 1 \in 0 .. Len(w) /\ place <= j - 1
        BY <1>2, <2>2, <3>1, <3>3
      <4>2. q[place] <= q[j - 1]
        BY <1>2, <4>1, LayGrows DEF Listed
      <4> QED BY <1>5, <2>4, <4>2
    <3> QED BY <3>1, <3>2, <3>3
  <2>7. a + k \in 1 .. B /\ a + k # e + 3 /\ a + k # e + 4
    BY <1>2, <2>3, <2>5, <2>6
  <2>8. buf'[a + k] = buf[a + k]
    BY <1>10, <2>7
  <2>9. buf[q[j - 1] + k] = DataOf(w, q, h, B, j)[k]
    BY <2>2 DEF Stage, Wrote
  <2> QED BY <2>4, <2>8, <2>9
<1>15. Untouched(q, B, old, c + 1)'
  <2> SUFFICES ASSUME NEW i \in 1 .. B, i > q[c + 1] PROVE buf'[i] = old[i]
    BY DEF Untouched
  <2>1. i > p
    BY <1>3, <1>4
  <2>2. i # e + 3 /\ i # e + 4
    BY <1>11, <2>1
  <2>3. buf[i] = old[i]
    BY <1>4, <2>1 DEF Stage, Untouched
  <2> QED BY <1>10, <2>2, <2>3
<1>16. Known(q, B, c + 1)'
  <2> SUFFICES ASSUME NEW i \in 1 .. B, i <= q[c + 1] PROVE buf'[i] \in Byte
    BY DEF Known
  <2>1. buf[i] \in Byte
    BY <1>3 DEF Stage, Known
  <2>2. CASE i = e + 3 \/ i = e + 4
    BY <1>8, <1>10, <2>2
  <2>3. CASE i # e + 3 /\ i # e + 4
    BY <1>10, <2>1, <2>3
  <2> QED BY <2>2, <2>3
<1>17. LengthIn(w, q, h, c + 1)'
  BY <1>3, <1>4, <1>7, <1>10 DEF LengthIn
<1>18. calls' = Rest(w, c + 1) /\ pos' = q[c + 1] /\ hdr' = h[c + 1] /\ c + 1 \in Nat
  BY <1>1, <1>2, <1>3, <1>4, <1>6, <1>9, SMTT(60) DEF NextIs
<1>19. overflow' \in BOOLEAN /\ (overflow' <=> q[c + 1] > B)
  BY <1>3, <1>9 DEF Stage
<1> QED BY <1>2, <1>10, <1>13, <1>14, <1>15, <1>16, <1>17, <1>18, <1>19 DEF Stage

Calls ==
  \/ CallU8 \/ CallBytes \/ CallRestLen \/ CallAlignBuf \/ CallCdrAlign
  \/ NoteHdrOff \/ PatchLength \/ CheckPasses

\* Any call that does not fail.
LEMMA CallStep ==
  ASSUME NEW w, NEW q, NEW h, NEW B, NEW place, Listed(w, q, h, B, place),
         NEW c, NEW old, Stage(w, q, h, B, place, old, c), Calls
  PROVE  Stage(w, q, h, B, place, old, c + 1)'
<1>1. calls # <<>>
  BY DEF Calls, CallU8, CallBytes, CallRestLen, CallAlignBuf, CallCdrAlign,
         NoteHdrOff, PatchLength, CheckPasses, Calling
<1>2. NextIs(w, q, h, B, c)
  BY <1>1, NextCall
<1>3. Head(calls) = w[c + 1]
  BY <1>2 DEF NextIs
<1>4. pos = q[c] /\ hdr = h[c] /\ BufLen = B /\ B \in Nat /\ q[c] \in Nat
      /\ (overflow <=> q[c] > B)
  <2>1. B \in Nat /\ buf \in [1 .. B -> Byte \cup {Stale}]
    BY DEF Listed, Stage
  <2>2. BufLen = B
    BY <2>1, BufSeq
  <2> QED BY <1>2, <2>1, <2>2 DEF Stage, NextIs
<1>5. PICK d : d = Data(w[c + 1], q[c], h[c], B)
  OBVIOUS
<1>6. ASSUME Write(d), w[c + 1].call \notin {"patch", "check", "hdr_off"}
      PROVE  Stage(w, q, h, B, place, old, c + 1)'
  BY <1>1, <1>5, <1>6, WriteStep
<1>7. CASE CallU8
  <2>1. w[c + 1].call = "u8"
    BY <1>3, <1>7 DEF CallU8, Calling
  <2>2. d = <<Head(calls).n>>
    BY <1>3, <1>5, <2>1 DEF Data
  <2>3. Write(d)
    BY <1>7, <2>2 DEF CallU8
  <2> QED BY <1>6, <2>1, <2>3
<1>8. CASE CallBytes
  <2>1. w[c + 1].call = "bytes"
    BY <1>3, <1>8 DEF CallBytes, Calling
  <2>2. d = Head(calls).data
    BY <1>3, <1>5, <2>1 DEF Data
  <2>3. Write(d)
    BY <1>8, <2>2 DEF CallBytes
  <2> QED BY <1>6, <2>1, <2>3
<1>9. CASE CallRestLen
  <2>1. w[c + 1].call = "rest_len"
    BY <1>3, <1>9 DEF CallRestLen, Calling
  <2>2. d = Le16(BufLen - hdr - 4)
    BY <1>4, <1>5, <2>1 DEF Data
  <2>3. Write(d)
    BY <1>9, <2>2 DEF CallRestLen
  <2> QED BY <1>6, <2>1, <2>3
<1>10. CASE CallAlignBuf
  <2>1. w[c + 1].call = "align_buf"
    BY <1>3, <1>10 DEF CallAlignBuf, Calling
  <2>2. d = Zeros(Padding(pos, Head(calls).n))
    BY <1>3, <1>4, <1>5, <2>1 DEF Data
  <2>3. Write(d)
    BY <1>10, <2>2 DEF CallAlignBuf
  <2> QED BY <1>6, <2>1, <2>3
<1>11. CASE CallCdrAlign
  <2>1. w[c + 1].call = "cdr_align"
    BY <1>3, <1>11 DEF CallCdrAlign, Calling
  <2>2. d = Zeros(Padding(pos - PayloadOrigin, Head(calls).n))
    BY <1>3, <1>4, <1>5, <2>1 DEF Data, PayloadOrigin
  <2>3. Write(d)
    BY <1>11, <2>2 DEF CallCdrAlign
  <2> QED BY <1>6, <2>1, <2>3
<1>12. CASE NoteHdrOff
  <2>1. w[c + 1].call = "hdr_off"
    BY <1>3, <1>12 DEF NoteHdrOff, Calling
  <2>2. hdr' = h[c + 1]
    BY <1>2, <1>4, <1>12, <2>1 DEF NoteHdrOff, NextIs
  <2>3. w[c + 1].call \in {"hdr_off", "check"} /\ w[c + 1].call # "check"
    BY <2>1
  <2>4. buf' = buf /\ pos' = pos /\ overflow' = overflow /\ calls' = Tail(calls)
    BY <1>12 DEF NoteHdrOff
  <2> QED BY <1>1, <2>2, <2>3, <2>4, SilentStep
<1>13. CASE PatchLength
  <2>1. w[c + 1].call = "patch"
    BY <1>3, <1>13 DEF PatchLength, Calling
  <2> QED BY <1>1, <1>13, <2>1, PatchStep
<1>14. CASE CheckPasses
  <2>1. w[c + 1].call = "check"
    BY <1>3, <1>14 DEF CheckPasses, Calling
  <2>2. hdr' = h[c + 1]
    <3>1. h[c + 1] = h[c]
      BY <1>2, <2>1 DEF NextIs
    <3> QED BY <1>4, <1>14, <3>1 DEF CheckPasses
  <2>3. w[c + 1].call \in {"hdr_off", "check"}
    BY <2>1
  <2>4. buf' = buf /\ pos' = pos /\ overflow' = overflow /\ calls' = Tail(calls)
    BY <1>14 DEF CheckPasses
  <2>5. q[c] <= B
    BY <1>4, <1>14 DEF CheckPasses, Overflowed
  <2> QED BY <1>1, <2>2, <2>3, <2>4, <2>5, SilentStep
<1> QED BY <1>7, <1>8, <1>9, <1>10, <1>11, <1>12, <1>13, <1>14 DEF Calls

\* The buffer an encoder gets.
LEMMA BufferIs ==
  ASSUME build \in Build, NEW r \in build.requests
  PROVE  BufSize(r) \in Nat /\ Buffer(r) \in [1 .. BufSize(r) -> Byte \cup {Stale}]
<1>1. r \in Request /\ TxLen(r) \in Nat
  BY BuildIs, TxLenIs
<1>2. r.sid \in Byte /\ r.body \in Seq(Byte) /\ Len(r.body) \in Nat
  BY <1>1, RequestFields, LenProperties
<1>3. CASE r.op = "write"
  <2>1. PICK p \in Nat, l \in Nat : p = Prefix(r.sid) /\ l = Len(r.body)
    <3>1. MsgHeaderLen(r.sid) \in Nat
      BY <1>2, HeaderSizes
    <3>2. Prefix(r.sid) \in Nat
      BY <3>1 DEF Prefix
    <3> QED BY <1>2, <3>2
  <2>2. ASSUME NEW i \in 1 .. p + l PROVE
          (IF i <= p THEN Stale ELSE r.body[i - p]) \in Byte \cup {Stale}
    <3>1. CASE i <= p
      BY <3>1
    <3>2. CASE ~(i <= p)
      <4>1. i - p \in 1 .. Len(r.body)
        BY <2>1, <3>2
      <4> QED BY <1>2, <3>2, <4>1, ElementOfSeq
    <3> QED BY <3>1, <3>2
  <2>3. Buffer(r) = [i \in 1 .. p + l |-> IF i <= p THEN Stale ELSE r.body[i - p]]
        /\ BufSize(r) = p + l
    BY <1>3, <2>1 DEF Buffer, BufSize
  <2>4. [i \in 1 .. p + l |-> IF i <= p THEN Stale ELSE r.body[i - p]]
          \in [1 .. p + l -> Byte \cup {Stale}]
    BY <2>2
  <2>5. p + l \in Nat
    OBVIOUS
  <2> QED BY <2>3, <2>4, <2>5
<1>4. CASE r.op # "write"
  BY <1>1, <1>4 DEF Buffer, BufSize
<1> QED BY <1>3, <1>4

\* Before the first call.
LEMMA StartStage ==
  ASSUME build \in Build, request \in build.requests, pos = 0, hdr = 0, overflow = FALSE, Start,
         NEW w, w = Encode(request), NEW B \in Nat, B = BufSize(request),
         NEW old, old = Buffer(request), NEW q, NEW h, NEW place, Listed(w, q, h, B, place)
  PROVE  Stage(w, q, h, B, place, old, 0)'
<1>1. calls' = w /\ buf' = old /\ pos' = 0 /\ hdr' = 0 /\ overflow' = FALSE
  BY DEF Start
<1>2. q[0] = 0 /\ h[0] = 0 /\ w \in Seq(Call) /\ Len(w) \in Nat
  BY LenProperties DEF Listed, Lay, Laid
<1>3. Rest(w, 0) = w
  BY <1>2, RestWhole
<1>4. old \in [1 .. B -> Byte \cup {Stale}]
  BY BufferIs
<1>5. \A i \in 1 .. 0 : FALSE
  OBVIOUS
<1>6. Passed(w, q, B, 0)' /\ Wrote(w, q, h, B, place, 0)' /\ LengthIn(w, q, h, 0)'
  BY <1>5 DEF Passed, Wrote, LengthIn
<1>7. Untouched(q, B, old, 0)' /\ Known(q, B, 0)'
  <2>1. \A i \in 1 .. B : ~(i <= 0)
    OBVIOUS
  <2> QED BY <1>1, <1>2, <2>1 DEF Untouched, Known
<1>8. overflow' \in BOOLEAN /\ (overflow' <=> q[0] > B)
  <2>1. ~(0 > B)
    BY DEF Listed
  <2>2. ~(q[0] > B)
    BY <1>2, <2>1
  <2>3. overflow' \in BOOLEAN /\ ~overflow'
    BY <1>1
  <2> QED BY <2>2, <2>3
<1> QED BY <1>1, <1>2, <1>3, <1>4, <1>6, <1>7, <1>8 DEF Stage

-----------------------------------------------------------------------------
(* Every step. *)

\* What is said of a request says it of the same request in the next state.
LEMMA SameRequest ==
  ASSUME build' = build, request' = request
  PROVE  /\ Text(request)' = Text(request)
         /\ Encode(request)' = Encode(request)
         /\ BufSize(request)' = BufSize(request)
         /\ Buffer(request)' = Buffer(request)
         /\ Place(request)' = Place(request)
         /\ TopicTooLong(request)' = TopicTooLong(request)
<1>1. Parts(request)' = Parts(request)
  BY DEF Parts
<1>2. Text(request)' = Text(request)
  BY <1>1 DEF Text
<1>3. CreateTail(request)' = CreateTail(request)
  BY DEF CreateTail
<1>4. Create(request)' = Create(request)
  BY <1>2, <1>3 DEF Create
<1>5. Encode(request)' = Encode(request)
  BY <1>4 DEF Encode
<1>6. BufSize(request)' = BufSize(request)
  BY DEF BufSize, TxLen
<1>7. Buffer(request)' = Buffer(request)
  BY DEF Buffer, TxLen
<1>8. Place(request)' = Place(request)
  BY DEF Place
<1>9. TopicTooLong(request)' = TopicTooLong(request)
  BY DEF TopicTooLong
<1> QED BY <1>2, <1>5, <1>6, <1>7, <1>8, <1>9

\* The lists of a request, and the buffer it gets.
Given(w, B, old, place) ==
  /\ w = Encode(request) /\ B = BufSize(request)
  /\ old = Buffer(request) /\ place = Place(request)

LEMMA GivenListed ==
  ASSUME build \in Build, request \in build.requests,
         NEW w, NEW B, NEW old, NEW place, Given(w, B, old, place),
         NEW q, NEW h, Lay(w, q, h, B)
  PROVE  Listed(w, q, h, B, place) /\ Shape(request, w, q, h, B)
<1>1. B \in Nat
  BY BufferIs DEF Given
<1>2. B = IF request.op = "write" THEN Prefix(request.sid) + Len(request.body) ELSE TxLen(request)
  BY DEF Given, BufSize
<1>3. w \in Seq(Call) /\ Shape(request, w, q, h, B)
  BY <1>1, <1>2, Shaped DEF Given
<1>4. Patches(w, q, h, B, place) /\ Slices(w, q, B)
  BY <1>3 DEF Shape, Given
<1> QED BY <1>1, <1>3, <1>4 DEF Listed

LEMMA GivenExists ==
  \E w, B, old, place : Given(w, B, old, place)
BY DEF Given

LEMMA LayOf ==
  ASSUME build \in Build, request \in build.requests,
         NEW w, NEW B, NEW old, NEW place, Given(w, B, old, place)
  PROVE  \E q, h : Lay(w, q, h, B)
<1>1. B \in Nat /\ request \in Request
  BY BufferIs, BuildIs DEF Given
<1>2. w \in Seq(Call)
  <2>1. \A r \in {request} : r.op = "client" => Encode(r) \in Seq(Call)
    BY <1>1, ClientCalls DEF ClientList
  <2>2. \A r \in {request} : r.op = "read" => Encode(r) \in Seq(Call)
    BY <1>1, ReadCalls DEF ReadList
  <2>3. \A r \in {request} : r.op = "write" => Encode(r) \in Seq(Call)
    BY <1>1, WriteCalls DEF WriteList
  <2>4. \A r \in {request} : r.op \in XmlOps => Encode(r) \in Seq(Call)
    BY <1>1, TextSeq, CreateCalls DEF CreateList
  <2>5. request.op \in XmlOps \cup {"client", "read", "write"}
    BY <1>1, RequestFields
  <2> QED BY <2>1, <2>2, <2>3, <2>4, <2>5 DEF Given
<1> QED BY <1>1, <1>2, LayExists

\* While encoding, what the invariant is made of.
LEMMA WhileEncoding ==
  ASSUME build \in Build, request \in build.requests, Writing,
         NEW w, NEW B, NEW old, NEW place, Given(w, B, old, place)
  PROVE  \E q, h : \E c \in Nat :
           /\ Listed(w, q, h, B, place) /\ Shape(request, w, q, h, B)
           /\ Stage(w, q, h, B, place, old, c)
<1>1. PICK q, h : \E c \in Nat : Lay(w, q, h, B) /\ Stage(w, q, h, B, place, old, c)
  BY DEF Writing, Given
<1>2. Listed(w, q, h, B, place) /\ Shape(request, w, q, h, B)
  BY <1>1, GivenListed
<1> QED BY <1>1, <1>2

\* A step that begins or goes on encoding.
LEMMA EncodingInv ==
  ASSUME build \in Build, request \in build.requests,
         build' = build, request' = request, wstate' = "encoding", frame' = <<>>,
         xml' = Text(request), ~TopicTooLong(request),
         NEW w, NEW B, NEW old, NEW place, Given(w, B, old, place),
         NEW q, NEW h, Listed(w, q, h, B, place),
         NEW c, Stage(w, q, h, B, place, old, c)'
  PROVE  EncInv'
<1>1. /\ c \in Nat /\ c <= Len(w) /\ pos' = q[c] /\ hdr' = h[c] /\ overflow' \in BOOLEAN
      /\ buf' \in [1 .. B -> Byte \cup {Stale}]
  BY DEF Stage
<1>2. pos' \in Nat /\ hdr' \in Nat
  <2>1. c \in 0 .. Len(w)
    BY <1>1, LenProperties DEF Listed
  <2> QED BY <1>1, <2>1 DEF Listed, Lay, Laid
<1>3. WriterTypeOK'
  <2>1. buf' \in [DOMAIN buf' -> Byte \cup {Stale}]
    BY <1>1
  <2>2. xml' \in Seq(Byte) /\ frame' \in Seq(Byte)
    BY TextSeq, EmptySeq
  <2> QED BY <1>1, <1>2, <2>1, <2>2 DEF WriterTypeOK
<1>4. Given(w, B, old, place)'
  BY SameRequest DEF Given
<1>5. Writing'
  <2>1. Lay(w, q, h, B)
    BY DEF Listed
  <2> QED BY <1>1, <1>4, <2>1 DEF Writing, Given
<1>6. Asked'
  BY SameRequest DEF Asked
<1>7. wstate' # "start" /\ wstate' # "sent" /\ wstate' # "too_small"
  OBVIOUS
<1> QED BY <1>3, <1>5, <1>6, <1>7 DEF EncInv, HeardAsMeant, RefusedIfTooLong

LEMMA CallInv ==
  ASSUME EncInv, Calls
  PROVE  EncInv'
<1>1. /\ wstate = "encoding" /\ wstate' = wstate /\ build' = build /\ request' = request
      /\ xml' = xml /\ frame' = frame
  BY DEF Calls, CallU8, CallBytes, CallRestLen, CallAlignBuf, CallCdrAlign,
         NoteHdrOff, PatchLength, CheckPasses, Calling, Write
<1>2. build \in Build /\ request \in build.requests /\ Writing /\ Asked /\ frame = <<>>
  BY <1>1 DEF EncInv, WriterTypeOK
<1>3. PICK w, B, old, place : Given(w, B, old, place)
  BY GivenExists
<1>4. PICK q, h : \E c \in Nat : Listed(w, q, h, B, place) /\ Stage(w, q, h, B, place, old, c)
  BY <1>2, <1>3, WhileEncoding
<1>5. PICK c \in Nat : Stage(w, q, h, B, place, old, c)
  BY <1>4
<1>6. Listed(w, q, h, B, place)
  BY <1>4
<1>7. Stage(w, q, h, B, place, old, c + 1)'
  BY <1>5, <1>6, CallStep
<1> QED BY <1>1, <1>2, <1>3, <1>6, <1>7, EncodingInv DEF Asked

LEMMA StartInv ==
  ASSUME EncInv, Start
  PROVE  EncInv'
<1>1. /\ wstate = "start" /\ wstate' = "encoding" /\ build' = build /\ request' = request
      /\ xml' = Text(request) /\ frame' = frame /\ ~TopicTooLong(request)
  BY DEF Start
<1>2. build \in Build /\ request \in build.requests /\ frame = <<>>
      /\ pos = 0 /\ hdr = 0 /\ overflow = FALSE
  BY <1>1 DEF EncInv, WriterTypeOK
<1>3. PICK w, B, old, place : Given(w, B, old, place)
  BY GivenExists
<1>4. PICK q, h : Lay(w, q, h, B)
  BY <1>2, <1>3, LayOf
<1>5. Listed(w, q, h, B, place)
  BY <1>2, <1>3, <1>4, GivenListed
<1>6. w = Encode(request) /\ B = BufSize(request) /\ old = Buffer(request) /\ B \in Nat
  BY <1>2, <1>3, BufferIs DEF Given
<1>7. Stage(w, q, h, B, place, old, 0)'
  BY <1>2, <1>5, <1>6, StartStage
<1> QED BY <1>1, <1>2, <1>3, <1>5, <1>7, EncodingInv

LEMMA RefuseInv ==
  ASSUME EncInv, RefuseTopic
  PROVE  EncInv'
<1>1. /\ wstate' = "too_small" /\ build' = build /\ request' = request /\ xml' = xml
      /\ buf' = buf /\ pos' = pos /\ hdr' = hdr /\ overflow' = overflow /\ frame' = frame
      /\ TopicTooLong(request)
  BY DEF RefuseTopic
<1>2. WriterTypeOK'
  BY <1>1 DEF EncInv, WriterTypeOK
<1>3. TopicTooLong(request)'
  BY <1>1, SameRequest
<1>4. wstate' # "start" /\ wstate' # "sent" /\ wstate' # "encoding"
  BY <1>1
<1> QED BY <1>2, <1>3, <1>4 DEF EncInv, HeardAsMeant, RefusedIfTooLong

LEMMA CheckFailsInv ==
  ASSUME EncInv, CheckFails
  PROVE  EncInv'
<1>1. /\ wstate = "encoding" /\ wstate' = "too_small" /\ build' = build /\ request' = request
      /\ xml' = xml /\ buf' = buf /\ pos' = pos /\ hdr' = hdr /\ overflow' = overflow
      /\ frame' = frame /\ Overflowed
  BY DEF CheckFails, Calling
<1>2. build \in Build /\ request \in build.requests /\ Writing /\ xml = Text(request)
  BY <1>1 DEF EncInv, WriterTypeOK, Asked
<1>3. PICK w, B, old, place : Given(w, B, old, place)
  BY GivenExists
<1>4. PICK q, h : \E c \in Nat : /\ Listed(w, q, h, B, place) /\ Shape(request, w, q, h, B)
                                 /\ Stage(w, q, h, B, place, old, c)
  BY <1>2, <1>3, WhileEncoding
<1>5. PICK c \in Nat : Stage(w, q, h, B, place, old, c)
  BY <1>4
<1>6. Listed(w, q, h, B, place) /\ Shape(request, w, q, h, B)
  BY <1>4
<1>7. w \in Seq(Call) /\ B \in Nat /\ Len(w) \in Nat /\ c <= Len(w) /\ Lay(w, q, h, B)
  BY <1>5, <1>6, LenProperties DEF Listed, Stage
<1>8. BufLen = B
  BY <1>5, <1>7, BufSeq DEF Stage
<1>9. c \in 0 .. Len(w) /\ Len(w) \in 0 .. Len(w)
  BY <1>7
<1>10. q[c] \in Nat /\ q[Len(w)] \in Nat /\ q[c] <= q[Len(w)]
  BY <1>7, <1>9, LayGrows
<1>11. q[c] > B
  BY <1>1, <1>5, <1>8 DEF Overflowed, Stage
<1>12. q[Len(w)] > B
  BY <1>7, <1>10, <1>11
<1>13. request.op # "write"
  BY <1>6, <1>7, <1>10, <1>12 DEF Shape
<1>14. SizeOf(request) > TxLen(request)
  <2>1. q[Len(w)] = SizeOf(request)
    BY <1>2, <1>6, <1>13 DEF Shape
  <2>2. B = TxLen(request)
    BY <1>3, <1>13 DEF Given, BufSize
  <2> QED BY <1>12, <2>1, <2>2
<1>15. SizeOf(request)' > TxLen(request)'
  <2>1. SizeOf(request)' = SizeOf(request) /\ TxLen(request)' = TxLen(request)
    BY <1>1 DEF SizeOf, TxLen
  <2> QED BY <1>1, <1>14, <2>1
<1>16. WriterTypeOK'
  BY <1>1 DEF EncInv, WriterTypeOK
<1>17. wstate' # "start" /\ wstate' # "sent" /\ wstate' # "encoding"
  BY <1>1
<1> QED BY <1>15, <1>16, <1>17 DEF EncInv, HeardAsMeant, RefusedIfTooLong

\* The bytes of a message, as the calls that made it left them.
Complete(w, q, h, B, place, old, L) ==
  /\ Listed(w, q, h, B, place) /\ Shape(request, w, q, h, B)
  /\ L = Len(w) /\ L \in Nat /\ q[L] \in Nat /\ q[L] <= B
  /\ Stage(w, q, h, B, place, old, L)

LEMMA AllMade ==
  ASSUME EncInv, wstate = "encoding", calls = <<>>,
         NEW w, NEW B, NEW old, NEW place, Given(w, B, old, place)
  PROVE  \E q, h, L : Complete(w, q, h, B, place, old, L)
<1>1. build \in Build /\ request \in build.requests /\ Writing
  BY DEF EncInv, WriterTypeOK
<1>2. PICK q, h : \E c \in Nat : /\ Listed(w, q, h, B, place) /\ Shape(request, w, q, h, B)
                                 /\ Stage(w, q, h, B, place, old, c)
  BY <1>1, WhileEncoding
<1>3. PICK c \in Nat : Stage(w, q, h, B, place, old, c)
  BY <1>2
<1>4. Listed(w, q, h, B, place) /\ Shape(request, w, q, h, B)
  BY <1>2
<1>5. w \in Seq(Call) /\ B \in Nat /\ Len(w) \in Nat /\ Lay(w, q, h, B)
  BY <1>4, LenProperties DEF Listed
<1>6. c <= Len(w) /\ Rest(w, c) = <<>>
  BY <1>3 DEF Stage
<1>7. c = Len(w)
  BY <1>5, <1>6, RestEmpty
<1>8. Len(w) \in 0 .. Len(w)
  BY <1>5
<1>9. q[Len(w)] \in Nat
  BY <1>5, <1>8, LayGrows
<1>10. q[Len(w)] <= B
  <2>1. Passed(w, q, B, Len(w))
    BY <1>3, <1>7 DEF Stage
  <2> QED BY <1>4, <2>1 DEF Shape
<1> QED BY <1>3, <1>4, <1>5, <1>7, <1>9, <1>10 DEF Complete

\* What is sent: the first n bytes of the buffer.
Sends(b, n) ==
  /\ b \in Seq(Byte) /\ n \in Nat /\ Len(b) = n /\ n <= BufSize(request)
  /\ n = SizeOf(request)
  /\ \A i \in 1 .. n : b[i] = buf[i]

LEMMA SendFrame ==
  ASSUME EncInv, Send,
         NEW w, NEW B, NEW old, NEW place, Given(w, B, old, place),
         NEW q, NEW h, NEW L, Complete(w, q, h, B, place, old, L)
  PROVE  \E n \in Nat : Sends(frame', n) /\ n <= TxLen(request)
                        /\ (request.op # "write" => n = q[L])
<1>1. build \in Build /\ request \in build.requests /\ request \in Request
      /\ xml = Text(request) /\ TxLen(request) \in Nat
  BY BuildIs, TxLenIs DEF EncInv, WriterTypeOK, Send, Asked
<1>2. B \in Nat /\ B = BufSize(request)
  BY <1>1, BufferIs DEF Given
<1>3. /\ q[L] \in Nat /\ q[L] <= B /\ pos = q[L] /\ buf \in [1 .. B -> Byte \cup {Stale}]
      /\ L = Len(w) /\ Shape(request, w, q, h, B)
      /\ Known(q, B, L) /\ Untouched(q, B, old, L)
  BY DEF Complete, Stage
<1>4. BufLen = B /\ buf \in Seq(Byte \cup {Stale})
  BY <1>2, <1>3, BufSeq
<1>5. PICK n \in Nat : n = IF request.op = "write" THEN B ELSE q[L]
  BY <1>2, <1>3
<1>6. n <= B /\ frame' = SubSeq(buf, 1, n)
  BY <1>2, <1>3, <1>4, <1>5 DEF Send
<1>7. \A i \in 1 .. n : buf[i] \in Byte
  <2>1. CASE request.op # "write"
    BY <1>3, <1>5, <1>6, <2>1 DEF Known
  <2>2. CASE request.op = "write"
    <3> SUFFICES ASSUME NEW i \in 1 .. B PROVE buf[i] \in Byte
      BY <1>5, <2>2
    <3>1. CASE i <= q[L]
      BY <1>3, <3>1 DEF Known
    <3>2. CASE ~(i <= q[L])
      <4>1. PICK p \in Nat, l \in Nat : p = q[L] /\ l = Len(request.body)
        BY <1>1, <1>3, RequestFields, LenProperties
      <4>2. p = Prefix(request.sid)
        BY <1>3, <2>2, <4>1 DEF Shape
      <4>3. B = p + l
        BY <1>2, <2>2, <4>1, <4>2 DEF BufSize
      <4>4. buf[i] = old[i]
        BY <1>3, <3>2, <4>1 DEF Untouched
      <4>5. old[i] = request.body[i - p]
        BY <2>2, <3>2, <4>1, <4>2, <4>3 DEF Given, Buffer
      <4>6. i - p \in 1 .. Len(request.body)
        BY <3>2, <4>1, <4>3
      <4>7. request.body \in Seq(Byte)
        BY <1>1, RequestFields
      <4> QED BY <4>4, <4>5, <4>6, <4>7, ElementOfSeq
    <3> QED BY <3>1, <3>2
  <2> QED BY <2>1, <2>2
<1>8. frame' \in Seq(Byte) /\ Len(frame') = n /\ \A i \in 1 .. n : frame'[i] = buf[i]
  <2>1. /\ SubSeq(buf, 1, n) = [i \in 1 .. n |-> buf[i]]
    BY <1>2, <1>3, <1>6
  <2>2. [i \in 1 .. n |-> buf[i]] \in [1 .. n -> Byte]
    BY <1>7
  <2>3. frame' \in [1 .. n -> Byte] /\ \A i \in 1 .. n : frame'[i] = buf[i]
    BY <1>6, <2>1, <2>2
  <2> QED BY <2>3
<1>9. n = SizeOf(request) /\ n <= TxLen(request)
  <2>1. CASE request.op # "write"
    <3>1. q[L] = SizeOf(request)
      BY <1>1, <1>3, <2>1 DEF Shape
    <3>2. B = TxLen(request)
      BY <1>2, <2>1 DEF BufSize
    <3> QED BY <1>5, <1>6, <2>1, <3>1, <3>2
  <2>2. CASE request.op = "write"
    <3>1. PICK m \in Nat, l \in Nat : m = MsgHeaderLen(request.sid) /\ l = Len(request.body)
      BY <1>1, RequestFields, HeaderSizes, LenProperties
    <3>2. B = (m + 4 + 4) + l
      BY <1>2, <2>2, <3>1 DEF BufSize, Prefix
    <3>3. SizeOf(request) = m + 4 + (4 + l)
      <4>1. request.op # "client" /\ request.op # "participant" /\ request.op # "read"
            /\ request.op \notin XmlOps \ {"participant"}
        BY <2>2 DEF XmlOps, FormattedOps
      <4> QED BY <2>2, <3>1, <4>1 DEF SizeOf
    <3>4. B <= TxLen(request)
      BY <1>1, <1>2, <2>2, BodiesFit DEF BufSize, TxLen
    <3> QED BY <1>5, <2>2, <3>2, <3>3, <3>4
  <2> QED BY <2>1, <2>2
<1> QED BY <1>2, <1>5, <1>6, <1>8, <1>9 DEF Sends

-----------------------------------------------------------------------------
(* What is read out of bytes. *)

\* s has the elements of t behind its first d.
Spells(s, d, t) == \A i \in 1 .. Len(t) : s[d + i] = t[i]

LEMMA PartIs ==
  ASSUME NEW S, NEW s \in Seq(S), NEW T, NEW t \in Seq(T), NEW d \in Nat, NEW l \in Nat,
         Len(t) = l, d + l <= Len(s), Spells(s, d, t)
  PROVE  SubSeq(s, d + 1, d + l) = t
<1>1. PICK u : u = SubSeq(s, d + 1, d + l)
  OBVIOUS
<1>2. u \in Seq(S) /\ Len(u) = l /\ \A i \in 1 .. l : u[i] = s[d + i]
  BY <1>1, PartOf
<1>3. \A i \in 1 .. Len(u) : u[i] = t[i]
  BY <1>2 DEF Spells
<1>4. u = t
  BY <1>2, <1>3, SeqEqual
<1> QED BY <1>1, <1>4

\* 2^16 - 1 is the largest u16.
Fits16(n) == n <= 65535

LEMMA ShortIs ==
  ASSUME NEW n \in Nat, Fits16(n)
  PROVE  n \in Short
<1>1. PICK m \in Nat \ {0} : m = 256
  OBVIOUS
<1>2. PICK high \in Nat, low \in 0 .. m - 1 : high = n \div m /\ n = m * high + low
  BY Division
<1>3. high \in Byte /\ low \in Byte
  BY <1>1, <1>2 DEF Byte, Fits16
<1>4. n = 256 * high + low
  BY <1>1, <1>2
<1> QED BY <1>3, <1>4 DEF Short

LEMMA ShortFits ==
  ASSUME NEW n \in Nat, Fits16(n)
  PROVE  Fits32(n)
<1>1. PICK m \in Nat \ {0} : m = 256
  OBVIOUS
<1>2. PICK a \in Nat, b \in 0 .. m - 1 : a = n \div m /\ n = m * a + b
  BY Division
<1>3. a \in 0 .. m - 1
  BY <1>1, <1>2 DEF Fits16
<1>4. Splits(a, m, 0, a)
  BY <1>3 DEF Splits
<1>5. a \div m = 0
  BY <1>4, DivisionUnique
<1>6. 0 \div m = 0
  <2>1. Splits(0, m, 0, 0)
    BY DEF Splits
  <2> QED BY <2>1, DivisionUnique
<1>7. ((n \div m) \div m) \div m = 0
  BY <1>2, <1>5, <1>6
<1> QED BY <1>1, <1>7, SmallBytes DEF Fits32

\* Behind the first d of p, a number of two bytes.
LEMMA IdIs ==
  ASSUME NEW p \in Seq(Byte), NEW d \in Nat, d + 2 <= Len(p), NEW id \in Short,
         Spells(p, d, Be16(id))
  PROVE  Id(p, d) = id
<1>1. Be16(id) \in Seq(Byte) /\ Len(Be16(id)) = 2 /\ FromBe16(<<Be16(id)[1], Be16(id)[2]>>) = id
  BY TwoBytes
<1>2. SubSeq(p, d + 1, d + 2) = Be16(id)
  BY <1>1, PartIs
<1>3. FromBe16(Be16(id)) = FromBe16(<<Be16(id)[1], Be16(id)[2]>>)
  BY DEF FromBe16
<1> QED BY <1>1, <1>2, <1>3 DEF Id

LEMMA LeIs ==
  ASSUME NEW p \in Seq(Byte), NEW d \in Nat, d + 2 <= Len(p), NEW n \in Short,
         Spells(p, d, Le16(n))
  PROVE  FromLe16(SubSeq(p, d + 1, d + 2)) = n
<1>1. Le16(n) \in Seq(Byte) /\ Len(Le16(n)) = 2 /\ FromLe16(<<Le16(n)[1], Le16(n)[2]>>) = n
  BY TwoBytes
<1>2. SubSeq(p, d + 1, d + 2) = Le16(n)
  BY <1>1, PartIs
<1>3. FromLe16(Le16(n)) = FromLe16(<<Le16(n)[1], Le16(n)[2]>>)
  BY DEF FromLe16
<1> QED BY <1>1, <1>2, <1>3

LEMMA FourIs ==
  ASSUME NEW p \in Seq(Byte), NEW d \in Nat, d + 4 <= Len(p), NEW n \in Nat, Fits16(n),
         Spells(p, d, Le32(n))
  PROVE  FromLe32(SubSeq(p, d + 1, d + 4)) = n
<1>1. Fits32(n)
  BY ShortFits
<1>2. Le32(n) \in Seq(Byte) /\ Len(Le32(n)) = 4 /\ FromLe32(Le32(n)) = n
  BY <1>1, FourBytes
<1>3. SubSeq(p, d + 1, d + 4) = Le32(n)
  BY <1>2, PartIs
<1> QED BY <1>2, <1>3

\* Behind the first d of p, a text with its length before it.
LEMMA StringIs ==
  ASSUME NEW p \in Seq(Byte), NEW d \in Nat, NEW text \in Seq(Byte), NEW t \in Nat,
         t = Len(text), Fits16(t + 1), d + 4 + t <= Len(p),
         Spells(p, d, Le32(t + 1)), Spells(p, d + 4, text)
  PROVE  StringAt(p, d) = text
<1>1. PICK n \in Nat : n = t + 1
  OBVIOUS
<1>2. PICK z \in Nat, e \in Nat : z = Len(p) /\ e = d + 4 /\ e + t <= z
  BY LenProperties
<1>3. d + 4 <= Len(p) /\ Fits16(n) /\ Spells(p, d, Le32(n))
  BY <1>1, <1>2
<1>4. FromLe32(SubSeq(p, d + 1, d + 4)) = n
  BY <1>3, FourIs
<1>5. FromLe32(SubSeq(p, d + 1, d + 4)) = t + 1
  BY <1>1, <1>4, Zenon
<1>6. StringAt(p, d) = SubSeq(p, d + 5, d + 3 + (t + 1))
  BY <1>5, Zenon DEF StringAt
<1>7. d + 5 = e + 1 /\ d + 3 + (t + 1) = e + t
  BY <1>2
<1>8. SubSeq(p, e + 1, e + t) = text
  <2>1. e + t <= Len(p) /\ Spells(p, e, text)
    BY <1>2
  <2> QED BY <2>1, PartIs, ZenonT(60)
<1> QED BY <1>6, <1>7, <1>8, Zenon

\* The payload begins four bytes behind the header.
PayloadIs(b, m, n, p) ==
  /\ p \in Seq(Byte) /\ Len(p) = n - (m + 4) /\ p = SubSeq(b, m + 5, n)
  /\ \A i \in 1 .. n - (m + 4) : p[i] = b[(m + 4) + i]

LEMMA PayloadExists ==
  ASSUME NEW b \in Seq(Byte), NEW m \in Nat, NEW n \in Nat, Len(b) = n, m + 4 <= n
  PROVE  \E p : PayloadIs(b, m, n, p)
<1>1. PICK d \in Nat : d = m + 4
  OBVIOUS
<1>2. PICK l \in Nat : l = n - d /\ d + l = n /\ d + 1 = m + 5
  BY <1>1
<1>3. /\ SubSeq(b, d + 1, d + l) \in Seq(Byte) /\ Len(SubSeq(b, d + 1, d + l)) = l
      /\ \A i \in 1 .. l : SubSeq(b, d + 1, d + l)[i] = b[d + i]
  BY <1>2, PartOf
<1> QED BY <1>1, <1>2, <1>3 DEF PayloadIs

-----------------------------------------------------------------------------
(* What a message says. *)

\* b begins with the bytes of the calls of w, the patched ones in it.
Holds(w, q, h, B, place, L, b, n) ==
  /\ w \in Seq(Call) /\ B \in Nat /\ Lay(w, q, h, B)
  /\ L = Len(w) /\ L \in Nat /\ b \in Seq(Byte) /\ Len(b) = n /\ n \in Nat /\ q[L] <= n
  /\ \A j \in 1 .. L : j # place => Spells(b, q[j - 1], DataOf(w, q, h, B, j))
  /\ \A j \in 1 .. L : w[j].call = "patch" /\ h[L] + 4 <= q[L] =>
       /\ b[h[L] + 3] = Le16(q[L] - (h[L] + 4))[1]
       /\ b[h[L] + 4] = Le16(q[L] - (h[L] + 4))[2]

\* A frame that is sent does.
LEMMA HoldsSent ==
  ASSUME NEW w, NEW q, NEW h, NEW B, NEW place, NEW old, NEW L,
         Complete(w, q, h, B, place, old, L), Given(w, B, old, place),
         NEW b, NEW n, Sends(b, n), q[L] <= n
  PROVE  Holds(w, q, h, B, place, L, b, n)
<1>1. /\ Listed(w, q, h, B, place) /\ L = Len(w) /\ L \in Nat /\ q[L] \in Nat
      /\ Patches(w, q, h, B, place)
      /\ Wrote(w, q, h, B, place, L) /\ LengthIn(w, q, h, L)
  BY DEF Complete, Stage, Listed
<1>2. w \in Seq(Call) /\ B \in Nat /\ Lay(w, q, h, B)
  BY <1>1 DEF Listed
<1>3. /\ b \in Seq(Byte) /\ n \in Nat /\ Len(b) = n /\ n <= B
      /\ \A i \in 1 .. n : b[i] = buf[i]
  BY DEF Sends, Given
<1>4. ASSUME NEW j \in 1 .. L, j # place
      PROVE  Spells(b, q[j - 1], DataOf(w, q, h, B, j))
  <2> SUFFICES ASSUME NEW k \in 1 .. Len(DataOf(w, q, h, B, j))
               PROVE  b[q[j - 1] + k] = DataOf(w, q, h, B, j)[k]
    BY DEF Spells
  <2>1. L <= Len(w)
    BY <1>1
  <2>2. Within(q, j, k, L) /\ k \in Nat
    BY <1>1, <2>1, DataWithin
  <2>3. PICK x \in Nat, y \in Nat : x = q[j - 1] /\ y = q[j]
    BY <2>2 DEF Within
  <2>4. x + k \in 1 .. n /\ x + k <= B
    BY <1>1, <1>2, <1>3, <2>2, <2>3, SMTT(60) DEF Within
  <2>5. buf[q[j - 1] + k] = DataOf(w, q, h, B, j)[k]
    BY <1>1, <1>4, <2>3, <2>4 DEF Wrote
  <2> QED BY <1>3, <2>3, <2>4, <2>5
<1>5. ASSUME NEW j \in 1 .. L, w[j].call = "patch", h[L] + 4 <= q[L]
      PROVE  /\ b[h[L] + 3] = Le16(q[L] - (h[L] + 4))[1]
             /\ b[h[L] + 4] = Le16(q[L] - (h[L] + 4))[2]
  <2>1. /\ buf[h[L] + 3] = Le16(q[L] - (h[L] + 4))[1]
        /\ buf[h[L] + 4] = Le16(q[L] - (h[L] + 4))[2]
    BY <1>1, <1>5 DEF LengthIn
  <2>2. h[L] \in Nat
    BY <1>1, <1>2 DEF Lay, Laid
  <2>3. h[L] + 3 \in 1 .. n /\ h[L] + 4 \in 1 .. n
    BY <1>1, <1>3, <1>5, <2>2
  <2> QED BY <1>3, <2>1, <2>3
<1> QED BY <1>1, <1>2, <1>3, <1>4, <1>5 DEF Holds

LEMMA HoldsPut ==
  ASSUME NEW w, NEW q, NEW h, NEW B, NEW place, NEW L, NEW b, NEW n,
         Holds(w, q, h, B, place, L, b, n),
         NEW j \in Nat, j + 1 <= L, j + 1 # place, NEW t, w[j + 1] = Put(t), NEW p, q[j] = p
  PROVE  Spells(b, p, t)
<1>1. j + 1 \in 1 .. L /\ (j + 1) - 1 = j
  BY DEF Holds
<1>2. Spells(b, q[(j + 1) - 1], DataOf(w, q, h, B, j + 1))
  BY <1>1 DEF Holds
<1>3. DataOf(w, q, h, B, j + 1) = t
  BY DEF DataOf, Data, Put
<1> QED BY <1>1, <1>2, <1>3, Zenon

LEMMA HoldsU8 ==
  ASSUME NEW w, NEW q, NEW h, NEW B, NEW place, NEW L, NEW b, NEW n,
         Holds(w, q, h, B, place, L, b, n),
         NEW j \in Nat, j + 1 <= L, j + 1 # place, NEW v, w[j + 1] = U8(v), NEW p, q[j] = p
  PROVE  b[p + 1] = v
<1>1. j + 1 \in 1 .. L /\ (j + 1) - 1 = j
  BY DEF Holds
<1>2. Spells(b, q[(j + 1) - 1], DataOf(w, q, h, B, j + 1))
  BY <1>1 DEF Holds
<1>3. DataOf(w, q, h, B, j + 1) = <<v>>
  BY DEF DataOf, Data, U8
<1>4. Spells(b, p, <<v>>)
  BY <1>1, <1>2, <1>3, Zenon
<1>5. 1 \in 1 .. Len(<<v>>) /\ <<v>>[1] = v
  OBVIOUS
<1> QED BY <1>4, <1>5 DEF Spells

LEMMA HoldsRestLen ==
  ASSUME NEW w, NEW q, NEW h, NEW B, NEW place, NEW L, NEW b, NEW n,
         Holds(w, q, h, B, place, L, b, n),
         NEW j \in Nat, j + 1 <= L, j + 1 # place, w[j + 1] = RestLen,
         NEW p, q[j] = p, NEW e, h[j] = e
  PROVE  Spells(b, p, Le16(B - e - 4))
<1>1. j + 1 \in 1 .. L /\ (j + 1) - 1 = j
  BY DEF Holds
<1>2. Spells(b, q[(j + 1) - 1], DataOf(w, q, h, B, j + 1))
  BY <1>1 DEF Holds
<1>3. DataOf(w, q, h, B, j + 1) = Le16(B - h[(j + 1) - 1] - 4)
  BY DEF DataOf, Data, RestLen
<1> QED BY <1>1, <1>2, <1>3, Zenon

\* The header of a message.
HeaderSays(b, m, sid, stream, seq) ==
  /\ b[1] = sid /\ b[2] = stream /\ FromLe16(<<b[3], b[4]>>) = seq
  /\ HeaderHas(b) = m
  /\ SubSeq(b, 5, m) = IF sid < SessionIdWithoutClientKey THEN ClientKey ELSE <<>>

LEMMA HeaderSaid ==
  ASSUME NEW w, NEW q, NEW h, NEW B, NEW place, NEW L, NEW b, NEW n,
         Holds(w, q, h, B, place, L, b, n),
         NEW sid \in Byte, NEW stream, NEW seq \in Short, HeaderAt(w, sid, stream, seq),
         HeaderLaid(q, h, sid), HeaderCalls(sid) < L, MsgHeaderLen(sid) <= n,
         place = 0 \/ place > HeaderCalls(sid)
  PROVE  HeaderSays(b, MsgHeaderLen(sid), sid, stream, seq)
<1>1. L \in Nat /\ n \in Nat /\ b \in Seq(Byte) /\ Len(b) = n
  BY DEF Holds
<1>2. PICK g \in {3, 4}, m \in {4, 8} :
        /\ g = HeaderCalls(sid) /\ m = MsgHeaderLen(sid)
        /\ (sid < SessionIdWithoutClientKey => g = 4 /\ m = 8)
        /\ (~(sid < SessionIdWithoutClientKey) => g = 3 /\ m = 4)
  BY DEF HeaderCalls, MsgHeaderLen
<1>3. 3 < L /\ place # 1 /\ place # 2 /\ place # 3 /\ place # g /\ g < L
  BY <1>1, <1>2
<1>4. q[0] = 0 /\ q[1] = 1 /\ q[2] = 2 /\ q[3] = 4
  BY DEF HeaderLaid
<1>5. w[1] = U8(sid) /\ w[2] = U8(stream) /\ w[3] = Put(Le16(seq))
  BY DEF HeaderAt
<1>6. b[1] = sid
  <2>1. 0 \in Nat /\ 0 + 1 <= L /\ 0 + 1 # place /\ w[0 + 1] = U8(sid)
    BY <1>1, <1>3, <1>5
  <2>2. b[0 + 1] = sid
    BY <1>4, <2>1, HoldsU8
  <2> QED BY <2>2
<1>7. b[2] = stream
  <2>1. 1 \in Nat /\ 1 + 1 <= L /\ 1 + 1 # place /\ w[1 + 1] = U8(stream)
    BY <1>1, <1>3, <1>5
  <2>2. b[1 + 1] = stream
    BY <1>4, <2>1, HoldsU8
  <2> QED BY <2>2
<1>8. FromLe16(<<b[3], b[4]>>) = seq
  <2>1. 2 \in Nat /\ 2 + 1 <= L /\ 2 + 1 # place /\ w[2 + 1] = Put(Le16(seq))
    BY <1>1, <1>3, <1>5
  <2>2. Spells(b, 2, Le16(seq))
    BY <1>4, <2>1, HoldsPut
  <2>3. Len(Le16(seq)) = 2 /\ FromLe16(<<Le16(seq)[1], Le16(seq)[2]>>) = seq
    BY TwoBytes
  <2>4. b[2 + 1] = Le16(seq)[1] /\ b[2 + 2] = Le16(seq)[2]
    BY <2>2, <2>3 DEF Spells
  <2> QED BY <2>3, <2>4
<1>9. HeaderHas(b) = m
  BY <1>2, <1>6 DEF HeaderHas
<1>10. SubSeq(b, 5, m) = IF sid < SessionIdWithoutClientKey THEN ClientKey ELSE <<>>
  <2>1. CASE sid < SessionIdWithoutClientKey
    <3>1. 3 \in Nat /\ 3 + 1 <= L /\ 3 + 1 # place /\ w[3 + 1] = Put(ClientKey)
      BY <1>1, <1>2, <1>3, <2>1 DEF HeaderAt
    <3>2. Spells(b, 4, ClientKey)
      BY <1>4, <3>1, HoldsPut
    <3>3. 4 \in Nat /\ 4 + 4 <= Len(b)
      BY <1>1, <1>2, <2>1
    <3>4. SubSeq(b, 4 + 1, 4 + 4) = ClientKey
      BY <1>1, <3>2, <3>3, KeyBytes, PartIs
    <3>5. 4 + 1 = 5 /\ 4 + 4 = 8
      OBVIOUS
    <3>6. m = 8
      BY <1>2, <2>1
    <3> QED BY <2>1, <3>4, <3>5, <3>6
  <2>2. CASE ~(sid < SessionIdWithoutClientKey)
    <3>1. 4 \in Nat /\ 0 \in Nat /\ 4 + 0 <= Len(b)
      BY <1>1, <1>2, <2>2
    <3>2. <<>> \in Seq(Byte) /\ Len(<<>>) = 0 /\ Spells(b, 4, <<>>)
      BY DEF Spells
    <3>3. SubSeq(b, 4 + 1, 4 + 0) = <<>>
      BY <1>1, <3>1, <3>2, PartIs
    <3>4. 4 + 1 = 5 /\ 4 + 0 = 4
      OBVIOUS
    <3>5. m = 4
      BY <1>2, <2>2
    <3> QED BY <2>2, <3>3, <3>4, <3>5
  <2> QED BY <2>1, <2>2
<1> QED BY <1>2, <1>6, <1>7, <1>8, <1>9, <1>10 DEF HeaderSays

\* What the payload says, from the calls behind the first j.
LEMMA PutSaid ==
  ASSUME NEW w, NEW q, NEW h, NEW B, NEW place, NEW L, NEW b, NEW n,
         Holds(w, q, h, B, place, L, b, n),
         NEW m \in Nat, NEW p, PayloadIs(b, m, n, p),
         NEW j \in Nat, j + 1 <= L, j + 1 # place, NEW t, w[j + 1] = Put(t),
         NEW d \in Nat, q[j] = (m + 4) + d, NEW l \in Nat, l = Len(t), (m + 4) + d + l <= n
  PROVE  Spells(p, d, t)
<1>1. n \in Nat
  BY DEF Holds
<1>2. PICK e \in Nat : e = (m + 4) + d
  OBVIOUS
<1>3. Spells(b, e, t)
  BY <1>2, HoldsPut
<1>4. e + l <= n
  BY <1>2
<1> SUFFICES ASSUME NEW i \in 1 .. l PROVE p[d + i] = t[i]
  BY DEF Spells
<1>5. b[e + i] = t[i]
  BY <1>3 DEF Spells
<1>6. d + i \in 1 .. n - (m + 4) /\ (m + 4) + (d + i) = e + i
  BY <1>1, <1>2, <1>4
<1>7. p[d + i] = b[(m + 4) + (d + i)]
  BY <1>6 DEF PayloadIs
<1> QED BY <1>5, <1>6, <1>7

LEMMA U8Said ==
  ASSUME NEW w, NEW q, NEW h, NEW B, NEW place, NEW L, NEW b, NEW n,
         Holds(w, q, h, B, place, L, b, n),
         NEW m \in Nat, NEW p, PayloadIs(b, m, n, p),
         NEW j \in Nat, j + 1 <= L, j + 1 # place, NEW v, w[j + 1] = U8(v),
         NEW x \in Nat, 1 <= x, q[j] + 1 = (m + 4) + x, (m + 4) + x <= n
  PROVE  p[x] = v
<1>1. n \in Nat
  BY DEF Holds
<1>2. q[j] \in Nat
  <2>1. IsLay(w, q, h, B, j)
    BY DEF Holds, IsLay
  <2> QED BY <2>1, LayStep
<1>3. PICK e \in Nat : e = q[j]
  BY <1>2
<1>4. b[e + 1] = v
  BY <1>3, HoldsU8
<1>5. x \in 1 .. n - (m + 4) /\ (m + 4) + x = e + 1
  BY <1>1, <1>3
<1>6. p[x] = b[(m + 4) + x]
  BY <1>5 DEF PayloadIs
<1> QED BY <1>4, <1>5, <1>6

\* The header of the submessage.
LEMMA SubSaid ==
  ASSUME NEW w, NEW q, NEW h, NEW B, NEW place, NEW L, NEW b, NEW n,
         Holds(w, q, h, B, place, L, b, n),
         NEW a \in Nat, NEW m \in Nat, NEW id, NEW flags, SubAt(w, a, id, flags),
         SubLaid(q, h, a, m), a + 5 <= L, place = a + 5
  PROVE  b[m + 1] = id /\ b[m + 2] = flags
<1>1. L \in Nat
  BY DEF Holds
<1>2. b[m + 1] = id
  <2>1. PICK j \in Nat : j = a + 2 /\ j + 1 = a + 3
    OBVIOUS
  <2>2. j + 1 <= L /\ j + 1 # place /\ w[j + 1] = U8(id) /\ q[j] = m
    BY <1>1, <2>1 DEF SubAt, SubLaid
  <2> QED BY <2>2, HoldsU8
<1>3. b[m + 2] = flags
  <2>1. PICK j \in Nat, e \in Nat : j = a + 3 /\ j + 1 = a + 4 /\ e = m + 1 /\ e + 1 = m + 2
    OBVIOUS
  <2>2. j + 1 <= L /\ j + 1 # place /\ w[j + 1] = U8(flags) /\ q[j] = e
    BY <1>1, <2>1 DEF SubAt, SubLaid
  <2>3. b[e + 1] = flags
    BY <2>2, HoldsU8
  <2> QED BY <2>1, <2>3
<1> QED BY <1>2, <1>3

\* Its length is that of what follows it.
LEMMA LengthSaid ==
  ASSUME NEW w, NEW q, NEW h, NEW B, NEW place, NEW L, NEW b, NEW n,
         Holds(w, q, h, B, place, L, b, n),
         NEW j \in 1 .. L, w[j] = Patch, NEW m \in Nat, h[L] = m, q[L] = n, m + 4 <= n,
         Fits16(n)
  PROVE  n - m - 4 - FromLe16(<<b[m + 3], b[m + 4]>>) = 0
<1>1. n \in Nat
  BY DEF Holds
<1>2. PICK l \in Nat : l = n - (m + 4) /\ l <= n
  BY <1>1
<1>3. w[j].call = "patch"
  BY DEF Patch
<1>4. b[m + 3] = Le16(l)[1] /\ b[m + 4] = Le16(l)[2]
  BY <1>2, <1>3 DEF Holds
<1>5. Fits16(l)
  BY <1>1, <1>2 DEF Fits16
<1>6. FromLe16(<<Le16(l)[1], Le16(l)[2]>>) = l
  BY <1>5, ShortIs, TwoBytes
<1>7. FromLe16(<<b[m + 3], b[m + 4]>>) = l
  BY <1>4, <1>6
<1> QED BY <1>1, <1>2, <1>7

\* The ids in front of the payload.
LEMMA RefSaid ==
  ASSUME NEW w, NEW q, NEW h, NEW B, NEW place, NEW L, NEW b, NEW n,
         Holds(w, q, h, B, place, L, b, n),
         NEW m \in Nat, NEW p, PayloadIs(b, m, n, p),
         NEW a \in Nat, NEW req \in Short, NEW oid \in Short, RefAt(w, a, req, oid),
         NEW e, RefLaid(q, h, a, m + 4, e), a + 2 <= L, place <= a, place \in Nat,
         (m + 4) + 4 <= n
  PROVE  Id(p, 0) = req /\ Id(p, 2) = oid
<1>1. n \in Nat /\ L \in Nat
  BY DEF Holds
<1>2. Len(Be16(req)) = 2 /\ Len(Be16(oid)) = 2
  BY TwoBytes
<1>3. p \in Seq(Byte) /\ Len(p) = n - (m + 4)
  BY DEF PayloadIs
<1>4. q[a] = m + 4 /\ q[a + 1] = (m + 4) + 2
  BY DEF RefLaid
<1>5. w[a + 1] = Put(Be16(req)) /\ w[a + 2] = Put(Be16(oid))
  BY DEF RefAt
<1>6. Spells(p, 0, Be16(req))
  <2>1. a + 1 <= L /\ a + 1 # place /\ q[a] = (m + 4) + 0 /\ (m + 4) + 0 + 2 <= n
    BY <1>1, <1>4
  <2> QED BY <1>2, <1>5, <2>1, PutSaid
<1>7. Spells(p, 2, Be16(oid))
  <2>1. PICK j \in Nat : j = a + 1 /\ j + 1 = a + 2
    OBVIOUS
  <2>2. j + 1 <= L /\ j + 1 # place /\ q[j] = (m + 4) + 2 /\ (m + 4) + 2 + 2 <= n
        /\ w[j + 1] = Put(Be16(oid))
    BY <1>1, <1>4, <1>5, <2>1
  <2> QED BY <1>2, <2>2, PutSaid
<1>8. 0 + 2 <= Len(p) /\ 2 + 2 <= Len(p)
  BY <1>1, <1>3
<1> QED BY <1>3, <1>6, <1>7, <1>8, IdIs

BodyHeard(id, p) ==
  CASE id = 0 -> ClientHeard(p)
    [] id = 1 -> CreateHeard(p)
    [] id = 8 -> ReadHeard(p)
    [] id = 7 -> WriteHeard(p)

HeardAs(b, sid, stream, seq, id, flags, body) ==
  Heard(b) = [sid |-> sid, stream |-> stream, seq |-> seq,
              key |-> IF sid < SessionIdWithoutClientKey THEN ClientKey ELSE <<>>,
              id |-> id, flags |-> flags, rest |-> 0, body |-> body]

LEMMA HeardIs ==
  ASSUME NEW b, NEW m \in Nat, NEW n \in Nat, Len(b) = n, NEW sid, NEW stream, NEW seq,
         HeaderSays(b, m, sid, stream, seq), NEW id, NEW flags, b[m + 1] = id, b[m + 2] = flags,
         n - m - 4 - FromLe16(<<b[m + 3], b[m + 4]>>) = 0,
         NEW p, PayloadIs(b, m, n, p), NEW body, body = BodyHeard(id, p)
  PROVE  HeardAs(b, sid, stream, seq, id, flags, body)
<1>1. /\ HeaderHas(b) = m /\ b[1] = sid /\ b[2] = stream /\ FromLe16(<<b[3], b[4]>>) = seq
      /\ SubSeq(b, 5, m) = IF sid < SessionIdWithoutClientKey THEN ClientKey ELSE <<>>
  BY DEF HeaderSays
<1>2. Payload(b) = p
  BY <1>1 DEF Payload, PayloadIs
<1>3. BodyHeard(id, Payload(b)) = body
  BY <1>2
<1> QED BY <1>1, <1>3, Zenon DEF Heard, BodyHeard, HeardAs

\* Four bytes of the payload.
LEMMA FourAre ==
  ASSUME NEW p \in Seq(Byte), NEW d \in Nat, NEW e, e = d + 4, e <= Len(p),
         NEW t \in Seq(Byte), Len(t) = 4, Spells(p, d, t)
  PROVE  SubSeq(p, d + 1, e) = t
BY PartIs

LEMMA SpecIs ==
  ASSUME NEW p \in Seq(Byte), 8 <= Len(p), NEW x1 \in Byte, NEW x2 \in Byte,
         NEW x3 \in Byte, NEW x4 \in Byte, p[5] = x1, p[6] = x2, p[7] = x3, p[8] = x4
  PROVE  SubSeq(p, 5, 8) = <<x1, x2, x3, x4>>
<1>1. PICK t : t = <<x1, x2, x3, x4>>
  OBVIOUS
<1>2. /\ t \in Seq(Byte) /\ Len(t) = 4
      /\ t[1] = x1 /\ t[2] = x2 /\ t[3] = x3 /\ t[4] = x4
  BY <1>1
<1>3. Spells(p, 4, t)
  <2>1. \A i \in 1 .. 4 : i = 1 \/ i = 2 \/ i = 3 \/ i = 4
    OBVIOUS
  <2>2. p[4 + 1] = t[1] /\ p[4 + 2] = t[2] /\ p[4 + 3] = t[3] /\ p[4 + 4] = t[4]
    BY <1>2
  <2> QED BY <1>2, <2>1, <2>2 DEF Spells
<1>4. 4 \in Nat /\ 8 = 4 + 4
  OBVIOUS
<1>5. SubSeq(p, 4 + 1, 8) = t
  BY <1>2, <1>3, <1>4, FourAre
<1>6. 4 + 1 = 5
  OBVIOUS
<1> QED BY <1>1, <1>5, <1>6

\* Where the last patch and the last check leave the header.
LEMMA HeaderStays ==
  ASSUME NEW w, NEW q, NEW h, NEW B, NEW place, NEW L, NEW b, NEW n,
         Holds(w, q, h, B, place, L, b, n),
         NEW j \in Nat, NEW i, i = j + 1, i <= L, w[i] \in {Check, Patch}
  PROVE  h[i] = h[j]
<1>1. IsLay(w, q, h, B, j)
  BY DEF Holds, IsLay
<1> QED BY <1>1, GoesNowhere DEF Goes

LEMMA ReadSaid ==
  ASSUME NEW r \in Request, r.op = "read", NEW w, ReadList(w, r),
         NEW q, NEW h, NEW B, NEW L, NEW b, NEW n,
         Holds(w, q, h, B, HeaderCalls(r.sid) + 5, L, b, n), q[L] = n, Fits16(n)
  PROVE  Heard(b) = Meant(r)
<1>1. PICK g \in Nat, m \in Nat :
        g = HeaderCalls(r.sid) /\ m = MsgHeaderLen(r.sid) /\ g >= 3 /\ m >= 4
  <2>1. r.sid \in Byte
    BY RequestFields
  <2> QED BY <2>1, HeaderSizes
<1>2. PICK place \in Nat : place = g + 5 /\ Holds(w, q, h, B, place, L, b, n)
  BY <1>1
<1>3. /\ B \in Nat /\ w \in Seq(Call) /\ Lay(w, q, h, B) /\ L = Len(w) /\ n \in Nat
      /\ b \in Seq(Byte) /\ Len(b) = n
  BY <1>2 DEF Holds
<1>4. /\ ReadLaid(q, h, r) /\ L = g + 13 /\ HeaderAt(w, r.sid, StreamBestEffort, r.seq)
      /\ SubAt(w, g, SubmsgReadData, FlagLe) /\ RefAt(w, g + 5, r.req, r.oid)
      /\ ReadAt(w, g + 7)
  BY <1>1, <1>3, ReadLays DEF ReadList
<1>5. /\ HeaderLaid(q, h, r.sid) /\ SubLaid(q, h, g, m) /\ RefLaid(q, h, g + 5, m + 4, m)
      /\ q[g + 8] = m + 9 /\ q[g + 9] = m + 10 /\ q[g + 10] = m + 11 /\ q[g + 13] = m + 12
      /\ h[g + 11] = m
  BY <1>1, <1>4 DEF ReadLaid
<1>6. n = m + 12
  BY <1>4, <1>5
<1>7. r.sid \in Byte /\ r.seq \in Short /\ r.req \in Short /\ r.oid \in Short
  BY RequestFields
<1>8. HeaderSays(b, m, r.sid, StreamBestEffort, r.seq)
  <2>1. g < L /\ m <= n /\ place > g
    BY <1>2, <1>4, <1>6
  <2> QED BY <1>1, <1>2, <1>4, <1>5, <1>7, <2>1, HeaderSaid
<1>9. b[m + 1] = SubmsgReadData /\ b[m + 2] = FlagLe
  <2>1. g + 5 <= L
    BY <1>4
  <2> QED BY <1>2, <1>4, <1>5, <2>1, SubSaid
<1>10. w[g + 12] = Patch /\ w[g + 13] = Check
  <2>1. (g + 7) + 5 = g + 12 /\ (g + 7) + 6 = g + 13
    BY <1>1
  <2> QED BY <1>4, <2>1 DEF ReadAt
<1>11. h[L] = m
  <2>1. g + 11 \in Nat /\ g + 12 \in Nat /\ g + 12 = (g + 11) + 1 /\ g + 13 = (g + 12) + 1
        /\ g + 12 <= L /\ g + 13 <= L
    BY <1>4
  <2>2. h[g + 12] = h[g + 11]
    BY <1>2, <1>10, <2>1, HeaderStays
  <2>3. h[g + 13] = h[g + 12]
    BY <1>2, <1>10, <2>1, HeaderStays
  <2> QED BY <1>4, <1>5, <2>2, <2>3
<1>12. n - m - 4 - FromLe16(<<b[m + 3], b[m + 4]>>) = 0
  <2>1. PICK j \in 1 .. L : w[j] = Patch
    <3>1. g + 12 \in 1 .. L
      BY <1>4
    <3> QED BY <1>10, <3>1
  <2>2. m + 4 <= n
    BY <1>6
  <2> QED BY <1>2, <1>11, <2>1, <2>2, LengthSaid
<1>13. PICK p : PayloadIs(b, m, n, p)
  <2>1. m + 4 <= n
    BY <1>6
  <2> QED BY <1>3, <2>1, PayloadExists
<1>14. Id(p, 0) = r.req /\ Id(p, 2) = r.oid
  <2>1. PICK a \in Nat : a = g + 5
    BY <1>1
  <2>2. a + 2 <= L /\ place <= a /\ (m + 4) + 4 <= n
    BY <1>2, <1>4, <1>6, <2>1
  <2>3. RefAt(w, a, r.req, r.oid) /\ RefLaid(q, h, a, m + 4, m)
    BY <1>4, <1>5, <2>1
  <2> QED BY <1>2, <1>7, <1>13, <2>2, <2>3, RefSaid
<1>15. p[5] = StreamBestEffort /\ p[6] = FormatData /\ p[7] = 0 /\ p[8] = 0
  <2>1. /\ w[g + 8] = U8(StreamBestEffort) /\ w[g + 9] = U8(FormatData)
        /\ w[g + 10] = U8(0) /\ w[g + 11] = U8(0)
    <3>1. (g + 7) + 1 = g + 8 /\ (g + 7) + 2 = g + 9 /\ (g + 7) + 3 = g + 10 /\ (g + 7) + 4 = g + 11
      BY <1>1
    <3> QED BY <1>4, <3>1 DEF ReadAt
  <2>2. q[g + 7] = m + 8
    <3>1. (g + 5) + 2 = g + 7 /\ (m + 4) + 4 = m + 8
      BY <1>1
    <3> QED BY <1>5, <3>1 DEF RefLaid
  <2>3. p[5] = StreamBestEffort
    <3>1. PICK j \in Nat : j = g + 7 /\ j + 1 = g + 8
      BY <1>1
    <3>2. /\ j + 1 <= L /\ j + 1 # place /\ w[j + 1] = U8(StreamBestEffort)
          /\ q[j] + 1 = (m + 4) + 5 /\ (m + 4) + 5 <= n
      BY <1>1, <1>2, <1>4, <1>5, <1>6, <2>1, <2>2, <3>1
    <3> QED BY <1>2, <1>13, <3>2, U8Said
  <2>4. p[6] = FormatData
    <3>1. PICK j \in Nat : j = g + 8 /\ j + 1 = g + 9
      BY <1>1
    <3>2. /\ j + 1 <= L /\ j + 1 # place /\ w[j + 1] = U8(FormatData)
          /\ q[j] + 1 = (m + 4) + 6 /\ (m + 4) + 6 <= n
      BY <1>1, <1>2, <1>4, <1>5, <1>6, <2>1, <2>2, <3>1
    <3> QED BY <1>2, <1>13, <3>2, U8Said
  <2>5. p[7] = 0
    <3>1. PICK j \in Nat : j = g + 9 /\ j + 1 = g + 10
      BY <1>1
    <3>2. /\ j + 1 <= L /\ j + 1 # place /\ w[j + 1] = U8(0)
          /\ q[j] + 1 = (m + 4) + 7 /\ (m + 4) + 7 <= n
      BY <1>1, <1>2, <1>4, <1>5, <1>6, <2>1, <2>2, <3>1
    <3> QED BY <1>2, <1>13, <3>2, U8Said
  <2>6. p[8] = 0
    <3>1. PICK j \in Nat : j = g + 10 /\ j + 1 = g + 11
      BY <1>1
    <3>2. /\ j + 1 <= L /\ j + 1 # place /\ w[j + 1] = U8(0)
          /\ q[j] + 1 = (m + 4) + 8 /\ (m + 4) + 8 <= n
      BY <1>1, <1>2, <1>4, <1>5, <1>6, <2>1, <2>2, <3>1
    <3> QED BY <1>2, <1>13, <3>2, U8Said
  <2> QED BY <2>3, <2>4, <2>5, <2>6
<1>16. SubSeq(p, 5, 8) = <<StreamBestEffort, FormatData, 0, 0>>
  <2>1. p \in Seq(Byte) /\ 8 <= Len(p)
    <3>1. p \in Seq(Byte) /\ Len(p) = n - (m + 4)
      BY <1>13 DEF PayloadIs
    <3>2. 8 <= n - (m + 4)
      BY <1>1, <1>6
    <3> QED BY <3>1, <3>2
  <2>2. StreamBestEffort \in Byte /\ FormatData \in Byte /\ 0 \in Byte
    BY SmallBytes DEF StreamBestEffort, FormatData
  <2> QED BY <1>15, <2>1, <2>2, SpecIs
<1>17. ReadHeard(p) = BodyMeant(r)
  <2>1. r.op # "client" /\ r.op \notin XmlOps /\ r.op # "write"
    BY DEF XmlOps, FormattedOps
  <2> QED BY <1>14, <1>16, <2>1 DEF ReadHeard, BodyMeant
<1>18. BodyHeard(SubmsgReadData, p) = BodyMeant(r)
  <2>1. SubmsgReadData = 8 /\ 8 # 0 /\ 8 # 1 /\ 8 # 7
    BY DEF SubmsgReadData
  <2> QED BY <1>17, <2>1 DEF BodyHeard
<1>19. HeardAs(b, r.sid, StreamBestEffort, r.seq, SubmsgReadData, FlagLe, BodyMeant(r))
  BY <1>1, <1>3, <1>8, <1>9, <1>12, <1>13, <1>18, HeardIs
<1>20. r.op # "client" /\ r.op \notin XmlOps
  BY DEF XmlOps, FormattedOps
<1> QED BY <1>19, <1>20, Zenon DEF HeardAs, Meant, SubmsgReadData

LEMMA WriteSaid ==
  ASSUME NEW r \in Request, r.op = "write", NEW w, WriteList(w, r),
         NEW q, NEW h, NEW B, NEW L, NEW b,
         Holds(w, q, h, B, 0, L, b, B), Fits16(B),
         B = Prefix(r.sid) + Len(r.body), Spells(b, Prefix(r.sid), r.body)
  PROVE  Heard(b) = Meant(r)
<1>1. PICK g \in Nat, m \in Nat :
        g = HeaderCalls(r.sid) /\ m = MsgHeaderLen(r.sid) /\ g >= 3 /\ m >= 4
  <2>1. r.sid \in Byte
    BY RequestFields
  <2> QED BY <2>1, HeaderSizes
<1>2. PICK l \in Nat : l = Len(r.body)
  BY RequestFields, LenProperties
<1>3. /\ B \in Nat /\ w \in Seq(Call) /\ Lay(w, q, h, B) /\ L = Len(w)
      /\ b \in Seq(Byte) /\ Len(b) = B
  BY DEF Holds
<1>4. /\ WriteLaid(q, h, r) /\ L = g + 6 /\ HeaderAt(w, r.sid, StreamBestEffort, r.seq)
      /\ WriteAt(w, g) /\ RefAt(w, g + 4, 0, r.oid)
  BY <1>1, <1>3, WriteLays DEF WriteList
<1>5. /\ HeaderLaid(q, h, r.sid) /\ RefLaid(q, h, g + 4, m + 4, m)
      /\ q[g + 1] = m /\ q[g + 2] = m + 1 /\ q[g + 3] = m + 2 /\ h[g + 3] = m
  BY <1>1, <1>4 DEF WriteLaid
<1>6. B = m + 8 + l /\ Spells(b, m + 8, r.body)
  <2>1. Prefix(r.sid) = m + 8
    <3>1. m + 4 + 4 = m + 8
      BY <1>1
    <3> QED BY <1>1, <3>1 DEF Prefix
  <2> QED BY <1>2, <2>1
<1>7. r.sid \in Byte /\ r.seq \in Short /\ r.oid \in Short /\ r.body \in Seq(Byte)
  BY RequestFields
<1>8. HeaderSays(b, m, r.sid, StreamBestEffort, r.seq)
  <2>1. g < L /\ m <= B
    BY <1>4, <1>6
  <2> QED BY <1>1, <1>4, <1>5, <1>7, <2>1, HeaderSaid
<1>9. b[m + 1] = SubmsgWriteData /\ b[m + 2] = FlagLe
  <2>1. w[g + 2] = U8(SubmsgWriteData) /\ w[g + 3] = U8(FlagLe)
    <3>1. FlagLe + FormatData = FlagLe
      BY DEF FlagLe, FormatData
    <3> QED BY <1>4, <3>1 DEF WriteAt
  <2>2. b[m + 1] = SubmsgWriteData
    <3>1. PICK j \in Nat : j = g + 1 /\ j + 1 = g + 2
      BY <1>1
    <3>2. j + 1 <= L /\ j + 1 # 0 /\ w[j + 1] = U8(SubmsgWriteData) /\ q[j] = m
      BY <1>4, <1>5, <2>1, <3>1
    <3> QED BY <3>2, HoldsU8
  <2>3. b[m + 2] = FlagLe
    <3>1. PICK j \in Nat, e \in Nat : j = g + 2 /\ j + 1 = g + 3 /\ e = m + 1 /\ e + 1 = m + 2
      BY <1>1
    <3>2. j + 1 <= L /\ j + 1 # 0 /\ w[j + 1] = U8(FlagLe) /\ q[j] = e
      BY <1>4, <1>5, <2>1, <3>1
    <3>3. b[e + 1] = FlagLe
      BY <3>2, HoldsU8
    <3> QED BY <3>1, <3>3
  <2> QED BY <2>2, <2>3
<1>10. B - m - 4 - FromLe16(<<b[m + 3], b[m + 4]>>) = 0
  <2>1. PICK k \in Nat : k = B - m - 4 /\ k <= B
    BY <1>6
  <2>2. Spells(b, m + 2, Le16(k))
    <3>1. PICK j \in Nat, e \in Nat : j = g + 3 /\ j + 1 = g + 4 /\ e = m + 2
      BY <1>1
    <3>2. j + 1 <= L /\ j + 1 # 0 /\ q[j] = e /\ h[j] = m /\ w[j + 1] = RestLen
      BY <1>4, <1>5, <3>1 DEF WriteAt
    <3>3. Spells(b, e, Le16(B - m - 4))
      BY <3>2, HoldsRestLen
    <3> QED BY <2>1, <3>1, <3>3
  <2>3. Fits16(k)
    BY <1>3, <2>1 DEF Fits16
  <2>4. Len(Le16(k)) = 2 /\ FromLe16(<<Le16(k)[1], Le16(k)[2]>>) = k
    BY <2>3, ShortIs, TwoBytes
  <2>5. b[(m + 2) + 1] = Le16(k)[1] /\ b[(m + 2) + 2] = Le16(k)[2]
    BY <2>2, <2>4 DEF Spells
  <2>6. (m + 2) + 1 = m + 3 /\ (m + 2) + 2 = m + 4
    BY <1>1
  <2>7. FromLe16(<<b[m + 3], b[m + 4]>>) = k
    BY <2>4, <2>5, <2>6
  <2> QED BY <2>1, <2>7
<1>11. PICK p : PayloadIs(b, m, B, p)
  <2>1. m + 4 <= B
    BY <1>6
  <2> QED BY <1>3, <2>1, PayloadExists
<1>12. Id(p, 0) = 0 /\ Id(p, 2) = r.oid
  <2>1. PICK a \in Nat : a = g + 4
    BY <1>1
  <2>2. a + 2 <= L /\ 0 <= a /\ 0 \in Nat /\ (m + 4) + 4 <= B
    BY <1>4, <1>6, <2>1
  <2>3. RefAt(w, a, 0, r.oid) /\ RefLaid(q, h, a, m + 4, m)
    BY <1>4, <1>5, <2>1
  <2>4. 0 \in Short
    BY SmallBytes, SmallShort
  <2> QED BY <1>7, <1>11, <2>2, <2>3, <2>4, RefSaid
<1>13. SubSeq(p, 5, Len(p)) = r.body
  <2>1. p \in Seq(Byte) /\ Len(p) = B - (m + 4)
        /\ \A i \in 1 .. B - (m + 4) : p[i] = b[(m + 4) + i]
    BY <1>11 DEF PayloadIs
  <2>2. Len(p) = 4 + l
    BY <1>6, <2>1
  <2>3. Spells(p, 4, r.body)
    <3> SUFFICES ASSUME NEW i \in 1 .. l PROVE p[4 + i] = r.body[i]
      BY <1>2 DEF Spells
    <3>1. 4 + i \in 1 .. B - (m + 4) /\ (m + 4) + (4 + i) = (m + 8) + i
      BY <1>6
    <3>2. b[(m + 8) + i] = r.body[i]
      BY <1>2, <1>6 DEF Spells
    <3> QED BY <2>1, <3>1, <3>2
  <2>4. SubSeq(p, 4 + 1, 4 + l) = r.body
    <3>1. 4 \in Nat /\ 4 + l <= Len(p)
      BY <2>2
    <3> QED BY <1>2, <1>7, <2>1, <2>3, <3>1, PartIs
  <2>5. 4 + 1 = 5
    OBVIOUS
  <2> QED BY <2>2, <2>4, <2>5
<1>14. WriteHeard(p) = BodyMeant(r)
  <2>1. r.op # "client" /\ r.op \notin XmlOps /\ r.op # "read"
    BY DEF XmlOps, FormattedOps
  <2> QED BY <1>12, <1>13, <2>1 DEF WriteHeard, BodyMeant
<1>15. BodyHeard(SubmsgWriteData, p) = BodyMeant(r)
  <2>1. SubmsgWriteData = 7 /\ 7 # 0 /\ 7 # 1 /\ 7 # 8
    BY DEF SubmsgWriteData
  <2> QED BY <1>14, <2>1 DEF BodyHeard
<1>16. HeardAs(b, r.sid, StreamBestEffort, r.seq, SubmsgWriteData, FlagLe, BodyMeant(r))
  BY <1>1, <1>3, <1>8, <1>9, <1>10, <1>11, <1>15, HeardIs
<1>17. r.op # "client" /\ r.op \notin XmlOps /\ r.op # "read"
  BY DEF XmlOps, FormattedOps
<1> QED BY <1>16, <1>17, Zenon DEF HeardAs, Meant, SubmsgWriteData

LEMMA MagicBytes ==
  /\ Cookie \in Seq(Byte) /\ Len(Cookie) = 4
  /\ Version \in Seq(Byte) /\ Len(Version) = 2
  /\ Vendor \in Seq(Byte) /\ Len(Vendor) = 2
  /\ Mtu \in Short /\ Len(Le16(Mtu)) = 2
<1>1. 88 \in Byte /\ 82 \in Byte /\ 67 \in Byte /\ 69 \in Byte /\ 15 \in Byte
  BY DEF Byte
<1>2. 1 \in Byte /\ 0 \in Byte /\ 2 \in Byte
  BY SmallBytes
<1>3. Mtu = 256 * 2 + 0
  BY DEF Mtu
<1>4. Mtu \in Short
  BY <1>2, <1>3 DEF Short
<1>5. Cookie \in Seq(Byte) /\ Len(Cookie) = 4
  <2>1. PICK a \in Byte, b \in Byte, c \in Byte, d \in Byte : a = 88 /\ b = 82 /\ c = 67 /\ d = 69
    BY <1>1
  <2>2. Cookie = <<a, b, c, d>>
    BY <2>1 DEF Cookie
  <2> QED BY <2>2
<1>6. Version \in Seq(Byte) /\ Len(Version) = 2
  BY <1>2 DEF Version
<1>7. Vendor \in Seq(Byte) /\ Len(Vendor) = 2
  <2>1. PICK a \in Byte, b \in Byte : a = 1 /\ b = 15
    BY <1>1, <1>2
  <2>2. Vendor = <<a, b>>
    BY <2>1 DEF Vendor
  <2> QED BY <2>2
<1>8. Len(Le16(Mtu)) = 2
  BY <1>4, TwoBytes
<1> QED BY <1>4, <1>5, <1>6, <1>7, <1>8

LEMMA MagicIs ==
  ASSUME NEW p \in Seq(Byte), 8 <= Len(p), Spells(p, 0, Cookie), Spells(p, 4, Version),
         Spells(p, 6, Vendor)
  PROVE  SubSeq(p, 1, 8) = Cookie \o Version \o Vendor
<1>1. PICK x \in Seq(Byte), y \in Seq(Byte), z \in Seq(Byte) :
        /\ x = Cookie /\ y = Version /\ z = Vendor /\ Len(x) = 4 /\ Len(y) = 2 /\ Len(z) = 2
  BY MagicBytes
<1>2. PICK t : t = x \o y \o z
  OBVIOUS
<1>3. /\ t \in Seq(Byte) /\ Len(t) = 8
      /\ \A i \in 1 .. 8 : t[i] = IF i <= 4 THEN x[i] ELSE IF i <= 6 THEN y[i - 4] ELSE z[i - 6]
  <2>1. /\ t \in Seq(Byte) /\ Len(t) = Len(x) + Len(y) + Len(z)
        /\ \A i \in 1 .. Len(x) + Len(y) + Len(z) :
             t[i] = IF i <= Len(x) THEN x[i]
                    ELSE IF i <= Len(x) + Len(y) THEN y[i - Len(x)]
                    ELSE z[i - (Len(x) + Len(y))]
    <3>1. /\ x \o y \o z \in Seq(Byte) /\ Len(x \o y \o z) = Len(x) + Len(y) + Len(z)
          /\ \A i \in 1 .. Len(x) + Len(y) + Len(z) :
               (x \o y \o z)[i] = IF i <= Len(x) THEN x[i]
                                 ELSE IF i <= Len(x) + Len(y) THEN y[i - Len(x)]
                                 ELSE z[i - (Len(x) + Len(y))]
      BY Concat3
    <3> QED BY <1>2, <3>1, Zenon
  <2>2. Len(x) + Len(y) + Len(z) = 8 /\ Len(x) + Len(y) = 6
    BY <1>1
  <2> QED BY <1>1, <2>1, <2>2, Zenon
<1>4. Spells(p, 0, t)
  <2> SUFFICES ASSUME NEW i \in 1 .. 8 PROVE p[0 + i] = t[i]
    BY <1>3 DEF Spells
  <2>1. CASE i <= 4
    BY <1>1, <1>3, <2>1, SMTT(60) DEF Spells
  <2>2. CASE ~(i <= 4) /\ i <= 6
    <3>1. PICK k \in 1 .. 2 : k = i - 4 /\ 4 + k = 0 + i
      BY <2>2
    <3>2. p[4 + k] = y[k]
      BY <1>1 DEF Spells
    <3> QED BY <1>3, <2>2, <3>1, <3>2
  <2>3. CASE ~(i <= 6)
    <3>1. PICK k \in 1 .. 2 : k = i - 6 /\ 6 + k = 0 + i /\ ~(i <= 4)
      BY <2>3
    <3>2. p[6 + k] = z[k]
      BY <1>1 DEF Spells
    <3> QED BY <1>3, <2>3, <3>1, <3>2
  <2> QED BY <2>1, <2>2, <2>3
<1>5. PICK d \in Nat, l \in Nat : d = 0 /\ l = 8 /\ d + 1 = 1 /\ d + l = 8
  OBVIOUS
<1>6. SubSeq(p, d + 1, d + l) = t
  <2>1. Spells(p, d, t) /\ Len(t) = l /\ d + l <= Len(p) /\ t \in Seq(Byte)
    BY <1>3, <1>4, <1>5
  <2> QED BY <2>1, PartIs
<1> QED BY <1>1, <1>2, <1>5, <1>6

LEMMA ClientSaid ==
  ASSUME NEW r \in Request, r.op = "client", NEW w, ClientList(w, r),
         NEW q, NEW h, NEW B, NEW L, NEW b, NEW n,
         Holds(w, q, h, B, HeaderCalls(r.sid) + 5, L, b, n), q[L] = n, Fits16(n)
  PROVE  Heard(b) = Meant(r)
<1>1. PICK g \in Nat, m \in Nat :
        g = HeaderCalls(r.sid) /\ m = MsgHeaderLen(r.sid) /\ g >= 3 /\ m >= 4
  <2>1. r.sid \in Byte
    BY RequestFields
  <2> QED BY <2>1, HeaderSizes
<1>2. PICK place \in Nat : place = g + 5 /\ Holds(w, q, h, B, place, L, b, n)
  BY <1>1
<1>3. /\ B \in Nat /\ w \in Seq(Call) /\ Lay(w, q, h, B) /\ L = Len(w) /\ n \in Nat
      /\ b \in Seq(Byte) /\ Len(b) = n
  BY <1>2 DEF Holds
<1>4. /\ ClientLaid(q, h, r) /\ L = g + 14 /\ HeaderAt(w, Masked(r.sid), StreamNone, 0)
      /\ SubAt(w, g, SubmsgCreateClient, FlagLe) /\ ClientAt(w, g + 5, r)
  BY <1>1, <1>3, ClientLays DEF ClientList
<1>5. /\ HeaderLaid(q, h, r.sid) /\ SubLaid(q, h, g, m)
      /\ q[g + 5] = m + 4 /\ q[g + 6] = m + 8 /\ q[g + 7] = m + 10 /\ q[g + 8] = m + 12
      /\ q[g + 9] = m + 16 /\ q[g + 10] = m + 17 /\ q[g + 12] = m + 18 /\ q[g + 14] = m + 20
      /\ h[g + 13] = m
  BY <1>1, <1>4 DEF ClientLaid, SubLaid
<1>6. n = m + 20
  BY <1>4, <1>5
<1>7. r.sid \in Byte /\ Masked(r.sid) \in Byte /\ 0 \in Short
      /\ (Masked(r.sid) < SessionIdWithoutClientKey <=> r.sid < SessionIdWithoutClientKey)
  BY RequestFields, MaskedByte, SmallBytes, SmallShort
<1>8. HeaderCalls(Masked(r.sid)) = g /\ MsgHeaderLen(Masked(r.sid)) = m
      /\ HeaderLaid(q, h, Masked(r.sid))
  BY <1>1, <1>5, <1>7 DEF HeaderCalls, MsgHeaderLen, HeaderLaid
<1>9. HeaderSays(b, m, Masked(r.sid), StreamNone, 0)
  <2>1. g < L /\ m <= n /\ place > g
    BY <1>2, <1>4, <1>6
  <2> QED BY <1>2, <1>4, <1>7, <1>8, <2>1, HeaderSaid
<1>10. b[m + 1] = SubmsgCreateClient /\ b[m + 2] = FlagLe
  <2>1. g + 5 <= L
    BY <1>4
  <2> QED BY <1>2, <1>4, <1>5, <2>1, SubSaid
<1>11. /\ w[g + 6] = Put(Cookie) /\ w[g + 7] = Put(Version) /\ w[g + 8] = Put(Vendor)
       /\ w[g + 9] = Put(ClientKey) /\ w[g + 10] = U8(r.sid) /\ w[g + 11] = U8(0)
       /\ w[g + 13] = Put(Le16(Mtu)) /\ w[g + 14] = Patch
  <2>1. /\ (g + 5) + 1 = g + 6 /\ (g + 5) + 2 = g + 7 /\ (g + 5) + 3 = g + 8
        /\ (g + 5) + 4 = g + 9 /\ (g + 5) + 5 = g + 10 /\ (g + 5) + 6 = g + 11
        /\ (g + 5) + 8 = g + 13 /\ (g + 5) + 9 = g + 14
    BY <1>1
  <2> QED BY <1>4, <2>1 DEF ClientAt
<1>12. h[L] = m
  <2>1. g + 13 \in Nat /\ g + 14 = (g + 13) + 1 /\ g + 14 <= L
    BY <1>4
  <2>2. h[g + 14] = h[g + 13]
    BY <1>2, <1>11, <2>1, HeaderStays
  <2> QED BY <1>4, <1>5, <2>2
<1>13. n - m - 4 - FromLe16(<<b[m + 3], b[m + 4]>>) = 0
  <2>1. PICK j \in 1 .. L : w[j] = Patch
    <3>1. g + 14 \in 1 .. L
      BY <1>4
    <3> QED BY <1>11, <3>1
  <2>2. m + 4 <= n
    BY <1>6
  <2> QED BY <1>2, <1>12, <2>1, <2>2, LengthSaid
<1>14. PICK p : PayloadIs(b, m, n, p)
  <2>1. m + 4 <= n
    BY <1>6
  <2> QED BY <1>3, <2>1, PayloadExists
<1>15. p \in Seq(Byte) /\ Len(p) = 16
  <2>1. p \in Seq(Byte) /\ Len(p) = n - (m + 4)
    BY <1>14 DEF PayloadIs
  <2>2. n - (m + 4) = 16
    BY <1>1, <1>6
  <2> QED BY <2>1, <2>2
<1>16. Spells(p, 0, Cookie)
  <2>1. PICK j \in Nat : j = g + 5 /\ j + 1 = g + 6
    BY <1>1
  <2>2. /\ j + 1 <= L /\ j + 1 # place /\ w[j + 1] = Put(Cookie)
        /\ q[j] = (m + 4) + 0 /\ (m + 4) + 0 + 4 <= n
    BY <1>1, <1>2, <1>4, <1>5, <1>6, <1>11, <2>1
  <2>3. Len(Cookie) = 4
    BY MagicBytes
  <2> QED BY <1>2, <1>14, <2>2, <2>3, PutSaid, ZenonT(60)
<1>17. Spells(p, 4, Version)
  <2>1. PICK j \in Nat : j = g + 6 /\ j + 1 = g + 7
    BY <1>1
  <2>2. /\ j + 1 <= L /\ j + 1 # place /\ w[j + 1] = Put(Version)
        /\ q[j] = (m + 4) + 4 /\ (m + 4) + 4 + 2 <= n
    BY <1>1, <1>2, <1>4, <1>5, <1>6, <1>11, <2>1
  <2>3. Len(Version) = 2
    BY MagicBytes
  <2> QED BY <1>2, <1>14, <2>2, <2>3, PutSaid, ZenonT(60)
<1>18. Spells(p, 6, Vendor)
  <2>1. PICK j \in Nat : j = g + 7 /\ j + 1 = g + 8
    BY <1>1
  <2>2. /\ j + 1 <= L /\ j + 1 # place /\ w[j + 1] = Put(Vendor)
        /\ q[j] = (m + 4) + 6 /\ (m + 4) + 6 + 2 <= n
    BY <1>1, <1>2, <1>4, <1>5, <1>6, <1>11, <2>1
  <2>3. Len(Vendor) = 2
    BY MagicBytes
  <2> QED BY <1>2, <1>14, <2>2, <2>3, PutSaid, ZenonT(60)
<1>19. Spells(p, 8, ClientKey)
  <2>1. PICK j \in Nat : j = g + 8 /\ j + 1 = g + 9
    BY <1>1
  <2>2. /\ j + 1 <= L /\ j + 1 # place /\ w[j + 1] = Put(ClientKey)
        /\ q[j] = (m + 4) + 8 /\ (m + 4) + 8 + 4 <= n
    BY <1>1, <1>2, <1>4, <1>5, <1>6, <1>11, <2>1
  <2>3. Len(ClientKey) = 4
    BY KeyBytes
  <2> QED BY <1>2, <1>14, <2>2, <2>3, PutSaid, ZenonT(60)
<1>20. p[13] = r.sid
  <2>1. PICK j \in Nat : j = g + 9 /\ j + 1 = g + 10
    BY <1>1
  <2>2. /\ j + 1 <= L /\ j + 1 # place /\ w[j + 1] = U8(r.sid)
        /\ q[j] + 1 = (m + 4) + 13 /\ (m + 4) + 13 <= n
    BY <1>1, <1>2, <1>4, <1>5, <1>6, <1>11, <2>1
  <2> QED BY <1>2, <1>14, <2>2, U8Said
<1>21. p[14] = 0
  <2>1. PICK j \in Nat : j = g + 10 /\ j + 1 = g + 11
    BY <1>1
  <2>2. /\ j + 1 <= L /\ j + 1 # place /\ w[j + 1] = U8(0)
        /\ q[j] + 1 = (m + 4) + 14 /\ (m + 4) + 14 <= n
    BY <1>1, <1>2, <1>4, <1>5, <1>6, <1>11, <2>1
  <2> QED BY <1>2, <1>14, <2>2, U8Said
<1>22. Spells(p, 14, Le16(Mtu))
  <2>1. PICK j \in Nat : j = g + 12 /\ j + 1 = g + 13
    BY <1>1
  <2>2. /\ j + 1 <= L /\ j + 1 # place /\ w[j + 1] = Put(Le16(Mtu))
        /\ q[j] = (m + 4) + 14 /\ (m + 4) + 14 + 2 <= n
    BY <1>1, <1>2, <1>4, <1>5, <1>6, <1>11, <2>1
  <2>3. Len(Le16(Mtu)) = 2
    BY MagicBytes
  <2> QED BY <1>2, <1>14, <2>2, <2>3, PutSaid, ZenonT(60)
<1>23. SubSeq(p, 1, 8) = Cookie \o Version \o Vendor
  <2>1. 8 <= Len(p)
    BY <1>15
  <2> QED BY <1>15, <1>16, <1>17, <1>18, <2>1, MagicIs
<1>24. SubSeq(p, 9, 12) = ClientKey
  <2>1. 8 \in Nat /\ 12 = 8 + 4 /\ 12 <= Len(p)
    BY <1>15
  <2>2. SubSeq(p, 8 + 1, 12) = ClientKey
    BY <1>15, <1>19, <2>1, KeyBytes, FourAre
  <2>3. 8 + 1 = 9
    OBVIOUS
  <2> QED BY <2>2, <2>3
<1>25. FromLe16(SubSeq(p, 15, 16)) = Mtu
  <2>1. 14 \in Nat /\ 14 + 2 <= Len(p)
    BY <1>15
  <2>2. FromLe16(SubSeq(p, 14 + 1, 14 + 2)) = Mtu
    BY <1>15, <1>22, <2>1, MagicBytes, LeIs
  <2>3. 14 + 1 = 15 /\ 14 + 2 = 16
    OBVIOUS
  <2> QED BY <2>2, <2>3
<1>26. ClientHeard(p) = BodyMeant(r)
  <2>1. BodyMeant(r) = [magic |-> Cookie \o Version \o Vendor, key |-> ClientKey, sid |-> r.sid,
                        properties |-> 0, mtu |-> Mtu]
    <3>1. r.op \notin XmlOps /\ r.op # "read" /\ r.op # "write"
      BY DEF XmlOps, FormattedOps
    <3> QED BY <3>1 DEF BodyMeant
  <2>2. ClientHeard(p) = [magic |-> Cookie \o Version \o Vendor, key |-> ClientKey, sid |-> r.sid,
                          properties |-> 0, mtu |-> Mtu]
    BY <1>20, <1>21, <1>23, <1>24, <1>25, Zenon DEF ClientHeard
  <2> QED BY <2>1, <2>2
<1>27. BodyHeard(SubmsgCreateClient, p) = BodyMeant(r)
  <2>1. SubmsgCreateClient = 0 /\ 0 # 1 /\ 0 # 7 /\ 0 # 8
    BY DEF SubmsgCreateClient
  <2> QED BY <1>26, <2>1 DEF BodyHeard
<1>28. HeardAs(b, Masked(r.sid), StreamNone, 0, SubmsgCreateClient, FlagLe, BodyMeant(r))
  BY <1>1, <1>3, <1>9, <1>10, <1>13, <1>14, <1>27, HeardIs
<1>29. r.op \notin XmlOps
  BY DEF XmlOps, FormattedOps
<1> QED BY <1>7, <1>28, <1>29, Zenon DEF HeardAs, Meant, SubmsgCreateClient

LEMMA KindTells ==
  ASSUME NEW op \in XmlOps
  PROVE  EntityKind[op] = EntityKind.participant <=> op = "participant"
BY DEF XmlOps, FormattedOps, EntityKind

\* The domain, in the last two bytes.
LEMMA DomainSaid ==
  ASSUME NEW p \in Seq(Byte), NEW d \in Nat, Len(p) = d + 2, Spells(p, d, Le16(0))
  PROVE  FromLe16(SubSeq(p, Len(p) - 1, Len(p))) = 0
<1>1. 0 \in Short
  BY SmallBytes, SmallShort
<1>2. FromLe16(SubSeq(p, d + 1, d + 2)) = 0
  BY <1>1, LeIs
<1>3. Len(p) - 1 = d + 1
  OBVIOUS
<1> QED BY <1>2, <1>3

LEMMA TwoAre ==
  ASSUME NEW p \in Seq(Byte), NEW d \in Nat, d + 2 <= Len(p),
         NEW x \in Seq(Byte), Len(x) = 2, Spells(p, d, x)
  PROVE  SubSeq(p, d + 1, d + 2) = x
BY PartIs

\* The parent, behind the text and the zero that ends it.
LEMMA ParentSaid ==
  ASSUME NEW p \in Seq(Byte), NEW t \in Nat, Len(StringAt(p, 8)) = t, Len(p) = t + 15,
         NEW parent \in Short, Spells(p, t + 13, Be16(parent))
  PROVE  Id(AfterString(p, 8), 0) = parent
<1>1. PICK d \in Nat : d = t + 13 /\ d + 1 = 8 + 6 + t /\ d + 2 = t + 15
  OBVIOUS
<1>2. PICK x \in Seq(Byte) : x = Be16(parent) /\ Len(x) = 2
  BY TwoBytes
<1>3. SubSeq(p, d + 1, d + 2) = x
  <2>1. d + 2 <= Len(p) /\ Spells(p, d, x)
    BY <1>1, <1>2
  <2> QED BY <1>2, <2>1, TwoAre
<1>4. AfterString(p, 8) = x
  <2>1. AfterString(p, 8) = SubSeq(p, 8 + 6 + t, t + 15)
    BY Zenon DEF AfterString
  <2> QED BY <1>1, <1>3, <2>1, Zenon
<1>5. Spells(x, 0, Be16(parent)) /\ 0 + 2 <= Len(x)
  BY <1>2 DEF Spells
<1> QED BY <1>2, <1>4, <1>5, IdIs

LEMMA CreateSaid ==
  ASSUME NEW r \in Request, r.op \in XmlOps, NEW w, CreateList(w, r), xml = Text(r),
         Text(r) \in Seq(Byte), NEW q, NEW h, NEW B, NEW L, NEW b, NEW n,
         Holds(w, q, h, B, HeaderCalls(r.sid) + 5, L, b, n), q[L] = n, Fits16(n)
  PROVE  Heard(b) = Meant(r)
<1>1. PICK g \in Nat, m \in Nat, k \in {1, 2}, t \in Nat, pad \in Nat :
        /\ g = HeaderCalls(r.sid) /\ m = MsgHeaderLen(r.sid) /\ k = CreateTailCalls(r)
        /\ t = Len(Text(r)) /\ pad = DomainPad(t)
  <2>1. r.sid \in Byte
    BY RequestFields
  <2>2. CreateTailCalls(r) \in {1, 2}
    BY DEF CreateTailCalls
  <2>3. PICK t \in Nat : t = Len(Text(r))
    BY LenProperties
  <2>4. DomainPad(t) \in Nat
    <3>1. 13 + t \in Int /\ 2 \in {2, 4}
      OBVIOUS
    <3>2. Padding(13 + t, 2) \in 0 .. 2 - 1
      BY <3>1, PaddingNat
    <3> QED BY <3>2 DEF DomainPad
  <2> QED BY <2>1, <2>2, <2>3, <2>4, HeaderSizes
<1>2. PICK place \in Nat : place = g + 5 /\ Holds(w, q, h, B, place, L, b, n)
  BY <1>1
<1>3. /\ B \in Nat /\ w \in Seq(Call) /\ Lay(w, q, h, B) /\ L = Len(w) /\ n \in Nat
      /\ b \in Seq(Byte) /\ Len(b) = n
  BY <1>2 DEF Holds
<1>4. /\ CreateLaid(q, h, r, t) /\ L = g + 16 + k
      /\ HeaderAt(w, r.sid, StreamBestEffort, r.seq)
      /\ SubAt(w, g, SubmsgCreate, FlagsCreate) /\ RefAt(w, g + 5, r.req, r.oid)
      /\ w[g + 8] = U8(EntityKind[r.op]) /\ w[g + 9] = U8(ReprAsXml)
      /\ TextAt(w, g + 9, Text(r)) /\ CreateAt(w, g + 14, r)
      /\ w[g + 15 + k] = Patch /\ w[g + 16 + k] = Check
  BY <1>1, <1>3, CreateLays DEF CreateList
<1>5. /\ HeaderLaid(q, h, r.sid) /\ SubLaid(q, h, g, m) /\ RefLaid(q, h, g + 5, m + 4, m)
      /\ q[g + 8] = m + 9 /\ TextLaid(q, h, g + 9, m, t)
      /\ IF r.op = "participant"
         THEN q[g + 15] = m + 17 + t + pad /\ q[g + 16] = m + 19 + t + pad
         ELSE q[g + 15] = m + 19 + t
      /\ q[g + 16 + k] = q[g + 14 + k] /\ h[g + 14 + k] = m
  BY <1>1, <1>4, Zenon DEF CreateLaid
<1>6. /\ w[g + 11] = Put(Le32(t + 1)) /\ w[g + 12] = Put(Text(r))
      /\ q[g + 7] = m + 8 /\ q[g + 10] = m + 12 /\ q[g + 11] = m + 16 /\ q[g + 14] = m + 17 + t
  <2>1. /\ (g + 9) + 1 = g + 10 /\ (g + 9) + 2 = g + 11 /\ (g + 9) + 3 = g + 12
        /\ (g + 9) + 5 = g + 14 /\ (g + 5) + 2 = g + 7 /\ (m + 4) + 4 = m + 8
    OBVIOUS
  <2>2. w[(g + 9) + 2] = Put(Le32(t + 1)) /\ w[(g + 9) + 3] = Put(Text(r))
    BY <1>1, <1>4 DEF TextAt
  <2>3. /\ q[(g + 9) + 1] = m + 12 /\ q[(g + 9) + 2] = m + 16 /\ q[(g + 9) + 5] = m + 17 + t
        /\ q[(g + 5) + 2] = (m + 4) + 4
    BY <1>5 DEF TextLaid, RefLaid
  <2>4. q[g + 14] = m + 17 + t
    BY <2>1, <2>3
  <2> QED BY <2>1, <2>2, <2>3, <2>4, Zenon
\* What comes behind the text begins at d of the payload.
<1>7. PICK d \in Nat :
        /\ n = (m + 4) + d + 2 /\ t + 13 <= d
        /\ r.op # "participant" => d = t + 13
        /\ r.op = "participant" => d = t + 13 + pad
  <2>1. CASE r.op = "participant"
    <3>1. n = m + 19 + t + pad
      <4>1. k = 2 /\ g + 14 + k = g + 16
        BY <1>1, <2>1 DEF CreateTailCalls
      <4>2. n = q[g + 16]
        BY <1>4, <1>5, <4>1
      <4> QED BY <1>5, <2>1, <4>2
    <3>2. t + 13 + pad \in Nat /\ n = (m + 4) + (t + 13 + pad) + 2 /\ t + 13 <= t + 13 + pad
      BY <3>1
    <3> QED BY <2>1, <3>2
  <2>2. CASE r.op # "participant"
    <3>1. n = m + 19 + t
      <4>1. k = 1 /\ g + 14 + k = g + 15
        BY <1>1, <2>2 DEF CreateTailCalls
      <4>2. n = q[g + 15]
        BY <1>4, <1>5, <4>1
      <4> QED BY <1>5, <2>2, <4>2
    <3>2. t + 13 \in Nat /\ n = (m + 4) + (t + 13) + 2 /\ t + 13 <= t + 13
      BY <3>1
    <3> QED BY <2>2, <3>2
  <2> QED BY <2>1, <2>2
<1>8. /\ r.sid \in Byte /\ r.seq \in Short /\ r.req \in Short /\ r.oid \in Short
      /\ r.parent \in Short
  BY RequestFields
<1>9. g + 17 <= L /\ g >= 0 /\ m + 8 + t <= n /\ L = g + 16 + k
  BY <1>4, <1>7
<1>10. HeaderSays(b, m, r.sid, StreamBestEffort, r.seq)
  <2>1. g < L /\ m <= n /\ place > g
    BY <1>2, <1>3, <1>9
  <2>2. HeaderAt(w, r.sid, StreamBestEffort, r.seq) /\ HeaderLaid(q, h, r.sid)
    BY <1>4, <1>5
  <2> QED BY <1>1, <1>2, <1>8, <2>1, <2>2, HeaderSaid
<1>11. b[m + 1] = SubmsgCreate /\ b[m + 2] = FlagsCreate
  <2>1. g + 5 <= L
    BY <1>9
  <2> QED BY <1>2, <1>4, <1>5, <2>1, SubSaid, SMTT(60)
<1>12. h[L] = m
  <2>1. PICK x \in Nat, y \in Nat : x = g + 14 + k /\ y = g + 15 + k
    OBVIOUS
  <2>2. y = x + 1 /\ g + 16 + k = y + 1 /\ y <= L /\ g + 16 + k <= L
    BY <1>9, <2>1
  <2>3. h[y] = h[x]
    BY <1>2, <1>4, <2>1, <2>2, HeaderStays
  <2>4. h[g + 16 + k] = h[y]
    BY <1>2, <1>4, <2>1, <2>2, HeaderStays
  <2> QED BY <1>4, <1>5, <2>1, <2>3, <2>4
<1>13. n - m - 4 - FromLe16(<<b[m + 3], b[m + 4]>>) = 0
  <2>1. PICK j \in 1 .. L : w[j] = Patch
    <3>1. g + 15 + k \in 1 .. L
      BY <1>9
    <3> QED BY <1>4, <3>1
  <2>2. m + 4 <= n
    BY <1>3, <1>9
  <2> QED BY <1>2, <1>12, <2>1, <2>2, LengthSaid
<1>14. PICK p : PayloadIs(b, m, n, p)
  <2>1. m + 4 <= n
    BY <1>3, <1>9
  <2> QED BY <1>3, <2>1, PayloadExists
<1>15. p \in Seq(Byte) /\ Len(p) = d + 2
  <2>1. p \in Seq(Byte) /\ Len(p) = n - (m + 4)
    BY <1>14 DEF PayloadIs
  <2>2. n - (m + 4) = d + 2
    BY <1>7
  <2> QED BY <2>1, <2>2
<1>16. Id(p, 0) = r.req /\ Id(p, 2) = r.oid
  <2>1. PICK a \in Nat : a = g + 5
    OBVIOUS
  <2>2. a + 2 <= L /\ place <= a /\ (m + 4) + 4 <= n
    BY <1>2, <1>9, <1>7, <2>1
  <2>3. RefAt(w, a, r.req, r.oid) /\ RefLaid(q, h, a, m + 4, m)
    BY <1>4, <1>5, <2>1
  <2> QED BY <1>2, <1>8, <1>14, <2>2, <2>3, RefSaid
<1>17. p[5] = EntityKind[r.op]
  <2>1. PICK j \in Nat : j = g + 7 /\ j + 1 = g + 8
    OBVIOUS
  <2>2. /\ j + 1 <= L /\ j + 1 # place /\ w[j + 1] = U8(EntityKind[r.op])
        /\ q[j] + 1 = (m + 4) + 5 /\ (m + 4) + 5 <= n
    <3>1. w[g + 8] = U8(EntityKind[r.op]) /\ q[g + 7] = m + 8
      BY <1>4, <1>5, <1>6
    <3>2. j + 1 <= L /\ j + 1 # place
      BY <1>2, <1>9, <2>1
    <3>3. (m + 4) + 5 <= n
      BY <1>7
    <3> QED BY <2>1, <3>1, <3>2, <3>3
  <2> QED BY <1>2, <1>14, <2>2, U8Said, SMTT(60)
<1>18. p[6] = ReprAsXml
  <2>1. PICK j \in Nat : j = g + 8 /\ j + 1 = g + 9
    OBVIOUS
  <2>2. /\ j + 1 <= L /\ j + 1 # place /\ w[j + 1] = U8(ReprAsXml)
        /\ q[j] + 1 = (m + 4) + 6 /\ (m + 4) + 6 <= n
    <3>1. w[g + 9] = U8(ReprAsXml) /\ q[g + 8] = m + 9
      BY <1>4, <1>5, <1>6
    <3>2. j + 1 <= L /\ j + 1 # place
      BY <1>2, <1>9, <2>1
    <3>3. (m + 4) + 6 <= n
      BY <1>7
    <3> QED BY <2>1, <3>1, <3>2, <3>3
  <2> QED BY <1>2, <1>14, <2>2, U8Said
<1>19. Spells(p, 8, Le32(t + 1))
  <2>1. PICK j \in Nat : j = g + 10 /\ j + 1 = g + 11
    OBVIOUS
  <2>2. /\ j + 1 <= L /\ j + 1 # place /\ w[j + 1] = Put(Le32(t + 1))
        /\ q[j] = (m + 4) + 8 /\ (m + 4) + 8 + 4 <= n
    BY <1>2, <1>6, <1>7, <1>9, <2>1
  <2>3. Len(Le32(t + 1)) = 4
    BY Le32Bytes DEF Sequence
  <2> QED BY <1>2, <1>14, <2>2, <2>3, PutSaid, ZenonT(60)
<1>20. Spells(p, 12, Text(r))
  <2>1. PICK j \in Nat : j = g + 11 /\ j + 1 = g + 12
    OBVIOUS
  <2>2. /\ j + 1 <= L /\ j + 1 # place /\ w[j + 1] = Put(Text(r))
        /\ q[j] = (m + 4) + 12 /\ (m + 4) + 12 + t <= n
    BY <1>2, <1>6, <1>7, <1>9, <2>1
  <2>3. PICK x \in Seq(Byte) : x = Text(r) /\ t = Len(x) /\ w[j + 1] = Put(x)
    BY <1>1, <2>2
  <2>4. Spells(p, 12, x)
    BY <1>2, <1>14, <2>2, <2>3, PutSaid
  <2> QED BY <2>3, <2>4
<1>21. StringAt(p, 8) = Text(r)
  <2>1. Fits16(t + 1)
    <3>1. t + 1 <= n
      BY <1>7
    <3> QED BY <1>3, <3>1 DEF Fits16
  <2>2. 8 + 4 = 12 /\ 8 + 4 + t <= Len(p)
    BY <1>7, <1>15
  <2>3. Spells(p, 8 + 4, Text(r))
    BY <1>20, <2>2
  <2> QED BY <1>1, <1>15, <1>19, <2>1, <2>2, <2>3, StringIs
<1>22. (IF p[5] = EntityKind.participant
        THEN FromLe16(SubSeq(p, Len(p) - 1, Len(p)))
        ELSE Id(AfterString(p, 8), 0)) = IF r.op = "participant" THEN 0 ELSE r.parent
  <2>1. CASE r.op = "participant"
    <3>1. p[5] = EntityKind.participant
      BY <1>17, <2>1
    <3>2. k = 2
      BY <1>1, <2>1 DEF CreateTailCalls
    <3>3. Spells(p, d, Le16(0))
      <4>1. PICK j \in Nat : j = g + 15 /\ j + 1 = g + 16 /\ j + 1 = (g + 14) + 2
        OBVIOUS
      <4>2. w[j + 1] = Put(Le16(0))
        BY <1>4, <2>1, <4>1 DEF CreateAt
      <4>3. q[j] = (m + 4) + d
        <5>1. q[j] = m + 17 + t + pad /\ d = t + 13 + pad
          BY <1>5, <1>7, <2>1, <4>1
        <5> QED BY <5>1
      <4>4. j + 1 <= L /\ j + 1 # place /\ (m + 4) + d + 2 <= n
        BY <1>2, <1>7, <1>9, <4>1
      <4>5. Len(Le16(0)) = 2
        BY SmallBytes, SmallShort, TwoBytes
      <4> QED BY <1>2, <1>14, <4>2, <4>3, <4>4, <4>5, PutSaid
    <3>4. FromLe16(SubSeq(p, Len(p) - 1, Len(p))) = 0
      BY <1>15, <3>3, DomainSaid
    <3> QED BY <2>1, <3>1, <3>4
  <2>2. CASE r.op # "participant"
    <3>1. p[5] # EntityKind.participant
      BY <1>17, <2>2, KindTells
    <3>2. Spells(p, t + 13, Be16(r.parent))
      <4>1. PICK j \in Nat : j = g + 14 /\ j + 1 = (g + 14) + 1
        OBVIOUS
      <4>2. w[j + 1] = Put(Be16(r.parent))
        BY <1>4, <2>2, <4>1 DEF CreateAt
      <4>3. q[j] = (m + 4) + (t + 13)
        <5>1. q[j] = m + 17 + t
          BY <1>6, <4>1
        <5> QED BY <5>1
      <4>4. j + 1 <= L /\ j + 1 # place /\ (m + 4) + (t + 13) + 2 <= n
        BY <1>2, <1>7, <1>9, <4>1
      <4>5. Len(Be16(r.parent)) = 2
        BY <1>8, TwoBytes
      <4>6. PICK e \in Nat : e = t + 13 /\ q[j] = (m + 4) + e /\ (m + 4) + e + 2 <= n
        BY <4>3, <4>4
      <4>7. PICK x : x = Be16(r.parent) /\ Len(x) = 2 /\ w[j + 1] = Put(x)
        BY <4>2, <4>5
      <4>10. PICK l \in Nat : l = 2 /\ l = Len(x) /\ (m + 4) + e + l <= n
        BY <4>6, <4>7
      <4>8. j + 1 <= L /\ j + 1 # place /\ q[j] = (m + 4) + e
        BY <4>4, <4>6
      <4>9. Spells(p, e, x)
        BY <1>2, <1>14, <4>7, <4>8, <4>10, PutSaid
      <4> QED BY <4>6, <4>7, <4>9
    <3>3. Len(p) = t + 15
      BY <1>7, <1>15, <2>2
    <3>4. Id(AfterString(p, 8), 0) = r.parent
      BY <1>1, <1>8, <1>15, <1>21, <3>2, <3>3, ParentSaid
    <3> QED BY <2>2, <3>1, <3>4
  <2> QED BY <2>1, <2>2
<1>23. CreateHeard(p) = BodyMeant(r)
  <2>1. BodyMeant(r) = [req |-> r.req, oid |-> r.oid, kind |-> EntityKind[r.op],
                        repr |-> ReprAsXml, xml |-> xml,
                        tail |-> IF r.op = "participant" THEN 0 ELSE r.parent]
    <3>1. r.op # "client" /\ r.op # "read" /\ r.op # "write"
      BY DEF XmlOps, FormattedOps
    <3> QED BY <3>1 DEF BodyMeant
  <2>2. CreateHeard(p) = [req |-> r.req, oid |-> r.oid, kind |-> EntityKind[r.op],
                          repr |-> ReprAsXml, xml |-> Text(r),
                          tail |-> IF r.op = "participant" THEN 0 ELSE r.parent]
    BY <1>16, <1>17, <1>18, <1>21, <1>22, Zenon DEF CreateHeard
  <2> QED BY <2>1, <2>2
<1>24. BodyHeard(SubmsgCreate, p) = BodyMeant(r)
  <2>1. SubmsgCreate = 1 /\ 1 # 0 /\ 1 # 7 /\ 1 # 8
    BY DEF SubmsgCreate
  <2> QED BY <1>23, <2>1 DEF BodyHeard
<1>25. HeardAs(b, r.sid, StreamBestEffort, r.seq, SubmsgCreate, FlagsCreate, BodyMeant(r))
  BY <1>3, <1>10, <1>11, <1>13, <1>14, <1>24, HeardIs
<1>26. Meant(r) = [sid |-> r.sid, stream |-> StreamBestEffort, seq |-> r.seq,
                   key |-> IF r.sid < SessionIdWithoutClientKey THEN ClientKey ELSE <<>>,
                   id |-> 1, flags |-> FlagsCreate, rest |-> 0, body |-> BodyMeant(r)]
  <2>1. r.op # "client" /\ r.op # "read" /\ r.op # "write"
    BY DEF XmlOps, FormattedOps
  <2> QED BY <2>1 DEF Meant
<1> QED BY <1>25, <1>26 DEF HeardAs, SubmsgCreate


-----------------------------------------------------------------------------
(* The messages that are sent. *)

\* Whatever the request, the bytes its list left are heard as it was meant.
LEMMA MessageSaid ==
  ASSUME build \in Build, request \in build.requests, xml = Text(request),
         NEW w, NEW B, NEW old, NEW place, Given(w, B, old, place),
         NEW q, NEW h, NEW L, Complete(w, q, h, B, place, old, L),
         NEW b, NEW n \in Nat, Sends(b, n), n <= TxLen(request),
         request.op # "write" => n = q[L]
  PROVE  Heard(b) = Meant(request)
<1>1. PICK r \in Request : r = request
  BY BuildIs
<1>2. w = Encode(r) /\ B = BufSize(r) /\ old = Buffer(r) /\ place = Place(r) /\ xml = Text(r)
  BY <1>1 DEF Given
<1>3. Text(r) \in Seq(Byte)
  BY <1>1, TextSeq
<1>4. Fits16(n)
  <2>1. TxLen(request) \in Nat /\ TxLen(request) <= 65535
    BY TxLenIs
  <2> QED BY <2>1 DEF Fits16
<1>5. /\ q[L] \in Nat /\ q[L] <= B /\ B \in Nat /\ Shape(r, w, q, h, B) /\ L = Len(w)
      /\ Untouched(q, B, old, L)
  BY <1>1 DEF Complete, Stage, Listed
<1>6. CASE r.op # "write"
  <2>1. n = q[L] /\ q[L] <= n
    BY <1>1, <1>5, <1>6
  <2>2. place = HeaderCalls(r.sid) + 5
    BY <1>2, <1>6 DEF Place
  <2>3. Holds(w, q, h, B, place, L, b, n)
    BY <2>1, HoldsSent
  <2>4. Holds(w, q, h, B, HeaderCalls(r.sid) + 5, L, b, n) /\ q[L] = n
    BY <2>1, <2>2, <2>3
  <2>5. CASE r.op = "client"
    <3>1. ClientList(w, r)
      BY <1>2, <2>5, ClientCalls
    <3> QED BY <1>1, <1>4, <2>4, <2>5, <3>1, ClientSaid
  <2>6. CASE r.op = "read"
    <3>1. ReadList(w, r)
      BY <1>2, <2>6, ReadCalls
    <3> QED BY <1>1, <1>4, <2>4, <2>6, <3>1, ReadSaid
  <2>7. CASE r.op \in XmlOps
    <3>1. CreateList(w, r)
      BY <1>2, <1>3, <2>7, CreateCalls
    <3> QED BY <1>1, <1>2, <1>3, <1>4, <2>4, <2>7, <3>1, CreateSaid
  <2>8. r.op \in XmlOps \cup {"client", "read", "write"}
    BY RequestFields
  <2> QED BY <1>6, <2>5, <2>6, <2>7, <2>8
<1>7. CASE r.op = "write"
  <2>1. PICK m \in Nat, l \in Nat : m = Prefix(r.sid) /\ l = Len(r.body)
    <3>1. r.sid \in Byte /\ r.body \in Seq(Byte)
      BY RequestFields
    <3>2. PICK k \in Nat : k = MsgHeaderLen(r.sid)
      BY <3>1, HeaderSizes
    <3>3. Prefix(r.sid) \in Nat
      BY <3>2 DEF Prefix
    <3> QED BY <3>1, <3>3, LenProperties
  <2>2. B = m + l /\ q[L] = m
    BY <1>2, <1>5, <1>7, <2>1 DEF BufSize, Shape
  <2>3. n = B /\ n = Len(b)
    <3>1. n = SizeOf(r) /\ n = Len(b)
      BY <1>1 DEF Sends
    <3>2. PICK k \in Nat : k = MsgHeaderLen(r.sid)
      <4>1. r.sid \in Byte
        BY RequestFields
      <4> QED BY <4>1, HeaderSizes
    <3>3. SizeOf(r) = k + 4 + (4 + l)
      <4>1. r.op # "client" /\ r.op # "participant" /\ r.op # "read"
            /\ r.op \notin XmlOps \ {"participant"}
        BY <1>7 DEF XmlOps, FormattedOps
      <4> QED BY <1>7, <2>1, <3>2, <4>1 DEF SizeOf
    <3>4. m = k + 4 + 4
      BY <2>1, <3>2 DEF Prefix
    <3>5. B = k + 4 + (4 + l)
      BY <2>1, <2>2, <3>2, <3>4, SMTT(60)
    <3> QED BY <3>1, <3>3, <3>5
  <2>4. place = 0
    BY <1>2, <1>7 DEF Place
  <2>5. Holds(w, q, h, B, place, L, b, n)
    BY <2>1, <2>2, <2>3, HoldsSent
  <2>6. Holds(w, q, h, B, 0, L, b, B) /\ Fits16(B)
    BY <1>4, <2>3, <2>4, <2>5
  <2>7. Spells(b, m, r.body)
    <3> SUFFICES ASSUME NEW i \in 1 .. l PROVE b[m + i] = r.body[i]
      BY <2>1 DEF Spells
    <3>1. PICK j \in Nat : j = m + i /\ j \in 1 .. B /\ j > m /\ j - m = i
      BY <2>2
    <3>2. b[j] = buf[j]
      BY <2>3, <3>1 DEF Sends
    <3>3. buf[j] = old[j]
      BY <1>5, <2>2, <3>1 DEF Untouched
    <3>4. old[j] = r.body[j - m]
      BY <1>2, <1>7, <2>1, <2>2, <3>1 DEF Buffer
    <3> QED BY <3>1, <3>2, <3>3, <3>4
  <2>8. WriteList(w, r)
    BY <1>2, <1>7, WriteCalls
  <2>9. B = Prefix(r.sid) + Len(r.body) /\ Spells(b, Prefix(r.sid), r.body)
    BY <2>1, <2>2, <2>7
  <2> QED BY <1>1, <1>7, <2>6, <2>8, <2>9, WriteSaid
<1> QED BY <1>6, <1>7

LEMMA SendInv ==
  ASSUME EncInv, Send
  PROVE  EncInv'
<1>1. /\ wstate = "encoding" /\ calls = <<>> /\ wstate' = "sent" /\ build' = build
      /\ request' = request /\ xml' = xml /\ buf' = buf /\ pos' = pos /\ hdr' = hdr
      /\ overflow' = overflow
  BY DEF Send
<1>2. build \in Build /\ request \in build.requests /\ Asked /\ xml = Text(request)
  BY <1>1 DEF EncInv, WriterTypeOK, Asked
<1>3. PICK w, B, old, place : Given(w, B, old, place)
  BY GivenExists
<1>4. PICK q, h, L : Complete(w, q, h, B, place, old, L)
  BY <1>1, <1>3, AllMade
<1>5. PICK n \in Nat : Sends(frame', n) /\ n <= TxLen(request) /\ (request.op # "write" => n = q[L])
  BY <1>3, <1>4, SendFrame
<1>6. PICK b : b = frame'
  OBVIOUS
<1>7. Heard(b) = Meant(request)
  BY <1>2, <1>3, <1>4, <1>5, <1>6, MessageSaid
<1>8. HeardAsMeant'
  <2>1. Heard(frame)' = Heard(b)
    BY <1>6 DEF Heard, HeaderHas, Payload, ClientHeard, CreateHeard, ReadHeard, WriteHeard,
                StringAt, AfterString, Id
  <2>2. Meant(request)' = Meant(request)
    BY <1>1 DEF Meant, BodyMeant
  <2> QED BY <1>7, <2>1, <2>2 DEF HeardAsMeant
<1>9. RefusedIfTooLong'
  <2>1. Len(frame') = n /\ n = SizeOf(request)
    BY <1>5 DEF Sends
  <2>2. SizeOf(request)' = SizeOf(request) /\ TxLen(request)' = TxLen(request)
    BY <1>1 DEF SizeOf, TxLen
  <2>3. Len(frame') = SizeOf(request)' /\ SizeOf(request)' <= TxLen(request)'
    BY <1>1, <1>5, <2>1, <2>2
  <2> QED BY <1>1, <2>3 DEF RefusedIfTooLong
<1>10. WriterTypeOK'
  <2>1. frame' \in Seq(Byte)
    BY <1>5 DEF Sends
  <2> QED BY <1>1, <2>1 DEF EncInv, WriterTypeOK
<1>11. Asked'
  BY <1>1, <1>2, SameRequest DEF Asked
<1>12. wstate' # "start" /\ wstate' # "encoding"
  BY <1>1
<1> QED BY <1>8, <1>9, <1>10, <1>11, <1>12 DEF EncInv

LEMMA InitEnc == Init => EncInv
<1> SUFFICES ASSUME Init PROVE EncInv
  OBVIOUS
<1>1. WriterTypeOK
  <2>1. DOMAIN buf = {} /\ buf \in [{} -> Byte \cup {Stale}]
    BY DEF Init
  <2>2. xml \in Seq(Byte) /\ frame \in Seq(Byte)
    BY EmptySeq DEF Init
  <2> QED BY <2>1, <2>2 DEF Init, WriterTypeOK
<1> QED BY <1>1 DEF Init, EncInv, HeardAsMeant, RefusedIfTooLong

\* Nothing changes.
LEMMA StutterEnc ==
  ASSUME EncInv, UNCHANGED vars
  PROVE  EncInv'
<1>1. /\ build' = build /\ request' = request /\ xml' = xml /\ calls' = calls /\ buf' = buf
      /\ pos' = pos /\ overflow' = overflow /\ hdr' = hdr /\ wstate' = wstate /\ frame' = frame
  BY DEF vars
<1>2. WriterTypeOK'
  BY <1>1 DEF EncInv, WriterTypeOK
<1>3. Asked <=> Asked'
  BY <1>1, SameRequest DEF Asked
<1>4. HeardAsMeant'
  <2>1. Heard(frame)' = Heard(frame)
    BY <1>1 DEF Heard, HeaderHas, Payload, ClientHeard, CreateHeard, ReadHeard, WriteHeard,
                StringAt, AfterString, Id
  <2>2. Meant(request)' = Meant(request)
    BY <1>1 DEF Meant, BodyMeant
  <2> QED BY <1>1, <2>1, <2>2 DEF EncInv, HeardAsMeant
<1>5. RefusedIfTooLong'
  <2>1. SizeOf(request)' = SizeOf(request) /\ TxLen(request)' = TxLen(request)
    BY <1>1 DEF SizeOf, TxLen
  <2>2. TopicTooLong(request)' = TopicTooLong(request)
    BY <1>1, SameRequest
  <2> QED BY <1>1, <2>1, <2>2 DEF EncInv, RefusedIfTooLong
<1>6. ASSUME Writing PROVE Writing'
  <2>1. PICK w, B, old, place : Given(w, B, old, place)
    BY GivenExists
  <2>2. PICK q, h : \E c \in Nat : Lay(w, q, h, B) /\ Stage(w, q, h, B, place, old, c)
    BY <1>6, <2>1 DEF Writing, Given
  <2>3. PICK c \in Nat : Stage(w, q, h, B, place, old, c)
    BY <2>2
  <2>4. Stage(w, q, h, B, place, old, c)'
    BY <1>1, <2>3 DEF Stage, Wrote, Untouched, Known, LengthIn
  <2>5. Given(w, B, old, place)'
    BY <1>1, <2>1, SameRequest DEF Given
  <2> QED BY <2>2, <2>4, <2>5 DEF Writing, Given
<1> QED BY <1>1, <1>2, <1>3, <1>4, <1>5, <1>6 DEF EncInv

LEMMA EncInductive == Spec => []EncInv
<1>1. Init => EncInv
  BY InitEnc
<1>2. ASSUME EncInv, [Next]_vars PROVE EncInv'
  <2>1. CASE Start
    BY <1>2, <2>1, StartInv
  <2>2. CASE RefuseTopic
    BY <1>2, <2>2, RefuseInv
  <2>3. CASE Calls
    BY <1>2, <2>3, CallInv
  <2>4. CASE CheckFails
    BY <1>2, <2>4, CheckFailsInv
  <2>5. CASE Send
    BY <1>2, <2>5, SendInv
  <2>6. CASE UNCHANGED vars
    BY <1>2, <2>6, StutterEnc
  <2> QED BY <1>2, <2>1, <2>2, <2>3, <2>4, <2>5, <2>6 DEF Next, Calls
<1> QED BY <1>1, <1>2, PTL DEF Spec

-----------------------------------------------------------------------------

\* The writer never leaves its types: its buffer keeps its size and holds
\* bytes, and what write_framed gets are bytes that were all written, for every
\* size of the buffers, every text and every order of calls.
THEOREM WriterTypeCorrect == Spec => []WriterTypeOK
<1>1. EncInv => WriterTypeOK
  BY DEF EncInv
<1> QED BY <1>1, EncInductive, PTL

\* Every message is read by the agent as the session meant it: for every session
\* id, number, name, type, body and buffer size the constants allow.
THEOREM MessagesAreHeard == Spec => []HeardAsMeant
<1>1. EncInv => HeardAsMeant
  BY DEF EncInv
<1> QED BY <1>1, EncInductive, PTL

\* BufferTooSmall is returned for the messages that do not fit, and for no other.
THEOREM RefusesOnlyTheTooLong == Spec => []RefusedIfTooLong
<1>1. EncInv => RefusedIfTooLong
  BY DEF EncInv
<1> QED BY <1>1, EncInductive, PTL

\* MsgWriter::bytes never slices its buffer behind its end.
THEOREM SlicesStayInRange == Spec => []SlicesInRange
<1>1. ASSUME EncInv PROVE SlicesInRange
  <2> SUFFICES ASSUME Calling({"bytes", "rest_len"}) PROVE pos <= BufLen
    BY DEF SlicesInRange
  <2>1. wstate = "encoding" /\ calls # <<>> /\ Head(calls).call \in {"bytes", "rest_len"}
    BY DEF Calling
  <2>2. build \in Build /\ request \in build.requests /\ Writing
    BY <1>1, <2>1 DEF EncInv, WriterTypeOK
  <2>3. PICK w, B, old, place : Given(w, B, old, place)
    BY GivenExists
  <2>4. PICK q, h : \E c \in Nat : Listed(w, q, h, B, place) /\ Stage(w, q, h, B, place, old, c)
    BY <2>2, <2>3, WhileEncoding
  <2>5. PICK c \in Nat : Stage(w, q, h, B, place, old, c)
    BY <2>4
  <2>6. NextIs(w, q, h, B, c)
    BY <2>1, <2>4, <2>5, NextCall
  <2>7. B \in Nat /\ Slices(w, q, B)
    BY <2>4 DEF Listed
  <2>8. PICK j : j = c + 1 /\ j \in 1 .. Len(w) /\ j - 1 = c
    BY <2>6 DEF NextIs
  <2>9. w[j].call \in {"bytes", "rest_len"}
    BY <2>1, <2>6, <2>8 DEF NextIs
  <2>10. Passed(w, q, B, j - 1)
    BY <2>5, <2>8 DEF Stage
  <2>11. q[j - 1] <= B
    BY <2>7, <2>8, <2>9, <2>10 DEF Slices
  <2>12. pos = q[c] /\ BufLen = B
    BY <2>5, <2>7, BufSeq DEF Stage
  <2> QED BY <2>8, <2>11, <2>12
<1> QED BY <1>1, EncInductive, PTL

=============================================================================
