---------------------------- MODULE ParsersProofs ----------------------------
(***************************************************************************)
(* Proofs about Parsers, for all frames of any number of submessages.      *)
(*                                                                         *)
(* The first submessage of a frame is at its front (FirstInFront), so that *)
(* of a frame in the buffer, whole or cut, the parsers see the header and  *)
(* a part of the payload of the first submessage (FirstSeen), and nothing  *)
(* else.                                                                   *)
(***************************************************************************)
EXTENDS ParsersProperties, BytesProofs

-----------------------------------------------------------------------------
(* The payload. *)

\* The payload of a submessage: what the readers of its kind look for.
LEMMA PayloadHas ==
  ASSUME NEW sub \in Sub, NEW p, p = PayloadOf(sub)
  PROVE  /\ p \in Seq(Byte) /\ Len(p) \in Short /\ Len(p) >= 4
         /\ sub.id = SubmsgStatusAgent => p[1] = sub.status
         /\ sub.id = SubmsgStatus =>
              /\ Len(p) = 6
              /\ FromBe16(<<p[1], p[2]>>) = sub.req
              /\ p[5] = sub.status
         /\ sub.id = SubmsgData =>
              /\ Len(p) = 4 + Len(sub.user)
              /\ FromBe16(<<p[3], p[4]>>) = sub.oid
              /\ \A i \in 1 .. Len(sub.user) : p[4 + i] = sub.user[i]
<1> USE DEF SubmsgStatusAgent, SubmsgStatus, SubmsgData, SubmsgHeartbeat
<1> DEFINE req == Be16(sub.req)
           oid == Be16(sub.oid)
<1>1. /\ sub.id \in {4, 5, 9, 11} /\ sub.status \in Byte
      /\ sub.user \in Seq(Byte) /\ Len(sub.user) \in Nat /\ 4 + Len(sub.user) \in Short
  BY LenProperties DEF Sub
<1>2. /\ req \in Seq(Byte) /\ Len(req) = 2 /\ FromBe16(<<req[1], req[2]>>) = sub.req
      /\ oid \in Seq(Byte) /\ Len(oid) = 2 /\ FromBe16(<<oid[1], oid[2]>>) = sub.oid
  BY TwoBytes DEF Sub
<1> HIDE DEF req, oid
<1>3. CASE sub.id = 4
  <2>1. p = <<sub.status, 0, 0, 0>>
    BY <1>3 DEF PayloadOf
  <2>2. p \in Seq(Byte) /\ Len(p) = 4 /\ p[1] = sub.status
    BY <1>1, <2>1 DEF Byte
  <2>3. Len(p) \in Short
    BY <2>2, SmallShort DEF Byte
  <2> QED BY <1>3, <2>2, <2>3
<1>4. CASE sub.id = 5
  <2>1. p = req \o oid \o <<sub.status, 0>>
    BY <1>4 DEF PayloadOf, req, oid
  <2>2. PICK c : c = <<sub.status, 0>>
    OBVIOUS
  <2>3. c \in Seq(Byte) /\ Len(c) = 2 /\ c[1] = sub.status
    BY <1>1, <2>2 DEF Byte
  <2>4. /\ p \in Seq(Byte) /\ Len(p) = 6
        /\ \A i \in 1 .. 6 :
             p[i] = IF i <= 2 THEN req[i] ELSE IF i <= 4 THEN oid[i - 2] ELSE c[i - 4]
    <3>1. p = req \o oid \o c
      BY <2>1, <2>2
    <3> DEFINE s == req \o oid \o c
    <3>2. /\ s \in Seq(Byte) /\ Len(s) = Len(req) + Len(oid) + Len(c)
          /\ \A i \in 1 .. Len(req) + Len(oid) + Len(c) :
               s[i] = IF i <= Len(req) THEN req[i]
                      ELSE IF i <= Len(req) + Len(oid) THEN oid[i - Len(req)]
                      ELSE c[i - (Len(req) + Len(oid))]
      <4>1. req \in Seq(Byte) /\ oid \in Seq(Byte) /\ c \in Seq(Byte)
        BY <1>2, <2>3
      <4> QED BY <4>1, Concat3, ZenonT(60)
    <3> HIDE DEF s
    <3>3. Len(req) = 2 /\ Len(oid) = 2 /\ Len(c) = 2
      BY <1>2, <2>3
    <3>4. /\ s \in Seq(Byte) /\ Len(s) = 6
          /\ \A i \in 1 .. 6 :
             s[i] = IF i <= 2 THEN req[i] ELSE IF i <= 4 THEN oid[i - 2] ELSE c[i - 4]
      BY <3>2, <3>3
    <3>5. p = s
      BY <3>1 DEF s
    <3> QED BY <3>4, <3>5
  <2>5. p[1] = req[1] /\ p[2] = req[2] /\ p[5] = sub.status
    BY <2>3, <2>4
  <2>6. Len(p) \in Short
    BY <2>4, SmallShort DEF Byte
  <2> QED BY <1>2, <1>4, <2>4, <2>5, <2>6
<1>5. CASE sub.id = 9
  <2>1. p = req \o oid \o sub.user
    <3>1. sub.id # 4 /\ sub.id # 5 /\ sub.id # 11
      BY <1>5
    <3> QED BY <1>5, <3>1, Zenon DEF PayloadOf, req, oid
  <2>2. /\ p \in Seq(Byte) /\ Len(p) = 4 + Len(sub.user)
        /\ \A i \in 1 .. Len(p) :
             p[i] = IF i <= 2 THEN req[i] ELSE IF i <= 4 THEN oid[i - 2] ELSE sub.user[i - 4]
    <3> DEFINE s == req \o oid \o sub.user
    <3>1. /\ s \in Seq(Byte) /\ Len(s) = Len(req) + Len(oid) + Len(sub.user)
          /\ \A i \in 1 .. Len(req) + Len(oid) + Len(sub.user) :
               s[i] = IF i <= Len(req) THEN req[i]
                      ELSE IF i <= Len(req) + Len(oid) THEN oid[i - Len(req)]
                      ELSE sub.user[i - (Len(req) + Len(oid))]
      <4>1. req \in Seq(Byte) /\ oid \in Seq(Byte) /\ sub.user \in Seq(Byte)
        BY <1>1, <1>2
      <4> QED BY <4>1, Concat3, ZenonT(60)
    <3> HIDE DEF s
    <3>2. Len(req) = 2 /\ Len(oid) = 2 /\ Len(sub.user) \in Nat
      BY <1>1, <1>2
    <3>3. /\ s \in Seq(Byte) /\ Len(s) = 4 + Len(sub.user)
          /\ \A i \in 1 .. Len(s) :
             s[i] = IF i <= 2 THEN req[i] ELSE IF i <= 4 THEN oid[i - 2] ELSE sub.user[i - 4]
      BY <3>1, <3>2
    <3>4. p = s
      BY <2>1 DEF s
    <3> QED BY <3>3, <3>4
  <2>3. p[3] = oid[1] /\ p[4] = oid[2]
    BY <1>1, <2>2
  <2>4. \A i \in 1 .. Len(sub.user) : p[4 + i] = sub.user[i]
    BY <1>1, <2>2
  <2> QED BY <1>1, <1>2, <1>5, <2>2, <2>3, <2>4
<1>6. CASE sub.id = 11
  <2>1. p = <<0, 0, 0, 0, 128>>
    BY <1>6 DEF PayloadOf
  <2>2. p \in Seq(Byte) /\ Len(p) = 5
    BY <2>1 DEF Byte
  <2>3. Len(p) \in Short
    BY <2>2, SmallShort DEF Byte
  <2> QED BY <1>6, <2>2, <2>3
<1> QED BY <1>1, <1>3, <1>4, <1>5, <1>6

-----------------------------------------------------------------------------
(* The bytes of the submessages. *)

\* The bytes of one submessage at the front of a frame.
First(sub) == <<sub.id, 1>> \o Le16(Len(PayloadOf(sub))) \o PayloadOf(sub)

\* sub behind the bytes before.
Behind(before, sub) ==
  before \o [i \in 1 .. Padding(Len(before), 4) |-> 0]
    \o <<sub.id, 1>> \o Le16(Len(PayloadOf(sub))) \o PayloadOf(sub)

\* b has the bytes of the first k of subs.
Gathers(b, subs, k) ==
  b = [n \in 0 .. k |-> IF n = 0 THEN <<>> ELSE Behind(b[n - 1], subs[n])]

LEMMA FirstBytes ==
  ASSUME NEW sub \in Sub, NEW p, p = PayloadOf(sub), NEW f, f = First(sub)
  PROVE  /\ f \in Seq(Byte) /\ Len(f) = 4 + Len(p)
         /\ f[1] = sub.id /\ FromLe16(<<f[3], f[4]>>) = Len(p)
         /\ \A i \in 1 .. Len(p) : f[4 + i] = p[i]
<1> DEFINE le == Le16(Len(p))
<1>1. p \in Seq(Byte) /\ Len(p) \in Short /\ Len(p) >= 4
  BY PayloadHas
<1>2. le \in Seq(Byte) /\ Len(le) = 2 /\ FromLe16(<<le[1], le[2]>>) = Len(p)
  BY <1>1, TwoBytes
<1>3. <<sub.id, 1>> \in Seq(Byte)
  BY DEF Sub, Byte
<1>4. f = <<sub.id, 1>> \o le \o p
  BY DEF First
<1> HIDE DEF le
<1>5. PICK a : a = <<sub.id, 1>>
  OBVIOUS
<1>6. a \in Seq(Byte) /\ Len(a) = 2 /\ a[1] = sub.id
  BY <1>3, <1>5
<1>7. Len(p) \in Nat
  BY <1>1, ShortNat
<1>8. /\ f \in Seq(Byte) /\ Len(f) = 4 + Len(p)
      /\ \A i \in 1 .. Len(f) :
           f[i] = IF i <= 2 THEN a[i] ELSE IF i <= 4 THEN le[i - 2] ELSE p[i - 4]
  <2> DEFINE s == a \o le \o p
  <2>1. f = s
    BY <1>4, <1>5
  <2>2. /\ s \in Seq(Byte) /\ Len(s) = Len(a) + Len(le) + Len(p)
        /\ \A i \in 1 .. Len(a) + Len(le) + Len(p) :
             s[i] = IF i <= Len(a) THEN a[i]
                    ELSE IF i <= Len(a) + Len(le) THEN le[i - Len(a)]
                    ELSE p[i - (Len(a) + Len(le))]
    <3>1. a \in Seq(Byte) /\ le \in Seq(Byte) /\ p \in Seq(Byte)
      BY <1>1, <1>2, <1>6
    <3> QED BY <3>1, Concat3, ZenonT(60)
  <2> HIDE DEF s
  <2>3. Len(a) = 2 /\ Len(le) = 2
    BY <1>2, <1>6
  <2> QED BY <1>7, <2>1, <2>2, <2>3
<1>9. f[1] = sub.id /\ f[3] = le[1] /\ f[4] = le[2]
  BY <1>6, <1>7, <1>8
<1>10. FromLe16(<<f[3], f[4]>>) = Len(p)
  BY <1>2, <1>9
<1>11. \A i \in 1 .. Len(p) : f[4 + i] = p[i]
  <2> TAKE i \in 1 .. Len(p)
  <2>1. 4 + i \in 1 .. Len(f) /\ (4 + i) - 4 = i /\ ~(4 + i <= 2) /\ ~(4 + i <= 4)
    BY <1>7, <1>8
  <2> QED BY <1>8, <2>1
<1> QED BY <1>8, <1>9, <1>10, <1>11

LEMMA FirstIsBytes ==
  ASSUME NEW sub \in Sub PROVE First(sub) \in Seq(Byte)
<1>1. PICK p, f : p = PayloadOf(sub) /\ f = First(sub)
  OBVIOUS
<1> QED BY <1>1, FirstBytes

LEMMA Lengths ==
  ASSUME NEW sub \in Sub, NEW p, p = PayloadOf(sub), NEW f, f = First(sub)
  PROVE  Len(p) \in Nat /\ Len(p) >= 4 /\ Len(f) = 4 + Len(p)
<1>1. Len(p) \in Short /\ Len(p) >= 4
  BY PayloadHas, Zenon
<1>2. Len(f) = 4 + Len(p)
  BY FirstBytes, Zenon
<1> QED BY <1>1, <1>2, ShortNat

\* What is behind a sequence of bytes begins with it, unless it is empty.
LEMMA BehindBegins ==
  ASSUME NEW before \in Seq(Byte), NEW sub \in Sub
  PROVE  /\ Behind(before, sub) \in Seq(Byte)
         /\ Begins(Behind(before, sub), before)
         /\ before = <<>> => Behind(before, sub) = First(sub)
<1> DEFINE zeros == [i \in 1 .. Padding(Len(before), 4) |-> 0]
<1>1. Padding(Len(before), 4) \in 0 .. 3
  BY LenProperties DEF Padding
<1>2. zeros \in Seq(Byte)
  <2>1. \A i \in 1 .. Padding(Len(before), 4) : 0 \in Byte
    BY DEF Byte
  <2> QED BY <1>1, <2>1
<1> HIDE DEF zeros
<1>3. First(sub) \in Seq(Byte)
  BY FirstIsBytes
<1>4. Behind(before, sub) = before \o (zeros \o First(sub))
  <2> DEFINE a == <<sub.id, 1>>
             p == PayloadOf(sub)
             l == Le16(Len(p))
  <2>1. Behind(before, sub) = before \o zeros \o a \o l \o p /\ First(sub) = a \o l \o p
    BY DEF Behind, First, zeros
  <2>2. a \in Seq(Byte)
    BY DEF Sub, Byte
  <2>3. l \in Seq(Byte) /\ p \in Seq(Byte)
    BY PayloadHas, TwoBytes
  <2> HIDE DEF a, p, l
  <2>4. before \o zeros \in Seq(Byte) /\ a \o l \in Seq(Byte)
    BY <1>2, <2>2, <2>3
  <2>5. (before \o zeros) \o a \o l = (before \o zeros) \o (a \o l)
    <3>1. PICK bz \in Seq(Byte) : bz = before \o zeros
      BY <2>4
    <3>2. (bz \o a) \o l = bz \o (a \o l)
      BY <2>2, <2>3, Associative, ZenonT(60)
    <3> QED BY <3>1, <3>2
  <2>6. (before \o zeros) \o (a \o l) \o p = (before \o zeros) \o (a \o l \o p)
    BY <2>3, <2>4, Associative, ZenonT(60)
  <2>7. a \o l \o p \in Seq(Byte)
    BY <2>3, <2>4
  <2>8. (before \o zeros) \o (a \o l \o p) = before \o (zeros \o (a \o l \o p))
    BY <1>2, <2>7, Associative, ZenonT(60)
  <2> QED BY <2>1, <2>5, <2>6, <2>8
<1>5. zeros \o First(sub) \in Seq(Byte)
  BY <1>2, <1>3
<1>6. Behind(before, sub) \in Seq(Byte) /\ Begins(Behind(before, sub), before)
  BY <1>4, <1>5 DEF Begins
<1>7. ASSUME before = <<>> PROVE Behind(before, sub) = First(sub)
  <2>1. Padding(Len(before), 4) = 0
    BY <1>7 DEF Padding
  <2>2. zeros = <<>>
    BY <2>1 DEF zeros
  <2> QED BY <1>3, <1>4, <1>7, <2>2
<1> QED BY <1>6, <1>7

\* The bytes of any number of submessages can be gathered.
LEMMA GatheredExists ==
  ASSUME NEW subs \in Seq(Sub), NEW k \in 0 .. Len(subs)
  PROVE  \E b : Gathers(b, subs, k)
<1> DEFINE G == {n \in Nat : n <= Len(subs) => \E b : Gathers(b, subs, n)}
<1>1. 0 \in G
  <2>1. Gathers([n \in 0 .. 0 |-> <<>>], subs, 0)
    BY DEF Gathers
  <2> QED BY <2>1
<1>2. ASSUME NEW n \in G PROVE n + 1 \in G
  <2> SUFFICES ASSUME n + 1 <= Len(subs) PROVE \E b : Gathers(b, subs, n + 1)
    OBVIOUS
  <2>1. n \in Nat /\ n <= Len(subs)
    OBVIOUS
  <2>2. PICK b : Gathers(b, subs, n)
    BY <2>1
  <2> DEFINE c == [i \in 0 .. n + 1 |->
                     IF i = n + 1 THEN Behind(b[n], subs[n + 1]) ELSE b[i]]
  <2>3. ASSUME NEW i \in 0 .. n + 1
        PROVE  c[i] = IF i = 0 THEN <<>> ELSE Behind(c[i - 1], subs[i])
    <3>1. CASE i = n + 1
      <4>1. c[i] = Behind(b[n], subs[n + 1]) /\ i # 0 /\ i - 1 = n
        BY <2>1, <3>1
      <4>2. c[n] = b[n]
        BY <2>1
      <4> QED BY <3>1, <4>1, <4>2
    <3>2. CASE i # n + 1
      <4>1. i \in 0 .. n /\ c[i] = b[i]
        BY <2>1, <3>2
      <4>2. b[i] = IF i = 0 THEN <<>> ELSE Behind(b[i - 1], subs[i])
        BY <2>2, <4>1 DEF Gathers
      <4>3. i # 0 => c[i - 1] = b[i - 1]
        BY <2>1, <4>1
      <4> QED BY <4>1, <4>2, <4>3
    <3> QED BY <3>1, <3>2
  <2>4. c = [i \in 0 .. n + 1 |-> c[i]]
    OBVIOUS
  <2> HIDE DEF c
  <2>5. Gathers(c, subs, n + 1)
    BY <2>3, <2>4 DEF Gathers
  <2> QED BY <2>5
<1> HIDE DEF G
<1>3. G = Nat
  <2>1. G \in SUBSET Nat
    BY DEF G
  <2> QED BY <1>1, <1>2, <2>1, Induct
<1>4. k \in G /\ k <= Len(subs)
  BY <1>3, LenProperties
<1> QED BY <1>4 DEF G

\* Each of the gathered is a sequence of bytes that begins with the first.
LEMMA GatheredBegins ==
  ASSUME NEW subs \in Seq(Sub), subs # <<>>, NEW b, Gathers(b, subs, Len(subs)),
         NEW k \in 1 .. Len(subs)
  PROVE  b[k] \in Seq(Byte) /\ Begins(b[k], First(subs[1]))
<1> DEFINE Good(n) == b[n] \in Seq(Byte) /\ Begins(b[n], First(subs[1]))
           G == {n \in Nat : n + 1 <= Len(subs) => Good(n + 1)}
<1>1. Len(subs) \in Nat /\ 1 <= Len(subs) /\ \A n \in 1 .. Len(subs) : subs[n] \in Sub
  BY LenProperties, EmptySeq, ElementOfSeq
<1>2. b[0] = <<>> /\ \A n \in 1 .. Len(subs) : b[n] = Behind(b[n - 1], subs[n])
  BY <1>1 DEF Gathers
<1>3. 0 \in G
  <2>1. b[1] = Behind(<<>>, subs[1])
    BY <1>1, <1>2
  <2>2. b[1] = First(subs[1])
    <3>1. subs[1] \in Sub /\ <<>> \in Seq(Byte)
      BY <1>1
    <3> QED BY <2>1, <3>1, BehindBegins
  <2>3. First(subs[1]) \in Seq(Byte)
    BY <1>1, FirstIsBytes
  <2> QED BY <2>2, <2>3, LenProperties DEF Begins
<1>4. ASSUME NEW n \in G PROVE n + 1 \in G
  <2> SUFFICES ASSUME n + 1 + 1 <= Len(subs) PROVE Good(n + 1 + 1)
    OBVIOUS
  <2>1. n \in Nat /\ Good(n + 1)
    BY <1>1
  <2>2. b[n + 1 + 1] = Behind(b[n + 1], subs[n + 1 + 1]) /\ subs[n + 1 + 1] \in Sub
    BY <1>1, <1>2, <2>1
  <2>3. b[n + 1 + 1] \in Seq(Byte) /\ Begins(b[n + 1 + 1], b[n + 1])
    BY <2>1, <2>2, BehindBegins
  <2>4. First(subs[1]) \in Seq(Byte)
    BY <1>1, FirstIsBytes
  <2> QED BY <2>1, <2>3, <2>4, LenProperties DEF Begins
<1> HIDE DEF G
<1>5. G = Nat
  <2>1. G \in SUBSET Nat
    BY DEF G
  <2> QED BY <1>3, <1>4, <2>1, Induct
<1>6. k - 1 \in G
  BY <1>5
<1>7. (k - 1) + 1 <= Len(subs) => Good((k - 1) + 1)
  BY <1>6 DEF G
<1> QED BY <1>1, <1>7

\* The first submessage is at the front of its frame.
LEMMA FirstInFront ==
  ASSUME NEW subs \in Seq(Sub), subs # <<>>
  PROVE  BytesOf(subs) \in Seq(Byte) /\ Begins(BytesOf(subs), First(subs[1]))
<1> DEFINE b == CHOOSE b : Gathers(b, subs, Len(subs))
<1>1. Len(subs) \in 1 .. Len(subs) /\ Len(subs) \in 0 .. Len(subs)
  BY LenProperties, EmptySeq
<1>2. Gathers(b, subs, Len(subs))
  BY <1>1, GatheredExists
<1>3. BytesOf(subs) = b[Len(subs)]
  BY DEF BytesOf, Gathers, Behind
<1> HIDE DEF b
<1> QED BY <1>1, <1>2, <1>3, GatheredBegins

-----------------------------------------------------------------------------
(* The frame in the buffer. *)

Whole(f) == FrameHeader \o BytesOf(f.subs)

\* The buffer begins with as much of the frame as came, and that is all of it
\* unless it was cut.
InBuffer ==
  /\ frame \in Frame
  /\ len <= Len(Whole(frame))
  /\ frame.cut = 0 => len = Len(Whole(frame))
  /\ \A i \in 1 .. len : rx[i] = Whole(frame)[i]

RxInv ==
  /\ ParserTypeOK
  /\ outcome = None => frames > 0
  /\ frames > 0 => InBuffer

\* The buffer, whoever the caller is.
LEMMA BufLenNat ==
  ASSUME NEW caller
  PROVE  BufLen(caller) \in Nat
BY ParsersAssumption DEF BufLen

LEMMA BufferHas ==
  ASSUME RxInv
  PROVE  \E size \in Nat : rx \in [1 .. size -> Byte] /\ len \in Nat /\ len <= size
<1>1. PICK size \in Nat : size = BufLen(mode)
  BY BufLenNat
<1> QED BY <1>1 DEF RxInv, ParserTypeOK

LEMMA FreshBytes ==
  ASSUME NEW caller
  PROVE  Fresh(caller) \in [1 .. BufLen(caller) -> Byte]
<1>1. 0 \in Byte
  BY DEF Byte
<1> QED BY <1>1 DEF Fresh

LEMMA HeaderBytes ==
  ASSUME sid \in SessionId
  PROVE  FrameHeader \in Seq(Byte) /\ Len(FrameHeader) = HdrLen /\ HdrLen \in {4, 8}
<1>1. sid \in Byte
  BY ParsersAssumption
<1>2. sid \in Nat
  BY <1>1 DEF Byte
<1>3. CASE sid < 128
  <2>1. FrameHeader = <<sid, 1, 0, 0, 9, 9, 9, 9>> /\ HdrLen = 8
    BY <1>3 DEF FrameHeader, HdrLen
  <2>2. 0 \in Byte /\ 1 \in Byte /\ 9 \in Byte
    BY DEF Byte
  <2> QED BY <1>1, <2>1, <2>2
<1>4. CASE ~(sid < 128)
  <2>1. FrameHeader = <<sid, 1, 0, 0>> /\ HdrLen = 4
    BY <1>4 DEF FrameHeader, HdrLen
  <2>2. 0 \in Byte /\ 1 \in Byte
    BY DEF Byte
  <2> QED BY <1>1, <2>1, <2>2
<1> QED BY <1>3, <1>4

LEMMA WholeBytes ==
  ASSUME sid \in SessionId, NEW f \in Frame, NEW b, b = BytesOf(f.subs),
         NEW w, w = Whole(f)
  PROVE  /\ w \in Seq(Byte) /\ b \in Seq(Byte) /\ Len(w) = HdrLen + Len(b)
         /\ \A i \in 1 .. Len(b) : w[HdrLen + i] = b[i]
<1>1. f.subs \in Seq(Sub) /\ f.subs # <<>>
  BY ParsersAssumption
<1>2. b \in Seq(Byte) /\ Len(b) \in Nat
  BY <1>1, FirstInFront, LenProperties
<1>3. PICK h \in Seq(Byte) : h = FrameHeader /\ Len(h) = HdrLen
  BY HeaderBytes
<1>4. HdrLen \in Nat
  BY HeaderBytes
<1>5. w = h \o b
  BY <1>3 DEF Whole
<1>6. /\ w \in Seq(Byte) /\ Len(w) = HdrLen + Len(b)
      /\ \A i \in 1 .. HdrLen + Len(b) : w[i] = IF i <= HdrLen THEN h[i] ELSE b[i - HdrLen]
  <2> DEFINE s == h \o b
  <2>1. /\ s \in Seq(Byte) /\ Len(s) = Len(h) + Len(b)
        /\ \A i \in 1 .. Len(h) + Len(b) : s[i] = IF i <= Len(h) THEN h[i] ELSE b[i - Len(h)]
    BY <1>2, ConcatProperties, ZenonT(60)
  <2> HIDE DEF s
  <2>2. w = s
    BY <1>5 DEF s
  <2> QED BY <1>3, <2>1, <2>2
<1>7. ASSUME NEW i \in 1 .. Len(b) PROVE w[HdrLen + i] = b[i]
  <2>1. HdrLen + i \in 1 .. HdrLen + Len(b) /\ ~(HdrLen + i <= HdrLen) /\ (HdrLen + i) - HdrLen = i
    BY <1>2, <1>4
  <2> QED BY <1>6, <2>1
<1> QED BY <1>2, <1>6, <1>7

\* Behind the header the buffer begins with the first submessage.
LEMMA FirstRead ==
  ASSUME RxInv, frames > 0, NEW sub, sub = frame.subs[1], NEW p, p = PayloadOf(sub),
         NEW f, f = First(sub)
  PROVE  /\ sub \in Sub
         /\ \A i \in 1 .. Len(f) : HdrLen + i <= len => rx[HdrLen + i] = f[i]
         /\ frame.cut = 0 => len >= HdrLen + Len(f)
<1>1. InBuffer /\ sid \in SessionId /\ len \in Nat
  BY DEF RxInv, ParserTypeOK
<1>2. frame.subs \in Seq(Sub) /\ frame.subs # <<>> /\ frame \in Frame
  BY <1>1, ParsersAssumption DEF InBuffer
<1>3. sub \in Sub
  BY <1>2, EmptySeq, ElementOfSeq
<1>4. PICK b, w : b = BytesOf(frame.subs) /\ w = Whole(frame)
  OBVIOUS
<1>5. Begins(b, f)
  BY <1>2, <1>4, FirstInFront
<1>6. /\ b \in Seq(Byte) /\ Len(w) = HdrLen + Len(b)
      /\ \A i \in 1 .. Len(b) : w[HdrLen + i] = b[i]
  BY <1>1, <1>2, <1>4, WholeBytes
<1>7. Len(f) \in Nat /\ Len(b) \in Nat /\ HdrLen \in Nat
  BY <1>1, <1>3, <1>6, FirstIsBytes, LenProperties, HeaderBytes
<1>8. ASSUME NEW i \in 1 .. Len(f), HdrLen + i <= len
      PROVE  rx[HdrLen + i] = f[i]
  <2>1. i \in 1 .. Len(b) /\ b[i] = f[i]
    BY <1>5, <1>7 DEF Begins
  <2>2. w[HdrLen + i] = b[i]
    BY <1>6, <2>1
  <2>3. HdrLen + i \in 1 .. len
    BY <1>1, <1>7, <1>8
  <2>4. rx[HdrLen + i] = w[HdrLen + i]
    BY <1>1, <1>4, <2>3 DEF InBuffer
  <2> QED BY <2>1, <2>2, <2>4
<1>9. frame.cut = 0 => len >= HdrLen + Len(f)
  BY <1>1, <1>4, <1>5, <1>6, <1>7 DEF InBuffer, Begins
<1> QED BY <1>3, <1>8, <1>9

\* Of the first submessage the readers see its id, its length, and a front of
\* its payload, which is all of the payload unless the frame was cut.
LEMMA FirstSeen ==
  ASSUME RxInv, frames > 0, Long, NEW sub, sub = frame.subs[1],
         NEW p, p = PayloadOf(sub), NEW seen, seen = Payload
  PROVE  /\ sub \in Sub /\ p \in Seq(Byte)
         /\ SubmsgId = sub.id
         /\ seen \in Seq(Byte) /\ Len(seen) \in Nat /\ Len(seen) <= Len(p)
         /\ \A i \in 1 .. Len(seen) : seen[i] = p[i]
         /\ frame.cut = 0 => Len(seen) = Len(p)
<1>1. PICK f : f = First(sub)
  OBVIOUS
<1>2. /\ sub \in Sub
      /\ \A i \in 1 .. Len(f) : HdrLen + i <= len => rx[HdrLen + i] = f[i]
      /\ frame.cut = 0 => len >= HdrLen + Len(f)
  BY <1>1, FirstRead
<1>3. p \in Seq(Byte) /\ Len(p) \in Nat /\ Len(p) >= 4
  BY <1>2, PayloadHas, ShortNat
<1>4. /\ Len(f) = 4 + Len(p) /\ f[1] = sub.id
      /\ FromLe16(<<f[3], f[4]>>) = Len(p)
      /\ \A i \in 1 .. Len(p) : f[4 + i] = p[i]
  BY <1>1, <1>2, FirstBytes
<1>5. PICK h \in Nat : h = HdrLen
  BY HeaderBytes DEF RxInv, ParserTypeOK
<1>6. PICK size \in Nat : rx \in [1 .. size -> Byte] /\ len \in Nat /\ len <= size /\ h + 4 <= len
  BY <1>5, BufferHas DEF Long
<1>7. rx[h + 1] = f[1] /\ rx[h + 3] = f[3] /\ rx[h + 4] = f[4]
  BY <1>2, <1>3, <1>4, <1>5, <1>6
<1>8. SubmsgId = sub.id /\ SubmsgLen = Len(p)
  BY <1>4, <1>5, <1>7 DEF SubmsgId, SubmsgLen
<1>9. PICK n : n = Least(Len(p), len - h - 4)
  OBVIOUS
<1>10. /\ n \in Nat /\ n <= Len(p) /\ h + 4 + n <= len
       /\ len >= h + 4 + Len(p) => n = Len(p)
  <2> DEFINE room == len - h - 4
  <2>1. room \in Nat /\ h + 4 + room = len
    BY <1>6
  <2> HIDE DEF room
  <2>2. n = Least(Len(p), room)
    BY <1>9 DEF room
  <2>3. n = IF Len(p) <= room THEN Len(p) ELSE room
    BY <2>2 DEF Least
  <2>4. n \in Nat /\ n <= Len(p) /\ n <= room /\ (room >= Len(p) => n = Len(p))
    BY <1>3, <2>1, <2>3
  <2> QED BY <1>3, <2>1, <2>4
<1>11. seen = SubSeq(rx, h + 5, h + 4 + n)
  BY <1>5, <1>8, <1>9 DEF Payload
<1>12. \A i \in h + 5 .. h + 4 + n : rx[i] \in Byte
  BY <1>6, <1>10
<1>13. /\ seen \in Seq(Byte)
       /\ Len(seen) = IF h + 5 <= h + 4 + n THEN (h + 4 + n) - (h + 5) + 1 ELSE 0
       /\ \A i \in 1 .. (h + 4 + n) - (h + 5) + 1 : seen[i] = rx[(h + 5) + i - 1]
  BY <1>10, <1>11, <1>12, SubSeqProperties
<1>14. Len(seen) = n
  BY <1>10, <1>13
<1>15. ASSUME NEW i \in 1 .. n PROVE seen[i] = p[i]
  <2>1. seen[i] = rx[h + (4 + i)]
    BY <1>10, <1>13
  <2>2. 4 + i \in 1 .. Len(f) /\ h + (4 + i) <= len
    BY <1>3, <1>4, <1>6, <1>10
  <2>3. rx[h + (4 + i)] = f[4 + i]
    <3>1. PICK j \in 1 .. Len(f) : j = 4 + i /\ h + j <= len
      BY <2>2
    <3>2. rx[h + j] = f[j]
      BY <1>2, <1>5, <3>1
    <3> QED BY <3>1, <3>2
  <2>4. f[4 + i] = p[i]
    BY <1>3, <1>4, <1>10
  <2> QED BY <2>1, <2>3, <2>4
<1>16. frame.cut = 0 => n = Len(p)
  BY <1>2, <1>3, <1>4, <1>5, <1>10
<1> QED BY <1>2, <1>3, <1>8, <1>10, <1>13, <1>14, <1>15, <1>16

-----------------------------------------------------------------------------
(* The outcomes.  While a frame is taken, what it means does not change.     *)

\* o is what a reader may make of the frame in the buffer.
Fits(o) ==
  /\ frame.cut = 0 => o = Meaning
  /\ \/ o \in {Dropped, UnexpectedReply, Meaning}
     \/ /\ o.res = "delivered"
        /\ Meaning.res = "delivered" /\ o.arg = Meaning.arg
        /\ o.user = SubSeq(Meaning.user, 1, Len(o.user))

LEMMA Outcomes ==
  /\ \A s : AgentRejected(s).user \in Seq(Byte)
  /\ Ok.user \in Seq(Byte) /\ UnexpectedReply.user \in Seq(Byte)
  /\ StatusReqMismatch.user \in Seq(Byte) /\ Dropped.user \in Seq(Byte)
  /\ None.user \in Seq(Byte)
  /\ \A s, u : Delivered(s, u) # None
BY DEF AgentRejected, Ok, UnexpectedReply, StatusReqMismatch, Dropped, None, Delivered, Outcome

\* Whole frames are long enough for all that is looked for in them.
LEMMA WholeIsLong ==
  ASSUME RxInv, frames > 0, frame.cut = 0
  PROVE  Long /\ ConnectLong
<1>1. PICK sub, p, f : sub = frame.subs[1] /\ p = PayloadOf(sub) /\ f = First(sub)
  OBVIOUS
<1>2. sub \in Sub /\ len >= HdrLen + Len(f)
  BY <1>1, FirstRead
<1>3. Len(f) = 4 + Len(p) /\ Len(p) \in Nat /\ Len(p) >= 4
  BY <1>1, <1>2, Lengths
<1>4. HdrLen \in Nat /\ len \in Nat
  BY HeaderBytes DEF RxInv, ParserTypeOK
<1> QED BY <1>2, <1>3, <1>4 DEF Long, ConnectLong

\* connect refuses: a frame that is cut, or not a STATUS_AGENT.
LEMMA HandshakeFailsFits ==
  ASSUME RxInv, frames > 0, HandshakeFails
  PROVE  Fits(outcome')
<1>1. mode = "connect" /\ outcome' = UnexpectedReply
  BY DEF HandshakeFails, Reading, Take
<1>2. ASSUME frame.cut = 0 PROVE Meaning = UnexpectedReply
  <2>1. Long /\ ConnectLong
    BY <1>2, WholeIsLong
  <2>2. SubmsgId # SubmsgStatusAgent
    BY <2>1 DEF HandshakeFails
  <2>3. PICK sub, p, seen : sub = frame.subs[1] /\ p = PayloadOf(sub) /\ seen = Payload
    OBVIOUS
  <2>4. SubmsgId = sub.id
    BY <2>1, <2>3, FirstSeen
  <2> QED BY <1>1, <2>2, <2>3, <2>4 DEF Meaning, Means
<1> QED BY <1>1, <1>2 DEF Fits

LEMMA HandshakeFits ==
  ASSUME RxInv, frames > 0, Handshake
  PROVE  Fits(outcome')
<1>1. mode = "connect" /\ ConnectLong /\ SubmsgId = SubmsgStatusAgent
  BY DEF Handshake, Reading
<1>2. PICK sub, p, f, seen : /\ sub = frame.subs[1] /\ p = PayloadOf(sub)
                             /\ f = First(sub) /\ seen = Payload
  OBVIOUS
<1>3. HdrLen \in Nat /\ len \in Nat
  BY HeaderBytes DEF RxInv, ParserTypeOK
<1>4. Long /\ HdrLen + 5 <= len
  BY <1>1, <1>3 DEF Long, ConnectLong
<1>5. sub \in Sub /\ SubmsgId = sub.id
  BY <1>2, <1>4, FirstSeen
<1>6. p[1] = sub.status /\ Len(p) \in Nat /\ Len(p) >= 4
  <2>1. sub.id = SubmsgStatusAgent /\ sub \in Sub /\ p = PayloadOf(sub) /\ f = First(sub)
    BY <1>1, <1>2, <1>5
  <2>2. p[1] = sub.status
    BY <2>1, PayloadHas, Zenon
  <2>3. Len(p) \in Nat /\ Len(p) >= 4
    BY <2>1, Lengths, Zenon
  <2> QED BY <2>2, <2>3
<1>7. Len(f) = 4 + Len(p) /\ \A i \in 1 .. Len(p) : f[4 + i] = p[i]
  <2>1. sub \in Sub /\ p = PayloadOf(sub) /\ f = First(sub)
    BY <1>2, <1>5
  <2> QED BY <2>1, FirstBytes, ZenonT(60)
<1>8. f[4 + 1] = p[1]
  BY <1>6, <1>7
<1>9. 5 \in 1 .. Len(f) /\ f[5] = p[1]
  BY <1>6, <1>7, <1>8
<1>10. rx[HdrLen + 5] = f[5]
  BY <1>2, <1>4, <1>9, FirstRead
<1>11. outcome' = IF sub.status = StatusOk THEN Ok ELSE AgentRejected(sub.status)
  BY <1>6, <1>9, <1>10 DEF Handshake, Take
<1>12. outcome' = Meaning
  BY <1>1, <1>2, <1>5, <1>11 DEF Meaning, Means, StatusMeans
<1> QED BY <1>12 DEF Fits

LEMMA TooShortFits ==
  ASSUME RxInv, frames > 0, TooShort
  PROVE  Fits(outcome')
<1>1. frame.cut # 0
  BY WholeIsLong DEF TooShort
<1>2. outcome' \in {UnexpectedReply, Dropped}
  BY DEF TooShort, Take
<1> QED BY <1>1, <1>2 DEF Fits

LEMMA TakeStatusFits ==
  ASSUME RxInv, frames > 0, TakeStatus
  PROVE  Fits(outcome')
<1>1. mode = "wait" /\ Long /\ SubmsgId = SubmsgStatus /\ outcome' = StatusFor
  BY DEF TakeStatus, Reading, Take
<1>2. PICK sub, p, seen : sub = frame.subs[1] /\ p = PayloadOf(sub) /\ seen = Payload
  OBVIOUS
<1>3. /\ sub \in Sub /\ sub.id = SubmsgStatus
      /\ seen \in Seq(Byte) /\ Len(seen) \in Nat
      /\ \A i \in 1 .. Len(seen) : seen[i] = p[i]
      /\ frame.cut = 0 => Len(seen) = Len(p)
  BY <1>1, <1>2, FirstSeen
<1>4. Len(p) = 6 /\ FromBe16(<<p[1], p[2]>>) = sub.req /\ p[5] = sub.status
  BY <1>2, <1>3, PayloadHas
<1>5. CASE Len(seen) >= 6
  <2>1. seen[1] = p[1] /\ seen[2] = p[2] /\ seen[5] = p[5]
    BY <1>3, <1>5
  <2>2. PICK ids : ids = SubSeq(seen, 1, 2)
    OBVIOUS
  <2>3. ids[1] = p[1] /\ ids[2] = p[2]
    BY <1>3, <1>5, <2>1, <2>2
  <2>4. GotReq = sub.req
    BY <1>2, <1>4, <2>2, <2>3 DEF GotReq, FromBe16
  <2>5. StatusFor = IF sub.req # expected THEN StatusReqMismatch
                    ELSE IF sub.status \notin {StatusOk, StatusOkMatched}
                         THEN AgentRejected(sub.status) ELSE Ok
    BY <1>2, <1>4, <1>5, <2>1, <2>4 DEF StatusFor, StatusLong
  <2>6. Meaning = IF sub.req = expected
                  THEN StatusMeans(sub.status, {StatusOk, StatusOkMatched})
                  ELSE StatusReqMismatch
    <3>1. mode # "connect" /\ mode = "wait" /\ sub.id = SubmsgStatus
      BY <1>1, <1>3
    <3>2. sub.id # SubmsgData
      BY <1>3 DEF SubmsgStatus, SubmsgData
    <3>3. Meaning = Means(sub)
      BY <1>2 DEF Meaning
    <3> QED BY <3>1, <3>2, <3>3, Zenon DEF Means
  <2>7. Meaning = StatusFor
    BY <2>5, <2>6 DEF StatusMeans
  <2> QED BY <1>1, <2>7 DEF Fits
<1>6. CASE ~(Len(seen) >= 6)
  <2>1. StatusFor = UnexpectedReply
    BY <1>2, <1>6 DEF StatusFor, StatusLong
  <2>2. ASSUME frame.cut = 0 PROVE FALSE
    <3>1. Len(seen) = 6
      BY <1>3, <1>4, <2>2
    <3> QED BY <1>6, <3>1
  <2> QED BY <1>1, <2>1, <2>2 DEF Fits
<1> QED BY <1>5, <1>6

LEMMA DispatchFits ==
  ASSUME RxInv, frames > 0, Dispatch
  PROVE  Fits(outcome') /\ outcome'.user \in Seq(Byte)
<1>1. mode \in {"wait", "spin"} /\ Long /\ SubmsgId = SubmsgData
  BY DEF Dispatch, Reading
<1>2. PICK sub, p, seen : sub = frame.subs[1] /\ p = PayloadOf(sub) /\ seen = Payload
  OBVIOUS
<1>3. /\ sub \in Sub /\ sub.id = SubmsgData
      /\ seen \in Seq(Byte) /\ Len(seen) \in Nat /\ Len(seen) <= Len(p)
      /\ \A i \in 1 .. Len(seen) : seen[i] = p[i]
      /\ frame.cut = 0 => Len(seen) = Len(p)
  BY <1>1, <1>2, FirstSeen
<1>4. PICK user \in Seq(Byte) : user = sub.user /\ Len(user) \in Nat
  BY <1>3, LenProperties DEF Sub
<1>5. /\ Len(p) = 4 + Len(user) /\ FromBe16(<<p[3], p[4]>>) = sub.oid
      /\ \A i \in 1 .. Len(user) : p[4 + i] = user[i]
  <2>1. /\ Len(p) = 4 + Len(sub.user) /\ FromBe16(<<p[3], p[4]>>) = sub.oid
        /\ \A i \in 1 .. Len(sub.user) : p[4 + i] = sub.user[i]
    BY <1>2, <1>3, PayloadHas
  <2> QED BY <1>4, <2>1
<1>6. Meaning = IF sub.oid \in Readers THEN Delivered(sub.oid, user) ELSE Dropped
  <2>1. mode # "connect" /\ SubmsgData # SubmsgStatus
    BY <1>1 DEF SubmsgData, SubmsgStatus
  <2> QED BY <1>2, <1>3, <1>4, <2>1 DEF Meaning, Means
<1>7. CASE Len(seen) >= 4
  <2>1. seen[3] = p[3] /\ seen[4] = p[4]
    BY <1>3, <1>7
  <2>2. PICK ids : ids = SubSeq(seen, 3, 4)
    OBVIOUS
  <2>3. ids[1] = p[3] /\ ids[2] = p[4]
    BY <1>3, <1>7, <2>1, <2>2
  <2>4. DrOid = sub.oid
    BY <1>2, <1>5, <2>2, <2>3 DEF DrOid, FromBe16
  <2>5. PICK data : data = SubSeq(seen, 5, Len(seen))
    OBVIOUS
  <2>6. /\ data \in Seq(Byte) /\ Len(data) = Len(seen) - 4 /\ Len(data) <= Len(user)
        /\ \A i \in 1 .. Len(data) : data[i] = user[i]
    <3>1. \A i \in 5 .. Len(seen) : seen[i] \in Byte
      BY <1>3, ElementOfSeq
    <3>2. /\ data \in Seq(Byte)
          /\ Len(data) = IF 5 <= Len(seen) THEN Len(seen) - 5 + 1 ELSE 0
          /\ \A i \in 1 .. Len(seen) - 5 + 1 : data[i] = seen[5 + i - 1]
      BY <1>3, <2>5, <3>1, SubSeqProperties
    <3>3. Len(data) = Len(seen) - 4 /\ Len(data) <= Len(user)
      <4>1. Len(seen) <= 4 + Len(user)
        BY <1>3, <1>5
      <4>2. PICK k \in Nat : k = Len(seen) /\ k >= 4
        BY <1>3, <1>7
      <4>3. PICK d : d = Len(data)
        OBVIOUS
      <4>4. d = IF 5 <= k THEN k - 5 + 1 ELSE 0
        BY <3>2, <4>2, <4>3
      <4>5. d = k - 4
        BY <4>2, <4>4
      <4> QED BY <1>4, <4>1, <4>2, <4>3, <4>5
    <3>4. ASSUME NEW i \in 1 .. Len(data) PROVE data[i] = user[i]
      <4>1. data[i] = seen[4 + i]
        BY <1>3, <3>2, <3>3
      <4>2. seen[4 + i] = p[4 + i]
        BY <1>3, <1>7, <3>3
      <4>3. p[4 + i] = user[i]
        BY <1>4, <1>5, <3>3
      <4> QED BY <4>1, <4>2, <4>3
    <3> QED BY <3>2, <3>3, <3>4
  <2>7. UserData = data
    BY <1>2, <2>5 DEF UserData
  <2>8. CASE sub.oid \in Readers
    <3>1. outcome' = Delivered(sub.oid, data)
      BY <1>2, <1>7, <2>4, <2>7, <2>8 DEF Dispatch, Take
    <3>2. Meaning = Delivered(sub.oid, user)
      BY <1>6, <2>8
    <3>3. /\ Delivered(sub.oid, data).res = "delivered" /\ Delivered(sub.oid, data).arg = sub.oid
          /\ Delivered(sub.oid, data).user = data
          /\ Delivered(sub.oid, user).res = "delivered" /\ Delivered(sub.oid, user).arg = sub.oid
          /\ Delivered(sub.oid, user).user = user
      BY DEF Delivered, Outcome
    <3>4. data = SubSeq(user, 1, Len(data))
      <4>1. \A i \in 1 .. Len(data) : user[i] \in Byte
        BY <1>4, <2>6, ElementOfSeq
      <4>2. PICK front : front = SubSeq(user, 1, Len(data))
        OBVIOUS
      <4>3. Len(data) \in Nat
        BY <2>6, LenProperties
      <4>4. /\ front \in Seq(Byte) /\ Len(front) = Len(data)
            /\ \A i \in 1 .. Len(data) : front[i] = user[i]
        BY <4>1, <4>2, <4>3, SubSeqProperties
      <4>5. data = front
        BY <2>6, <4>4, SeqEqual
      <4> QED BY <4>2, <4>5
    <3>5. ASSUME frame.cut = 0 PROVE data = user
      <4>1. Len(data) = Len(user)
        BY <1>3, <1>4, <1>5, <2>6, <3>5
      <4> QED BY <1>4, <2>6, <4>1, SeqEqual
    <3>6. Fits(outcome')
      BY <3>1, <3>2, <3>3, <3>4, <3>5 DEF Fits
    <3> QED BY <2>6, <3>1, <3>3, <3>6
  <2>9. CASE sub.oid \notin Readers
    <3>1. outcome' = Dropped
      BY <2>4, <2>9 DEF Dispatch, Take
    <3>2. Meaning = Dropped
      BY <1>6, <2>9
    <3> QED BY <3>1, <3>2, Outcomes DEF Fits
  <2> QED BY <2>8, <2>9
<1>8. CASE ~(Len(seen) >= 4)
  <2>1. outcome' = Dropped
    BY <1>2, <1>8 DEF Dispatch, Take
  <2>2. frame.cut # 0
    BY <1>3, <1>4, <1>5, <1>8
  <2> QED BY <2>1, <2>2, Outcomes DEF Fits
<1> QED BY <1>7, <1>8

LEMMA IgnoreFits ==
  ASSUME RxInv, frames > 0, Ignore
  PROVE  Fits(outcome')
<1>1. /\ Long /\ SubmsgId # SubmsgData
      /\ mode = "spin" \/ (mode = "wait" /\ SubmsgId # SubmsgStatus)
      /\ outcome' = Dropped
  BY DEF Ignore, Reading, Take
<1>2. PICK sub, p, seen : sub = frame.subs[1] /\ p = PayloadOf(sub) /\ seen = Payload
  OBVIOUS
<1>3. SubmsgId = sub.id
  BY <1>1, <1>2, FirstSeen
<1>4. Meaning = Dropped
  BY <1>1, <1>2, <1>3 DEF Meaning, Means
<1> QED BY <1>1, <1>4 DEF Fits

-----------------------------------------------------------------------------
(* The inductive invariant. *)

ParsersInv == RxInv /\ (Taken => Fits(outcome))

LEMMA InitHolds == Init => ParsersInv
<1> SUFFICES ASSUME Init PROVE ParsersInv
  OBVIOUS
<1>1. rx \in [1 .. BufLen(mode) -> Byte] /\ len \in 0 .. BufLen(mode)
  <2>1. rx = Fresh(mode) /\ len = 0
    BY DEF Init
  <2>2. BufLen(mode) \in Nat
    BY BufLenNat
  <2> QED BY <2>1, <2>2, FreshBytes
<1>2. frames = 0 /\ frames \in 0 .. MaxFrames
  BY ParsersAssumption DEF Init
<1>3. outcome.user \in Seq(Byte) /\ outcome # None
  BY DEF Init, Ok, None, Outcome
<1>4. ParserTypeOK
  BY <1>1, <1>2, <1>3 DEF Init, ParserTypeOK
<1> QED BY <1>2, <1>3, <1>4 DEF ParsersInv, RxInv, Taken

\* What came of a frame.
LEMMA SentBytes ==
  ASSUME sid \in SessionId, NEW f \in Frame, NEW w, w = Whole(f), NEW bytes, bytes = Sent(f)
  PROVE  /\ bytes \in Seq(Byte) /\ Len(bytes) \in Nat /\ Len(bytes) <= Len(w)
         /\ f.cut = 0 => Len(bytes) = Len(w)
         /\ \A i \in 1 .. Len(bytes) : bytes[i] = w[i]
<1>1. PICK b : b = BytesOf(f.subs)
  OBVIOUS
<1>2. w \in Seq(Byte) /\ Len(w) \in Nat
  BY <1>1, WholeBytes, LenProperties
<1>3. f.cut \in Nat
  BY ParsersAssumption
<1>4. bytes = SubSeq(w, 1, Len(w) - f.cut)
  BY DEF Sent, Whole
<1>5. PICK n \in Int : n = Len(w) - f.cut /\ n <= Len(w)
  BY <1>2, <1>3
<1>6. \A i \in 1 .. n : w[i] \in Byte
  BY <1>2, <1>5, ElementOfSeq
<1>7. bytes = SubSeq(w, 1, n)
  BY <1>4, <1>5
<1>8. /\ bytes \in Seq(Byte) /\ Len(bytes) = IF 1 <= n THEN n - 1 + 1 ELSE 0
      /\ \A i \in 1 .. n - 1 + 1 : bytes[i] = w[1 + i - 1]
  BY <1>6, <1>7, SubSeqProperties
<1>9. Len(bytes) = IF 1 <= n THEN n ELSE 0
  BY <1>5, <1>8
<1>10. \A i \in 1 .. n : bytes[i] = w[i]
  BY <1>5, <1>8
<1>11. f.cut = 0 => n = Len(w)
  BY <1>2, <1>5
<1> QED BY <1>2, <1>5, <1>8, <1>9, <1>10, <1>11

LEMMA ReceiveKeeps ==
  ASSUME ParsersInv, NEW f \in Frame, NEW caller \in {"connect", "wait", "spin"},
         Receive(f, caller)
  PROVE  ParsersInv'
<1>1. PICK bytes, w : bytes = Sent(f) /\ w = Whole(f)
  OBVIOUS
<1>2. /\ bytes \in Seq(Byte) /\ Len(bytes) \in Nat /\ Len(bytes) <= Len(w)
      /\ f.cut = 0 => Len(bytes) = Len(w)
      /\ \A i \in 1 .. Len(bytes) : bytes[i] = w[i]
  BY <1>1, SentBytes DEF ParsersInv, RxInv, ParserTypeOK
<1>3. PICK rest, old, size : /\ size = BufLen(caller) /\ old = Before(caller)
                            /\ rest = SubSeq(old, Len(bytes) + 1, size)
  OBVIOUS
<1>4. Len(bytes) <= size /\ rx' = bytes \o rest /\ len' = Len(bytes) /\ mode' = caller
  BY <1>1, <1>3 DEF Receive
<1>5. old \in [1 .. size -> Byte] /\ size \in Nat
  <2>1. size \in Nat
    BY <1>3, BufLenNat
  <2>2. CASE "connect" \in {mode, caller}
    BY <1>3, <2>1, <2>2, FreshBytes DEF Before
  <2>3. CASE "connect" \notin {mode, caller}
    <3>1. size = BufLen(mode) /\ old = rx
      BY <1>3, <2>3 DEF Before, BufLen
    <3> QED BY <2>1, <3>1 DEF ParsersInv, RxInv, ParserTypeOK
  <2> QED BY <2>2, <2>3
<1>6. rest \in Seq(Byte) /\ Len(rest) = size - Len(bytes)
  <2>1. \A i \in Len(bytes) + 1 .. size : old[i] \in Byte
    BY <1>2, <1>5
  <2>2. PICK m \in Int, n \in Int : m = Len(bytes) + 1 /\ n = size
    BY <1>2, <1>5
  <2>3. \A i \in m .. n : old[i] \in Byte
    BY <2>1, <2>2
  <2>4. rest = SubSeq(old, m, n)
    BY <1>3, <2>2
  <2>5. rest \in Seq(Byte) /\ Len(rest) = IF m <= n THEN n - m + 1 ELSE 0
    BY <2>3, <2>4, SubSeqProperties
  <2> QED BY <1>2, <1>4, <1>5, <2>2, <2>5
<1>7. PICK all : all = bytes \o rest
  OBVIOUS
<1>8. /\ all \in Seq(Byte) /\ Len(all) = Len(bytes) + Len(rest)
      /\ \A i \in 1 .. Len(bytes) + Len(rest) :
           all[i] = IF i <= Len(bytes) THEN bytes[i] ELSE rest[i - Len(bytes)]
  BY <1>2, <1>6, <1>7, ConcatProperties
<1>9. Len(all) = size /\ all \in [1 .. Len(all) -> Byte]
  BY <1>2, <1>4, <1>5, <1>6, <1>8, LenProperties
<1>10. \A i \in 1 .. Len(bytes) : all[i] = bytes[i]
  BY <1>2, <1>4, <1>5, <1>6, <1>8
<1>11. rx' \in [1 .. BufLen(mode') -> Byte] /\ len' \in 0 .. BufLen(mode')
  <2>1. rx' \in [1 .. size -> Byte] /\ len' \in 0 .. size
    BY <1>2, <1>4, <1>5, <1>7, <1>9
  <2> QED BY <1>3, <1>4, <2>1
<1>12. frame' = f /\ outcome' = None /\ frames' \in 0 .. MaxFrames /\ frames' > 0
  BY ParsersAssumption DEF Receive, ParsersInv, RxInv, ParserTypeOK
<1>13. ParserTypeOK'
  BY <1>11, <1>12, Outcomes DEF ParserTypeOK, Receive, ParsersInv, RxInv, BufLen
<1>14. Whole(frame)' = w
  BY <1>1, <1>12 DEF Whole, FrameHeader, Receive
<1>15. InBuffer'
  <2>1. \A i \in 1 .. len' : rx'[i] = w[i]
    BY <1>2, <1>4, <1>7, <1>10
  <2> QED BY <1>2, <1>4, <1>12, <1>14, <2>1 DEF InBuffer
<1>16. ~Taken'
  BY <1>12 DEF Taken
<1> QED BY <1>12, <1>13, <1>15, <1>16 DEF ParsersInv, RxInv

\* A frame that is taken stays in the buffer.
LEMMA TakeKeeps ==
  ASSUME RxInv, outcome = None, NEW o, o = outcome', Take(o), Fits(o), o.user \in Seq(Byte)
  PROVE  ParsersInv'
<1>1. /\ sid' = sid /\ rx' = rx /\ len' = len /\ mode' = mode /\ expected' = expected
      /\ frame' = frame /\ frames' = frames
  BY DEF Take
<1>2. frames > 0 /\ InBuffer
  BY DEF RxInv
<1>3. ParserTypeOK'
  BY <1>1 DEF RxInv, ParserTypeOK
<1>4. Whole(frame)' = Whole(frame)
  BY <1>1 DEF Whole, FrameHeader
<1>5. InBuffer'
  BY <1>1, <1>2, <1>4 DEF InBuffer
<1>6. Meaning' = Meaning
  BY <1>1 DEF Meaning, Means
<1>7. Fits(outcome)'
  BY <1>1, <1>6 DEF Fits
<1> QED BY <1>1, <1>2, <1>3, <1>5, <1>7 DEF ParsersInv, RxInv

LEMMA StepKeeps == ParsersInv /\ [Next]_vars => ParsersInv'
<1> SUFFICES ASSUME ParsersInv, [Next]_vars PROVE ParsersInv'
  OBVIOUS
<1>1. RxInv
  BY DEF ParsersInv
<1>2. CASE \E f \in Frame, caller \in {"connect", "wait", "spin"} : Receive(f, caller)
  BY <1>2, ReceiveKeeps
<1>3. CASE HandshakeFails
  <2>1. outcome = None /\ frames > 0 /\ Take(outcome') /\ outcome'.user \in Seq(Byte)
    BY <1>1, <1>3, Outcomes DEF HandshakeFails, Reading, Take, RxInv
  <2> QED BY <1>1, <1>3, <2>1, HandshakeFailsFits, TakeKeeps
<1>4. CASE Handshake
  <2>1. outcome = None /\ frames > 0 /\ Take(outcome') /\ outcome'.user \in Seq(Byte)
    BY <1>1, <1>4, Outcomes DEF Handshake, Reading, Take, RxInv
  <2> QED BY <1>1, <1>4, <2>1, HandshakeFits, TakeKeeps
<1>5. CASE TooShort
  <2>1. outcome = None /\ frames > 0 /\ Take(outcome') /\ outcome'.user \in Seq(Byte)
    BY <1>1, <1>5, Outcomes DEF TooShort, Reading, Take, RxInv
  <2> QED BY <1>1, <1>5, <2>1, TooShortFits, TakeKeeps
<1>6. CASE TakeStatus
  <2>1. outcome = None /\ frames > 0 /\ Take(outcome') /\ outcome'.user \in Seq(Byte)
    BY <1>1, <1>6, Outcomes DEF TakeStatus, StatusFor, Reading, Take, RxInv
  <2> QED BY <1>1, <1>6, <2>1, TakeStatusFits, TakeKeeps
<1>7. CASE Dispatch
  <2>1. outcome = None /\ frames > 0 /\ Take(outcome')
    BY <1>1, <1>7 DEF Dispatch, Reading, Take, RxInv
  <2> QED BY <1>1, <1>7, <2>1, DispatchFits, TakeKeeps
<1>8. CASE Ignore
  <2>1. outcome = None /\ frames > 0 /\ Take(outcome') /\ outcome'.user \in Seq(Byte)
    BY <1>1, <1>8, Outcomes DEF Ignore, Reading, Take, RxInv
  <2> QED BY <1>1, <1>8, <2>1, IgnoreFits, TakeKeeps
<1>9. CASE UNCHANGED vars
  <2>1. UNCHANGED <<sid, rx, len, mode, expected, outcome, frame, frames>>
    BY <1>9 DEF vars
  <2>2. ParserTypeOK'
    BY <1>1, <2>1 DEF ParsersInv, RxInv, ParserTypeOK
  <2>3. InBuffer => InBuffer'
    <3>1. Whole(frame)' = Whole(frame)
      BY <2>1 DEF Whole, FrameHeader
    <3> QED BY <2>1, <3>1 DEF InBuffer
  <2>4. Fits(outcome) => Fits(outcome)'
    <3>1. Meaning' = Meaning
      BY <2>1 DEF Meaning, Means
    <3> QED BY <2>1, <3>1 DEF Fits
  <2> QED BY <1>1, <2>1, <2>2, <2>3, <2>4 DEF ParsersInv, RxInv, Taken
<1> QED BY <1>2, <1>3, <1>4, <1>5, <1>6, <1>7, <1>8, <1>9 DEF Next

LEMMA InvHolds == Spec => []ParsersInv
<1>1. Init => ParsersInv
  BY InitHolds
<1>2. ParsersInv /\ [Next]_vars => ParsersInv'
  BY StepKeeps
<1> QED BY <1>1, <1>2, PTL DEF Spec

-----------------------------------------------------------------------------
\* The variables keep their types: the buffer stays as long as it is, and what
\* is delivered are bytes.
THEOREM ParsersTypeCorrect == Spec => []ParserTypeOK
<1>1. ParsersInv => ParserTypeOK
  BY DEF ParsersInv, RxInv
<1> QED BY <1>1, InvHolds, PTL

\* For frames of any length, with any number of submessages, behind any earlier
\* frame: a whole frame is taken for its first submessage.
THEOREM FramesAreReadAsMeant == Spec => []ReadAsMeant
<1>1. ParsersInv => ReadAsMeant
  BY DEF ParsersInv, ReadAsMeant, Fits
<1> QED BY <1>1, InvHolds, PTL

\* A frame cut at any byte says no more than the whole one.
THEOREM CutFramesSayNoMore == Spec => []CutSaysNoMore
<1>1. ParsersInv => CutSaysNoMore
  BY DEF ParsersInv, CutSaysNoMore, Fits
<1> QED BY <1>1, InvHolds, PTL

=============================================================================
