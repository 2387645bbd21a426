---------------------------- MODULE CodecProofs ----------------------------
(***************************************************************************)
(* The CDR writer and reader, for every set of messages, every length of   *)
(* the slot and every loss on the way.  First the buffer: LayoutInv is     *)
(* kept by every helper call of the writer, and the calls of the reader    *)
(* leave the writer alone.  Then the round trip: the layout is the fields  *)
(* one behind the other (MessageAt), each the bytes its calls wrote        *)
(* (FieldAt), and the reader is always between two of them or so many      *)
(* calls into one (Reading); where it has read on, it has their values.    *)
(***************************************************************************)
EXTENDS CodecProperties, BytesProofs

\* What the calls and the buffer are made of.
WriterInv ==
  /\ slot \in Nat
  /\ fields \in Seq(Field)
  /\ calls \in Seq(Call)
  /\ buf \in [1 .. slot -> Byte \cup {Stale}]
  /\ laid \in Seq(Byte)
  /\ wstate \in {"writing", "panicked", "published"}

Inv == WriterInv /\ LayoutInv

-----------------------------------------------------------------------------
(* Helpers. *)

\* The padding before a scalar is a number of zero bytes.
LEMMA PaddingBytes ==
  ASSUME NEW p \in Nat, NEW n \in {4, 8}
  PROVE  Padding(p, n) \in Nat /\ Zeros(Padding(p, n)) \in Seq(Byte)
<1>1. Padding(p, n) \in Nat
  <2>1. CASE n = 4
    BY <2>1 DEF Padding
  <2>2. CASE n = 8
    BY <2>2 DEF Padding
  <2> QED BY <2>1, <2>2
<1>2. \A i \in 1 .. Padding(p, n) : 0 \in Byte
  BY DEF Byte
<1> QED BY <1>1, <1>2 DEF Zeros

\* Two sequences that agree up to n begin with the same n elements.
LEMMA EqualFronts ==
  ASSUME NEW S, NEW s, NEW t, NEW n \in Nat,
         \A i \in 1 .. n : s[i] \in S /\ t[i] = s[i]
  PROVE  SubSeq(t, 1, n) = SubSeq(s, 1, n)
<1>1. /\ SubSeq(s, 1, n) \in Seq(S)
      /\ Len(SubSeq(s, 1, n)) = n
      /\ \A i \in 1 .. n : SubSeq(s, 1, n)[i] = s[i]
  BY SubSeqProperties
<1>2. /\ SubSeq(t, 1, n) \in Seq(S)
      /\ Len(SubSeq(t, 1, n)) = n
      /\ \A i \in 1 .. n : SubSeq(t, 1, n)[i] = t[i]
  BY SubSeqProperties
<1> QED BY <1>1, <1>2, SeqEqual

\* Put lays its bytes behind the layout, and in the buffer as far as it goes.
LEMMA PutKeepsLayout ==
  ASSUME Inv, wstate = "writing", calls # <<>>,
         NEW bytes \in Seq(Byte), Put(bytes)
  PROVE  Inv'
<1> DEFINE end == pos + Len(bytes)
<1>1. pos = Len(laid) /\ pos \in Nat /\ Len(bytes) \in Nat /\ slot \in Nat
  BY LenProperties DEF Inv, WriterInv, LayoutInv
<1>2. /\ laid' \in Seq(Byte)
      /\ Len(laid') = end
      /\ \A i \in 1 .. end : laid'[i] = IF i <= pos THEN laid[i] ELSE bytes[i - pos]
  BY <1>1, ConcatProperties DEF Put, Inv, WriterInv
<1>3. pos' = end /\ slot' = slot /\ wstate' = "writing"
  BY DEF Put
<1>4. \A i \in pos + 1 .. end : bytes[i - pos] \in Byte
  <2> TAKE i \in pos + 1 .. end
  <2>1. i - pos \in 1 .. Len(bytes)
    BY <1>1
  <2> QED BY <2>1, ElementOfSeq
<1>5. buf' = [i \in 1 .. slot |-> IF i \in pos + 1 .. end THEN bytes[i - pos] ELSE buf[i]]
  BY DEF Put
<1>6. buf' \in [1 .. slot -> Byte \cup {Stale}]
  BY <1>4, <1>5 DEF Inv, WriterInv
<1>7. ASSUME NEW i \in 1 .. Least(end, slot)
      PROVE  buf'[i] = laid'[i]
  <2>1. i \in Nat /\ i \in 1 .. slot /\ i \in 1 .. end
    BY <1>1 DEF Least
  <2>2. CASE i <= pos
    <3>1. i \in 1 .. Least(pos, slot) /\ i \notin pos + 1 .. end
      BY <1>1, <2>1, <2>2 DEF Least
    <3>2. buf[i] = laid[i]
      BY <3>1 DEF Inv, LayoutInv, Laid
    <3> QED BY <1>2, <1>5, <2>1, <2>2, <3>1, <3>2
  <2>3. CASE ~(i <= pos)
    <3>1. i \in pos + 1 .. end
      BY <1>1, <2>1, <2>3
    <3> QED BY <1>2, <1>5, <2>1, <2>3, <3>1
  <2> QED BY <2>2, <2>3
<1>8. calls' \in Seq(Call) /\ fields' \in Seq(Field)
  BY HeadTailProperties DEF Put, Inv, WriterInv
<1>9. WriterInv'
  BY <1>1, <1>2, <1>3, <1>6, <1>8 DEF WriterInv
<1>10. LayoutInv'
  BY <1>2, <1>3, <1>7 DEF LayoutInv, Laid, BodyIsPrefix
<1> QED BY <1>9, <1>10 DEF Inv

-----------------------------------------------------------------------------
(* The actions. *)

LEMMA InitInv ==
  ASSUME Init
  PROVE  Inv
<1>1. slot \in Nat /\ message \in Message
  BY CodecAssumption DEF Init
<1>2. fields \in Seq(Field) /\ calls \in Seq(Call)
  BY <1>1, CodecAssumption, EmptySeq DEF Init
<1>3. buf \in [1 .. slot -> Byte \cup {Stale}]
  BY DEF Init
<1>4. laid \in Seq(Byte) /\ Len(laid) = 0
  BY EmptySeq DEF Init
<1>5. 1 .. Least(pos, slot) = {}
  BY <1>1 DEF Init, Least
<1> QED BY <1>1, <1>2, <1>3, <1>4, <1>5 DEF Init, Inv, WriterInv, LayoutInv, BodyIsPrefix

LEMMA WriteFieldInv ==
  ASSUME Inv, WriteField
  PROVE  Inv'
<1>1. Head(fields) \in Field /\ Tail(fields) \in Seq(Field)
  BY HeadTailProperties DEF WriteField, Inv, WriterInv
<1>2. calls' \in Seq(Call)
  BY <1>1, CodecAssumption DEF WriteField
<1> QED BY <1>1, <1>2
        DEF WriteField, Inv, WriterInv, LayoutInv, Laid, BodyIsPrefix, readerVars

LEMMA HeadCall ==
  ASSUME Inv, calls # <<>>
  PROVE  /\ Head(calls) \in Call
         /\ Head(calls).op = "align" => Head(calls).n \in {4, 8}
         /\ Head(calls).op = "raw" => Head(calls).bytes \in Seq(Byte)
<1>1. Head(calls) \in Call
  BY HeadTailProperties DEF Inv, WriterInv
<1> QED BY <1>1 DEF Call

LEMMA WriteAlignInv ==
  ASSUME Inv, WriteAlign
  PROVE  Inv'
<1>1. wstate = "writing" /\ calls # <<>> /\ Head(calls).op = "align"
  BY DEF WriteAlign, Calling
<1>2. pos \in Nat
  BY LenProperties DEF Inv, WriterInv, LayoutInv
<1>3. Zeros(Padding(pos, Head(calls).n)) \in Seq(Byte)
  BY <1>1, <1>2, HeadCall, PaddingBytes
<1> QED BY <1>1, <1>3, PutKeepsLayout DEF WriteAlign

LEMMA WriteRawInv ==
  ASSUME Inv, WriteRaw
  PROVE  Inv'
<1>1. wstate = "writing" /\ calls # <<>> /\ Head(calls).op = "raw"
  BY DEF WriteRaw, Calling
<1>2. Head(calls).bytes \in Seq(Byte)
  BY <1>1, HeadCall
<1> QED BY <1>1, <1>2, PutKeepsLayout DEF WriteRaw

\* bytes_written bytes of the buffer are as many of the layout.
LEMMA PublishInv ==
  ASSUME Inv, Publish
  PROVE  Inv'
<1> DEFINE n == Least(pos, slot)
<1>1. pos = Len(laid) /\ pos \in Nat /\ slot \in Nat /\ n \in 0 .. pos /\ n \in 0 .. slot
  BY LenProperties DEF Inv, WriterInv, LayoutInv, Least
<1>2. \A i \in 1 .. n : laid[i] = buf[i]
  BY DEF Inv, LayoutInv, Laid
<1>3. \A i \in 1 .. n : laid[i] \in Byte
  BY <1>1, ElementOfSeq DEF Inv, WriterInv
<1>4. SubSeq(buf, 1, n) = SubSeq(laid, 1, n)
  BY <1>1, <1>2, <1>3, EqualFronts
<1>5. sent' = SubSeq(buf, 1, n) /\ laid' = laid /\ slot' = slot
  BY DEF Publish, BytesWritten
<1>6. BodyIsPrefix'
  BY <1>1, <1>4, <1>5 DEF BodyIsPrefix
<1> QED BY <1>6 DEF Publish, Inv, WriterInv, LayoutInv, Laid

\* Steps that leave the writer alone, or only stop it.
LEMMA OtherInv ==
  ASSUME Inv, WritePanics \/ (UNCHANGED <<message, slot, writerVars>>)
  PROVE  Inv'
<1>1. CASE WritePanics
  BY <1>1 DEF WritePanics, Calling, Inv, WriterInv, LayoutInv, Laid, BodyIsPrefix
<1>2. CASE UNCHANGED <<message, slot, writerVars>>
  BY <1>2 DEF writerVars, Inv, WriterInv, LayoutInv, Laid, BodyIsPrefix
<1> QED BY <1>1, <1>2

LEMMA NextInv ==
  ASSUME Inv, [Next]_vars
  PROVE  Inv'
<1>1. CASE Serialize
  BY <1>1, WriteFieldInv, WriteAlignInv, WriteRawInv, OtherInv, PublishInv DEF Serialize
<1>2. ASSUME NEW missing \in Missing, Deliver(missing)
      PROVE  Inv'
  BY <1>2, OtherInv DEF Deliver
<1>3. CASE Deserialize
  BY <1>3, OtherInv
     DEF Deserialize, ReadField, ReadAlign, ReadTake, ReadLength, ReadLengthZero, ReadNull,
         ReadPush, ReadFails, ReadDone, Got
<1>4. CASE UNCHANGED vars
  BY <1>4, OtherInv DEF vars
<1> QED BY <1>1, <1>2, <1>3, <1>4 DEF Next

-----------------------------------------------------------------------------
(* Types, and what a panic means. *)

TakeOp == [op: {"align", "take", "length", "bytes", "null", "push"}, n: Nat]

LEMMA Ops ==
  /\ \A n \in Nat : /\ AlignTo(n) \in TakeOp /\ AlignTo(n).op = "align" /\ AlignTo(n).n = n
                    /\ Take(n) \in TakeOp /\ Take(n).op = "take" /\ Take(n).n = n
                    /\ Push(n) \in TakeOp /\ Push(n).op = "push" /\ Push(n).n = n
  /\ TakeLength \in TakeOp /\ TakeLength.op = "length" /\ TakeLength.n = 4
  /\ TakeBytes \in TakeOp /\ TakeBytes.op = "bytes"
  /\ TakeNull \in TakeOp /\ TakeNull.op = "null" /\ TakeNull.n = 1
BY DEF TakeOp, AlignTo, Take, TakeLength, TakeBytes, TakeNull, Push

\* What the reader asks for a type: only a length is followed by its bytes.
LEMMA ReadsType ==
  ASSUME NEW type \in Type, NEW r, r = Reads(type)
  PROVE  /\ r \in Seq(TakeOp) /\ Len(r) \in Nat
         /\ \A i \in 1 .. Len(r) :
              /\ r[i].op = "align" => r[i].n # 0
              /\ r[i].op = "length" => r[i].n = 4
              /\ r[i].op = "bytes" => i = 3 /\ r[2].op = "length"
              /\ r[i].op = "length" => i = 2 /\ Len(r) >= 4
<1>1. CASE type.kind = "scalar"
  <2>1. type.n \in {1, 4, 8}
    BY <1>1 DEF Type
  <2>2. r = IF type.n = 1 THEN <<Take(1)>> ELSE <<AlignTo(type.n), Take(type.n)>>
    BY <1>1 DEF Reads, ReadScalar
  <2>3. CASE type.n = 1
    <3>1. PICK x \in TakeOp : x.op = "take" /\ r = <<x>>
      BY <2>2, <2>3, Ops
    <3> QED BY <3>1
  <2>4. CASE type.n # 1
    <3>1. PICK x \in TakeOp, y \in TakeOp :
            /\ r = <<x, y>> /\ x.op = "align" /\ x.n # 0 /\ y.op = "take"
      BY <2>1, <2>2, <2>4, Ops
    <3>2. r \in Seq(TakeOp) /\ Len(r) = 2 /\ r[1] = x /\ r[2] = y
      BY <3>1
    <3> QED BY <3>1, <3>2
  <2> QED BY <2>3, <2>4
<1>2. CASE type.kind = "f64s"
  <2>1. PICK n \in Nat : n = type.n
    BY DEF Type
  <2>2. PICK x \in TakeOp, y \in TakeOp :
          /\ x = AlignTo(8) /\ y = Take(8)
          /\ x.op = "align" /\ x.n # 0 /\ y.op = "take"
    BY Ops
  <2>3. PICK b : b = [i \in 1 .. 2 * n |-> IF i % 2 = 1 THEN x ELSE y]
    OBVIOUS
  <2>4. r = <<x>> \o b
    <3>1. r = ReadF64s(type)
      BY <1>2 DEF Reads
    <3> QED BY <2>1, <2>2, <2>3, <3>1, Zenon DEF ReadF64s
  <2>5. b \in Seq(TakeOp) /\ Len(b) \in Nat /\ \A i \in 1 .. Len(b) : b[i] \in {x, y}
    BY <2>1, <2>2, <2>3
  <2>6. PICK a : a = <<x>>
    OBVIOUS
  <2>7. a \in Seq(TakeOp) /\ Len(a) = 1 /\ a[1] = x
    BY <2>2, <2>6
  <2>8. /\ r \in Seq(TakeOp) /\ Len(r) = Len(a) + Len(b)
        /\ \A i \in 1 .. Len(a) + Len(b) : r[i] = IF i <= Len(a) THEN a[i] ELSE b[i - Len(a)]
    <3> DEFINE c == a \o b
    <3>1. r = c
      BY <2>4, <2>6
    <3>2. /\ c \in Seq(TakeOp) /\ Len(c) = Len(a) + Len(b)
          /\ \A i \in 1 .. Len(a) + Len(b) : c[i] = IF i <= Len(a) THEN a[i] ELSE b[i - Len(a)]
      BY <2>5, <2>7, ConcatProperties, ZenonT(60)
    <3> HIDE DEF c
    <3> QED BY <3>1, <3>2
  <2>9. \A i \in 1 .. Len(r) : r[i] \in {x, y}
    BY <2>5, <2>7, <2>8
  <2> QED BY <2>2, <2>5, <2>7, <2>8, <2>9
<1>3. CASE type.kind \in {"string", "owned"}
  <2>1. PICK a : a = ReadString
    OBVIOUS
  <2>2. /\ a \in Seq(TakeOp) /\ Len(a) = 4
        /\ a[1].op = "align" /\ a[1].n = 4 /\ a[2].op = "length" /\ a[2].n = 4
        /\ a[3].op = "bytes" /\ a[4].op = "null"
    <3>1. a = <<AlignTo(4), TakeLength, TakeBytes, TakeNull>>
      BY <2>1 DEF ReadString
    <3> QED BY <3>1, Ops
  <2>3. \A i \in 1 .. 4 : /\ a[i].op = "align" => a[i].n # 0
                          /\ a[i].op = "length" => a[i].n = 4
                          /\ a[i].op = "bytes" => i = 3 /\ a[2].op = "length"
                          /\ a[i].op = "length" => i = 2 /\ Len(a) >= 4
    BY <2>2
  <2>4. CASE type.kind = "string"
    <3>1. r = a
      BY <2>1, <2>4 DEF Reads
    <3>2. r \in Seq(TakeOp) /\ Len(r) = 4
      BY <2>2, <3>1
    <3>3. \A i \in 1 .. 4 : /\ r[i].op = "align" => r[i].n # 0
                            /\ r[i].op = "length" => r[i].n = 4
                            /\ r[i].op = "bytes" => i = 3 /\ r[2].op = "length"
                            /\ r[i].op = "length" => i = 2 /\ Len(r) >= 4
      BY <2>3, <3>1
    <3> QED BY <3>2, <3>3
  <2>5. CASE type.kind = "owned"
    <3>1. PICK x \in TakeOp : x = Push(type.n) /\ x.op = "push"
      BY <2>5, Ops DEF Type
    <3>2. r = Append(a, x)
      <4>1. r = a \o <<x>>
        BY <2>1, <2>5, <3>1 DEF Reads
      <4> QED BY <2>2, <4>1
    <3>3. /\ r \in Seq(TakeOp) /\ Len(r) = 5 /\ r[5] = x
          /\ \A i \in 1 .. 4 : r[i] = a[i]
      <4>1. a \in Seq(TakeOp) /\ x \in TakeOp
        BY <2>2
      <4>2. /\ r \in Seq(TakeOp) /\ Len(r) = Len(a) + 1
            /\ \A i \in 1 .. Len(a) : r[i] = a[i]
            /\ r[Len(a) + 1] = x
        BY <3>2, <4>1, AppendProperties
      <4> QED BY <2>2, <4>2
    <3>4. ASSUME NEW i \in 1 .. 5
          PROVE  /\ r[i].op = "align" => r[i].n # 0
                 /\ r[i].op = "length" => r[i].n = 4
                 /\ r[i].op = "bytes" => i = 3 /\ r[2].op = "length"
                 /\ r[i].op = "length" => i = 2 /\ Len(r) >= 4
      <4>1. CASE i \in 1 .. 4
        BY <2>3, <3>3, <4>1
      <4>2. CASE i = 5
        BY <3>1, <3>3, <4>2
      <4> QED BY <4>1, <4>2
    <3> QED BY <3>3, <3>4
  <2> QED BY <1>3, <2>4, <2>5
<1> QED BY <1>1, <1>2, <1>3 DEF Type

TypesInv ==
  /\ message \in Message /\ slot \in Slots
  /\ wstate = "panicked" => pos > slot
  /\ rstate \in {"none", "reading", "ok", "err"}
  /\ rstate # "none" => wstate = "published"
  /\ sent \in Seq(Byte) /\ body \in Seq(Byte)
  /\ rpos \in Nat /\ length \in Nat
  /\ types \in Seq(Type)
  /\ takes = <<>> \/ \E t \in Type, d \in Nat : d <= Len(Reads(t)) /\ takes = Rest(Reads(t), d)
  /\ takes # <<>> /\ Head(takes).op = "bytes" => length # 0

\* The next helper call of the reader.
LEMMA NextTake ==
  ASSUME TypesInv, takes # <<>>
  PROVE  \E t \in Type, r \in Seq(TakeOp), d \in Nat :
            /\ r = Reads(t) /\ takes = Rest(r, d) /\ d + 1 <= Len(r)
            /\ Head(takes) = r[d + 1] /\ Head(takes) \in TakeOp
            /\ Tail(takes) = Rest(r, d + 1)
<1>1. PICK t \in Type, d \in Nat : d <= Len(Reads(t)) /\ takes = Rest(Reads(t), d)
  BY DEF TypesInv
<1>2. PICK r : r = Reads(t)
  OBVIOUS
<1>3. r \in Seq(TakeOp) /\ Len(r) \in Nat
  BY <1>2, ReadsType
<1>4. d <= Len(r) /\ takes = Rest(r, d)
  BY <1>1, <1>2, <1>3
<1>5. d + 1 \in 1 .. Len(r) /\ Head(takes) = r[d + 1] /\ Tail(takes) = Rest(r, d + 1)
  BY <1>3, <1>4, RestNext
<1>6. r[d + 1] \in TakeOp
  BY <1>3, <1>5, ElementOfSeq
<1> QED BY <1>2, <1>3, <1>4, <1>5, <1>6

\* A helper call done, the next is not for the bytes of a string, unless it was
\* the one for their length.
LEMMA TailTakes ==
  ASSUME TypesInv, takes # <<>>, takes' = Tail(takes)
  PROVE  /\ \E t \in Type, d \in Nat : d <= Len(Reads(t)) /\ takes' = Rest(Reads(t), d)
         /\ takes' # <<>> /\ Head(takes').op = "bytes" => Head(takes).op = "length"
<1>1. PICK t \in Type, r \in Seq(TakeOp), d \in Nat :
            /\ r = Reads(t) /\ takes = Rest(r, d) /\ d + 1 <= Len(r)
            /\ Head(takes) = r[d + 1] /\ Tail(takes) = Rest(r, d + 1)
  BY NextTake
<1>2. PICK e \in Nat : e = d + 1 /\ e <= Len(r) /\ Len(r) \in Nat
  BY <1>1, LenProperties
<1>3. takes' = Rest(r, e)
  BY <1>1, <1>2
<1>4. ASSUME takes' # <<>>, Head(takes').op = "bytes" PROVE Head(takes).op = "length"
  <2>1. e + 1 \in 1 .. Len(r) /\ Head(takes') = r[e + 1]
    BY <1>2, <1>3, <1>4, RestNext
  <2>2. e + 1 = 3 /\ r[2].op = "length"
    BY <1>1, <1>4, <2>1, ReadsType
  <2>3. d + 1 = 2
    BY <1>2, <2>2
  <2> QED BY <1>1, <2>2, <2>3
<1> QED BY <1>1, <1>2, <1>3, <1>4

\* A string of length 0: the calls for its bytes and its null are left out.
LEMMA SkippedTakes ==
  ASSUME TypesInv, takes # <<>>, Head(takes).op = "length",
         takes' = SubSeq(takes, 4, Len(takes))
  PROVE  /\ \E t \in Type, d \in Nat : d <= Len(Reads(t)) /\ takes' = Rest(Reads(t), d)
         /\ takes' # <<>> => Head(takes').op # "bytes"
<1>1. PICK t \in Type, r \in Seq(TakeOp), d \in Nat :
            /\ r = Reads(t) /\ takes = Rest(r, d) /\ d + 1 <= Len(r)
            /\ Head(takes) = r[d + 1]
  BY NextTake
<1>2. Len(r) \in Nat /\ d + 1 \in 1 .. Len(r)
  BY <1>1, LenProperties
<1>3. d + 1 = 2 /\ Len(r) >= 4
  BY <1>1, <1>2, ReadsType
<1>4. d = 1 /\ 1 + 3 <= Len(r) /\ 4 <= Len(r)
  BY <1>2, <1>3
<1>5. takes' = Rest(Rest(r, 1), 3)
  BY <1>1, <1>4 DEF Rest
<1>6. takes' = Rest(r, 4)
  BY <1>4, <1>5, RestOfRest
<1>7. ASSUME takes' # <<>> PROVE Head(takes').op # "bytes"
  <2>1. 4 + 1 \in 1 .. Len(r) /\ Head(takes') = r[4 + 1]
    BY <1>4, <1>6, <1>7, RestNext
  <2>2. PICK i \in 1 .. Len(r) : i = 4 + 1 /\ i # 3
    BY <2>1
  <2>3. r[i].op = "bytes" => i = 3
    BY <1>1, ReadsType
  <2> QED BY <2>1, <2>2, <2>3
<1> QED BY <1>1, <1>4, <1>6, <1>7

\* What take is asked for.
LEMMA CountNat ==
  ASSUME TypesInv, takes # <<>>
  PROVE  /\ Count \in Nat
         /\ Head(takes).op = "length" => Count = 4
         /\ Head(takes).op = "align" => Head(takes).n \in Nat \ {0}
<1>1. PICK t \in Type, r \in Seq(TakeOp), d \in Nat :
            /\ r = Reads(t) /\ takes = Rest(r, d) /\ d + 1 <= Len(r)
            /\ Head(takes) = r[d + 1] /\ Head(takes) \in TakeOp
  BY NextTake
<1>2. d + 1 \in 1 .. Len(r)
  BY <1>1, LenProperties
<1>3. /\ Head(takes).n \in Nat
      /\ Head(takes).op = "length" => Head(takes).n = 4
      /\ Head(takes).op = "align" => Head(takes).n # 0
  BY <1>1, <1>2, ReadsType DEF TakeOp
<1>4. Head(takes).op = "bytes" => length - 1 \in Nat
  BY DEF TypesInv
<1> QED BY <1>3, <1>4 DEF Count

\* What take gives.
LEMMA TakenBytes ==
  ASSUME TypesInv, NEW n \in Nat, Left(n), NEW t, t = SubSeq(body, rpos + 1, rpos + n)
  PROVE  /\ t \in Seq(Byte) /\ Len(t) = n
         /\ \A i \in 1 .. n : t[i] = body[rpos + i]
<1>1. rpos \in Nat /\ body \in Seq(Byte) /\ Len(body) \in Nat /\ rpos + n <= Len(body)
  BY LenProperties DEF TypesInv, Left
<1> QED BY <1>1, PartOf

LEMMA PaddingNat ==
  ASSUME NEW p \in Nat, NEW n \in Nat \ {0}
  PROVE  Padding(p, n) \in Nat
<1>1. PICK r : r = p % n
  OBVIOUS
<1>2. r \in 0 .. n - 1
  BY <1>1, Division
<1>3. PICK q \in Nat : q = n - r
  BY <1>2
<1>4. q % n \in Nat
  BY <1>3, Division
<1> QED BY <1>1, <1>3, <1>4 DEF Padding

\* The body that is delivered is the front of the one sent.
LEMMA DeliveredBody ==
  ASSUME sent \in Seq(Byte), NEW missing \in Missing, Deliver(missing)
  PROVE  /\ body' \in Seq(Byte) /\ Len(body') <= Len(sent)
         /\ \A i \in 1 .. Len(body') : body'[i] = sent[i]
<1>1. PICK h : h = <<0, 1, 0, 0>>
  OBVIOUS
<1>2. h \in Seq(Byte) /\ Len(h) = 4
  BY <1>1 DEF Byte
<1>3. PICK payload : payload = Encapsulated(sent)
  OBVIOUS
<1>4. /\ payload \in Seq(Byte) /\ Len(payload) = 4 + Len(sent) /\ Len(sent) \in Nat
      /\ \A i \in 1 .. Len(sent) : payload[4 + i] = sent[i]
  <2> DEFINE c == h \o sent
  <2>1. payload = c
    BY <1>1, <1>3 DEF Encapsulated
  <2>2. /\ c \in Seq(Byte) /\ Len(c) = Len(h) + Len(sent)
        /\ \A i \in 1 .. Len(h) + Len(sent) : c[i] = IF i <= Len(h) THEN h[i] ELSE sent[i - Len(h)]
    BY <1>2, ConcatProperties, ZenonT(60)
  <2> HIDE DEF c
  <2>3. Len(sent) \in Nat
    BY LenProperties
  <2>4. ASSUME NEW i \in 1 .. Len(sent) PROVE c[4 + i] = sent[i]
    <3>1. 4 + i \in 1 .. Len(h) + Len(sent) /\ ~(4 + i <= Len(h)) /\ (4 + i) - Len(h) = i
      BY <1>2, <2>3
    <3> QED BY <2>2, <3>1
  <2> QED BY <1>2, <2>1, <2>2, <2>3, <2>4
<1>5. PICK n \in Nat : n = Len(payload) - missing /\ n <= Len(payload)
  BY <1>3, <1>4, CodecAssumption DEF Deliver
<1>6. PICK part : part = SubSeq(payload, 1, n)
  OBVIOUS
<1>7. \A i \in 1 .. n : payload[i] \in Byte
  BY <1>4, <1>5, ElementOfSeq
<1>8. /\ part \in Seq(Byte) /\ Len(part) = IF 1 <= n THEN n - 1 + 1 ELSE 0
      /\ \A i \in 1 .. n - 1 + 1 : part[i] = payload[1 + i - 1]
  BY <1>6, <1>7, SubSeqProperties
<1>9. Len(part) = n /\ \A i \in 1 .. n : part[i] = payload[i]
  BY <1>8
<1>10. body' = SubSeq(part, 5, n)
  BY <1>3, <1>5, <1>6, <1>9 DEF Deliver, New
<1>11. \A i \in 5 .. n : part[i] \in Byte
  BY <1>8, <1>9, ElementOfSeq
<1>12. /\ body' \in Seq(Byte) /\ Len(body') = IF 5 <= n THEN n - 5 + 1 ELSE 0
       /\ \A i \in 1 .. n - 5 + 1 : body'[i] = part[5 + i - 1]
  BY <1>10, <1>11, SubSeqProperties
<1>13. Len(body') <= Len(sent)
  BY <1>4, <1>5, <1>12
<1>14. ASSUME NEW i \in 1 .. Len(body') PROVE body'[i] = sent[i]
  <2>1. i \in Nat /\ i \in 1 .. n - 5 + 1 /\ 5 + i - 1 = 4 + i /\ 4 + i \in 1 .. n /\ i \in 1 .. Len(sent)
    BY <1>4, <1>5, <1>12
  <2> QED BY <1>4, <1>9, <1>12, <2>1
<1> QED BY <1>12, <1>13, <1>14

LEMMA InitTypes ==
  ASSUME Init
  PROVE  TypesInv
<1>1. sent \in Seq(Byte) /\ body \in Seq(Byte) /\ types \in Seq(Type)
  BY EmptySeq DEF Init
<1> QED BY <1>1 DEF Init, TypesInv

\* The writer's steps leave the reader alone.
LEMMA SerializeTypes ==
  ASSUME Inv, TypesInv, Serialize
  PROVE  TypesInv'
<1>1. /\ UNCHANGED <<message, slot, readerVars>>
      /\ wstate = "writing" /\ wstate' = "panicked" => pos' > slot
      /\ wstate = "writing"
  BY DEF Serialize, WriteField, WriteAlign, WriteRaw, WritePanics, Publish, Put, Calling
<1>2. sent' \in Seq(Byte)
  <2>1. CASE Publish
    <3>1. BodyIsPrefix' /\ laid' \in Seq(Byte) /\ slot' \in Nat /\ wstate' = "published"
      BY <2>1, PublishInv DEF Inv, WriterInv, LayoutInv, Publish
    <3>2. PICK s : s = laid'
      OBVIOUS
    <3>3. PICK n \in Nat : n = Least(Len(s), slot')
      BY <3>1, <3>2, LenProperties DEF Least
    <3>4. s \in Seq(Byte) /\ sent' = SubSeq(s, 1, n) /\ n <= Len(s)
      <4>1. sent' = SubSeq(s, 1, n)
        BY <3>1, <3>2, <3>3 DEF BodyIsPrefix
      <4>2. s \in Seq(Byte) /\ Len(s) \in Nat
        BY <3>1, <3>2, LenProperties
      <4> QED BY <3>1, <3>3, <4>1, <4>2 DEF Least
    <3>5. \A i \in 1 .. n : s[i] \in Byte
      BY <3>4, ElementOfSeq, LenProperties
    <3> QED BY <3>4, <3>5, SubSeqProperties
  <2>2. CASE ~Publish
    <3>1. sent' = sent
      BY <2>2 DEF Serialize, WriteField, WriteAlign, WriteRaw, WritePanics, Put
    <3> QED BY <3>1 DEF TypesInv
  <2> QED BY <2>1, <2>2
<1> QED BY <1>1, <1>2 DEF TypesInv, readerVars

LEMMA DeliverTypes ==
  ASSUME TypesInv, NEW missing \in Missing, Deliver(missing)
  PROVE  TypesInv'
<1>1. body' \in Seq(Byte)
  BY DeliveredBody DEF TypesInv
<1>2. types' \in Seq(Type)
  BY CodecAssumption DEF TypesInv, Deliver
<1> QED BY <1>1, <1>2 DEF TypesInv, Deliver, writerVars

LEMMA ReadFieldTypes ==
  ASSUME TypesInv, ReadField
  PROVE  TypesInv'
<1>1. types \in Seq(Type) /\ types # <<>>
  BY DEF TypesInv, ReadField
<1>2. PICK t \in Type : t = Head(types) /\ types' = Tail(types) /\ types' \in Seq(Type)
  BY <1>1, HeadTailProperties DEF ReadField
<1>3. PICK r \in Seq(TakeOp) : r = Reads(t)
  BY <1>2, ReadsType
<1>4. takes' = r
  BY <1>2, <1>3 DEF ReadField
<1>5. /\ Rest(r, 0) \in Seq(TakeOp) /\ Len(Rest(r, 0)) = Len(r)
      /\ \A i \in 1 .. Len(r) : Rest(r, 0)[i] = r[i]
      /\ Len(r) \in Nat
  BY <1>3, LenProperties, RestSeq
<1>6. Rest(r, 0) = r
  BY <1>5, SeqEqual
<1>7. \E u \in Type, d \in Nat : d <= Len(Reads(u)) /\ takes' = Rest(Reads(u), d)
  BY <1>3, <1>4, <1>5, <1>6
<1>8. takes' # <<>> => Head(takes').op # "bytes"
  <2>1. CASE takes' # <<>>
    <3>1. 0 + 1 \in 1 .. Len(r) /\ Head(takes') = r[0 + 1]
      BY <1>4, <1>5, <1>6, <2>1, RestNext
    <3>2. PICK i \in 1 .. Len(r) : i = 0 + 1 /\ i # 3
      BY <3>1
    <3>3. r[i].op = "bytes" => i = 3
      BY <1>3, ReadsType
    <3> QED BY <3>1, <3>2, <3>3
  <2> QED BY <2>1
<1> QED BY <1>2, <1>7, <1>8 DEF TypesInv, ReadField, writerVars

LEMMA ReadAlignTypes ==
  ASSUME TypesInv, ReadAlign
  PROVE  TypesInv'
<1>1. takes # <<>> /\ Head(takes).op = "align" /\ takes' = Tail(takes)
  BY DEF ReadAlign, Taking
<1>2. rpos' \in Nat
  <2>1. PICK n \in Nat \ {0} : n = Head(takes).n
    BY <1>1, CountNat
  <2>2. rpos \in Nat /\ Padding(rpos, n) \in Nat
    BY <2>1, PaddingNat DEF TypesInv
  <2>3. rpos' = rpos + Padding(rpos, n)
    BY <2>1 DEF ReadAlign
  <2> QED BY <2>2, <2>3
<1>3. takes' # <<>> => Head(takes').op # "bytes"
  BY <1>1, TailTakes
<1> QED BY <1>1, <1>2, <1>3, TailTakes DEF TypesInv, ReadAlign, writerVars

LEMMA GotTypes ==
  ASSUME TypesInv, takes # <<>>, NEW more, Got(more)
  PROVE  rpos' \in Nat
<1>1. Count \in Nat /\ rpos \in Nat
  BY CountNat DEF TypesInv
<1>2. rpos' = rpos + Count
  BY DEF Got
<1> QED BY <1>1, <1>2

LEMMA ReadTakeTypes ==
  ASSUME TypesInv, ReadTake \/ ReadNull
  PROVE  TypesInv'
<1>1. /\ takes # <<>> /\ Head(takes).op # "length" /\ takes' = Tail(takes)
      /\ \E more : Got(more)
      /\ length' = length
  BY DEF ReadTake, ReadNull, Taking
<1>2. rpos' \in Nat
  BY <1>1, GotTypes
<1>3. takes' # <<>> => Head(takes').op # "bytes"
  BY <1>1, TailTakes
<1> QED BY <1>1, <1>2, <1>3, TailTakes DEF TypesInv, Got, writerVars

\* Four bytes are a number.
LEMMA FromLe32Nat ==
  ASSUME NEW b, b[1] \in Byte, b[2] \in Byte, b[3] \in Byte, b[4] \in Byte
  PROVE  FromLe32(b) \in Nat
<1>1. b[1] \in Nat /\ b[2] \in Nat /\ b[3] \in Nat /\ b[4] \in Nat
  BY DEF Byte
<1>2. \A b1, b2, b3, b4 \in Nat : b1 + 256 * (b2 + 256 * (b3 + 256 * b4)) \in Nat
  OBVIOUS
<1> QED BY <1>1, <1>2 DEF FromLe32

LEMMA ReadLengthTypes ==
  ASSUME TypesInv, ReadLength
  PROVE  TypesInv'
<1>1. /\ takes # <<>> /\ Head(takes).op = "length" /\ takes' = Tail(takes)
      /\ Got(<<>>)
  BY DEF ReadLength, Taking
<1>2. rpos' \in Nat
  BY <1>1, GotTypes
<1>3. length' \in Nat /\ length' # 0
  <2>1. Count = 4
    BY <1>1, CountNat
  <2>2. Left(4)
    BY <1>1, <2>1 DEF Got
  <2>3. PICK n \in Nat : n = 4
    OBVIOUS
  <2>4. PICK t : t = SubSeq(body, rpos + 1, rpos + n)
    OBVIOUS
  <2>5. t \in Seq(Byte) /\ Len(t) = n
    BY <2>2, <2>3, <2>4, TakenBytes
  <2>6. t[1] \in Byte /\ t[2] \in Byte /\ t[3] \in Byte /\ t[4] \in Byte
    BY <2>3, <2>5, ElementOfSeq
  <2>7. FromLe32(t) \in Nat
    BY <2>6, FromLe32Nat
  <2>8. Taken = t
    BY <2>1, <2>3, <2>4 DEF Taken
  <2> QED BY <2>7, <2>8 DEF ReadLength
<1> QED BY <1>1, <1>2, <1>3, TailTakes DEF TypesInv, Got, writerVars

LEMMA ReadLengthZeroTypes ==
  ASSUME TypesInv, ReadLengthZero
  PROVE  TypesInv'
<1>1. /\ takes # <<>> /\ Head(takes).op = "length" /\ takes' = SubSeq(takes, 4, Len(takes))
      /\ Got(<<<<>>>>) /\ length' = length
  BY DEF ReadLengthZero, Taking
<1>2. rpos' \in Nat
  BY <1>1, GotTypes
<1> QED BY <1>1, <1>2, SkippedTakes DEF TypesInv, Got, writerVars

LEMMA ReadPushTypes ==
  ASSUME TypesInv, ReadPush
  PROVE  TypesInv'
<1>1. takes # <<>> /\ Head(takes).op # "length" /\ takes' = Tail(takes)
  BY DEF ReadPush, Taking
<1>2. takes' # <<>> => Head(takes').op # "bytes"
  BY <1>1, TailTakes
<1> QED BY <1>1, <1>2, TailTakes DEF TypesInv, ReadPush, writerVars

LEMMA EndsTypes ==
  ASSUME TypesInv, ReadFails \/ ReadDone \/ UNCHANGED vars
  PROVE  TypesInv'
<1>1. CASE ReadFails
  <2>1. rstate = "reading" /\ rstate' = "err"
    BY <1>1 DEF ReadFails, Taking
  <2> QED BY <1>1, <2>1 DEF TypesInv, ReadFails, writerVars
<1>2. CASE ReadDone
  BY <1>2 DEF TypesInv, ReadDone, writerVars
<1>3. CASE UNCHANGED vars
  BY <1>3 DEF TypesInv, vars, writerVars, readerVars
<1> QED BY <1>1, <1>2, <1>3

LEMMA NextTypes ==
  ASSUME Inv, TypesInv, [Next]_vars
  PROVE  TypesInv'
<1>1. CASE Serialize
  BY <1>1, SerializeTypes
<1>2. ASSUME NEW missing \in Missing, Deliver(missing)
      PROVE  TypesInv'
  BY <1>2, DeliverTypes
<1>3. CASE Deserialize
  BY <1>3, ReadFieldTypes, ReadAlignTypes, ReadTakeTypes, ReadLengthTypes,
     ReadLengthZeroTypes, ReadPushTypes, EndsTypes
     DEF Deserialize
<1>4. CASE UNCHANGED vars
  BY <1>4, EndsTypes
<1> QED BY <1>1, <1>2, <1>3, <1>4 DEF Next

\* CodecTypeOK, for all messages and slots, whatever is lost on the way.
THEOREM CodecTypeCorrect == Spec => []CodecTypeOK
<1>1. Inv /\ TypesInv => CodecTypeOK
  <2>1. Inv /\ slot \in Slots => pos \in Nat
    BY LenProperties DEF Inv, WriterInv, LayoutInv
  <2>2. TypesInv => slot \in Slots
    BY DEF TypesInv
  <2> QED BY <2>1, <2>2 DEF Inv, WriterInv, TypesInv, CodecTypeOK
<1>2. Init => Inv /\ TypesInv
  BY InitInv, InitTypes
<1>3. Inv /\ TypesInv /\ [Next]_vars => Inv' /\ TypesInv'
  BY NextInv, NextTypes
<1> QED BY <1>1, <1>2, <1>3, PTL DEF Spec

\* PanicsOnlyBeyond, for all messages and slots: a message that the slot has
\* room for never makes serialize panic.
THEOREM PanicsBeyondTheSlot == Spec => []PanicsOnlyBeyond
<1>1. Inv /\ TypesInv => PanicsOnlyBeyond
  BY DEF Inv, LayoutInv, TypesInv, PanicsOnlyBeyond
<1>2. Init => Inv /\ TypesInv
  BY InitInv, InitTypes
<1>3. Inv /\ TypesInv /\ [Next]_vars => Inv' /\ TypesInv'
  BY NextInv, NextTypes
<1> QED BY <1>1, <1>2, <1>3, PTL DEF Spec

-----------------------------------------------------------------------------
\* LayoutInv, for all messages and slots.
THEOREM BufferHoldsLayout == Spec => []LayoutInv
<1>1. Inv => LayoutInv
  BY DEF Inv
<1> QED BY <1>1, InitInv, NextInv, PTL DEF Spec

\* BodyIsPrefix, for all messages and slots: whatever was in tx_buf before and
\* wherever the slot ends, publish sends bytes of this message's layout, and
\* all of them when they fit.
THEOREM PublishSendsTheLayout == Spec => []BodyIsPrefix
<1>1. LayoutInv => BodyIsPrefix
  BY DEF LayoutInv
<1> QED BY <1>1, BufferHoldsLayout, PTL

-----------------------------------------------------------------------------
(* Where the fields of a message are in its layout. *)

\* s has the bytes b behind its first p.
Stands(s, p, b) == p + Len(b) <= Len(s) /\ \A i \in 1 .. Len(b) : s[p + i] = b[i]

\* One call of a helper laid out s from a to b.
CallAt(s, w, a, b) ==
  /\ a \in Nat /\ b \in Nat /\ b <= Len(s)
  /\ w.op = "align" => b = a + Padding(a, w.n)
  /\ w.op = "raw" => b = a + Len(w.bytes) /\ Stands(s, a, w.bytes)

\* The first c calls of w did, the i-th up to q[i].
CallsAt(s, w, c, q) ==
  /\ q[0] \in Nat /\ q[0] <= Len(s)
  /\ \A i \in 1 .. c : CallAt(s, w[i], q[i - 1], q[i])

FieldAt(s, field, a, b) ==
  \E q : /\ CallsAt(s, Writes(field), Len(Writes(field)), q)
         /\ q[0] = a /\ q[Len(Writes(field))] = b

\* The i-th of the first k fields of the message ends at ends[i], and vals[i]
\* are the values up to there.
MessageAt(s, k, ends, vals) ==
  /\ ends[0] = 0 /\ vals[0] = <<>>
  /\ \A i \in 1 .. k : /\ FieldAt(s, message.fields[i], ends[i - 1], ends[i])
                       /\ vals[i] = vals[i - 1] \o message.fields[i].pieces

\* The writer between two fields, and inside one.
Between(k, ends, vals) ==
  /\ calls = <<>> /\ fields = Rest(message.fields, k)
  /\ ends[k] = Len(laid) /\ written = vals[k]

Inside(k, ends, vals) ==
  /\ k + 1 <= Len(message.fields) /\ fields = Rest(message.fields, k + 1)
  /\ written = vals[k] \o message.fields[k + 1].pieces
  /\ \E c, q :
       /\ c \in Nat /\ c <= Len(Writes(message.fields[k + 1]))
       /\ calls = Rest(Writes(message.fields[k + 1]), c)
       /\ CallsAt(laid, Writes(message.fields[k + 1]), c, q)
       /\ q[0] = ends[k] /\ q[c] = Len(laid)

WritingInv ==
  \E k, ends, vals :
    /\ k \in Nat /\ k <= Len(message.fields) /\ MessageAt(laid, k, ends, vals)
    /\ Between(k, ends, vals) \/ Inside(k, ends, vals)

LEMMA CallStays ==
  ASSUME NEW s \in Seq(Byte), NEW t \in Seq(Byte), Begins(t, s), NEW w \in Call,
         NEW a, NEW b, CallAt(s, w, a, b)
  PROVE  CallAt(t, w, a, b)
<1>1. Len(s) \in Nat /\ Len(t) \in Nat /\ Len(s) <= Len(t)
  BY LenProperties DEF Begins
<1>2. w.op = "raw" => w.bytes \in Seq(Byte) /\ Len(w.bytes) \in Nat
  BY LenProperties DEF Call
<1>3. ASSUME w.op = "raw", Stands(s, a, w.bytes), a \in Nat PROVE Stands(t, a, w.bytes)
  <2>1. \A i \in 1 .. Len(w.bytes) : a + i \in 1 .. Len(s)
    BY <1>1, <1>2, <1>3 DEF Stands
  <2>2. \A i \in 1 .. Len(w.bytes) : t[a + i] = w.bytes[i]
    BY <1>3, <2>1 DEF Stands, Begins
  <2> QED BY <1>1, <1>2, <1>3, <2>2 DEF Stands
<1> QED BY <1>1, <1>3 DEF CallAt

LEMMA CallsStay ==
  ASSUME NEW s \in Seq(Byte), NEW t \in Seq(Byte), Begins(t, s), NEW w \in Seq(Call),
         NEW c \in Nat, c <= Len(w), NEW q, CallsAt(s, w, c, q)
  PROVE  CallsAt(t, w, c, q)
<1>1. Len(s) \in Nat /\ Len(t) \in Nat /\ Len(s) <= Len(t)
  BY LenProperties DEF Begins
<1>2. q[0] \in Nat /\ q[0] <= Len(t)
  BY <1>1 DEF CallsAt
<1>3. ASSUME NEW i \in 1 .. c PROVE CallAt(t, w[i], q[i - 1], q[i])
  <2>1. CallAt(s, w[i], q[i - 1], q[i])
    BY DEF CallsAt
  <2>2. w[i] \in Call
    <3>1. i \in 1 .. Len(w)
      BY LenProperties
    <3> QED BY <3>1, ElementOfSeq
  <2> QED BY <2>1, <2>2, CallStays
<1> QED BY <1>2, <1>3 DEF CallsAt

LEMMA FieldStays ==
  ASSUME NEW s \in Seq(Byte), NEW t \in Seq(Byte), Begins(t, s), NEW field \in Field,
         NEW a, NEW b, FieldAt(s, field, a, b)
  PROVE  FieldAt(t, field, a, b)
<1>1. PICK w \in Seq(Call) : w = Writes(field)
  BY CodecAssumption
<1>2. PICK q : CallsAt(s, w, Len(w), q) /\ q[0] = a /\ q[Len(w)] = b
  BY <1>1 DEF FieldAt
<1>3. Len(w) \in Nat /\ Len(w) <= Len(w)
  BY LenProperties
<1>4. CallsAt(t, w, Len(w), q)
  BY <1>2, <1>3, CallsStay
<1> QED BY <1>1, <1>2, <1>4 DEF FieldAt

LEMMA MessageStays ==
  ASSUME NEW s \in Seq(Byte), NEW t \in Seq(Byte), Begins(t, s), message \in Message,
         NEW k \in Nat, k <= Len(message.fields), NEW ends, NEW vals, MessageAt(s, k, ends, vals)
  PROVE  MessageAt(t, k, ends, vals)
<1>1. ASSUME NEW i \in 1 .. k PROVE FieldAt(t, message.fields[i], ends[i - 1], ends[i])
  <2>1. message.fields[i] \in Field
    <3>1. message.fields \in Seq(Field)
      BY CodecAssumption
    <3>2. i \in 1 .. Len(message.fields)
      BY <3>1, LenProperties
    <3> QED BY <3>1, <3>2, ElementOfSeq
  <2>2. FieldAt(s, message.fields[i], ends[i - 1], ends[i])
    BY DEF MessageAt
  <2> QED BY <2>1, <2>2, FieldStays
<1> QED BY <1>1 DEF MessageAt

\* With no call left a field is complete.
LEMMA FieldDone ==
  ASSUME Inv, message \in Message, WritingInv, calls = <<>>
  PROVE  \E k, ends, vals :
           /\ k \in Nat /\ k <= Len(message.fields) /\ MessageAt(laid, k, ends, vals)
           /\ Between(k, ends, vals)
<1>1. PICK k, ends, vals :
        /\ k \in Nat /\ k <= Len(message.fields) /\ MessageAt(laid, k, ends, vals)
        /\ Between(k, ends, vals) \/ Inside(k, ends, vals)
  BY DEF WritingInv
<1>2. CASE Between(k, ends, vals)
  BY <1>1, <1>2
<1>3. CASE Inside(k, ends, vals)
  <2>1. message.fields \in Seq(Field) /\ Len(message.fields) \in Nat
    BY CodecAssumption, LenProperties
  <2>2. PICK field : field = message.fields[k + 1]
    OBVIOUS
  <2>3. PICK n \in Nat : n = k + 1 /\ n <= Len(message.fields)
    BY <1>1, <1>3 DEF Inside
  <2>4. field \in Field
    BY <1>1, <2>1, <2>2, <2>3, ElementOfSeq
  <2>5. PICK w \in Seq(Call) : w = Writes(field)
    BY <2>4, CodecAssumption
  <2>6. PICK c, q :
          /\ c \in Nat /\ c <= Len(w) /\ calls = Rest(w, c)
          /\ CallsAt(laid, w, c, q) /\ q[0] = ends[k] /\ q[c] = Len(laid)
    BY <1>3, <2>2, <2>5 DEF Inside
  <2>7. c = Len(w)
    BY <2>6, RestEmpty
  <2>8. FieldAt(laid, field, ends[k], Len(laid))
    BY <2>5, <2>6, <2>7 DEF FieldAt
  <2> DEFINE ends2 == [i \in 0 .. n |-> IF i = n THEN Len(laid) ELSE ends[i]]
             vals2 == [i \in 0 .. n |-> IF i = n THEN written ELSE vals[i]]
  <2>9. ends2[n] = Len(laid) /\ vals2[n] = written /\ written = vals[k] \o field.pieces
    <3>1. written = vals[k] \o field.pieces
      BY <1>3, <2>2 DEF Inside
    <3>2. ends2[n] = Len(laid) /\ vals2[n] = written
      BY <2>3
    <3> HIDE DEF ends2, vals2
    <3> QED BY <3>1, <3>2
  <2>10. \A i \in 0 .. k : ends2[i] = ends[i] /\ vals2[i] = vals[i]
    BY <1>1, <2>3
  <2> HIDE DEF ends2, vals2
  <2>11. ASSUME NEW i \in 1 .. n
         PROVE  /\ FieldAt(laid, message.fields[i], ends2[i - 1], ends2[i])
                /\ vals2[i] = vals2[i - 1] \o message.fields[i].pieces
    <3>1. CASE i = n
      <4>1. i - 1 = k /\ k \in 0 .. k /\ message.fields[i] = field
        BY <1>1, <2>2, <2>3, <3>1
      <4> QED BY <2>8, <2>9, <2>10, <3>1, <4>1
    <3>2. CASE i # n
      <4>1. i \in 1 .. k /\ i \in 0 .. k /\ i - 1 \in 0 .. k
        BY <1>1, <2>3, <3>2
      <4>2. /\ FieldAt(laid, message.fields[i], ends[i - 1], ends[i])
            /\ vals[i] = vals[i - 1] \o message.fields[i].pieces
        BY <1>1, <4>1 DEF MessageAt
      <4> QED BY <2>10, <4>1, <4>2
    <3> QED BY <3>1, <3>2
  <2>12. MessageAt(laid, n, ends2, vals2)
    <3>1. 0 \in 0 .. k /\ ends[0] = 0 /\ vals[0] = <<>>
      BY <1>1 DEF MessageAt
    <3> QED BY <2>10, <2>11, <3>1 DEF MessageAt
  <2>13. Between(n, ends2, vals2)
    BY <1>3, <2>3, <2>9 DEF Between, Inside
  <2> QED BY <2>3, <2>12, <2>13
<1> QED BY <1>1, <1>2, <1>3

LEMMA WriteFieldTrip ==
  ASSUME Inv, message \in Message, WritingInv, WriteField
  PROVE  WritingInv'
<1>1. PICK k, ends, vals :
        /\ k \in Nat /\ k <= Len(message.fields) /\ MessageAt(laid, k, ends, vals)
        /\ Between(k, ends, vals)
  BY FieldDone DEF WriteField
<1>2. message.fields \in Seq(Field) /\ Len(message.fields) \in Nat
  BY CodecAssumption, LenProperties
<1>3. fields = Rest(message.fields, k) /\ fields # <<>>
  BY <1>1 DEF Between, WriteField
<1>4. /\ k + 1 \in 1 .. Len(message.fields)
      /\ Head(fields) = message.fields[k + 1] /\ Tail(fields) = Rest(message.fields, k + 1)
  BY <1>1, <1>2, <1>3, RestNext
<1>5. PICK field \in Field : field = message.fields[k + 1]
  BY <1>2, <1>4, ElementOfSeq
<1>6. PICK w \in Seq(Call) : w = Writes(field) /\ Len(w) \in Nat
  BY CodecAssumption, LenProperties
<1>7. /\ calls' = w /\ fields' = Rest(message.fields, k + 1)
      /\ written' = vals[k] \o field.pieces
      /\ message' = message /\ laid' = laid
  BY <1>1, <1>4, <1>5, <1>6 DEF WriteField, Between
<1>8. Rest(w, 0) = w
  BY <1>6, RestWhole
<1>9. Len(laid) \in Nat
  BY LenProperties DEF Inv, WriterInv
<1> DEFINE q == [i \in 0 .. 0 |-> Len(laid)]
<1>10. q[0] = Len(laid) /\ CallsAt(laid, w, 0, q)
  BY <1>9 DEF CallsAt
<1> HIDE DEF q
<1>11. Inside(k, ends, vals)'
  <2>1. /\ 0 \in Nat /\ 0 <= Len(w) /\ calls' = Rest(w, 0) /\ CallsAt(laid', w, 0, q)
        /\ q[0] = ends[k] /\ q[0] = Len(laid')
    BY <1>1, <1>6, <1>7, <1>8, <1>10 DEF Between
  <2>2. \E c, qq :
          /\ c \in Nat /\ c <= Len(w) /\ calls' = Rest(w, c)
          /\ CallsAt(laid', w, c, qq) /\ qq[0] = ends[k] /\ qq[c] = Len(laid')
    BY <2>1, Zenon
  <2>3. k + 1 <= Len(message'.fields)
    BY <1>4, <1>7
  <2> QED BY <1>5, <1>6, <1>7, <2>2, <2>3 DEF Inside
<1>12. MessageAt(laid, k, ends, vals)'
  BY <1>1, <1>7 DEF MessageAt
<1> QED BY <1>1, <1>7, <1>11, <1>12 DEF WritingInv

\* A call of a helper lays its bytes behind the layout.
LEMMA PutTrip ==
  ASSUME Inv, message \in Message, WritingInv, calls # <<>>, NEW bytes \in Seq(Byte), Put(bytes),
         Head(calls).op = "align" => Len(bytes) = Padding(pos, Head(calls).n),
         Head(calls).op = "raw" => bytes = Head(calls).bytes
  PROVE  WritingInv'
<1>1. PICK k, ends, vals :
        /\ k \in Nat /\ k <= Len(message.fields) /\ MessageAt(laid, k, ends, vals)
        /\ Inside(k, ends, vals)
  BY DEF WritingInv, Between
<1>2. message.fields \in Seq(Field) /\ Len(message.fields) \in Nat
  BY CodecAssumption, LenProperties
<1>3. k + 1 \in 1 .. Len(message.fields)
  BY <1>1, <1>2 DEF Inside
<1>4. PICK field \in Field : field = message.fields[k + 1]
  BY <1>2, <1>3, ElementOfSeq
<1>5. PICK w \in Seq(Call) : w = Writes(field) /\ Len(w) \in Nat
  BY CodecAssumption, LenProperties
<1>6. PICK c, q :
        /\ c \in Nat /\ c <= Len(w) /\ calls = Rest(w, c)
        /\ CallsAt(laid, w, c, q) /\ q[0] = ends[k] /\ q[c] = Len(laid)
  BY <1>1, <1>4, <1>5 DEF Inside
<1>7. /\ c + 1 \in 1 .. Len(w)
      /\ Head(calls) = w[c + 1] /\ Tail(calls) = Rest(w, c + 1)
  BY <1>6, RestNext
<1>8. PICK l \in Seq(Byte) : l = laid
  BY DEF Inv, WriterInv
<1>9. PICK m \in Seq(Byte) : m = l \o bytes
  BY <1>8, ConcatProperties
<1>10. /\ Len(m) = Len(l) + Len(bytes) /\ Len(l) \in Nat /\ Len(bytes) \in Nat /\ Len(m) \in Nat
       /\ \A i \in 1 .. Len(l) + Len(bytes) :
            m[i] = IF i <= Len(l) THEN l[i] ELSE bytes[i - Len(l)]
  BY <1>8, <1>9, ConcatProperties, LenProperties
<1>11. Begins(m, l)
  BY <1>10 DEF Begins
<1>12. /\ laid' = m /\ calls' = Tail(calls) /\ message' = message
       /\ fields' = fields /\ written' = written /\ pos = Len(l)
  BY <1>8, <1>9 DEF Put, Inv, LayoutInv
<1>13. Stands(m, Len(l), bytes)
  <2>1. ASSUME NEW i \in 1 .. Len(bytes) PROVE m[Len(l) + i] = bytes[i]
    <3>1. Len(l) + i \in 1 .. Len(l) + Len(bytes) /\ ~(Len(l) + i <= Len(l)) /\ (Len(l) + i) - Len(l) = i
      BY <1>10
    <3> QED BY <1>10, <3>1
  <2> QED BY <1>10, <2>1 DEF Stands
<1>14. CallAt(m, w[c + 1], Len(l), Len(m))
  <2>1. PICK x : x = w[c + 1] /\ x = Head(calls)
    BY <1>7
  <2>2. x.op = "align" => Len(m) = Len(l) + Padding(Len(l), x.n)
    BY <1>10, <1>12, <2>1
  <2>3. x.op = "raw" => Len(m) = Len(l) + Len(x.bytes) /\ Stands(m, Len(l), x.bytes)
    BY <1>10, <1>13, <2>1
  <2>4. Len(l) \in Nat /\ Len(m) \in Nat /\ Len(m) <= Len(m)
    BY <1>10
  <2>5. CallAt(m, x, Len(l), Len(m))
    BY <2>2, <2>3, <2>4 DEF CallAt
  <2> QED BY <2>1, <2>5
<1>15. CallsAt(m, w, c, q)
  BY <1>6, <1>8, <1>11, CallsStay
<1>16. PICK d \in Nat : d = c + 1 /\ d <= Len(w)
  BY <1>6, <1>7
<1> DEFINE r == [i \in 0 .. d |-> IF i = d THEN Len(m) ELSE q[i]]
<1>17. r[d] = Len(m) /\ \A i \in 0 .. c : r[i] = q[i]
  BY <1>6, <1>16
<1> HIDE DEF r
<1>18. CallsAt(m, w, d, r) /\ r[0] = q[0]
  <2>1. r[0] = q[0] /\ q[0] \in Nat /\ q[0] <= Len(m)
    BY <1>6, <1>15, <1>17 DEF CallsAt
  <2>2. ASSUME NEW i \in 1 .. d PROVE CallAt(m, w[i], r[i - 1], r[i])
    <3>1. CASE i = d
      <4>1. i - 1 = c /\ c \in 0 .. c /\ w[i] = w[c + 1]
        BY <1>6, <1>16, <3>1
      <4>2. r[i - 1] = Len(l) /\ r[i] = Len(m)
        BY <1>6, <1>8, <1>17, <3>1, <4>1
      <4> QED BY <1>14, <4>1, <4>2
    <3>2. CASE i # d
      <4>1. i \in 1 .. c /\ i \in 0 .. c /\ i - 1 \in 0 .. c
        BY <1>6, <1>16, <3>2
      <4> QED BY <1>15, <1>17, <4>1 DEF CallsAt
    <3> QED BY <3>1, <3>2
  <2> QED BY <2>1, <2>2 DEF CallsAt
<1>19. Inside(k, ends, vals)'
  <2>1. /\ d \in Nat /\ d <= Len(w) /\ calls' = Rest(w, d) /\ CallsAt(laid', w, d, r)
        /\ r[0] = ends[k] /\ r[d] = Len(laid')
    BY <1>6, <1>7, <1>12, <1>16, <1>17, <1>18
  <2>2. \E cc, qq :
          /\ cc \in Nat /\ cc <= Len(w) /\ calls' = Rest(w, cc)
          /\ CallsAt(laid', w, cc, qq) /\ qq[0] = ends[k] /\ qq[cc] = Len(laid')
    BY <2>1, Zenon
  <2>3. k + 1 <= Len(message'.fields)
    BY <1>3, <1>12
  <2>4. fields' = Rest(message'.fields, k + 1) /\ written' = vals[k] \o message'.fields[k + 1].pieces
    BY <1>1, <1>12 DEF Inside
  <2> QED BY <1>4, <1>5, <1>12, <2>2, <2>3, <2>4 DEF Inside
<1>20. MessageAt(laid, k, ends, vals)'
  <2>1. MessageAt(m, k, ends, vals)
    BY <1>1, <1>8, <1>11, MessageStays
  <2> QED BY <1>12, <2>1 DEF MessageAt
<1> QED BY <1>1, <1>12, <1>19, <1>20 DEF WritingInv


-----------------------------------------------------------------------------
(* What a field is in the layout. *)

LEMMA WriteOps ==
  \A n, b : /\ Align(n).op = "align" /\ Align(n).n = n
            /\ Raw(b).op = "raw" /\ Raw(b).bytes = b
BY DEF Align, Raw

\* What the calls of a scalar and of a string come to.
LEMMA AlignAt ==
  ASSUME NEW s, NEW n, NEW a, NEW b, CallAt(s, Align(n), a, b)
  PROVE  a \in Nat /\ b \in Nat /\ b = a + Padding(a, n) /\ b <= Len(s)
BY WriteOps DEF CallAt

LEMMA RawAt ==
  ASSUME NEW s, NEW x, NEW a, NEW b, CallAt(s, Raw(x), a, b)
  PROVE  a \in Nat /\ b \in Nat /\ b = a + Len(x) /\ b <= Len(s) /\ Stands(s, a, x)
BY WriteOps DEF CallAt

LEMMA PaddingOne == \A a \in Nat : Padding(a, 1) = 0
<1> TAKE a \in Nat
<1>1. PICK m \in Nat \ {0} : m = 1
  OBVIOUS
<1>2. Splits(a, m, a, 0)
  BY <1>1 DEF Splits
<1>3. a % m = 0
  BY <1>2, DivisionUnique
<1>4. Splits(m - 0, m, 1, 0)
  BY <1>1 DEF Splits
<1>5. (m - 0) % m = 0
  BY <1>4, DivisionUnique
<1> QED BY <1>1, <1>3, <1>5 DEF Padding

LEMMA ScalarAt ==
  ASSUME NEW s, NEW w \in {1, 4, 8}, NEW x, NEW a, NEW b, FieldAt(s, Scalar(w, x), a, b)
  PROVE  /\ a \in Nat /\ a + Padding(a, w) \in Nat /\ b = a + Padding(a, w) + Len(x)
         /\ b <= Len(s) /\ Stands(s, a + Padding(a, w), x)
<1>1. Writes(Scalar(w, x)) = IF w = 1 THEN <<Raw(x)>> ELSE <<Align(w), Raw(x)>>
  BY DEF Writes, WriteScalar, Scalar
<1>2. PICK c, q :
        /\ c = Writes(Scalar(w, x))
        /\ CallsAt(s, c, Len(c), q) /\ q[0] = a /\ q[Len(c)] = b
  BY DEF FieldAt
<1>3. CASE w = 1
  <2>1. c = <<Raw(x)>>
    BY <1>1, <1>2, <1>3
  <2>2. Len(c) = 1 /\ c[1] = Raw(x)
    BY <2>1
  <2>3. CallAt(s, Raw(x), a, b)
    BY <1>2, <2>2 DEF CallsAt
  <2>4. a \in Nat /\ b = a + Len(x) /\ b <= Len(s) /\ Stands(s, a, x) /\ b \in Nat
    BY <2>3, RawAt
  <2>5. Padding(a, w) = 0 /\ a + 0 = a
    BY <1>3, <2>4, PaddingOne
  <2> QED BY <2>4, <2>5
<1>4. CASE w # 1
  <2>1. c = <<Align(w), Raw(x)>>
    BY <1>1, <1>2, <1>4
  <2>2. Len(c) = 2 /\ c[1] = Align(w) /\ c[2] = Raw(x)
    BY <2>1
  <2>3. CallAt(s, Align(w), a, q[1]) /\ CallAt(s, Raw(x), q[1], b)
    BY <1>2, <2>2 DEF CallsAt
  <2>4. a \in Nat /\ q[1] \in Nat /\ q[1] = a + Padding(a, w)
    BY <2>3, AlignAt
  <2>5. b = q[1] + Len(x) /\ b <= Len(s) /\ Stands(s, q[1], x) /\ b \in Nat
    BY <2>3, RawAt
  <2> QED BY <2>4, <2>5
<1> QED BY <1>3, <1>4

LEMMA StringAt ==
  ASSUME NEW s, NEW x \in Seq(Byte), NEW a, NEW b, FieldAt(s, Str(x), a, b)
  PROVE  \E p : /\ a \in Nat /\ p \in Nat /\ p = a + Padding(a, 4)
                /\ Stands(s, p, Le32(Len(x) + 1))
                /\ Stands(s, p + 4, x)
                /\ Stands(s, p + 4 + Len(x), <<0>>)
                /\ b = p + 4 + Len(x) + 1
<1> DEFINE n == Le32(Len(x) + 1)
<1>1. Writes(Str(x)) = <<Align(4), Raw(n), Raw(x), Raw(<<0>>)>>
  BY DEF Writes, WriteString, Str
<1>2. Len(n) = 4
  BY DEF Le32
<1> HIDE DEF n
<1>3. PICK c, q :
        /\ c = Writes(Str(x))
        /\ CallsAt(s, c, Len(c), q) /\ q[0] = a /\ q[Len(c)] = b
  BY DEF FieldAt
<1>4. Len(c) = 4 /\ c[1] = Align(4) /\ c[2] = Raw(n) /\ c[3] = Raw(x) /\ c[4] = Raw(<<0>>)
  BY <1>1, <1>3
<1>6. q[0] = a /\ q[4] = b
  BY <1>3, <1>4
<1>5. /\ CallAt(s, Align(4), a, q[1]) /\ CallAt(s, Raw(n), q[1], q[2])
      /\ CallAt(s, Raw(x), q[2], q[3]) /\ CallAt(s, Raw(<<0>>), q[3], b)
  <2>1. /\ CallAt(s, c[1], q[0], q[1]) /\ CallAt(s, c[2], q[1], q[2])
        /\ CallAt(s, c[3], q[2], q[3]) /\ CallAt(s, c[4], q[3], q[4])
    BY <1>3, <1>4 DEF CallsAt
  <2> QED BY <1>4, <1>6, <2>1
<1>7. a \in Nat /\ q[1] \in Nat /\ q[1] = a + Padding(a, 4)
  BY <1>5, AlignAt
<1>8. q[2] = q[1] + 4 /\ Stands(s, q[1], n)
  BY <1>2, <1>5, RawAt
<1>9. q[2] \in Nat /\ q[3] = q[2] + Len(x) /\ Stands(s, q[2], x)
  BY <1>5, RawAt
<1>10. Len(<<0>>) = 1
  OBVIOUS
<1>11. q[3] \in Nat /\ b = q[3] + 1 /\ Stands(s, q[3], <<0>>)
  BY <1>5, <1>10, RawAt
<1>12. b = q[1] + 4 + Len(x) + 1 /\ q[3] = q[1] + 4 + Len(x)
  BY <1>7, <1>8, <1>9, <1>11, LenProperties
<1>13. Stands(s, q[1] + 4, x) /\ Stands(s, q[1] + 4 + Len(x), <<0>>)
  BY <1>8, <1>9, <1>11, <1>12
<1> QED BY <1>7, <1>8, <1>12, <1>13 DEF n

LEMMA ZeroAt ==
  ASSUME NEW s, NEW a, NEW b, FieldAt(s, StrZero, a, b)
  PROVE  \E p : /\ a \in Nat /\ p \in Nat /\ p = a + Padding(a, 4)
                /\ Stands(s, p, Le32(0)) /\ b = p + 4
<1> DEFINE n == Le32(0)
<1>1. Writes(StrZero) = <<Align(4), Raw(n)>>
  BY DEF Writes, StrZero
<1>2. Len(n) = 4
  BY DEF Le32
<1> HIDE DEF n
<1>3. PICK c, q :
        /\ c = Writes(StrZero)
        /\ CallsAt(s, c, Len(c), q) /\ q[0] = a /\ q[Len(c)] = b
  BY DEF FieldAt
<1>4. Len(c) = 2 /\ c[1] = Align(4) /\ c[2] = Raw(n)
  BY <1>1, <1>3
<1>5. CallAt(s, Align(4), a, q[1]) /\ CallAt(s, Raw(n), q[1], b)
  BY <1>3, <1>4 DEF CallsAt
<1>6. a \in Nat /\ q[1] \in Nat /\ q[1] = a + Padding(a, 4)
  BY <1>5, AlignAt
<1>7. b = q[1] + 4 /\ Stands(s, q[1], n)
  BY <1>2, <1>5, RawAt
<1> QED BY <1>6, <1>7 DEF n

\* An aligned position has no padding, nor has one 8 bytes further.
LEMMA Aligned8 ==
  ASSUME NEW a \in Nat, NEW m \in Nat
  PROVE  /\ a + Padding(a, 8) \in Nat
         /\ Padding(a + Padding(a, 8) + 8 * m, 8) = 0
<1>0. PICK e \in Nat \ {0} : e = 8
  OBVIOUS
<1>1. PICK q \in Nat, r \in 0 .. e - 1 : r = a % e /\ a = e * q + r
  BY Division
<1>2. \E k \in Nat : a + Padding(a, e) = e * k
  <2>1. CASE r = 0
    <3>1. Splits(e - r, e, 1, 0)
      BY <1>0, <2>1 DEF Splits
    <3>2. (e - r) % e = 0
      BY <3>1, DivisionUnique
    <3>3. Padding(a, e) = 0
      BY <1>1, <3>2 DEF Padding
    <3>4. a + 0 = e * q
      BY <1>1, <2>1
    <3> QED BY <3>3, <3>4
  <2>2. CASE r # 0
    <3>1. e - r \in 0 .. e - 1
      BY <1>0, <2>2
    <3>2. Padding(a, e) = e - r
      BY <1>1, <3>1, DivisionSmall DEF Padding
    <3>3. q + 1 \in Nat /\ e * (q + 1) = e * q + e
      BY <1>0
    <3>4. a + (e - r) = e * q + e
      <4>1. e * q \in Nat
        BY <1>0
      <4> QED BY <1>1, <4>1
    <3>5. a + Padding(a, e) = e * (q + 1)
      BY <3>2, <3>3, <3>4
    <3> QED BY <3>3, <3>5
  <2> QED BY <2>1, <2>2
<1>3. PICK k \in Nat : a + Padding(a, e) = e * k
  BY <1>2
<1>4. PICK p \in Nat : p = a + Padding(a, e) /\ p = 8 * k
  BY <1>0, <1>3
<1>5. p + 8 * m = e * (k + m) + 0 /\ k + m \in Nat
  BY <1>0, <1>4
<1>6. Splits(p + 8 * m, e, k + m, 0)
  BY <1>0, <1>5 DEF Splits
<1>7. (p + 8 * m) % e = 0
  BY <1>6, DivisionUnique
<1>8. Splits(e - 0, e, 1, 0)
  BY <1>0 DEF Splits
<1>9. (e - 0) % e = 0
  BY <1>8, DivisionUnique
<1>10. Padding(p + 8 * m, e) = 0
  BY <1>7, <1>9 DEF Padding
<1> QED BY <1>0, <1>4, <1>10

\* The n floats of an array, from where the alignment ends.
F64sFrom(s, ps, n, a, b) ==
  /\ a \in Nat /\ a + Padding(a, 8) \in Nat /\ b = a + Padding(a, 8) + 8 * n
  /\ \A m \in 0 .. n - 1 : Stands(s, a + Padding(a, 8) + 8 * m, ps[m + 1])

LEMMA F64sAt ==
  ASSUME NEW s, NEW ps \in Seq(Seq(Byte)), NEW n \in Nat, n = Len(ps),
         \A i \in DOMAIN ps : Len(ps[i]) = 8,
         NEW a, NEW b, FieldAt(s, F64s(ps), a, b)
  PROVE  F64sFrom(s, ps, n, a, b)
<1>1. n = Len(ps)
  OBVIOUS
<1>2. DOMAIN ps = 1 .. n
  BY <1>1, LenProperties
<1> DEFINE al == Align(8)
           raws == [i \in 1 .. n |-> Raw(ps[i])]
<1>3. Writes(F64s(ps)) = <<al>> \o raws
  BY <1>2 DEF Writes, WriteF64s, F64s
<1>4. PICK x : x = <<al>>
  OBVIOUS
<1> DEFINE S == {al} \cup {Raw(ps[i]) : i \in 1 .. n}
<1>5. x \in Seq(S) /\ Len(x) = 1 /\ x[1] = al
  BY <1>4
<1>6. raws \in Seq(S) /\ Len(raws) = n /\ \A i \in 1 .. n : raws[i] = Raw(ps[i])
  OBVIOUS
<1> HIDE DEF raws, S, al
<1>7. PICK c, q :
        /\ c = Writes(F64s(ps))
        /\ CallsAt(s, c, Len(c), q) /\ q[0] = a /\ q[Len(c)] = b
  BY DEF FieldAt
<1>8. /\ Len(c) = Len(x) + Len(raws)
      /\ \A i \in 1 .. Len(x) + Len(raws) : c[i] = IF i <= Len(x) THEN x[i] ELSE raws[i - Len(x)]
  <2> DEFINE y == x \o raws
  <2>1. c = y
    BY <1>3, <1>4, <1>7
  <2>2. /\ Len(y) = Len(x) + Len(raws)
        /\ \A i \in 1 .. Len(x) + Len(raws) : y[i] = IF i <= Len(x) THEN x[i] ELSE raws[i - Len(x)]
    BY <1>5, <1>6, ConcatProperties, ZenonT(60)
  <2> HIDE DEF y
  <2> QED BY <2>1, <2>2
<1>9. Len(c) = 1 + n /\ c[1] = al /\ \A i \in 1 .. n : c[1 + i] = Raw(ps[i])
  <2>1. Len(c) = 1 + n /\ c[1] = al
    BY <1>5, <1>6, <1>8
  <2>2. ASSUME NEW i \in 1 .. n PROVE c[1 + i] = Raw(ps[i])
    <3>1. 1 + i \in 1 .. Len(x) + Len(raws) /\ ~(1 + i <= Len(x)) /\ (1 + i) - Len(x) = i
      BY <1>5, <1>6
    <3> QED BY <1>6, <1>8, <3>1
  <2> QED BY <2>1, <2>2
<1>10. a \in Nat /\ q[1] \in Nat /\ q[1] = a + Padding(a, 8)
  <2>1. CallAt(s, c[1], q[1 - 1], q[1])
    BY <1>1, <1>7, <1>9 DEF CallsAt
  <2>2. CallAt(s, Align(8), a, q[1])
    BY <1>7, <1>9, <2>1 DEF al
  <2> QED BY <2>2, AlignAt
<1>11. ASSUME NEW m \in Nat, m < n
       PROVE  /\ q[1 + m] \in Nat /\ q[1 + (m + 1)] = q[1 + m] + 8
              /\ Stands(s, q[1 + m], ps[m + 1])
  <2>1. m + 1 \in 1 .. n /\ 1 + (m + 1) \in 1 .. Len(c) /\ (1 + (m + 1)) - 1 = 1 + m
    BY <1>9, <1>11
  <2>2. CallAt(s, c[1 + (m + 1)], q[(1 + (m + 1)) - 1], q[1 + (m + 1)])
    BY <1>7, <2>1 DEF CallsAt
  <2>3. CallAt(s, Raw(ps[m + 1]), q[1 + m], q[1 + (m + 1)])
    BY <1>9, <2>1, <2>2
  <2>4. Len(ps[m + 1]) = 8
    BY <1>2, <2>1
  <2>5. PICK u, v, y : u = q[1 + m] /\ v = q[1 + (m + 1)] /\ y = ps[m + 1]
    OBVIOUS
  <2>6. CallAt(s, Raw(y), u, v)
    BY <2>3, <2>5
  <2>7. u \in Nat /\ v = u + Len(y) /\ Stands(s, u, y)
    BY <2>6, RawAt
  <2> QED BY <2>4, <2>5, <2>7
<1> DEFINE G == {m \in Nat : m <= n => q[1 + m] = q[1] + 8 * m}
<1>12. 0 \in G
  BY <1>10
<1>13. ASSUME NEW m \in G PROVE m + 1 \in G
  <2>1. CASE m + 1 <= n
    <3>1. m \in Nat /\ m < n /\ q[1 + m] = q[1] + 8 * m
      BY <2>1
    <3>2. q[1 + (m + 1)] = q[1 + m] + 8
      BY <1>11, <3>1
    <3>3. q[1 + (m + 1)] = q[1] + 8 * (m + 1)
      BY <1>10, <3>1, <3>2
    <3> QED BY <3>1, <3>3
  <2> QED BY <2>1
<1>14. G = Nat
  <2>1. G \in SUBSET Nat
    OBVIOUS
  <2> HIDE DEF G
  <2> QED BY <1>12, <1>13, <2>1, Induct
<1>15. \A m \in Nat : m <= n => q[1 + m] = q[1] + 8 * m
  BY <1>14
<1> HIDE DEF G
<1>16. \A m \in 0 .. n - 1 : Stands(s, q[1] + 8 * m, ps[m + 1])
  <2> TAKE m \in 0 .. n - 1
  <2>1. m \in Nat /\ m < n /\ m <= n
    BY <1>1
  <2> QED BY <1>11, <1>15, <2>1
<1>17. b = q[1] + 8 * n
  BY <1>1, <1>7, <1>9, <1>15
<1> QED BY <1>10, <1>16, <1>17 DEF F64sFrom


-----------------------------------------------------------------------------
(* Where the reader is. *)

\* The first d calls for a field from a on are done; base are the values of the
\* fields before.
ScalarStage(w, x, d, a, base) ==
  \/ d = 0 /\ w # 1 /\ rpos = a /\ values = base
  \/ d = (IF w = 1 THEN 0 ELSE 1) /\ rpos = a + Padding(a, w) /\ values = base
  \/ d = (IF w = 1 THEN 1 ELSE 2) /\ rpos = a + Padding(a, w) + w /\ values = base \o <<x>>

F64sStage(ps, d, a, base) ==
  \/ d = 0 /\ rpos = a /\ values = base
  \/ \E m \in 0 .. Len(ps) : /\ d \in {1 + 2 * m, 2 + 2 * m} /\ d <= 1 + 2 * Len(ps)
                             /\ rpos = a + Padding(a, 8) + 8 * m
                             /\ values = base \o SubSeq(ps, 1, m)

StringStage(x, d, a, base) ==
  \/ d = 0 /\ rpos = a /\ values = base
  \/ d = 1 /\ rpos = a + Padding(a, 4) /\ values = base
  \/ d = 2 /\ rpos = a + Padding(a, 4) + 4 /\ values = base /\ length = Len(x) + 1
  \/ d = 3 /\ rpos = a + Padding(a, 4) + 4 + Len(x) /\ values = base \o <<x>>
  \/ d \in {4, 5} /\ rpos = a + Padding(a, 4) + 4 + Len(x) + 1 /\ values = base \o <<x>>

ZeroStage(d, a, base) ==
  \/ d = 0 /\ rpos = a /\ values = base
  \/ d = 1 /\ rpos = a + Padding(a, 4) /\ values = base
  \/ d \in {4, 5} /\ rpos = a + Padding(a, 4) + 4 /\ values = base \o <<<<>>>>

Stage(field, d, a, base) ==
  \/ field.kind = "scalar" /\ ScalarStage(field.width, field.pieces[1], d, a, base)
  \/ field.kind = "f64s" /\ F64sStage(field.pieces, d, a, base)
  \/ field.kind = "string" /\ StringStage(field.pieces[1], d, a, base)
  \/ field.kind = "zero" /\ ZeroStage(d, a, base)

\* A field of the layout from a to b, d of the calls r for it done.
Reading(field, type, d, a, b, base) ==
  /\ d \in Nat /\ d <= Len(Reads(type)) /\ takes = Rest(Reads(type), d)
  /\ FieldAt(laid, field, a, b)
  /\ Stage(field, d, a, base)

-----------------------------------------------------------------------------
(* What a step of the reader does, call by call. *)

Failed == rstate' = "err" /\ takes' = takes
Kept == UNCHANGED <<message, slot, writerVars, types, body>>

LEMMA ReaderStep ==
  ASSUME rstate = "reading", takes # <<>>, Deserialize
  PROVE  /\ Kept
         /\ rstate' \in {"reading", "err"}
         /\ Head(takes).op = "align" =>
              /\ rstate' = "reading" /\ takes' = Tail(takes)
              /\ rpos' = rpos + Padding(rpos, Head(takes).n) /\ values' = values
              /\ length' = length
         /\ Head(takes).op \in {"take", "bytes"} =>
              \/ Failed /\ ~Left(Count)
              \/ /\ Left(Count) /\ rstate' = "reading" /\ takes' = Tail(takes)
                 /\ rpos' = rpos + Count /\ values' = values \o <<Taken>>
                 /\ length' = length
         /\ Head(takes).op = "length" =>
              \/ Failed /\ ~Left(Count)
              \/ /\ Left(Count) /\ rstate' = "reading" /\ takes' = Tail(takes)
                 /\ rpos' = rpos + Count /\ values' = values \o <<>>
                 /\ FromLe32(Taken) # 0 /\ length' = FromLe32(Taken)
              \/ /\ Left(Count) /\ rstate' = "reading"
                 /\ takes' = SubSeq(takes, 4, Len(takes))
                 /\ rpos' = rpos + Count /\ values' = values \o <<<<>>>>
                 /\ FromLe32(Taken) = 0
         /\ Head(takes).op = "null" =>
              \/ Failed /\ ~Left(Count)
              \/ /\ Left(Count) /\ rstate' = "reading" /\ takes' = Tail(takes)
                 /\ rpos' = rpos + Count /\ values' = values \o <<>>
                 /\ length' = length
         /\ Head(takes).op = "push" =>
              \/ Failed
              \/ /\ rstate' = "reading" /\ takes' = Tail(takes)
                 /\ rpos' = rpos /\ values' = values /\ length' = length
<1>1. \/ ReadAlign \/ ReadTake \/ ReadLength \/ ReadLengthZero \/ ReadNull
      \/ ReadPush \/ ReadFails
  BY DEF Deserialize, ReadField, ReadDone
<1>2. CASE ReadAlign
  BY <1>2 DEF ReadAlign, Taking, Kept
<1>3. CASE ReadTake
  BY <1>3 DEF ReadTake, Taking, Got, Kept
<1>4. CASE ReadLength
  BY <1>4 DEF ReadLength, Taking, Got, Kept
<1>5. CASE ReadLengthZero
  BY <1>5 DEF ReadLengthZero, Taking, Got, Kept
<1>6. CASE ReadNull
  BY <1>6 DEF ReadNull, Taking, Got, Kept
<1>7. CASE ReadPush
  BY <1>7 DEF ReadPush, Taking, Kept
<1>8. CASE ReadFails
  BY <1>8 DEF ReadFails, Taking, Kept, Failed
<1> QED BY <1>1, <1>2, <1>3, <1>4, <1>5, <1>6, <1>7, <1>8

\* Where bytes of the layout stand the reader takes these, or has not got them.
LEMMA TakenIs ==
  ASSUME TypesInv, laid \in Seq(Byte), Begins(laid, body), NEW x \in Seq(Byte),
         Stands(laid, rpos, x), takes # <<>>, Count = Len(x)
  PROVE  /\ Left(Count) => Taken = x
         /\ ~Left(Count) => body # laid
<1>1. rpos \in Nat /\ body \in Seq(Byte) /\ Len(body) \in Nat /\ Len(laid) \in Nat /\ Len(x) \in Nat
  BY LenProperties DEF TypesInv
<1>2. ASSUME ~Left(Count) PROVE body # laid
  BY <1>2 DEF Left, Stands
<1>3. ASSUME Left(Count) PROVE Taken = x
  <2>1. PICK n \in Nat : n = Len(x) /\ Left(n)
    BY <1>1, <1>3
  <2>2. PICK t : t = SubSeq(body, rpos + 1, rpos + n)
    OBVIOUS
  <2>3. t \in Seq(Byte) /\ Len(t) = n /\ \A i \in 1 .. n : t[i] = body[rpos + i]
    BY <2>1, <2>2, TakenBytes
  <2>4. ASSUME NEW i \in 1 .. n PROVE t[i] = x[i]
    <3>1. rpos + i \in 1 .. Len(body)
      BY <1>1, <2>1 DEF Left
    <3>2. laid[rpos + i] = body[rpos + i] /\ laid[rpos + i] = x[i]
      BY <2>1, <3>1 DEF Begins, Stands
    <3> QED BY <2>3, <3>2
  <2>5. t = x
    BY <2>1, <2>3, <2>4, SeqEqual
  <2> QED BY <2>1, <2>2, <2>5 DEF Taken
<1> QED BY <1>2, <1>3

\* The call that is next, and what is left behind it.
LEMMA ReadingNext ==
  ASSUME takes # <<>>, NEW type \in Type, NEW r, r = Reads(type),
         NEW d \in Nat, d <= Len(r), takes = Rest(r, d)
  PROVE  /\ d + 1 \in 1 .. Len(r) /\ Head(takes) = r[d + 1] /\ Tail(takes) = Rest(r, d + 1)
         /\ r \in Seq(TakeOp) /\ Len(r) \in Nat
<1>1. r \in Seq(TakeOp) /\ Len(r) \in Nat
  BY ReadsType
<1> QED BY <1>1, RestNext

\* What becomes of the reading of a field in one step.
ReadOn(field, type, a, b, base) ==
  /\ Kept
  /\ \/ rstate' = "reading" /\ \E e : Reading(field, type, e, a, b, base)'
     \/ Failed /\ (body = laid => Head(takes).op = "push")

-----------------------------------------------------------------------------
LEMMA ReadOnScalar ==
  ASSUME TypesInv, laid \in Seq(Byte), Begins(laid, body), rstate = "reading",
         takes # <<>>, Deserialize, NEW w \in {1, 4, 8}, NEW x \in Seq(Byte), Len(x) = w,
         NEW d, NEW a, NEW b, NEW base \in Seq(Seq(Byte)),
         Reading(Scalar(w, x), ScalarType(w), d, a, b, base)
  PROVE  ReadOn(Scalar(w, x), ScalarType(w), a, b, base)
<1>0. PICK type \in Type : type = ScalarType(w)
  BY DEF Type, ScalarType
<1>1. PICK r : type = ScalarType(w) /\ r = Reads(type)
  BY <1>0
<1>2. r = IF w = 1 THEN <<Take(1)>> ELSE <<AlignTo(w), Take(w)>>
  BY <1>1 DEF Reads, ReadScalar, ScalarType
<1>3. d \in Nat /\ d <= Len(r) /\ takes = Rest(r, d)
  BY <1>1 DEF Reading
<1>4. /\ d + 1 \in 1 .. Len(r) /\ Head(takes) = r[d + 1] /\ Tail(takes) = Rest(r, d + 1)
      /\ Len(r) \in Nat
  BY <1>1, <1>3, ReadingNext
<1>5. Scalar(w, x).kind = "scalar" /\ Scalar(w, x).width = w /\ Scalar(w, x).pieces[1] = x
  BY DEF Scalar
<1>6. ScalarStage(w, x, d, a, base)
  BY <1>5 DEF Reading, Stage
<1>7. PICK p \in Nat : p = a + Padding(a, w) /\ Stands(laid, p, x)
  BY ScalarAt DEF Reading
<1>8. Kept
  BY ReaderStep
<1>9. SUFFICES ASSUME TRUE
               PROVE  \/ rstate' = "reading" /\ takes' = Rest(r, d + 1)
                           /\ ScalarStage(w, x, d + 1, a, base)'
                      \/ Failed /\ (body = laid => Head(takes).op = "push")
  <2>1. laid' = laid
    BY <1>8 DEF Kept, writerVars
  <2>2. PICK e \in Nat : e = d + 1 /\ e <= Len(r)
    BY <1>3, <1>4
  <2>3. CASE rstate' = "reading" /\ takes' = Rest(r, e) /\ ScalarStage(w, x, e, a, base)'
    <3>1. Stage(Scalar(w, x), e, a, base)'
      BY <1>5, <2>3 DEF Stage
    <3>2. Reading(Scalar(w, x), type, e, a, b, base)'
      BY <1>1, <2>1, <2>2, <2>3, <3>1 DEF Reading
    <3> QED BY <1>1, <1>8, <2>3, <3>2 DEF ReadOn
  <2> QED BY <1>8, <1>9, <2>2, <2>3 DEF ReadOn
<1>10. CASE w # 1 /\ d = 0
  <2>1. Head(takes).op = "align" /\ Head(takes).n = w
    BY <1>2, <1>4, <1>10, Ops
  <2>2. rpos = a /\ values = base
    BY <1>6, <1>10 DEF ScalarStage
  <2>3. /\ rstate' = "reading" /\ takes' = Rest(r, d + 1) /\ rpos' = p /\ values' = base
    BY <1>4, <1>7, <2>1, <2>2, ReaderStep
  <2> QED BY <1>7, <1>10, <2>3 DEF ScalarStage
<1>11. CASE d = (IF w = 1 THEN 0 ELSE 1)
  <2>1. Head(takes).op = "take" /\ Head(takes).n = w
    BY <1>2, <1>4, <1>11, Ops
  <2>2. rpos = p /\ values = base
    BY <1>6, <1>7, <1>11 DEF ScalarStage
  <2>3. Count = w
    BY <2>1 DEF Count
  <2>4. /\ Left(Count) => Taken = x
        /\ ~Left(Count) => body # laid
    BY <1>7, <2>2, <2>3, TakenIs
  <2>5. \/ Failed /\ ~Left(Count)
        \/ /\ rstate' = "reading" /\ takes' = Rest(r, d + 1) /\ rpos' = p + w
           /\ values' = base \o <<x>>
    BY <1>4, <2>1, <2>2, <2>3, <2>4, ReaderStep
  <2>6. d + 1 = (IF w = 1 THEN 1 ELSE 2)
    BY <1>11
  <2> QED BY <1>7, <2>4, <2>5, <2>6 DEF ScalarStage
<1>12. d = 0 \/ d = 1 \/ d = 2
  BY <1>6 DEF ScalarStage
<1>13. ~(w = 1 /\ d = 1) /\ d # 2 
  BY <1>2, <1>4, <1>3
<1> QED BY <1>10, <1>11, <1>12, <1>13


-----------------------------------------------------------------------------
(* Values, and one more of them. *)

LEMMA NoMoreValues ==
  ASSUME NEW S, NEW base \in Seq(S)
  PROVE  base \o <<>> = base
BY EmptySeq, ConcatEmptySeq

Groups(b, f, g) == (b \o f) \o g = b \o (f \o g)

LEMMA GroupsIn ==
  ASSUME NEW S, NEW b \in Seq(S), NEW f \in Seq(S), NEW g \in Seq(S)
  PROVE  Groups(b, f, g)
BY ConcatAssociative DEF Groups

LEMMA Grouped ==
  ASSUME NEW b \in Seq(Seq(Byte)), NEW f \in Seq(Seq(Byte)), NEW g \in Seq(Seq(Byte))
  PROVE  (b \o f) \o g = b \o (f \o g)
<1>1. Groups(b, f, g)
  BY GroupsIn, Zenon
<1> QED BY <1>1 DEF Groups

LEMMA Joined ==
  ASSUME NEW S, NEW f \in Seq(S), NEW g \in Seq(S), NEW c, c = f \o g
  PROVE  /\ c \in Seq(S) /\ Len(c) = Len(f) + Len(g)
         /\ \A i \in 1 .. Len(f) : c[i] = f[i]
         /\ \A i \in 1 .. Len(g) : c[Len(f) + i] = g[i]
<1> DEFINE d == f \o g
<1>1. /\ d \in Seq(S) /\ Len(d) = Len(f) + Len(g)
      /\ \A i \in 1 .. Len(f) + Len(g) : d[i] = IF i <= Len(f) THEN f[i] ELSE g[i - Len(f)]
  BY ConcatProperties, ZenonT(60)
<1>2. c = d
  OBVIOUS
<1> HIDE DEF d
<1>3. Len(f) \in Nat /\ Len(g) \in Nat
  BY LenProperties
<1>4. ASSUME NEW i \in 1 .. Len(f) PROVE d[i] = f[i]
  <2>1. i \in 1 .. Len(f) + Len(g) /\ i <= Len(f)
    BY <1>3
  <2> QED BY <1>1, <2>1
<1>5. ASSUME NEW i \in 1 .. Len(g) PROVE d[Len(f) + i] = g[i]
  <2>1. Len(f) + i \in 1 .. Len(f) + Len(g) /\ ~(Len(f) + i <= Len(f)) /\ (Len(f) + i) - Len(f) = i
    BY <1>3
  <2> QED BY <1>1, <2>1
<1> QED BY <1>1, <1>2, <1>4, <1>5

\* The first k values of an array are the first m and the next one.
AndOne(S, f, one, g) == f \in Seq(S) /\ one \in Seq(S) /\ g = f \o one

LEMMA FrontNext ==
  ASSUME NEW S, NEW ps \in Seq(S), NEW m \in Nat, NEW k \in Nat, k = m + 1, k <= Len(ps),
         NEW f, f = SubSeq(ps, 1, m), NEW g, g = SubSeq(ps, 1, k), NEW one, one = <<ps[k]>>
  PROVE  AndOne(S, f, one, g)
<1>1. Len(ps) \in Nat
  BY LenProperties
<1>2. PICK x \in S : x = ps[k]
  BY <1>1, ElementOfSeq
<1>3. f \in Seq(S) /\ Len(f) = m /\ \A i \in 1 .. m : f[i] = ps[i]
  <2>1. 0 + m <= Len(ps) /\ 0 + 1 = 1 /\ 0 + m = m /\ \A i \in 1 .. m : 0 + i = i
    BY <1>1
  <2> QED BY <2>1, PartOf
<1>4. g \in Seq(S) /\ Len(g) = k /\ \A i \in 1 .. k : g[i] = ps[i]
  <2>1. 0 + k <= Len(ps) /\ 0 + 1 = 1 /\ 0 + k = k /\ \A i \in 1 .. k : 0 + i = i
    BY <1>1
  <2> QED BY <2>1, PartOf
<1>5. one \in Seq(S) /\ Len(one) = 1 /\ one[1] = x
  BY <1>2
<1>6. PICK c : c = f \o one
  OBVIOUS
<1>7. /\ c \in Seq(S) /\ Len(c) = Len(f) + Len(one)
      /\ \A i \in 1 .. Len(f) : c[i] = f[i]
      /\ \A i \in 1 .. Len(one) : c[Len(f) + i] = one[i]
  BY <1>3, <1>5, <1>6, Joined
<1>8. ASSUME NEW i \in 1 .. k PROVE c[i] = g[i]
  <2>1. CASE i \in 1 .. m
    BY <1>3, <1>4, <1>7, <2>1
  <2>2. CASE ~(i \in 1 .. m)
    <3>1. i = k /\ 1 \in 1 .. Len(one) /\ i = Len(f) + 1
      BY <1>3, <1>5, <2>2
    <3>2. c[i] = one[1]
      BY <1>7, <3>1
    <3> QED BY <1>2, <1>4, <1>5, <3>1, <3>2
  <2> QED BY <2>1, <2>2
<1>9. c = g
  BY <1>3, <1>4, <1>5, <1>7, <1>8, SeqEqual
<1> QED BY <1>3, <1>5, <1>6, <1>9 DEF AndOne

LEMMA FrontWhole ==
  ASSUME NEW S, NEW ps \in Seq(S)
  PROVE  SubSeq(ps, 1, 0) = <<>> /\ SubSeq(ps, 1, Len(ps)) = ps
<1>1. PICK n \in Nat : n = Len(ps)
  BY LenProperties
<1>2. PICK f : f = SubSeq(ps, 1, n)
  OBVIOUS
<1>3. f \in Seq(S) /\ Len(f) = n /\ \A i \in 1 .. n : f[i] = ps[i]
  <2>1. 0 + n <= Len(ps) /\ 0 + 1 = 1 /\ 0 + n = n /\ \A i \in 1 .. n : 0 + i = i
    BY <1>1
  <2> QED BY <1>2, <2>1, PartOf
<1>4. f = ps
  BY <1>1, <1>3, SeqEqual
<1> QED BY <1>1, <1>2, <1>4

\* What Stage and Reading say of the reader's next state.
LEMMA ReadingOn ==
  ASSUME Kept, NEW field, NEW type, NEW a, NEW b, NEW base, FieldAt(laid, field, a, b),
         rstate' = "reading", NEW e \in Nat, e <= Len(Reads(type)),
         takes' = Rest(Reads(type), e), Stage(field, e, a, base)'
  PROVE  ReadOn(field, type, a, b, base)
<1>1. laid' = laid
  BY DEF Kept, writerVars
<1>2. Reading(field, type, e, a, b, base)'
  BY <1>1 DEF Reading
<1> QED BY <1>2 DEF ReadOn

-----------------------------------------------------------------------------
(* Arrays. *)

LEMMA ReadsF64s ==
  ASSUME NEW n \in Nat, NEW r, r = Reads(F64sType(n))
  PROVE  /\ F64sType(n) \in Type /\ Len(r) = 1 + 2 * n /\ r[1] = AlignTo(8)
         /\ \A m \in Nat : m < n => r[1 + 2 * m + 1] = AlignTo(8) /\ r[2 + 2 * m + 1] = Take(8)
<1>0. F64sType(n) \in Type /\ F64sType(n).kind = "f64s" /\ F64sType(n).n = n
  BY DEF F64sType, Type
<1>1. PICK x : x = AlignTo(8)
  OBVIOUS
<1>2. PICK y : y = Take(8)
  OBVIOUS
<1>3. PICK s : s = <<x>>
  OBVIOUS
<1>4. PICK t : t = [i \in 1 .. 2 * n |-> IF i % 2 = 1 THEN x ELSE y]
  OBVIOUS
<1>5. s \in Seq({x, y}) /\ Len(s) = 1 /\ s[1] = x
  BY <1>3
<1>6. /\ t \in Seq({x, y}) /\ Len(t) = 2 * n
      /\ \A i \in 1 .. 2 * n : t[i] = IF i % 2 = 1 THEN x ELSE y
  BY <1>4
<1>7. r = s \o t
  BY <1>0, <1>1, <1>2, <1>3, <1>4 DEF Reads, ReadF64s
<1>8. /\ Len(r) = Len(s) + Len(t)
      /\ \A i \in 1 .. Len(s) + Len(t) : r[i] = IF i <= Len(s) THEN s[i] ELSE t[i - Len(s)]
  <2> DEFINE c == s \o t
  <2>1. /\ Len(c) = Len(s) + Len(t)
        /\ \A i \in 1 .. Len(s) + Len(t) : c[i] = IF i <= Len(s) THEN s[i] ELSE t[i - Len(s)]
    BY <1>5, <1>6, ConcatProperties, ZenonT(60)
  <2> HIDE DEF c
  <2> QED BY <1>7, <2>1 DEF c
<1>9. Len(r) = 1 + 2 * n /\ r[1] = x
  <2>1. 1 \in 1 .. Len(s) + Len(t) /\ 1 <= Len(s)
    BY <1>5, <1>6
  <2> QED BY <1>5, <1>6, <1>8, <2>1
<1>10. ASSUME NEW m \in Nat, m < n PROVE r[1 + 2 * m + 1] = x /\ r[2 + 2 * m + 1] = y
  <2>0. PICK two \in Nat \ {0} : two = 2
    OBVIOUS
  <2>1. PICK i \in Nat : i = 2 * m + 1
    OBVIOUS
  <2>2. PICK j \in Nat : j = 2 * m + 2
    OBVIOUS
  <2>3. i \in 1 .. 2 * n /\ j \in 1 .. 2 * n
    BY <1>10, <2>1, <2>2
  <2>4. i % 2 = 1
    <3>1. Splits(i, two, m, 1)
      BY <2>0, <2>1 DEF Splits
    <3> QED BY <2>0, <3>1, DivisionUnique
  <2>5. j % 2 = 0
    <3>1. Splits(j, two, m + 1, 0)
      BY <2>0, <2>2 DEF Splits
    <3> QED BY <2>0, <3>1, DivisionUnique
  <2>6. t[i] = x /\ t[j] = y
    BY <1>6, <2>3, <2>4, <2>5
  <2>7. PICK k \in Nat : k = 1 + 2 * m + 1
    OBVIOUS
  <2>8. PICK l \in Nat : l = 2 + 2 * m + 1
    OBVIOUS
  <2>9. k \in 1 .. Len(s) + Len(t) /\ ~(k <= Len(s)) /\ k - Len(s) = i
    BY <1>5, <1>6, <2>1, <2>3, <2>7
  <2>10. l \in 1 .. Len(s) + Len(t) /\ ~(l <= Len(s)) /\ l - Len(s) = j
    BY <1>5, <1>6, <2>2, <2>3, <2>8
  <2> QED BY <1>8, <2>6, <2>7, <2>8, <2>9, <2>10
<1> QED BY <1>0, <1>1, <1>2, <1>9, <1>10

LEMMA ReadOnF64s ==
  ASSUME TypesInv, laid \in Seq(Byte), Begins(laid, body), rstate = "reading",
         takes # <<>>, Deserialize,
         NEW ps \in Seq(Seq(Byte)), \A i \in DOMAIN ps : Len(ps[i]) = 8,
         NEW d, NEW a, NEW b, NEW base \in Seq(Seq(Byte)),
         Reading(F64s(ps), F64sType(Len(ps)), d, a, b, base)
  PROVE  ReadOn(F64s(ps), F64sType(Len(ps)), a, b, base)
<1>1. PICK n \in Nat : n = Len(ps) /\ DOMAIN ps = 1 .. n
  BY LenProperties
<1>2. PICK type \in Type : type = F64sType(n)
  BY ReadsF64s
<1>3. PICK r : r = Reads(type)
  OBVIOUS
<1>4. /\ Len(r) = 1 + 2 * n /\ r[1] = AlignTo(8)
      /\ \A m \in Nat : m < n => r[1 + 2 * m + 1] = AlignTo(8) /\ r[2 + 2 * m + 1] = Take(8)
  BY <1>2, <1>3, ReadsF64s
<1>5. d \in Nat /\ d <= Len(r) /\ takes = Rest(r, d) /\ FieldAt(laid, F64s(ps), a, b)
  BY <1>1, <1>2, <1>3 DEF Reading
<1>6. d + 1 \in 1 .. Len(r) /\ Head(takes) = r[d + 1] /\ Tail(takes) = Rest(r, d + 1)
  BY <1>3, <1>5, ReadingNext
<1>7. F64s(ps).kind = "f64s" /\ F64s(ps).pieces = ps
  BY DEF F64s
<1>8. F64sStage(ps, d, a, base)
  BY <1>7 DEF Reading, Stage
<1>9. PICK p \in Nat : /\ a \in Nat /\ p = a + Padding(a, 8) /\ b = p + 8 * n
                      /\ \A m \in 0 .. n - 1 : Stands(laid, p + 8 * m, ps[m + 1])
  <2>1. F64sFrom(laid, ps, n, a, b)
    BY <1>1, <1>5, F64sAt, Zenon
  <2> QED BY <2>1 DEF F64sFrom
<1>10. Kept
  BY ReaderStep
<1>11. ASSUME rstate' = "reading", takes' = Rest(r, d + 1), F64sStage(ps, d + 1, a, base)'
       PROVE  ReadOn(F64s(ps), type, a, b, base)
  <2>1. PICK e \in Nat : e = d + 1 /\ e <= Len(r)
    BY <1>5, <1>6
  <2>2. Stage(F64s(ps), e, a, base)'
    BY <1>7, <1>11, <2>1 DEF Stage
  <2> QED BY <1>3, <1>5, <1>10, <1>11, <2>1, <2>2, ReadingOn
<1>12. CASE d = 0
  <2>1. Head(takes).op = "align" /\ Head(takes).n = 8
    <3>1. Head(takes) = AlignTo(8)
      BY <1>4, <1>6, <1>12
    <3> QED BY <3>1, Ops
  <2>2. rpos = a /\ values = base
    BY <1>8, <1>12 DEF F64sStage
  <2>3. /\ rstate' = "reading" /\ takes' = Rest(r, d + 1) /\ rpos' = p /\ values' = base
    BY <1>6, <1>9, <2>1, <2>2, ReaderStep
  <2>4. /\ d + 1 \in {1 + 2 * 0, 2 + 2 * 0} /\ d + 1 <= 1 + 2 * n /\ 0 \in 0 .. n
        /\ p = p + 8 * 0
    BY <1>9, <1>12
  <2>5. values' = base \o SubSeq(ps, 1, 0)
    <3>1. base \o <<>> = base
      BY NoMoreValues
    <3> QED BY <2>3, <3>1, FrontWhole
  <2>6. F64sStage(ps, d + 1, a, base)'
    BY <1>1, <1>9, <2>3, <2>4, <2>5 DEF F64sStage
  <2> QED BY <1>1, <1>2, <1>11, <2>3, <2>6
<1>13. ASSUME d # 0
       PROVE  \E m \in 0 .. n : /\ d \in {1 + 2 * m, 2 + 2 * m} /\ d <= 1 + 2 * n
                                /\ rpos = p + 8 * m /\ values = base \o SubSeq(ps, 1, m)
  BY <1>1, <1>8, <1>9, <1>13 DEF F64sStage
<1>14. ASSUME NEW m \in Nat, m < n, d = 1 + 2 * m, rpos = p + 8 * m,
              values = base \o SubSeq(ps, 1, m)
       PROVE  ReadOn(F64s(ps), type, a, b, base)
  <2>1. Head(takes).op = "align" /\ Head(takes).n = 8
    BY <1>4, <1>6, <1>14, Ops
  <2>2. Padding(p + 8 * m, 8) = 0
    BY <1>9, Aligned8
  <2>3. /\ rstate' = "reading" /\ takes' = Rest(r, d + 1) /\ rpos' = (p + 8 * m) + 0
        /\ values' = base \o SubSeq(ps, 1, m)
    BY <1>6, <1>14, <2>1, <2>2, ReaderStep
  <2>4. rpos' = p + 8 * m
    BY <1>9, <2>3
  <2>5. d + 1 \in {1 + 2 * m, 2 + 2 * m} /\ d + 1 <= 1 + 2 * n /\ m \in 0 .. n
    BY <1>14
  <2>6. F64sStage(ps, d + 1, a, base)'
    BY <1>1, <1>9, <2>3, <2>4, <2>5 DEF F64sStage
  <2> QED BY <1>11, <2>3, <2>6
<1>15. ASSUME NEW m \in Nat, m < n, d = 2 + 2 * m, rpos = p + 8 * m,
              values = base \o SubSeq(ps, 1, m)
       PROVE  ReadOn(F64s(ps), type, a, b, base)
  <2>1. Head(takes).op = "take" /\ Head(takes).n = 8
    BY <1>4, <1>6, <1>15, Ops
  <2>2. Count = 8
    BY <2>1 DEF Count
  <2>3. PICK k \in Nat : k = m + 1 /\ k \in 1 .. n
    BY <1>15
  <2>4. PICK x \in Seq(Byte) : x = ps[k] /\ Len(x) = 8
    BY <1>1, <2>3, ElementOfSeq
  <2>5. Stands(laid, rpos, x)
    <3>1. m \in 0 .. n - 1
      BY <1>15
    <3> QED BY <1>9, <1>15, <2>3, <2>4, <3>1
  <2>6. /\ Left(Count) => Taken = x
        /\ ~Left(Count) => body # laid
    BY <2>2, <2>4, <2>5, TakenIs
  <2>7. \/ Failed /\ ~Left(Count)
        \/ /\ rstate' = "reading" /\ takes' = Rest(r, d + 1) /\ rpos' = (p + 8 * m) + 8
           /\ values' = (base \o SubSeq(ps, 1, m)) \o <<x>>
    BY <1>6, <1>15, <2>1, <2>2, <2>6, ReaderStep
  <2>8. CASE Failed /\ ~Left(Count)
    BY <1>10, <2>6, <2>8 DEF ReadOn
  <2>9. CASE /\ rstate' = "reading" /\ takes' = Rest(r, d + 1) /\ rpos' = (p + 8 * m) + 8
             /\ values' = (base \o SubSeq(ps, 1, m)) \o <<x>>
    <3>1. values' = base \o SubSeq(ps, 1, k)
      <4>1. k = m + 1 /\ k <= Len(ps)
        BY <1>1, <2>3
      <4>2. PICK f : f = SubSeq(ps, 1, m)
        OBVIOUS
      <4>3. PICK one : one = <<x>> /\ one = <<ps[k]>>
        BY <2>4
      <4>4. f \in Seq(Seq(Byte)) /\ one \in Seq(Seq(Byte)) /\ SubSeq(ps, 1, k) = f \o one
        <5>1. PICK g : g = SubSeq(ps, 1, k)
          OBVIOUS
        <5>2. one = <<ps[k]>> /\ k = m + 1 /\ k <= Len(ps) /\ f = SubSeq(ps, 1, m)
          BY <4>1, <4>2, <4>3
        <5>3. AndOne(Seq(Byte), f, one, g)
          BY <2>3, <5>1, <5>2, FrontNext, Zenon
        <5> QED BY <5>1, <5>3 DEF AndOne
      <4>5. (base \o f) \o one = base \o (f \o one)
        <5>1. f \in Seq(Seq(Byte)) /\ one \in Seq(Seq(Byte))
          BY <4>4
        <5> QED BY <5>1, Grouped
      <4> QED BY <2>9, <4>2, <4>3, <4>4, <4>5
    <3>2. rpos' = p + 8 * k
      BY <1>9, <2>3, <2>9
    <3>3. d + 1 \in {1 + 2 * k, 2 + 2 * k} /\ d + 1 <= 1 + 2 * n /\ k \in 0 .. n
      BY <1>15, <2>3
    <3>4. F64sStage(ps, d + 1, a, base)'
      BY <1>1, <1>9, <3>1, <3>2, <3>3 DEF F64sStage
    <3> QED BY <1>11, <2>9, <3>4
  <2> QED BY <2>7, <2>8, <2>9
<1>16. CASE d # 0
  <2>1. PICK m \in 0 .. n : /\ d \in {1 + 2 * m, 2 + 2 * m} /\ d <= 1 + 2 * n
                            /\ rpos = p + 8 * m /\ values = base \o SubSeq(ps, 1, m)
    BY <1>13, <1>16
  <2>2. m \in Nat /\ m < n
    BY <1>4, <1>5, <1>6, <2>1
  <2> QED BY <1>1, <1>2, <1>14, <1>15, <2>1, <2>2
<1> QED BY <1>12, <1>16

-----------------------------------------------------------------------------
(* Strings. *)

LEMMA ReadsString ==
  ASSUME NEW type \in Type, type.kind \in {"string", "owned"}, NEW r, r = Reads(type)
  PROVE  /\ Len(r) = 4 \/ Len(r) = 5
         /\ r[1] = AlignTo(4) /\ r[2] = TakeLength
         /\ r[3] = TakeBytes /\ r[4] = TakeNull
         /\ Len(r) = 5 => r[5].op = "push"
<1>1. PICK a : a = ReadString
  OBVIOUS
<1>2. /\ a \in Seq(TakeOp) /\ Len(a) = 4 /\ a[1] = AlignTo(4) /\ a[2] = TakeLength
      /\ a[3] = TakeBytes /\ a[4] = TakeNull
  <2>1. a = <<AlignTo(4), TakeLength, TakeBytes, TakeNull>>
    BY <1>1 DEF ReadString
  <2> QED BY <2>1, Ops
<1>3. CASE type.kind = "string"
  <2>1. r = a
    BY <1>1, <1>3 DEF Reads
  <2> QED BY <1>2, <2>1
<1>4. CASE type.kind = "owned"
  <2>1. PICK x \in TakeOp : x = Push(type.n) /\ x.op = "push"
    BY <1>4, Ops DEF Type
  <2>2. r = Append(a, x)
    <3>1. r = a \o <<x>>
      BY <1>1, <1>4, <2>1 DEF Reads
    <3> QED BY <1>2, <3>1
  <2>3. a \in Seq(TakeOp) /\ x \in TakeOp
    BY <1>2
  <2>4. /\ Len(r) = Len(a) + 1 /\ \A i \in 1 .. Len(a) : r[i] = a[i]
        /\ r[Len(a) + 1] = x
    BY <2>2, <2>3, AppendProperties
  <2>5. Len(r) = 5 /\ r[5] = x /\ \A i \in 1 .. 4 : r[i] = a[i]
    BY <1>2, <2>4
  <2> QED BY <1>2, <2>1, <2>5
<1> QED BY <1>3, <1>4

\* Whether it is a string or an empty one without a null, its length stands
\* behind the padding.
LEMMA ReadOnString ==
  ASSUME TypesInv, laid \in Seq(Byte), Begins(laid, body), rstate = "reading",
         takes # <<>>, Deserialize,
         NEW x \in Seq(Byte), Fits32(Len(x) + 1),
         NEW type \in Type, type.kind \in {"string", "owned"},
         NEW d, NEW a, NEW b, NEW base \in Seq(Seq(Byte)),
         Reading(Str(x), type, d, a, b, base)
  PROVE  ReadOn(Str(x), type, a, b, base)
<1>1. PICK r : r = Reads(type)
  OBVIOUS
<1>2. /\ Len(r) = 4 \/ Len(r) = 5
      /\ r[1] = AlignTo(4) /\ r[2] = TakeLength
      /\ r[3] = TakeBytes /\ r[4] = TakeNull
      /\ Len(r) = 5 => r[5].op = "push"
  BY <1>1, ReadsString
<1>3. d \in Nat /\ d <= Len(r) /\ takes = Rest(r, d) /\ FieldAt(laid, Str(x), a, b)
  BY <1>1 DEF Reading
<1>4. d + 1 \in 1 .. Len(r) /\ Head(takes) = r[d + 1] /\ Tail(takes) = Rest(r, d + 1)
  BY <1>1, <1>3, ReadingNext
<1>n. PICK n \in Nat : n = Len(r) /\ (n = 4 \/ n = 5)
  BY <1>2
<1>5. Str(x).kind = "string" /\ Str(x).pieces[1] = x
  BY DEF Str
<1>6. StringStage(x, d, a, base)
  BY <1>5 DEF Reading, Stage
<1>7. PICK p : /\ a \in Nat /\ p \in Nat /\ p = a + Padding(a, 4)
               /\ Stands(laid, p, Le32(Len(x) + 1))
               /\ Stands(laid, p + 4, x)
               /\ Stands(laid, p + 4 + Len(x), <<0>>)
               /\ b = p + 4 + Len(x) + 1
  BY <1>3, StringAt
<1>8. Kept
  BY ReaderStep
<1>9. ASSUME rstate' = "reading", takes' = Rest(r, d + 1), StringStage(x, d + 1, a, base)'
      PROVE  ReadOn(Str(x), type, a, b, base)
  <2>1. PICK e \in Nat : e = d + 1 /\ e <= Len(r)
    BY <1>2, <1>3, <1>4
  <2>2. Stage(Str(x), e, a, base)'
    BY <1>5, <1>9, <2>1 DEF Stage
  <2> QED BY <1>1, <1>3, <1>8, <1>9, <2>1, <2>2, ReadingOn
<1>10. ASSUME Failed, body # laid \/ Head(takes).op = "push"
       PROVE  ReadOn(Str(x), type, a, b, base)
  BY <1>8, <1>10 DEF ReadOn
<1>11. Len(x) \in Nat /\ Len(x) + 1 \in Nat
  BY LenProperties
<1>12. CASE d = 0
  <2>1. Head(takes).op = "align" /\ Head(takes).n = 4
    <3>1. Head(takes) = AlignTo(4)
      BY <1>2, <1>4, <1>12
    <3> QED BY <3>1, Ops
  <2>2. rpos = a /\ values = base
    BY <1>6, <1>12 DEF StringStage
  <2>3. /\ rstate' = "reading" /\ takes' = Rest(r, d + 1) /\ rpos' = p /\ values' = base
    BY <1>4, <1>7, <2>1, <2>2, ReaderStep
  <2> QED BY <1>7, <1>9, <1>12, <2>3 DEF StringStage
<1>13. CASE d = 1
  <2>1. Head(takes).op = "length" /\ Head(takes).n = 4
    BY <1>2, <1>4, <1>13, Ops
  <2>2. rpos = p /\ values = base
    BY <1>6, <1>7, <1>13 DEF StringStage
  <2>3. Count = 4
    BY <2>1 DEF Count
  <2>4. PICK l \in Seq(Byte) : l = Le32(Len(x) + 1) /\ Len(l) = 4
    BY <1>11, FourBytes
  <2>5. /\ Left(Count) => Taken = l
        /\ ~Left(Count) => body # laid
    BY <1>7, <2>2, <2>3, <2>4, TakenIs
  <2>6. ASSUME Left(Count) PROVE FromLe32(Taken) = Len(x) + 1
    BY <1>11, <2>4, <2>5, <2>6, FourBytes
  <2>7. FromLe32(Taken) = Len(x) + 1 => FromLe32(Taken) # 0
    BY <1>11
  <2>8. \/ Failed /\ ~Left(Count)
        \/ /\ rstate' = "reading" /\ takes' = Rest(r, d + 1) /\ rpos' = p + 4
           /\ values' = base \o <<>> /\ length' = Len(x) + 1
    BY <1>4, <2>1, <2>2, <2>3, <2>6, <2>7, ReaderStep
  <2>9. CASE /\ rstate' = "reading" /\ takes' = Rest(r, d + 1) /\ rpos' = p + 4
             /\ values' = base \o <<>> /\ length' = Len(x) + 1
    <3>1. values' = base
      BY <2>9, NoMoreValues
    <3>2. d + 1 = 2
      BY <1>13
    <3> QED BY <1>7, <1>9, <2>9, <3>1, <3>2 DEF StringStage
  <2> QED BY <1>10, <2>5, <2>8, <2>9
<1>14. CASE d = 2
  <2>1. Head(takes).op = "bytes"
    BY <1>2, <1>4, <1>14, Ops
  <2>2. rpos = p + 4 /\ values = base /\ length = Len(x) + 1
    BY <1>6, <1>7, <1>14 DEF StringStage
  <2>3. Count = Len(x)
    BY <1>11, <2>1, <2>2 DEF Count
  <2>4. /\ Left(Count) => Taken = x
        /\ ~Left(Count) => body # laid
    BY <1>7, <2>2, <2>3, TakenIs
  <2>5. \/ Failed /\ ~Left(Count)
        \/ /\ rstate' = "reading" /\ takes' = Rest(r, d + 1) /\ rpos' = p + 4 + Len(x)
           /\ values' = base \o <<x>>
    BY <1>4, <2>1, <2>2, <2>3, <2>4, ReaderStep
  <2>6. d + 1 = 3
    BY <1>14
  <2>7. CASE /\ rstate' = "reading" /\ takes' = Rest(r, d + 1) /\ rpos' = p + 4 + Len(x)
             /\ values' = base \o <<x>>
    BY <1>7, <1>9, <2>6, <2>7 DEF StringStage
  <2> QED BY <1>10, <2>4, <2>5, <2>7
<1>15. CASE d = 3
  <2>1. Head(takes).op = "null" /\ Head(takes).n = 1
    BY <1>2, <1>4, <1>15, Ops
  <2>2. rpos = p + 4 + Len(x) /\ values = base \o <<x>>
    <3>1. p = a + Padding(a, 4)
      BY <1>7
    <3>2. d # 0 /\ d # 1 /\ d # 2 /\ d \notin {4, 5}
      BY <1>15
    <3> QED BY <1>6, <3>1, <3>2, Zenon DEF StringStage
  <2>3. Count = 1
    BY <2>1 DEF Count
  <2>4. <<0>> \in Seq(Byte) /\ Len(<<0>>) = 1
    BY DEF Byte
  <2>5. ~Left(Count) => body # laid
    BY <1>7, <2>2, <2>3, <2>4, TakenIs
  <2>6. \/ Failed /\ ~Left(Count)
        \/ /\ rstate' = "reading" /\ takes' = Rest(r, d + 1) /\ rpos' = p + 4 + Len(x) + 1
           /\ values' = (base \o <<x>>) \o <<>>
    BY <1>4, <2>1, <2>2, <2>3, ReaderStep
  <2>7. d + 1 = 4
    BY <1>15
  <2>8. CASE /\ rstate' = "reading" /\ takes' = Rest(r, d + 1) /\ rpos' = p + 4 + Len(x) + 1
             /\ values' = (base \o <<x>>) \o <<>>
    <3>1. <<x>> \in Seq(Seq(Byte))
      OBVIOUS
    <3>2. base \o <<x>> \in Seq(Seq(Byte))
      BY <3>1, ConcatProperties
    <3>3. values' = base \o <<x>>
      BY <2>8, <3>2, NoMoreValues
    <3> QED BY <1>7, <1>9, <2>7, <2>8, <3>3 DEF StringStage
  <2> QED BY <1>10, <2>5, <2>6, <2>8
<1>16. CASE d = 4
  <2>1. Head(takes).op = "push"
    <3>1. d + 1 = 5 /\ Len(r) = 5
      <4>1. d + 1 \in 1 .. n
        BY <1>4, <1>n
      <4> QED BY <1>16, <1>n, <4>1
    <3> QED BY <1>2, <1>4, <3>1
  <2>2. rpos = p + 4 + Len(x) + 1 /\ values = base \o <<x>>
    <3>1. p = a + Padding(a, 4)
      BY <1>7
    <3>2. d # 0 /\ d # 1 /\ d # 2 /\ d # 3
      BY <1>16
    <3> QED BY <1>6, <3>1, <3>2, Zenon DEF StringStage
  <2>3. \/ Failed
        \/ /\ rstate' = "reading" /\ takes' = Rest(r, d + 1) /\ rpos' = rpos /\ values' = values
    BY <1>4, <2>1, ReaderStep
  <2>4. d + 1 = 5
    BY <1>16
  <2>5. CASE /\ rstate' = "reading" /\ takes' = Rest(r, d + 1) /\ rpos' = rpos /\ values' = values
    BY <1>7, <1>9, <2>2, <2>4, <2>5 DEF StringStage
  <2> QED BY <1>10, <2>1, <2>3, <2>5
<1>17. d \in {0, 1, 2, 3, 4}
  <2>1. d \in {0, 1, 2, 3, 4, 5}
    BY <1>6 DEF StringStage
  <2>2. d # 5
    <3>1. d \in Nat /\ d + 1 \in 1 .. n
      BY <1>3, <1>4, <1>n
    <3>2. n = 4 \/ n = 5
      BY <1>n
    <3> QED BY <3>1, <3>2
  <2> QED BY <2>1, <2>2
<1> QED BY <1>12, <1>13, <1>14, <1>15, <1>16, <1>17

LEMMA ReadOnZero ==
  ASSUME TypesInv, laid \in Seq(Byte), Begins(laid, body), rstate = "reading",
         takes # <<>>, Deserialize,
         NEW type \in Type, type.kind \in {"string", "owned"},
         NEW d, NEW a, NEW b, NEW base \in Seq(Seq(Byte)),
         Reading(StrZero, type, d, a, b, base)
  PROVE  ReadOn(StrZero, type, a, b, base)
<1>1. PICK r : r = Reads(type)
  OBVIOUS
<1>2. /\ Len(r) = 4 \/ Len(r) = 5
      /\ r[1] = AlignTo(4) /\ r[2] = TakeLength
      /\ Len(r) = 5 => r[5].op = "push"
  BY <1>1, ReadsString
<1>3. d \in Nat /\ d <= Len(r) /\ takes = Rest(r, d) /\ FieldAt(laid, StrZero, a, b)
  BY <1>1 DEF Reading
<1>4. /\ d + 1 \in 1 .. Len(r) /\ Head(takes) = r[d + 1] /\ Tail(takes) = Rest(r, d + 1)
      /\ r \in Seq(TakeOp)
  BY <1>1, <1>3, ReadingNext
<1>n. PICK n \in Nat : n = Len(r) /\ (n = 4 \/ n = 5)
  BY <1>2
<1>5. StrZero.kind = "zero"
  BY DEF StrZero
<1>6. ZeroStage(d, a, base)
  BY <1>5 DEF Reading, Stage
<1>7. PICK p : /\ a \in Nat /\ p \in Nat /\ p = a + Padding(a, 4)
               /\ Stands(laid, p, Le32(0)) /\ b = p + 4
  BY <1>3, ZeroAt
<1>8. Kept
  BY ReaderStep
<1>9. ASSUME rstate' = "reading", NEW e \in Nat, e <= Len(r), takes' = Rest(r, e),
             ZeroStage(e, a, base)'
      PROVE  ReadOn(StrZero, type, a, b, base)
  <2>1. Stage(StrZero, e, a, base)'
    BY <1>5, <1>9 DEF Stage
  <2> QED BY <1>1, <1>3, <1>8, <1>9, <2>1, ReadingOn
<1>10. ASSUME Failed, body # laid \/ Head(takes).op = "push"
       PROVE  ReadOn(StrZero, type, a, b, base)
  BY <1>8, <1>10 DEF ReadOn
<1>11. CASE d = 0
  <2>1. Head(takes).op = "align" /\ Head(takes).n = 4
    <3>1. Head(takes) = AlignTo(4)
      BY <1>2, <1>4, <1>11
    <3> QED BY <3>1, Ops
  <2>2. rpos = a /\ values = base
    BY <1>6, <1>11 DEF ZeroStage
  <2>3. /\ rstate' = "reading" /\ takes' = Rest(r, 1) /\ rpos' = p /\ values' = base
    <3>1. d + 1 = 1
      BY <1>11
    <3> QED BY <1>4, <1>7, <2>1, <2>2, <3>1, ReaderStep
  <2>4. ZeroStage(1, a, base)' /\ 1 \in Nat /\ 1 <= Len(r)
    BY <1>2, <1>7, <2>3 DEF ZeroStage
  <2> QED BY <1>9, <2>3, <2>4
<1>12. CASE d = 1
  <2>1. Head(takes).op = "length" /\ Head(takes).n = 4
    <3>1. Head(takes) = TakeLength
      BY <1>2, <1>4, <1>12
    <3> QED BY <3>1, Ops
  <2>2. rpos = p /\ values = base
    BY <1>6, <1>7, <1>12 DEF ZeroStage
  <2>3. Count = 4
    BY <2>1 DEF Count
  <2>4. Fits32(0)
    <3>1. 0 \div 256 = 0 /\ 0 \in Byte
      BY DEF Byte
    <3> QED BY <3>1 DEF Fits32
  <2>5. PICK l \in Seq(Byte) : l = Le32(0) /\ Len(l) = 4
    BY <2>4, FourBytes
  <2>6. /\ Left(Count) => Taken = l
        /\ ~Left(Count) => body # laid
    BY <1>7, <2>2, <2>3, <2>5, TakenIs
  <2>7. ASSUME Left(Count) PROVE FromLe32(Taken) = 0
    BY <2>4, <2>5, <2>6, <2>7, FourBytes
  <2>8. \/ Failed /\ ~Left(Count)
        \/ /\ rstate' = "reading" /\ takes' = SubSeq(takes, 4, Len(takes)) /\ rpos' = p + 4
           /\ values' = base \o <<<<>>>>
    BY <2>1, <2>2, <2>3, <2>7, ReaderStep
  <2>9. CASE /\ rstate' = "reading" /\ takes' = SubSeq(takes, 4, Len(takes)) /\ rpos' = p + 4
             /\ values' = base \o <<<<>>>>
    <3>1. takes' = Rest(Rest(r, 1), 3)
      BY <1>3, <1>12, <2>9 DEF Rest
    <3>2. 1 + 3 <= Len(r) /\ 4 <= Len(r) /\ 1 + 3 = 4
      BY <1>n
    <3>3. takes' = Rest(r, 4)
      BY <1>4, <3>1, <3>2, RestOfRest
    <3>4. ZeroStage(4, a, base)'
      BY <1>7, <2>9 DEF ZeroStage
    <3> QED BY <1>9, <2>9, <3>2, <3>3, <3>4
  <2> QED BY <1>10, <2>6, <2>8, <2>9
<1>13. CASE d = 4
  <2>1. Head(takes).op = "push"
    <3>1. d + 1 = 5 /\ Len(r) = 5
      <4>1. d + 1 \in 1 .. n
        BY <1>4, <1>n
      <4> QED BY <1>13, <1>n, <4>1
    <3> QED BY <1>2, <1>4, <3>1
  <2>2. rpos = p + 4 /\ values = base \o <<<<>>>>
    BY <1>6, <1>7, <1>13 DEF ZeroStage
  <2>3. d + 1 = 5 /\ 5 \in Nat /\ 5 <= Len(r)
    BY <1>2, <1>4, <1>13
  <2>4. \/ Failed
        \/ /\ rstate' = "reading" /\ takes' = Rest(r, 5) /\ rpos' = rpos /\ values' = values
    BY <1>4, <2>1, <2>3, ReaderStep
  <2>5. CASE /\ rstate' = "reading" /\ takes' = Rest(r, 5) /\ rpos' = rpos /\ values' = values
    <3>1. ZeroStage(5, a, base)'
      BY <1>7, <2>2, <2>5 DEF ZeroStage
    <3> QED BY <1>9, <2>3, <2>5, <3>1
  <2> QED BY <1>10, <2>1, <2>4, <2>5
<1>14. d \in {0, 1, 4}
  <2>1. d \in {0, 1, 4, 5}
    BY <1>6 DEF ZeroStage
  <2>2. d # 5
    <3>1. d \in Nat /\ d + 1 \in 1 .. n
      BY <1>3, <1>4, <1>n
    <3>2. n = 4 \/ n = 5
      BY <1>n
    <3> QED BY <3>1, <3>2
  <2> QED BY <2>1, <2>2
<1> QED BY <1>11, <1>12, <1>13, <1>14


-----------------------------------------------------------------------------
(* A field of any kind. *)

\* What a field and the type it is read as are.
LEMMA AgreeKinds ==
  ASSUME NEW field, NEW type \in Type, Agree(field, type)
  PROVE  /\ field.pieces \in Seq(Seq(Byte))
         /\ \/ \E w \in {1, 4, 8}, x \in Seq(Byte) :
                 field = Scalar(w, x) /\ type = ScalarType(w) /\ Len(x) = w
            \/ \E ps \in Seq(Seq(Byte)) :
                 /\ field = F64s(ps) /\ type = F64sType(Len(ps))
                 /\ \A i \in DOMAIN ps : Len(ps[i]) = 8
            \/ /\ type.kind \in {"string", "owned"}
               /\ \/ \E x \in Seq(Byte) : field = Str(x) /\ Fits32(Len(x) + 1)
                  \/ field = StrZero
<1>1. PICK ps \in Seq(Seq(Byte)) : ps = field.pieces
  BY DEF Agree
<1>2. PICK x : x = ps[1]
  OBVIOUS
<1>3. ASSUME ps = <<x>> PROVE x \in Seq(Byte)
  <2>1. Len(ps) = 1 /\ 1 \in 1 .. Len(ps)
    BY <1>3
  <2> QED BY <1>2, <2>1, ElementOfSeq
<1>4. CASE type.kind = "scalar" /\ field = Scalar(type.n, x) /\ Len(x) = type.n
  <2>1. PICK w \in {1, 4, 8} : w = type.n /\ type = ScalarType(w)
    BY <1>4 DEF Type, ScalarType
  <2>2. ps = <<x>>
    BY <1>1, <1>4 DEF Scalar
  <2>3. x \in Seq(Byte)
    BY <1>3, <2>2
  <2>4. field = Scalar(w, x) /\ Len(x) = w
    BY <1>4, <2>1
  <2> QED BY <1>1, <2>1, <2>3, <2>4
<1>5. CASE /\ type = F64sType(Len(ps)) /\ field = F64s(ps)
           /\ \A i \in DOMAIN ps : Len(ps[i]) = 8
  BY <1>1, <1>5
<1>6. CASE type.kind \in {"string", "owned"} /\ field = Str(x) /\ Fits32(Len(x) + 1)
  <2>1. ps = <<x>>
    BY <1>1, <1>6 DEF Str
  <2>2. x \in Seq(Byte)
    BY <1>3, <2>1
  <2> QED BY <1>1, <1>6, <2>2
<1>7. CASE type.kind \in {"string", "owned"} /\ field = StrZero
  BY <1>1, <1>7
<1>8. \/ type.kind = "scalar" /\ field = Scalar(type.n, x) /\ Len(x) = type.n
      \/ /\ type = F64sType(Len(ps)) /\ field = F64s(ps)
         /\ \A i \in DOMAIN ps : Len(ps[i]) = 8
      \/ type.kind \in {"string", "owned"} /\ field = Str(x) /\ Fits32(Len(x) + 1)
      \/ type.kind \in {"string", "owned"} /\ field = StrZero
  BY <1>1, <1>2, Zenon DEF Agree
<1> QED BY <1>4, <1>5, <1>6, <1>7, <1>8

LEMMA ReadOnField ==
  ASSUME TypesInv, laid \in Seq(Byte), Begins(laid, body), rstate = "reading",
         takes # <<>>, Deserialize,
         NEW field, NEW type \in Type, Agree(field, type),
         NEW d, NEW a, NEW b, NEW base \in Seq(Seq(Byte)),
         Reading(field, type, d, a, b, base)
  PROVE  ReadOn(field, type, a, b, base)
<1>1. CASE \E w \in {1, 4, 8}, x \in Seq(Byte) :
             field = Scalar(w, x) /\ type = ScalarType(w) /\ Len(x) = w
  <2>1. PICK w \in {1, 4, 8}, x \in Seq(Byte) :
          field = Scalar(w, x) /\ type = ScalarType(w) /\ Len(x) = w
    BY <1>1
  <2>2. Reading(Scalar(w, x), ScalarType(w), d, a, b, base)
    BY <2>1
  <2>3. ReadOn(Scalar(w, x), ScalarType(w), a, b, base)
    BY <2>1, <2>2, ReadOnScalar
  <2> QED BY <2>1, <2>3
<1>2. CASE \E ps \in Seq(Seq(Byte)) :
             /\ field = F64s(ps) /\ type = F64sType(Len(ps))
             /\ \A i \in DOMAIN ps : Len(ps[i]) = 8
  <2>1. PICK ps \in Seq(Seq(Byte)) :
          /\ field = F64s(ps) /\ type = F64sType(Len(ps))
          /\ \A i \in DOMAIN ps : Len(ps[i]) = 8
    BY <1>2
  <2>2. Reading(F64s(ps), F64sType(Len(ps)), d, a, b, base)
    BY <2>1
  <2>3. ReadOn(F64s(ps), F64sType(Len(ps)), a, b, base)
    BY <2>1, <2>2, ReadOnF64s
  <2> QED BY <2>1, <2>3
<1>3. CASE /\ type.kind \in {"string", "owned"}
           /\ \/ \E x \in Seq(Byte) : field = Str(x) /\ Fits32(Len(x) + 1)
              \/ field = StrZero
  <2>1. ASSUME NEW x \in Seq(Byte), field = Str(x), Fits32(Len(x) + 1)
        PROVE  ReadOn(field, type, a, b, base)
    <3>1. Reading(Str(x), type, d, a, b, base)
      BY <2>1
    <3>2. ReadOn(Str(x), type, a, b, base)
      BY <1>3, <2>1, <3>1, ReadOnString
    <3> QED BY <2>1, <3>2
  <2>2. ASSUME field = StrZero
        PROVE  ReadOn(field, type, a, b, base)
    <3>1. Reading(StrZero, type, d, a, b, base)
      BY <2>2
    <3>2. ReadOn(StrZero, type, a, b, base)
      BY <1>3, <3>1, ReadOnZero
    <3> QED BY <2>2, <3>2
  <2> QED BY <1>3, <2>1, <2>2
<1> QED BY <1>1, <1>2, <1>3, AgreeKinds

\* Where a scalar and an array end.
LEMMA ScalarEnds ==
  ASSUME NEW w \in {1, 4, 8}, NEW x, NEW a, NEW b, FieldAt(laid, Scalar(w, x), a, b)
  PROVE  b = a + Padding(a, w) + Len(x)
BY ScalarAt

LEMMA F64sEnd ==
  ASSUME NEW ps \in Seq(Seq(Byte)), \A i \in DOMAIN ps : Len(ps[i]) = 8,
         NEW a, NEW b, FieldAt(laid, F64s(ps), a, b)
  PROVE  b = a + Padding(a, 8) + 8 * Len(ps)
<1>1. PICK n \in Nat : n = Len(ps)
  BY LenProperties
<1>2. F64sFrom(laid, ps, n, a, b)
  BY <1>1, F64sAt, Zenon
<1> QED BY <1>1, <1>2 DEF F64sFrom

\* With all calls done the reader has passed the field and has its values.
LEMMA FieldRead ==
  ASSUME NEW field, NEW type \in Type, Agree(field, type),
         NEW d, NEW a, NEW b, NEW base \in Seq(Seq(Byte)),
         Reading(field, type, d, a, b, base), takes = <<>>
  PROVE  rpos = b /\ values = base \o field.pieces
<1>1. PICK r : r = Reads(type)
  OBVIOUS
<1>2. r \in Seq(TakeOp) /\ Len(r) \in Nat
  BY <1>1, ReadsType
<1>3. d \in Nat /\ d <= Len(r) /\ takes = Rest(r, d) /\ FieldAt(laid, field, a, b)
  BY <1>1 DEF Reading
<1>4. d = Len(r)
  BY <1>2, <1>3, RestEmpty
<1>5. CASE \E w \in {1, 4, 8}, x \in Seq(Byte) :
             field = Scalar(w, x) /\ type = ScalarType(w) /\ Len(x) = w
  <2>1. PICK w \in {1, 4, 8}, x \in Seq(Byte) :
          field = Scalar(w, x) /\ type = ScalarType(w) /\ Len(x) = w
    BY <1>5
  <2>2. r = IF w = 1 THEN <<Take(1)>> ELSE <<AlignTo(w), Take(w)>>
    BY <1>1, <2>1 DEF Reads, ReadScalar, ScalarType
  <2>3. d = IF w = 1 THEN 1 ELSE 2
    BY <1>4, <2>2
  <2>4. field.kind = "scalar" /\ field.width = w /\ field.pieces[1] = x /\ field.pieces = <<x>>
    BY <2>1 DEF Scalar
  <2>5. ScalarStage(w, x, d, a, base)
    BY <2>4 DEF Reading, Stage
  <2>6. rpos = a + Padding(a, w) + w /\ values = base \o <<x>>
    BY <2>3, <2>5 DEF ScalarStage
  <2>7. b = a + Padding(a, w) + Len(x)
    <3>1. FieldAt(laid, Scalar(w, x), a, b)
      BY <1>3, <2>1
    <3>2. w \in {1, 4, 8}
      BY <2>1
    <3> QED BY <3>1, <3>2, ScalarEnds
  <2> QED BY <2>1, <2>4, <2>6, <2>7
<1>6. CASE \E ps \in Seq(Seq(Byte)) :
             /\ field = F64s(ps) /\ type = F64sType(Len(ps))
             /\ \A i \in DOMAIN ps : Len(ps[i]) = 8
  <2>1. PICK ps \in Seq(Seq(Byte)) :
          /\ field = F64s(ps) /\ type = F64sType(Len(ps))
          /\ \A i \in DOMAIN ps : Len(ps[i]) = 8
    BY <1>6
  <2>2. PICK n \in Nat : n = Len(ps)
    BY LenProperties
  <2>3. d = 1 + 2 * n
    BY <1>1, <1>4, <2>1, <2>2, ReadsF64s
  <2>4. field.kind = "f64s" /\ field.pieces = ps
    BY <2>1 DEF F64s
  <2>5. F64sStage(ps, d, a, base)
    BY <2>4 DEF Reading, Stage
  <2>6. PICK m \in 0 .. n : /\ d \in {1 + 2 * m, 2 + 2 * m}
                            /\ rpos = a + Padding(a, 8) + 8 * m
                            /\ values = base \o SubSeq(ps, 1, m)
    <3>1. d # 0
      BY <2>3
    <3> QED BY <2>2, <2>5, <3>1, Zenon DEF F64sStage
  <2>7. m = n
    BY <2>3, <2>6
  <2>8. FieldAt(laid, F64s(ps), a, b)
    BY <1>3, <2>1
  <2>9. b = a + Padding(a, 8) + 8 * Len(ps)
    <3>0. ps \in Seq(Seq(Byte))
      BY <2>1
    <3>1. \A i \in DOMAIN ps : Len(ps[i]) = 8
      BY <2>1
    <3> QED BY <2>8, <3>0, <3>1, F64sEnd
  <2>10. SubSeq(ps, 1, Len(ps)) = ps
    BY FrontWhole
  <2> QED BY <2>2, <2>4, <2>6, <2>7, <2>9, <2>10
<1>7. CASE type.kind \in {"string", "owned"} /\ \E x \in Seq(Byte) : field = Str(x)
  <2>1. PICK x \in Seq(Byte) : field = Str(x)
    BY <1>7
  <2>2. d = 4 \/ d = 5
    BY <1>1, <1>4, <1>7, ReadsString
  <2>3. field.kind = "string" /\ field.pieces[1] = x /\ field.pieces = <<x>>
    BY <2>1 DEF Str
  <2>4. StringStage(x, d, a, base)
    BY <2>3 DEF Reading, Stage
  <2>5. rpos = a + Padding(a, 4) + 4 + Len(x) + 1 /\ values = base \o <<x>>
    <3>1. d # 0 /\ d # 1 /\ d # 2 /\ d # 3
      BY <2>2
    <3> QED BY <2>4, <3>1, Zenon DEF StringStage
  <2>6. b = a + Padding(a, 4) + 4 + Len(x) + 1
    BY <1>3, <2>1, StringAt
  <2> QED BY <2>3, <2>5, <2>6
<1>8. CASE type.kind \in {"string", "owned"} /\ field = StrZero
  <2>1. d = 4 \/ d = 5
    BY <1>1, <1>4, <1>8, ReadsString
  <2>2. field.kind = "zero" /\ field.pieces = <<<<>>>>
    BY <1>8 DEF StrZero
  <2>3. ZeroStage(d, a, base)
    BY <2>2 DEF Reading, Stage
  <2>4. rpos = a + Padding(a, 4) + 4 /\ values = base \o <<<<>>>>
    <3>1. d # 0 /\ d # 1
      BY <2>1
    <3> QED BY <2>3, <3>1, Zenon DEF ZeroStage
  <2>5. b = a + Padding(a, 4) + 4
    BY <1>3, <1>8, ZeroAt
  <2> QED BY <2>2, <2>4, <2>5
<1> QED BY <1>5, <1>6, <1>7, <1>8, AgreeKinds

\* A field that is begun.
LEMMA FieldBegun ==
  ASSUME NEW field, NEW type \in Type, Agree(field, type),
         NEW a, NEW b, NEW base, FieldAt(laid, field, a, b), laid' = laid,
         takes' = Reads(type), rpos' = a, values' = base
  PROVE  Reading(field, type, 0, a, b, base)'
<1>1. PICK r : r = Reads(type)
  OBVIOUS
<1>2. r \in Seq(TakeOp) /\ Len(r) \in Nat
  BY <1>1, ReadsType
<1>3. 0 \in Nat /\ 0 <= Len(r) /\ takes' = Rest(r, 0)
  BY <1>1, <1>2, RestWhole
<1>4. Stage(field, 0, a, base)'
  <2>1. CASE \E w \in {1, 4, 8}, x \in Seq(Byte) :
               field = Scalar(w, x) /\ type = ScalarType(w) /\ Len(x) = w
    <3>1. PICK w \in {1, 4, 8}, x \in Seq(Byte) : field = Scalar(w, x)
      BY <2>1
    <3>2. field.kind = "scalar" /\ field.width = w /\ field.pieces[1] = x
      BY <3>1 DEF Scalar
    <3>3. a \in Nat
      BY <3>1, ScalarAt
    <3>4. w = 1 => a = a + Padding(a, w)
      BY <3>3, PaddingOne
    <3>5. ScalarStage(w, x, 0, a, base)'
      BY <3>4 DEF ScalarStage
    <3> QED BY <3>2, <3>5 DEF Stage
  <2>2. CASE \E ps \in Seq(Seq(Byte)) : field = F64s(ps)
    <3>1. field.kind = "f64s"
      BY <2>2 DEF F64s
    <3> QED BY <3>1 DEF Stage, F64sStage
  <2>3. CASE \E x \in Seq(Byte) : field = Str(x)
    <3>1. field.kind = "string"
      BY <2>3 DEF Str
    <3> QED BY <3>1 DEF Stage, StringStage
  <2>4. CASE field = StrZero
    <3>1. field.kind = "zero"
      BY <2>4 DEF StrZero
    <3> QED BY <3>1 DEF Stage, ZeroStage
  <2> QED BY <2>1, <2>2, <2>3, <2>4, AgreeKinds
<1> QED BY <1>1, <1>3, <1>4 DEF Reading


-----------------------------------------------------------------------------
(* The whole way. *)

\* The layout has all the fields.
LaidOut(ends, vals) ==
  /\ MessageAt(laid, Len(message.fields), ends, vals)
  /\ ends[Len(message.fields)] = Len(laid) /\ vals[Len(message.fields)] = written

\* The reader is before the first field or in the j-th.
Position(ends, vals) ==
  \E j \in 0 .. Len(message.types) :
    /\ types = Rest(message.types, j)
    /\ \/ j = 0 /\ takes = <<>> /\ rpos = 0 /\ values = <<>>
       \/ /\ j # 0
          /\ \E d : Reading(message.fields[j], message.types[j], d,
                            ends[j - 1], ends[j], vals[j - 1])

TripInv ==
  /\ rstate = "none" => takes = <<>> /\ rpos = 0 /\ values = <<>>
  /\ wstate = "writing" => WritingInv
  /\ wstate = "published" =>
       \E ends, vals : LaidOut(ends, vals) /\ (rstate = "reading" => Position(ends, vals))
  /\ rstate # "none" => Begins(laid, body)
  /\ RoundTrip /\ RefusedForCause /\ ReadToTheEnd

\* The fields and types of a message that agree.
LEMMA MessageFacts ==
  ASSUME message \in Message, FieldsAgree
  PROVE  \E n \in Nat :
           /\ n = Len(message.fields) /\ n = Len(message.types)
           /\ message.fields \in Seq(Field) /\ message.types \in Seq(Type)
           /\ \A i \in 1 .. n : message.types[i] \in Type /\ Agree(message.fields[i], message.types[i])
<1>1. message.fields \in Seq(Field) /\ message.types \in Seq(Type)
  BY CodecAssumption
<1>2. PICK n \in Nat : n = Len(message.fields)
  BY <1>1, LenProperties
<1>3. n = Len(message.types) /\ DOMAIN message.fields = 1 .. n
  BY <1>1, <1>2, LenProperties DEF FieldsAgree
<1>4. ASSUME NEW i \in 1 .. n
      PROVE  message.types[i] \in Type /\ Agree(message.fields[i], message.types[i])
  BY <1>1, <1>3, ElementOfSeq DEF FieldsAgree
<1> QED BY <1>1, <1>2, <1>3, <1>4

\* The values up to any field are sequences of bytes.
LEMMA ValuesAreBytes ==
  ASSUME message \in Message, FieldsAgree, NEW s, NEW ends, NEW vals,
         MessageAt(s, Len(message.fields), ends, vals)
  PROVE  \A i \in 0 .. Len(message.fields) : vals[i] \in Seq(Seq(Byte))
<1>1. PICK n \in Nat :
        /\ n = Len(message.fields) /\ n = Len(message.types)
        /\ \A i \in 1 .. n : message.types[i] \in Type /\ Agree(message.fields[i], message.types[i])
  BY MessageFacts
<1> DEFINE G == {i \in Nat : i <= n => vals[i] \in Seq(Seq(Byte))}
<1>2. 0 \in G
  <2>1. vals[0] = <<>>
    BY DEF MessageAt
  <2>2. vals[0] \in Seq(Seq(Byte))
    BY <2>1, EmptySeq
  <2> QED BY <2>2
<1>3. ASSUME NEW i \in G PROVE i + 1 \in G
  <2>1. PICK k \in Nat : k = i + 1
    OBVIOUS
  <2>2. ASSUME k <= n PROVE vals[k] \in Seq(Seq(Byte))
    <3>1. k \in 1 .. n /\ k - 1 = i /\ i <= n
      BY <2>1, <2>2
    <3>2. vals[i] \in Seq(Seq(Byte))
      BY <3>1
    <3>3. PICK ps : ps = message.fields[k].pieces
      OBVIOUS
    <3>4. ps \in Seq(Seq(Byte))
      BY <1>1, <3>1, <3>3, AgreeKinds
    <3>5. vals[k] = vals[i] \o ps
      BY <1>1, <3>1, <3>3 DEF MessageAt
    <3> HIDE DEF G
    <3>6. vals[i] \o ps \in Seq(Seq(Byte))
      BY <3>2, <3>4, ConcatProperties
    <3> QED BY <3>5, <3>6
  <2> QED BY <2>1, <2>2
<1>4. G = Nat
  <2>1. G \in SUBSET Nat
    OBVIOUS
  <2> HIDE DEF G
  <2> QED BY <1>2, <1>3, <2>1, Induct
<1>5. \A i \in Nat : i <= n => vals[i] \in Seq(Seq(Byte))
  BY <1>4
<1> HIDE DEF G
<1> QED BY <1>1, <1>5

\* Between two fields the reader has read just the fields before.
LEMMA FieldsRead ==
  ASSUME message \in Message, FieldsAgree, NEW ends, NEW vals, LaidOut(ends, vals),
         Position(ends, vals), takes = <<>>
  PROVE  \E j \in 0 .. Len(message.types) :
           types = Rest(message.types, j) /\ rpos = ends[j] /\ values = vals[j]
<1>1. PICK n \in Nat :
        /\ n = Len(message.fields) /\ n = Len(message.types)
        /\ \A i \in 1 .. n : message.types[i] \in Type /\ Agree(message.fields[i], message.types[i])
  BY MessageFacts
<1>2. PICK j \in 0 .. Len(message.types) :
        /\ types = Rest(message.types, j)
        /\ \/ j = 0 /\ takes = <<>> /\ rpos = 0 /\ values = <<>>
           \/ /\ j # 0
              /\ \E d : Reading(message.fields[j], message.types[j], d,
                                ends[j - 1], ends[j], vals[j - 1])
  BY DEF Position
<1>3. MessageAt(laid, Len(message.fields), ends, vals)
  BY DEF LaidOut
<1>4. CASE j = 0 /\ takes = <<>> /\ rpos = 0 /\ values = <<>>
  BY <1>2, <1>3, <1>4 DEF MessageAt
<1>5. CASE j # 0
  <2>1. PICK k \in 1 .. n : k = j
    BY <1>1, <1>2, <1>5
  <2>2. PICK field : field = message.fields[k]
    OBVIOUS
  <2>3. PICK type \in Type : type = message.types[k] /\ Agree(field, type)
    BY <1>1, <2>1, <2>2
  <2>4. PICK d : Reading(field, type, d, ends[k - 1], ends[k], vals[k - 1])
    BY <1>2, <1>5, <2>1, <2>2, <2>3
  <2>5. PICK base : base = vals[k - 1]
    OBVIOUS
  <2>6. base \in Seq(Seq(Byte))
    <3>1. k - 1 \in 0 .. n
      OBVIOUS
    <3> QED BY <1>1, <1>3, <2>5, <3>1, ValuesAreBytes
  <2>7. rpos = ends[k] /\ values = base \o field.pieces
    BY <2>3, <2>4, <2>5, <2>6, FieldRead
  <2>8. vals[k] = base \o field.pieces
    BY <1>1, <1>3, <2>2, <2>5 DEF MessageAt
  <2> QED BY <1>2, <2>1, <2>7, <2>8
<1> QED BY <1>2, <1>4, <1>5

-----------------------------------------------------------------------------
(* The steps. *)

LEMMA InitTrip ==
  ASSUME Init
  PROVE  TripInv
<1>1. message.fields \in Seq(Field) /\ Len(message.fields) \in Nat
  BY CodecAssumption, LenProperties DEF Init
<1> DEFINE zero == [i \in 0 .. 0 |-> 0]
           none == [i \in 0 .. 0 |-> <<>>]
<1>2. zero[0] = 0 /\ none[0] = <<>>
  OBVIOUS
<1> HIDE DEF zero, none
<1>3. MessageAt(laid, 0, zero, none)
  BY <1>2 DEF MessageAt
<1>4. Between(0, zero, none)
  <2>1. Rest(message.fields, 0) = message.fields
    BY <1>1, RestWhole
  <2>2. Len(<<>>) = 0
    BY EmptySeq
  <2> QED BY <1>2, <2>1, <2>2 DEF Between, Init
<1>5. WritingInv
  BY <1>1, <1>3, <1>4 DEF WritingInv
<1> QED BY <1>5 DEF Init, TripInv, RoundTrip, RefusedForCause, ReadToTheEnd

\* The writer's steps before publish.
LEMMA WriteTrip ==
  ASSUME Inv, TypesInv, TripInv, WriteField \/ WriteAlign \/ WriteRaw \/ WritePanics
  PROVE  TripInv'
<1>1. /\ UNCHANGED <<message, slot, readerVars>> /\ wstate = "writing"
      /\ wstate' = "writing" \/ wstate' = "panicked"
  BY DEF WriteField, WriteAlign, WriteRaw, WritePanics, Put, Calling
<1>2. WritingInv /\ message \in Message
  BY <1>1 DEF TripInv, TypesInv
<1>3. rstate = "none"
  BY <1>1 DEF TypesInv
<1>4. wstate' = "writing" => WritingInv'
  <2>1. CASE WriteField
    BY <1>2, <2>1, WriteFieldTrip
  <2>2. CASE WriteAlign
    <3>1. /\ calls # <<>> /\ Head(calls).op = "align"
          /\ Put(Zeros(Padding(pos, Head(calls).n)))
      BY <2>2 DEF WriteAlign, Calling
    <3>2. pos \in Nat /\ Head(calls).n \in {4, 8}
      BY <3>1, HeadCall, LenProperties DEF Inv, WriterInv, LayoutInv
    <3>3. PICK p \in Nat : p = Padding(pos, Head(calls).n)
      BY <3>2, PaddingBytes
    <3>4. PICK bytes \in Seq(Byte) : bytes = Zeros(p)
      BY <3>2, <3>3, PaddingBytes
    <3>5. Len(bytes) = p
      BY <3>4 DEF Zeros
    <3> QED BY <1>2, <3>1, <3>3, <3>4, <3>5, PutTrip
  <2>3. CASE WriteRaw
    <3>1. calls # <<>> /\ Head(calls).op = "raw" /\ Put(Head(calls).bytes)
      BY <2>3 DEF WriteRaw, Calling
    <3>2. Head(calls).bytes \in Seq(Byte)
      BY <3>1, HeadCall
    <3> QED BY <1>2, <3>1, <3>2, PutTrip
  <2>4. CASE WritePanics
    BY <2>4 DEF WritePanics
  <2> QED BY <2>1, <2>2, <2>3, <2>4
<1> QED BY <1>1, <1>3, <1>4
        DEF TripInv, readerVars, RoundTrip, RefusedForCause, ReadToTheEnd

LEMMA PublishTrip ==
  ASSUME Inv, TypesInv, TripInv, Publish
  PROVE  TripInv'
<1>1. /\ UNCHANGED <<message, laid, written, readerVars>>
      /\ wstate = "writing" /\ wstate' = "published" /\ calls = <<>> /\ fields = <<>>
  BY DEF Publish
<1>2. WritingInv /\ message \in Message /\ rstate = "none"
  BY <1>1 DEF TripInv, TypesInv
<1>3. PICK k, ends, vals :
        /\ k \in Nat /\ k <= Len(message.fields) /\ MessageAt(laid, k, ends, vals)
        /\ Between(k, ends, vals)
  BY <1>1, <1>2, FieldDone
<1>4. message.fields \in Seq(Field)
  BY <1>2, CodecAssumption
<1>5. k = Len(message.fields)
  BY <1>1, <1>3, <1>4, RestEmpty DEF Between
<1>6. LaidOut(ends, vals)'
  BY <1>1, <1>3, <1>5 DEF LaidOut, Between, MessageAt
<1> QED BY <1>1, <1>2, <1>6
        DEF TripInv, readerVars, RoundTrip, RefusedForCause, ReadToTheEnd

LEMMA DeliverTrip ==
  ASSUME Inv, TypesInv, TripInv, NEW missing \in Missing, Deliver(missing)
  PROVE  TripInv'
<1>1. /\ wstate = "published" /\ rstate = "none" /\ rstate' = "reading"
      /\ types' = message.types
      /\ UNCHANGED <<message, slot, writerVars, takes, rpos, length, values>>
  BY DEF Deliver
<1>2. takes = <<>> /\ rpos = 0 /\ values = <<>>
  BY <1>1 DEF TripInv
<1>3. PICK ends, vals : LaidOut(ends, vals)
  BY <1>1 DEF TripInv
<1>4. message.types \in Seq(Type) /\ Len(message.types) \in Nat
  BY CodecAssumption, LenProperties DEF TypesInv
<1>5. Position(ends, vals)'
  <2>1. Rest(message.types, 0) = message.types /\ 0 \in 0 .. Len(message.types)
    BY <1>4, RestWhole
  <2> QED BY <1>1, <1>2, <2>1 DEF Position
<1>6. Begins(laid, body)'
  <2>1. /\ body' \in Seq(Byte) /\ Len(body') <= Len(sent)
        /\ \A i \in 1 .. Len(body') : body'[i] = sent[i]
    BY DeliveredBody DEF TypesInv
  <2>2. Len(body') \in Nat /\ laid \in Seq(Byte) /\ Len(laid) \in Nat /\ slot \in Nat
    BY <2>1, LenProperties DEF Inv, WriterInv
  <2>3. PICK m \in Nat : m = Least(Len(laid), slot) /\ m <= Len(laid)
    BY <2>2 DEF Least
  <2>4. sent = SubSeq(laid, 0 + 1, 0 + m) /\ 0 + m <= Len(laid)
    BY <1>1, <2>3 DEF Inv, LayoutInv, BodyIsPrefix
  <2>5. Len(sent) = m /\ \A i \in 1 .. m : sent[i] = laid[i]
    <3>1. Len(sent) = m /\ \A i \in 1 .. m : sent[i] = laid[0 + i]
      BY <2>2, <2>4, PartOf
    <3> QED BY <3>1
  <2>6. ASSUME NEW i \in 1 .. Len(body') PROVE laid[i] = body'[i]
    <3>1. i \in 1 .. m
      BY <2>1, <2>2, <2>5
    <3> QED BY <2>1, <2>5, <3>1
  <2>7. Begins(laid, body')
    BY <2>1, <2>2, <2>3, <2>5, <2>6 DEF Begins
  <2> QED BY <1>1, <2>7 DEF writerVars
<1>7. LaidOut(ends, vals)'
  BY <1>1, <1>3 DEF LaidOut, MessageAt, writerVars
<1> QED BY <1>1, <1>5, <1>6, <1>7
        DEF TripInv, writerVars, RoundTrip, RefusedForCause, ReadToTheEnd

LEMMA ReadTrip ==
  ASSUME Inv, TypesInv, FieldsAgree, TripInv, Deserialize, takes # <<>>
  PROVE  TripInv'
<1>1. rstate = "reading"
  BY DEF Deserialize, ReadField, ReadAlign, ReadTake, ReadLength, ReadLengthZero, ReadNull,
         ReadPush, ReadFails, ReadDone, Taking
<1>2. message \in Message /\ wstate = "published" /\ laid \in Seq(Byte) /\ Begins(laid, body)
  BY <1>1 DEF Inv, WriterInv, TypesInv, TripInv
<1>3. PICK ends, vals : LaidOut(ends, vals) /\ Position(ends, vals)
  BY <1>1, <1>2 DEF TripInv
<1>4. PICK n \in Nat :
        /\ n = Len(message.fields) /\ n = Len(message.types)
        /\ \A i \in 1 .. n : message.types[i] \in Type /\ Agree(message.fields[i], message.types[i])
  BY <1>2, MessageFacts
<1>5. PICK j \in 0 .. Len(message.types) :
        /\ types = Rest(message.types, j) /\ j # 0
        /\ \E d : Reading(message.fields[j], message.types[j], d,
                          ends[j - 1], ends[j], vals[j - 1])
  BY <1>3 DEF Position
<1>6. PICK k \in 1 .. n : k = j
  BY <1>4, <1>5
<1>7. PICK field : field = message.fields[k]
  OBVIOUS
<1>8. PICK type \in Type : type = message.types[k] /\ Agree(field, type)
  BY <1>4, <1>6, <1>7
<1>9. PICK a, b, base : a = ends[k - 1] /\ b = ends[k] /\ base = vals[k - 1]
  OBVIOUS
<1>10. PICK d : Reading(field, type, d, a, b, base)
  BY <1>5, <1>6, <1>7, <1>8, <1>9
<1>11. base \in Seq(Seq(Byte))
  <2>1. k - 1 \in 0 .. n /\ MessageAt(laid, Len(message.fields), ends, vals)
    BY <1>3 DEF LaidOut
  <2> QED BY <1>2, <1>4, <1>9, <2>1, ValuesAreBytes
<1>12. ReadOn(field, type, a, b, base)
  BY <1>1, <1>2, <1>8, <1>10, <1>11, ReadOnField
<1>13. /\ UNCHANGED <<message, laid, written, wstate, types, body>>
  BY <1>12 DEF ReadOn, Kept, writerVars
<1>14. LaidOut(ends, vals)' /\ Begins(laid, body)'
  BY <1>2, <1>3, <1>13 DEF LaidOut, MessageAt, Begins
<1>15. CASE rstate' = "reading" /\ \E e : Reading(field, type, e, a, b, base)'
  <2>1. Position(ends, vals)'
    <3>1. PICK e : Reading(field, type, e, a, b, base)'
      BY <1>15
    <3>2. /\ message'.fields[j] = field /\ message'.types[j] = type
          /\ ends[j - 1] = a /\ ends[j] = b /\ vals[j - 1] = base
          /\ types' = Rest(message'.types, j) /\ j # 0 /\ j \in 0 .. Len(message'.types)
      BY <1>5, <1>6, <1>7, <1>8, <1>9, <1>13
    <3> QED BY <3>1, <3>2 DEF Position
  <2> QED BY <1>2, <1>13, <1>14, <1>15, <2>1
          DEF TripInv, RoundTrip, RefusedForCause, ReadToTheEnd
<1>16. CASE Failed /\ (body = laid => Head(takes).op = "push")
  BY <1>2, <1>13, <1>14, <1>16
     DEF Failed, TripInv, RoundTrip, RefusedForCause, ReadToTheEnd, ArrivedWhole
<1> QED BY <1>12, <1>15, <1>16 DEF ReadOn

LEMMA NextFieldTrip ==
  ASSUME Inv, TypesInv, FieldsAgree, TripInv, ReadField \/ ReadDone
  PROVE  TripInv'
<1>1. /\ rstate = "reading" /\ takes = <<>>
      /\ UNCHANGED <<message, slot, writerVars, body, rpos, values>>
  BY DEF ReadField, ReadDone
<1>2. message \in Message /\ wstate = "published" /\ Begins(laid, body)
  BY <1>1 DEF TypesInv, TripInv
<1>3. PICK ends, vals : LaidOut(ends, vals) /\ Position(ends, vals)
  BY <1>1, <1>2 DEF TripInv
<1>4. PICK n \in Nat :
        /\ n = Len(message.fields) /\ n = Len(message.types)
        /\ message.types \in Seq(Type)
        /\ \A i \in 1 .. n : message.types[i] \in Type /\ Agree(message.fields[i], message.types[i])
  BY <1>2, MessageFacts
<1>5. PICK j \in 0 .. n :
        types = Rest(message.types, j) /\ rpos = ends[j] /\ values = vals[j]
  BY <1>1, <1>2, <1>3, <1>4, FieldsRead
<1>6. j \in Nat /\ j <= Len(message.types)
  BY <1>4
<1>7. LaidOut(ends, vals)' /\ Begins(laid, body)'
  BY <1>1, <1>2, <1>3 DEF LaidOut, MessageAt, Begins, writerVars
<1>8. CASE ReadField
  <2>1. types # <<>> /\ takes' = Reads(Head(types)) /\ types' = Tail(types) /\ rstate' = "reading"
    BY <1>1, <1>8 DEF ReadField
  <2>2. /\ j + 1 \in 1 .. Len(message.types)
        /\ Head(types) = message.types[j + 1] /\ Tail(types) = Rest(message.types, j + 1)
    BY <1>4, <1>5, <1>6, <2>1, RestNext
  <2>3. PICK k \in 1 .. n : k = j + 1 /\ k - 1 = j /\ k # 0
    BY <1>4, <1>6, <2>2
  <2>4. PICK field : field = message.fields[k]
    OBVIOUS
  <2>5. PICK type \in Type : type = message.types[k] /\ Agree(field, type)
    BY <1>4, <2>4
  <2>6. FieldAt(laid, field, ends[k - 1], ends[k])
    BY <1>3, <1>4, <2>4 DEF LaidOut, MessageAt
  <2>7. Reading(field, type, 0, ends[k - 1], ends[k], vals[k - 1])'
    <3>1. laid' = laid /\ takes' = Reads(type) /\ rpos' = ends[k - 1] /\ values' = vals[k - 1]
      BY <1>1, <1>5, <2>1, <2>2, <2>3, <2>5 DEF writerVars
    <3> QED BY <2>5, <2>6, <3>1, FieldBegun
  <2>8. Position(ends, vals)'
    <3>1. /\ message'.fields[k] = field /\ message'.types[k] = type
          /\ types' = Rest(message'.types, k) /\ k # 0 /\ k \in 0 .. Len(message'.types)
      BY <1>1, <1>4, <2>1, <2>2, <2>3, <2>4, <2>5
    <3> QED BY <2>7, <3>1 DEF Position
  <2> QED BY <1>1, <1>2, <1>7, <2>1, <2>8
          DEF TripInv, writerVars, RoundTrip, RefusedForCause, ReadToTheEnd
<1>9. CASE ReadDone
  <2>1. types = <<>> /\ rstate' = "ok"
    BY <1>9 DEF ReadDone
  <2>2. j = Len(message.types)
    BY <1>4, <1>5, <1>6, <2>1, RestEmpty
  <2>3. values = written /\ rpos = Len(laid)
    BY <1>3, <1>4, <1>5, <2>2 DEF LaidOut
  <2> QED BY <1>1, <1>2, <1>7, <2>1, <2>3
          DEF TripInv, writerVars, RoundTrip, RefusedForCause, ReadToTheEnd, ArrivedWhole
<1> QED BY <1>8, <1>9

LEMMA NextTrip ==
  ASSUME Inv, TypesInv, FieldsAgree, TripInv, [Next]_vars
  PROVE  TripInv'
<1>1. CASE Serialize
  BY <1>1, WriteTrip, PublishTrip DEF Serialize
<1>2. ASSUME NEW missing \in Missing, Deliver(missing) PROVE TripInv'
  BY <1>2, DeliverTrip
<1>3. CASE Deserialize
  <2>1. CASE takes # <<>>
    BY <1>3, <2>1, ReadTrip
  <2>2. CASE takes = <<>>
    <3>1. ReadField \/ ReadDone
      BY <1>3, <2>2 DEF Deserialize, ReadAlign, ReadTake, ReadLength, ReadLengthZero, ReadNull,
                        ReadPush, ReadFails, Taking
    <3> QED BY <3>1, NextFieldTrip
  <2> QED BY <2>1, <2>2
<1>4. CASE UNCHANGED vars
  <2>1. /\ UNCHANGED <<message, fields, calls, laid, written, wstate>>
        /\ UNCHANGED <<types, takes, body, rpos, length, rstate, values>>
    BY <1>4 DEF vars, readerVars, writerVars
  <2>2. ASSUME WritingInv PROVE WritingInv'
    <3>1. PICK k, ends, vals :
            /\ k \in Nat /\ k <= Len(message.fields) /\ MessageAt(laid, k, ends, vals)
            /\ Between(k, ends, vals) \/ Inside(k, ends, vals)
      BY <2>2 DEF WritingInv
    <3>2. MessageAt(laid, k, ends, vals)'
      BY <2>1, <3>1 DEF MessageAt
    <3>3. Between(k, ends, vals) => Between(k, ends, vals)'
      BY <2>1 DEF Between
    <3>4. Inside(k, ends, vals) => Inside(k, ends, vals)'
      BY <2>1, Zenon DEF Inside
    <3>5. k \in Nat /\ k <= Len(message'.fields)
      BY <2>1, <3>1
    <3> QED BY <3>1, <3>2, <3>3, <3>4, <3>5 DEF WritingInv
  <2>3. ASSUME NEW ends, NEW vals
        PROVE  /\ LaidOut(ends, vals) => LaidOut(ends, vals)'
               /\ Position(ends, vals) => Position(ends, vals)'
    <3>1. LaidOut(ends, vals) => LaidOut(ends, vals)'
      BY <2>1 DEF LaidOut, MessageAt
    <3>2. ASSUME NEW field, NEW type, NEW d, NEW a, NEW b, NEW base,
                 Reading(field, type, d, a, b, base)
          PROVE  Reading(field, type, d, a, b, base)'
      <4>1. Stage(field, d, a, base)'
        BY <2>1, <3>2, Zenon DEF Reading, Stage, ScalarStage, F64sStage, StringStage, ZeroStage
      <4>2. FieldAt(laid, field, a, b)'
        BY <2>1, <3>2 DEF Reading
      <4>3. takes' = Rest(Reads(type), d)
        BY <2>1, <3>2 DEF Reading
      <4> QED BY <3>2, <4>1, <4>2, <4>3 DEF Reading
    <3>3. ASSUME Position(ends, vals) PROVE Position(ends, vals)'
      <4>1. PICK j \in 0 .. Len(message.types) :
              /\ types = Rest(message.types, j)
              /\ \/ j = 0 /\ takes = <<>> /\ rpos = 0 /\ values = <<>>
                 \/ /\ j # 0
                    /\ \E d : Reading(message.fields[j], message.types[j], d,
                                      ends[j - 1], ends[j], vals[j - 1])
        BY <3>3 DEF Position
      <4>2. types' = Rest(message'.types, j) /\ j \in 0 .. Len(message'.types)
        BY <2>1, <4>1
      <4>3. CASE j = 0 /\ takes = <<>> /\ rpos = 0 /\ values = <<>>
        <5>1. j = 0 /\ takes' = <<>> /\ rpos' = 0 /\ values' = <<>>
          BY <2>1, <4>3
        <5> QED BY <4>2, <5>1 DEF Position
      <4>4. CASE j # 0
        <5>1. PICK d : Reading(message.fields[j], message.types[j], d,
                               ends[j - 1], ends[j], vals[j - 1])
          BY <4>1, <4>4
        <5>2. PICK field, type : field = message.fields[j] /\ type = message.types[j]
          OBVIOUS
        <5>3. Reading(field, type, d, ends[j - 1], ends[j], vals[j - 1])'
          BY <5>1, <5>2, <3>2
        <5>4. field = message'.fields[j] /\ type = message'.types[j]
          BY <2>1, <5>2
        <5> QED BY <4>2, <4>4, <5>3, <5>4 DEF Position
      <4> QED BY <4>1, <4>3, <4>4
    <3> QED BY <3>1, <3>3
  <2>4. wstate' = "published" =>
          \E ends, vals : LaidOut(ends, vals)' /\ (rstate' = "reading" => Position(ends, vals)')
    BY <2>1, <2>3 DEF TripInv
  <2> QED BY <2>1, <2>2, <2>4
          DEF TripInv, RoundTrip, RefusedForCause, ReadToTheEnd, ArrivedWhole
<1> QED BY <1>1, <1>2, <1>3, <1>4 DEF Next

LEMMA FieldsStay ==
  ASSUME [Next]_vars
  PROVE  FieldsAgree' <=> FieldsAgree
<1>1. message' = message
  BY DEF Next, Serialize, WriteField, WriteAlign, WriteRaw, WritePanics, Put, Publish, Deliver,
         Deserialize, ReadField, ReadAlign, ReadTake, ReadLength, ReadLengthZero, ReadNull,
         ReadPush, ReadFails, ReadDone, Got, vars
<1> QED BY <1>1 DEF FieldsAgree

LEMMA SpecTrip == Spec => [](FieldsAgree => TripInv)
<1> DEFINE J == FieldsAgree => TripInv
<1>1. Init => Inv /\ TypesInv /\ J
  BY InitInv, InitTypes, InitTrip
<1>2. Inv /\ TypesInv /\ J /\ [Next]_vars => Inv' /\ TypesInv' /\ J'
  BY NextInv, NextTypes, NextTrip, FieldsStay
<1> HIDE DEF J
<1>3. Spec => []J
  BY <1>1, <1>2, PTL DEF Spec
<1> QED BY <1>3 DEF J

\* RoundTrip, for all messages whose fields and types agree, all slots and
\* whatever is lost on the way: what deserialize accepts is what was written.
THEOREM OkReturnsTheWritten == Spec => [](FieldsAgree => RoundTrip)
<1>1. (FieldsAgree => TripInv) => (FieldsAgree => RoundTrip)
  BY DEF TripInv
<1> QED BY <1>1, SpecTrip, PTL

\* RefusedForCause, likewise.
THEOREM RefusesForCause == Spec => [](FieldsAgree => RefusedForCause)
<1>1. (FieldsAgree => TripInv) => (FieldsAgree => RefusedForCause)
  BY DEF TripInv
<1> QED BY <1>1, SpecTrip, PTL

\* ReadToTheEnd, likewise.
THEOREM ReadsToTheEnd == Spec => [](FieldsAgree => ReadToTheEnd)
<1>1. (FieldsAgree => TripInv) => (FieldsAgree => ReadToTheEnd)
  BY DEF TripInv
<1> QED BY <1>1, SpecTrip, PTL

=============================================================================
