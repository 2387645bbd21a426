---------------------------- MODULE FramingProofs ----------------------------
(***************************************************************************)
(* Framing implements FrameChannel, for every set of payloads, every       *)
(* buffer and whoever's futures are given up.                              *)
(***************************************************************************)
EXTENDS FramingInvariant, SequenceTheorems, TLAPS

-----------------------------------------------------------------------------
(* Bytes and sequences. *)

\* The two bytes of a length are read as the length.
LEMMA LengthsRead ==
  ASSUME NEW n \in Nat, n < Base * Base
  PROVE  /\ LengthBytes(n) \in Seq(Byte)
         /\ Len(LengthBytes(n)) = 2
         /\ LengthOf(LengthBytes(n)) = n
<1> DEFINE q == n \div Base
           r == n % Base
<1>1. Base \in Nat /\ Base > 1
  BY FramingAssumption
<1>2. q \in Nat /\ r \in 0 .. Base - 1 /\ n = Base * q + r
  BY <1>1
<1>3. q < Base
  <2>1. SUFFICES ASSUME q >= Base PROVE FALSE
    BY <1>1, <1>2
  <2>2. Base * q >= Base * Base
    BY <1>1, <1>2, <2>1
  <2> HIDE DEF q, r
  <2>3. Base * q \in Nat /\ Base * Base \in Nat
    BY <1>1, <1>2
  <2> QED BY <1>1, <1>2, <2>2, <2>3
<1>4. LengthBytes(n) = <<r, q % Base>>
  BY DEF LengthBytes
<1> HIDE DEF q, r
<1>5. q % Base = q
  BY <1>1, <1>2, <1>3
<1>6. LengthBytes(n) = <<r, q>> /\ r \in Byte /\ q \in Byte
  BY <1>1, <1>2, <1>3, <1>4, <1>5 DEF Byte
<1>7. LengthBytes(n) \in Seq(Byte) /\ Len(LengthBytes(n)) = 2
  BY <1>6
<1>8. LengthOf(LengthBytes(n)) = r + Base * q
  BY <1>6 DEF LengthOf
<1> QED BY <1>1, <1>2, <1>7, <1>8

\* A payload, its length and its bytes on the connection.
LEMMA WireOf ==
  ASSUME NEW payload \in Payload
  PROVE  /\ payload \in Seq(Byte)
         /\ Len(payload) \in Nat
         /\ LengthBytes(Len(payload)) \in Seq(Byte)
         /\ Len(LengthBytes(Len(payload))) = 2
         /\ LengthOf(<<Wire(payload, 1), Wire(payload, 2)>>) = Len(payload)
<1>1. payload \in Seq(Byte) /\ Len(payload) \in Nat /\ Len(payload) < Base * Base
  BY FramingAssumption, LenProperties
<1>2. /\ LengthBytes(Len(payload)) \in Seq(Byte)
      /\ Len(LengthBytes(Len(payload))) = 2
      /\ LengthOf(LengthBytes(Len(payload))) = Len(payload)
  BY <1>1, LengthsRead
<1>3. /\ Wire(payload, 1) = LengthBytes(Len(payload))[1]
      /\ Wire(payload, 2) = LengthBytes(Len(payload))[2]
  BY DEF Wire
<1>4. LengthOf(<<Wire(payload, 1), Wire(payload, 2)>>) = LengthOf(LengthBytes(Len(payload)))
  BY <1>3 DEF LengthOf
<1> QED BY <1>1, <1>2, <1>4

\* k elements out of the middle of a sequence.
LEMMA Middle ==
  ASSUME NEW S, NEW s \in Seq(S), NEW a \in Nat, NEW k \in Nat, a + k <= Len(s)
  PROVE  /\ SubSeq(s, a + 1, a + k) \in Seq(S)
         /\ Len(SubSeq(s, a + 1, a + k)) = k
         /\ \A i \in 1 .. k : SubSeq(s, a + 1, a + k)[i] = s[a + i]
<1>1. \A i \in a + 1 .. a + k : s[i] \in S
  BY ElementOfSeq, LenProperties
<1>2. /\ SubSeq(s, a + 1, a + k) \in Seq(S)
      /\ Len(SubSeq(s, a + 1, a + k)) = IF a + 1 <= a + k THEN (a + k) - (a + 1) + 1 ELSE 0
      /\ \A i \in 1 .. (a + k) - (a + 1) + 1 :
           SubSeq(s, a + 1, a + k)[i] = s[(a + 1) + i - 1]
  BY <1>1, SubSeqProperties
<1> QED BY <1>2

\* The first k elements of t behind s, and what is then left of t.
LEMMA Passed ==
  ASSUME NEW S, NEW s \in Seq(S), NEW t \in Seq(S), NEW k \in 0 .. Len(t),
         NEW l, l = s \o SubSeq(t, 1, k), NEW left, left = SubSeq(t, k + 1, Len(t))
  PROVE  /\ l \in Seq(S) /\ Len(l) = Len(s) + k
         /\ \A i \in 1 .. Len(s) : l[i] = s[i]
         /\ \A i \in 1 .. k : l[Len(s) + i] = t[i]
         /\ left \in Seq(S) /\ Len(left) = Len(t) - k
         /\ \A i \in 1 .. Len(t) - k : left[i] = t[k + i]
<1>1. Len(s) \in Nat /\ Len(t) \in Nat
  BY LenProperties
<1>2. /\ SubSeq(t, 1, k) \in Seq(S)
      /\ Len(SubSeq(t, 1, k)) = k
      /\ \A i \in 1 .. k : SubSeq(t, 1, k)[i] = t[i]
  <2>1. /\ SubSeq(t, 0 + 1, 0 + k) \in Seq(S)
        /\ Len(SubSeq(t, 0 + 1, 0 + k)) = k
        /\ \A i \in 1 .. k : SubSeq(t, 0 + 1, 0 + k)[i] = t[0 + i]
    BY <1>1, Middle
  <2> QED BY <2>1
<1>3. /\ s \o SubSeq(t, 1, k) \in Seq(S)
      /\ Len(s \o SubSeq(t, 1, k)) = Len(s) + k
      /\ \A i \in 1 .. Len(s) + k :
           (s \o SubSeq(t, 1, k))[i] = IF i <= Len(s) THEN s[i] ELSE SubSeq(t, 1, k)[i - Len(s)]
  BY <1>2, ConcatProperties
<1>4. \A i \in 1 .. k : (s \o SubSeq(t, 1, k))[Len(s) + i] = t[i]
  <2> TAKE i \in 1 .. k
  <2>1. Len(s) + i \in 1 .. Len(s) + k /\ ~(Len(s) + i <= Len(s)) /\ (Len(s) + i) - Len(s) = i
    BY <1>1
  <2> QED BY <1>2, <1>3, <2>1
<1>5. \A i \in 1 .. Len(s) : i \in 1 .. Len(s) + k /\ i <= Len(s)
  BY <1>1
<1>6. /\ SubSeq(t, k + 1, Len(t)) \in Seq(S)
      /\ Len(SubSeq(t, k + 1, Len(t))) = Len(t) - k
      /\ \A i \in 1 .. Len(t) - k : SubSeq(t, k + 1, Len(t))[i] = t[k + i]
  <2> DEFINE d == Len(t) - k
  <2>1. k \in Nat /\ d \in Nat /\ k + d = Len(t)
    BY <1>1
  <2> HIDE DEF d
  <2>2. /\ SubSeq(t, k + 1, k + d) \in Seq(S)
        /\ Len(SubSeq(t, k + 1, k + d)) = d
        /\ \A i \in 1 .. d : SubSeq(t, k + 1, k + d)[i] = t[k + i]
    BY <1>1, <2>1, Middle
  <2>3. d = Len(t) - k
    BY DEF d
  <2> QED BY <2>1, <2>2, <2>3
<1> QED BY <1>3, <1>4, <1>5, <1>6

-----------------------------------------------------------------------------
(* Types. *)

TypeInv == FramingTypeOK /\ FuturesFit

\* Lengths are numbers, and a list that is not empty has some.
LEMMA Lengths ==
  ASSUME FramingTypeOK
  PROVE  /\ Len(log) \in Nat /\ Len(rest) \in Nat /\ Len(got) \in Nat /\ Len(frame) \in Nat
         /\ Len(sent) \in Nat /\ Len(ends) = Len(sent) /\ Len(received) \in Nat
         /\ rest # <<>> => Len(rest) >= 1
         /\ frame # <<>> => Len(frame) >= 1
         /\ out \in Nat /\ taken \in Nat /\ taken <= out /\ out <= Len(log)
         /\ need \in Nat
         /\ \A n \in 0 .. Len(sent) : EndOf(n) \in Nat
<1>1. /\ log \in Seq(Byte) /\ rest \in Seq(Byte) /\ got \in Seq(Byte) /\ frame \in Seq(Byte)
      /\ sent \in Seq(Payload) /\ ends \in Seq(Nat) /\ Len(ends) = Len(sent)
      /\ received \in Seq(Seq(Byte)) /\ need \in {0, 2} \cup 1 .. BufLen
      /\ out \in 0 .. Len(log) /\ taken \in 0 .. out
  BY DEF FramingTypeOK
<1>2. /\ Len(log) \in Nat /\ Len(rest) \in Nat /\ Len(got) \in Nat /\ Len(frame) \in Nat
      /\ Len(sent) \in Nat /\ Len(received) \in Nat
  BY <1>1, LenProperties
<1>3. (rest # <<>> => Len(rest) >= 1) /\ (frame # <<>> => Len(frame) >= 1)
  BY <1>1, EmptySeq
<1>4. need \in Nat
  BY <1>1, FramingAssumption
<1>5. \A n \in 0 .. Len(sent) : EndOf(n) \in Nat
  <2> TAKE n \in 0 .. Len(sent)
  <2>1. CASE n = 0
    BY <2>1 DEF EndOf
  <2>2. CASE n # 0
    <3>1. n \in 1 .. Len(ends)
      BY <1>1, <1>2, <2>2
    <3> QED BY <1>1, <2>2, <3>1, ElementOfSeq DEF EndOf
  <2> QED BY <2>1, <2>2
<1> QED BY <1>1, <1>2, <1>3, <1>4, <1>5

\* What the transport takes is behind what it has taken; the rest is left.
LEMMA Taken ==
  ASSUME FramingTypeOK, NEW k \in 1 .. Len(rest), Takes(k)
  PROVE  /\ log' \in Seq(Byte)
         /\ Len(log') = Len(log) + k
         /\ \A i \in 1 .. Len(log) : log'[i] = log[i]
         /\ \A i \in 1 .. k : log'[Len(log) + i] = rest[i]
         /\ SubSeq(rest, k + 1, Len(rest)) \in Seq(Byte)
         /\ Len(SubSeq(rest, k + 1, Len(rest))) = Len(rest) - k
         /\ \A i \in 1 .. Len(rest) - k : SubSeq(rest, k + 1, Len(rest))[i] = rest[k + i]
<1>1. log \in Seq(Byte) /\ rest \in Seq(Byte) /\ k \in 0 .. Len(rest)
  BY Lengths DEF FramingTypeOK
<1>2. PICK l : l = log' /\ l = log \o SubSeq(rest, 1, k)
  BY DEF Takes
<1>3. PICK left : left = SubSeq(rest, k + 1, Len(rest))
  OBVIOUS
<1>4. /\ l \in Seq(Byte) /\ Len(l) = Len(log) + k
      /\ \A i \in 1 .. Len(log) : l[i] = log[i]
      /\ \A i \in 1 .. k : l[Len(log) + i] = rest[i]
      /\ left \in Seq(Byte) /\ Len(left) = Len(rest) - k
      /\ \A i \in 1 .. Len(rest) - k : left[i] = rest[k + i]
  BY <1>1, <1>2, <1>3, Passed
<1> QED BY <1>2, <1>3, <1>4

\* What the transport gives is what it has been given.
LEMMA Given ==
  ASSUME FramingTypeOK, NEW k \in Nat, taken + k <= out
  PROVE  /\ Arrived(k) \in Seq(Byte)
         /\ Len(Arrived(k)) = k
         /\ \A i \in 1 .. k : Arrived(k)[i] = log[taken + i]
         /\ got \o Arrived(k) \in Seq(Byte)
         /\ Len(got \o Arrived(k)) = Len(got) + k
         /\ \A i \in 1 .. Len(got) : (got \o Arrived(k))[i] = got[i]
         /\ \A i \in 1 .. k : (got \o Arrived(k))[Len(got) + i] = log[taken + i]
<1>1. /\ log \in Seq(Byte) /\ got \in Seq(Byte)
      /\ taken \in Nat /\ taken + k <= Len(log) /\ Len(got) \in Nat
  BY Lengths DEF FramingTypeOK
<1>2. /\ Arrived(k) \in Seq(Byte)
      /\ Len(Arrived(k)) = k
      /\ \A i \in 1 .. k : Arrived(k)[i] = log[taken + i]
  BY <1>1, Middle DEF Arrived
<1>3. /\ got \o Arrived(k) \in Seq(Byte)
      /\ Len(got \o Arrived(k)) = Len(got) + k
      /\ \A i \in 1 .. Len(got) + k :
           (got \o Arrived(k))[i] = IF i <= Len(got) THEN got[i] ELSE Arrived(k)[i - Len(got)]
  <2> DEFINE given == Arrived(k)
  <2>1. given \in Seq(Byte) /\ Len(given) = k /\ got \in Seq(Byte)
    BY <1>1, <1>2
  <2> HIDE DEF given
  <2>2. /\ got \o given \in Seq(Byte)
        /\ Len(got \o given) = Len(got) + Len(given)
        /\ \A i \in 1 .. Len(got) + Len(given) :
             (got \o given)[i] = IF i <= Len(got) THEN got[i] ELSE given[i - Len(got)]
    BY <2>1, ConcatProperties
  <2> QED BY <2>1, <2>2 DEF given
<1>4. \A i \in 1 .. k : (got \o Arrived(k))[Len(got) + i] = log[taken + i]
  <2> TAKE i \in 1 .. k
  <2>1. /\ Len(got) + i \in 1 .. Len(got) + k
        /\ ~(Len(got) + i <= Len(got)) /\ (Len(got) + i) - Len(got) = i
    BY <1>1
  <2> QED BY <1>2, <1>3, <2>1
<1>5. \A i \in 1 .. Len(got) : i \in 1 .. Len(got) + k /\ i <= Len(got)
  BY <1>1
<1> QED BY <1>2, <1>3, <1>4, <1>5

\* What TypeInv says of the reader, and of what the reader leaves alone.
ReaderTypes ==
  /\ taken \in 0 .. out
  /\ rpc \in {"idle", "length", "payload"}
  /\ need \in {0, 2} \cup 1 .. BufLen
  /\ got \in Seq(Byte) /\ Len(got) <= need
  /\ received \in Seq(Seq(Byte))
  /\ IF rpc = "idle" THEN got = <<>> ELSE Len(got) < need
  /\ rpc = "length" => need = 2

WriterTypes ==
  /\ log \in Seq(Byte)
  /\ out \in 0 .. Len(log)
  /\ wpc \in {"idle", "length", "payload", "flush"}
  /\ frame \in Seq(Byte) /\ rest \in Seq(Byte)
  /\ sent \in Seq(Payload) /\ ends \in Seq(Nat) /\ Len(ends) = Len(sent)
  /\ flushed \in 0 .. Len(sent)
  /\ Begun => frame \in Payload /\ rest # <<>>
  /\ wpc = "payload" => frame # <<>>

LEMMA TypeParts ==
  TypeInv <=> WriterTypes /\ ReaderTypes /\ link \in {"up", "closed", "reset"} /\ torn \subseteq Nat
BY DEF TypeInv, FramingTypeOK, FuturesFit, WriterTypes, ReaderTypes

\* The writer's steps.
LEMMA WriterTypesKept ==
  ASSUME TypeInv,
         \/ \E payload \in Payload : WriteFramed(payload)
         \/ WritePart \/ WriteLength \/ WritePayload \/ Flush \/ WriteFails \/ GiveUpWrite
  PROVE  TypeInv'
<1> USE DEF streamVars, writerVars, readerVars, Begun
<1>1. WriterTypes /\ ReaderTypes /\ link \in {"up", "closed", "reset"} /\ torn \subseteq Nat
  BY TypeParts
<1>2. FramingTypeOK
  BY DEF TypeInv
<1>3. SUFFICES /\ WriterTypes' /\ taken' \in 0 .. out'
               /\ UNCHANGED <<rpc, need, got, received, link>> /\ torn' \subseteq Nat
  BY <1>1 DEF TypeInv, FramingTypeOK, FuturesFit, WriterTypes, ReaderTypes
<1>4. ASSUME NEW payload \in Payload, WriteFramed(payload)
      PROVE  WriterTypes' /\ taken' \in 0 .. out'
               /\ UNCHANGED <<rpc, need, got, received, link>> /\ torn' \subseteq Nat
  <2>1. LengthBytes(Len(payload)) \in Seq(Byte) /\ Len(LengthBytes(Len(payload))) = 2
        /\ payload \in Seq(Byte)
    BY WireOf
  <2>2. LengthBytes(Len(payload)) # <<>>
    BY DEF LengthBytes
  <2> QED BY <1>1, <1>4, <2>1, <2>2 DEF WriteFramed, WriterTypes, ReaderTypes
<1>5. ASSUME WritePart
      PROVE  WriterTypes' /\ taken' \in 0 .. out'
               /\ UNCHANGED <<rpc, need, got, received, link>> /\ torn' \subseteq Nat
  <2>1. PICK k \in 1 .. Len(rest) - 1 : Takes(k) /\ rest' = SubSeq(rest, k + 1, Len(rest))
    BY <1>5 DEF WritePart
  <2>2. k \in 1 .. Len(rest) /\ Len(rest) \in Nat /\ Len(log) \in Nat /\ k \in Nat
    BY <1>2, Lengths
  <2>3. /\ log' \in Seq(Byte) /\ Len(log') = Len(log) + k
        /\ rest' \in Seq(Byte) /\ Len(rest') = Len(rest) - k
    BY <1>2, <2>1, <2>2, Taken
  <2>4. rest' # <<>>
    <3>1. Len(rest') >= 1
      BY <2>2, <2>3
    <3> QED BY <3>1, EmptySeq
  <2>5. out \in 0 .. Len(log')
    BY <1>1, <2>2, <2>3 DEF WriterTypes
  <2> QED BY <1>1, <1>5, <2>1, <2>3, <2>4, <2>5 DEF WritePart, Takes, WriterTypes, ReaderTypes
<1>6. ASSUME TakesLast, Begun
      PROVE  WriterTypes' /\ taken' \in 0 .. out'
               /\ UNCHANGED <<rpc, need, got, received, link>> /\ torn' \subseteq Nat
  <2>1. Len(rest) \in 1 .. Len(rest) /\ Len(rest) \in Nat /\ Len(log) \in Nat /\ frame \in Payload
    BY <1>1, <1>2, <1>6, Lengths DEF WriterTypes
  <2>2. log' \in Seq(Byte) /\ Len(log') = Len(log) + Len(rest)
    BY <1>2, <1>6, <2>1, Taken DEF TakesLast
  <2>3. out \in 0 .. Len(log')
    BY <1>1, <2>1, <2>2 DEF WriterTypes
  <2>4. Len(log) + Len(rest) \in Nat
    BY <2>1
  <2>5. /\ sent' \in Seq(Payload) /\ Len(sent') = Len(sent) + 1
        /\ ends' \in Seq(Nat) /\ Len(ends') = Len(ends) + 1
    BY <1>1, <1>6, <2>1, <2>4, AppendProperties DEF TakesLast, WriterTypes
  <2>6. flushed \in 0 .. Len(sent')
    BY <1>1, <2>5, LenProperties DEF WriterTypes
  <2>7. /\ wpc' = "flush" /\ rest' = <<>> /\ rest' \in Seq(Byte)
        /\ UNCHANGED <<out, taken, link, rpc, need, got, frame, received, torn, flushed>>
    BY <1>6 DEF TakesLast, Takes
  <2> QED BY <1>1, <2>2, <2>3, <2>5, <2>6, <2>7 DEF WriterTypes, ReaderTypes
<1>7. ASSUME WriteLength, frame # <<>>
      PROVE  WriterTypes' /\ taken' \in 0 .. out'
               /\ UNCHANGED <<rpc, need, got, received, link>> /\ torn' \subseteq Nat
  <2>1. Len(rest) \in 1 .. Len(rest) /\ Len(rest) \in Nat /\ Len(log) \in Nat /\ frame \in Payload
    BY <1>1, <1>2, <1>7, Lengths DEF WriterTypes, WriteLength
  <2>2. log' \in Seq(Byte) /\ Len(log') = Len(log) + Len(rest)
    BY <1>2, <1>7, <2>1, Taken DEF WriteLength
  <2>3. out \in 0 .. Len(log')
    BY <1>1, <2>1, <2>2 DEF WriterTypes
  <2> QED BY <1>1, <1>7, <2>1, <2>2, <2>3 DEF WriteLength, Takes, WriterTypes, ReaderTypes
<1>8. ASSUME WriteReturns, torn' \subseteq Nat, flushed' \in 0 .. Len(sent)
      PROVE  WriterTypes' /\ taken' \in 0 .. out'
               /\ UNCHANGED <<rpc, need, got, received, link>> /\ torn' \subseteq Nat
  BY <1>1, <1>8 DEF WriteReturns, WriterTypes, ReaderTypes
<1>9. CASE WriteLength \/ WritePayload
  BY <1>6, <1>7, <1>9 DEF WriteLength, WritePayload
<1>10. CASE Flush \/ WriteFails \/ GiveUpWrite
  <2>1. Len(sent) \in Nat /\ Len(sent) \in 0 .. Len(sent)
    BY <1>2, Lengths
  <2> QED BY <1>1, <1>8, <1>10, <2>1 DEF Flush, WriteFails, GiveUpWrite, WriterTypes
<1> QED BY <1>4, <1>5, <1>9, <1>10

\* The reader's steps, and those of the transport.
LEMMA ReaderTypesKept ==
  ASSUME TypeInv, ReadFramed \/ Reads \/ GiveUpRead \/ Transmit \/ LinkEnds
  PROVE  TypeInv'
<1> USE DEF streamVars, writerVars, readerVars
<1>1. WriterTypes /\ ReaderTypes /\ link \in {"up", "closed", "reset"} /\ torn \subseteq Nat
  BY TypeParts
<1>2. FramingTypeOK
  BY DEF TypeInv
<1>3. /\ Len(got) \in Nat /\ Len(received) \in Nat /\ need \in Nat /\ Len(log) \in Nat
      /\ out \in Nat /\ taken \in Nat /\ BufLen \in Nat
  BY <1>2, Lengths, FramingAssumption
<1> DEFINE Rest == UNCHANGED <<log, writerVars, sent, ends, flushed>>
<1>4. SUFFICES /\ ReaderTypes' /\ Rest /\ out' \in 0 .. Len(log)
               /\ link' \in {"up", "closed", "reset"} /\ torn' \subseteq Nat
  BY <1>1 DEF TypeInv, FramingTypeOK, FuturesFit, WriterTypes, ReaderTypes, Begun
<1>5. CASE ReadFramed
  BY <1>1, <1>3, <1>5, EmptySeq DEF ReadFramed, ReaderTypes, WriterTypes
<1>6. ASSUME NEW k \in Nat, Gives(k)
      PROVE  /\ taken' \in 0 .. out' /\ Rest /\ out' \in 0 .. Len(log) /\ link' = link
             /\ got \o Arrived(k) \in Seq(Byte) /\ Len(got \o Arrived(k)) = Len(got) + k
  <2>1. taken + k <= out
    BY <1>6 DEF Gives
  <2> QED BY <1>1, <1>2, <1>3, <1>6, <2>1, Given DEF Gives, WriterTypes
<1>7. CASE ReadPart
  <2>1. PICK k \in 1 .. need - Len(got) - 1 : Gives(k) /\ got' = got \o Arrived(k)
    BY <1>7 DEF ReadPart
  <2>2. k \in Nat /\ Len(got) + k < need
    BY <1>3, <2>1
  <2>3. UNCHANGED <<rpc, need, received, torn>> /\ rpc # "idle"
    BY <1>7 DEF ReadPart
  <2>4. /\ taken' \in 0 .. out' /\ Rest /\ out' \in 0 .. Len(log) /\ link' = link
        /\ got' \in Seq(Byte) /\ Len(got') = Len(got) + k
    BY <1>6, <2>1, <2>2
  <2> QED BY <1>1, <1>3, <2>2, <2>3, <2>4 DEF ReaderTypes
<1>8. ASSUME GivesLast, rpc # "idle"
      PROVE  /\ taken' \in 0 .. out' /\ Rest /\ out' \in 0 .. Len(log) /\ link' = link
             /\ Whole \in Seq(Byte)
  <2>1. need - Len(got) \in Nat
    BY <1>1, <1>3, <1>8 DEF ReaderTypes
  <2> QED BY <1>6, <1>8, <2>1 DEF GivesLast, Whole
<1>9. CASE ReadLength
  <2>1. rpc # "idle" /\ GivesLast /\ LengthOf(Whole) \in 1 .. BufLen
        /\ rpc' = "payload" /\ need' = LengthOf(Whole) /\ got' = <<>> /\ UNCHANGED <<received, torn>>
    BY <1>9 DEF ReadLength
  <2>2. got' \in Seq(Byte) /\ Len(got') = 0
    BY <2>1, EmptySeq
  <2> QED BY <1>1, <1>3, <1>8, <2>1, <2>2 DEF ReaderTypes
<1>10. ASSUME ReadReturns, taken' \in 0 .. out', received' \in Seq(Seq(Byte))
       PROVE  ReaderTypes'
  <2>1. got' \in Seq(Byte) /\ got' = <<>> /\ Len(got') = 0 /\ need' = 0 /\ rpc' = "idle"
    BY <1>10, EmptySeq DEF ReadReturns
  <2> QED BY <1>10, <2>1 DEF ReaderTypes
<1>11. CASE ReadEmpty \/ ReadPayload
  <2>1. rpc # "idle" /\ GivesLast /\ ReadReturns /\ torn' = torn
    BY <1>11 DEF ReadEmpty, ReadPayload
  <2>2. received' \in Seq(Seq(Byte))
    <3>1. received' = Append(received, Whole) \/ received' = Append(received, <<>>)
      BY <1>11 DEF ReadEmpty, ReadPayload
    <3>2. Whole \in Seq(Byte) /\ <<>> \in Seq(Byte)
      BY <1>8, <2>1, EmptySeq
    <3> DEFINE S == Seq(Byte)
    <3>3. received \in Seq(S)
      BY <1>1 DEF ReaderTypes
    <3> HIDE DEF S
    <3>4. \A payload \in S : Append(received, payload) \in Seq(S)
      BY <3>3, AppendProperties
    <3> QED BY <3>1, <3>2, <3>4 DEF S
  <2> QED BY <1>1, <1>8, <1>10, <2>1, <2>2
<1>12. CASE ReadTooLong
  <2>1. rpc # "idle" /\ GivesLast /\ ReadReturns /\ received' = received
        /\ torn' = torn \cup {Len(received)}
    BY <1>12 DEF ReadTooLong
  <2> QED BY <1>1, <1>3, <1>8, <1>10, <2>1 DEF ReaderTypes
<1>13. CASE ReadFails \/ GiveUpRead
  <2>1. /\ ReadReturns /\ Rest /\ UNCHANGED <<out, taken, link, received>>
        /\ torn' \in {torn, torn \cup {Len(received)}}
    BY <1>13 DEF ReadFails, GiveUpRead
  <2> QED BY <1>1, <1>3, <1>10, <2>1 DEF ReaderTypes, WriterTypes
<1>14. CASE Transmit
  <2>1. /\ out' = Len(log) /\ Rest /\ UNCHANGED <<taken, link, rpc, need, got, received, torn>>
    BY <1>14 DEF Transmit
  <2>2. taken' \in 0 .. out' /\ out' \in 0 .. Len(log)
    BY <1>1, <1>3, <2>1 DEF ReaderTypes, WriterTypes
  <2> QED BY <1>1, <2>1, <2>2 DEF ReaderTypes
<1>15. CASE LinkEnds
  BY <1>1, <1>3, <1>15 DEF LinkEnds, ReaderTypes, WriterTypes
<1> QED BY <1>5, <1>7, <1>9, <1>11, <1>12, <1>13, <1>14, <1>15 DEF Reads

LEMMA TypeInit == Init => TypeInv
<1> SUFFICES ASSUME Init PROVE TypeInv
  OBVIOUS
<1>1. /\ Len(log) = 0 /\ Len(sent) = 0 /\ Len(ends) = 0 /\ Len(got) = 0 /\ Len(received) = 0
      /\ log \in Seq(Byte) /\ rest \in Seq(Byte) /\ got \in Seq(Byte) /\ frame \in Seq(Byte)
      /\ sent \in Seq(Payload) /\ ends \in Seq(Nat) /\ received \in Seq(Seq(Byte))
  BY EmptySeq DEF Init
<1> QED BY <1>1 DEF Init, TypeInv, FramingTypeOK, FuturesFit, Begun

LEMMA TypeKept ==
  ASSUME TypeInv, [Next]_vars
  PROVE  TypeInv'
<1>1. CASE UNCHANGED vars
  BY <1>1 DEF vars, streamVars, writerVars, readerVars, TypeInv, FramingTypeOK, FuturesFit, Begun
<1>2. CASE Next
  BY <1>2, WriterTypesKept, ReaderTypesKept DEF Next, Writes
<1> QED BY <1>1, <1>2

\* The bytes of a connection are numbers, and so are the numbers of its frames.
THEOREM FramingTypeCorrect == Spec => []FramingTypeOK
<1>1. TypeInv => FramingTypeOK
  BY DEF TypeInv
<1> QED BY TypeInit, TypeKept, <1>1, PTL DEF Spec

-----------------------------------------------------------------------------
(* The frames in the log. *)

\* A tear is never mended.
LEMMA CleanStays ==
  ASSUME torn \subseteq torn', NEW n
  PROVE  Clean(n)' => Clean(n)
BY DEF Clean

\* Where no tear is in front of the next frame to come out, no more came out
\* than went in.
LEMMA NotOver ==
  ASSUME FramingTypeOK, OverTorn, Clean(Len(received) + 1)
  PROVE  Len(received) \in 0 .. Len(sent)
<1>1. Len(received) \in Nat /\ Len(sent) \in Nat /\ torn \subseteq Nat
  BY Lengths DEF FramingTypeOK
<1> QED BY <1>1 DEF OverTorn, Clean

\* ... by any step.
LEMMA TornGrows == [Next]_vars => torn \subseteq torn'
<1> USE DEF vars, streamVars, writerVars, readerVars
<1>1. (\E payload \in Payload : WriteFramed(payload)) => torn' = torn
  BY DEF WriteFramed
<1>2. Writes => torn' = torn
  BY DEF Writes, WritePart, WriteLength, WritePayload, TakesLast, Takes, Flush, WriteFails
<1>3. GiveUpWrite => torn \subseteq torn'
  BY DEF GiveUpWrite
<1>4. ReadFramed \/ Transmit \/ LinkEnds => torn' = torn
  BY DEF ReadFramed, Transmit, LinkEnds
<1>5. Reads => torn \subseteq torn'
  BY DEF Reads, ReadPart, ReadLength, ReadEmpty, ReadTooLong, ReadPayload, ReadFails
<1>6. GiveUpRead => torn \subseteq torn'
  BY DEF GiveUpRead
<1> QED BY <1>1, <1>2, <1>3, <1>4, <1>5, <1>6 DEF Next

\* The log only gets longer.
Extends ==
  /\ Len(log') \in Nat /\ Len(log) <= Len(log')
  /\ \A i \in 1 .. Len(log) : log'[i] = log[i]

\* A frame in the log stays there.
LEMMA FrameStays ==
  ASSUME FramingTypeOK, Extends, NEW n \in 1 .. Len(sent), FrameAt(n),
         sent'[n] = sent[n], ends'[n] = ends[n], EndOf(n - 1)' = EndOf(n - 1)
  PROVE  FrameAt(n)'
<1> DEFINE begin == EndOf(n - 1)
           length == Len(sent[n])
<1>1. begin \in Nat /\ Len(log) \in Nat /\ length \in Nat
  <2>1. n - 1 \in 0 .. Len(sent)
    BY Lengths
  <2>2. sent[n] \in Payload
    BY ElementOfSeq DEF FramingTypeOK
  <2> QED BY <2>1, <2>2, Lengths, WireOf
<1>2. /\ ends[n] = begin + 2 + length /\ ends[n] <= Len(log)
      /\ \A i \in 1 .. 2 + length : log[begin + i] = Wire(sent[n], i)
  BY DEF FrameAt
<1>3. \A i \in 1 .. 2 + length : log'[begin + i] = Wire(sent[n], i)
  <2> TAKE i \in 1 .. 2 + length
  <2> HIDE DEF begin, length
  <2>1. begin + i \in 1 .. Len(log)
    BY <1>1, <1>2
  <2> QED BY <1>2, <2>1 DEF Extends
<1> HIDE DEF length
<1>4. ends[n] <= Len(log')
  BY <1>1, <1>2 DEF Extends
<1>5. length = Len(sent'[n]) /\ EndOf(n - 1)' = begin
  BY DEF length
<1>6. \A i : Wire(sent[n], i)' = Wire(sent[n], i)
  BY DEF Wire, LengthBytes
<1> QED BY <1>2, <1>3, <1>4, <1>5 DEF FrameAt, Wire, LengthBytes

\* The frames sent stay in the log, behind each other.
LEMMA LogStays ==
  ASSUME FramingTypeOK, Extends, LogHolds, torn \subseteq torn', UNCHANGED <<sent, ends>>
  PROVE  LogHolds'
<1> SUFFICES ASSUME NEW n \in 1 .. Len(sent), Clean(n)'
             PROVE  FrameAt(n)'
  BY DEF LogHolds
<1>1. FrameAt(n)
  BY CleanStays DEF LogHolds
<1>2. EndOf(n - 1)' = EndOf(n - 1)
  BY DEF EndOf
<1> QED BY <1>1, <1>2, FrameStays

\* A frame that is finished is one more in the log.
LEMMA LogGrows ==
  ASSUME FramingTypeOK, Extends, LogHolds, torn' = torn, frame \in Payload,
         NEW end \in Nat,
         sent' = Append(sent, frame), ends' = Append(ends, end),
         Clean(Len(sent) + 1) =>
           /\ end = EndOf(Len(sent)) + 2 + Len(frame)
           /\ end <= Len(log')
           /\ \A i \in 1 .. 2 + Len(frame) : log'[EndOf(Len(sent)) + i] = Wire(frame, i)
  PROVE  LogHolds'
<1>1. /\ sent \in Seq(Payload) /\ ends \in Seq(Nat) /\ Len(ends) = Len(sent)
      /\ Len(sent) \in Nat
  BY Lengths DEF FramingTypeOK
<1>2. /\ Len(sent') = Len(sent) + 1
      /\ \A n \in 1 .. Len(sent) : sent'[n] = sent[n]
      /\ sent'[Len(sent) + 1] = frame
  BY <1>1, AppendProperties
<1>3. /\ \A n \in 1 .. Len(sent) : ends'[n] = ends[n]
      /\ ends'[Len(sent) + 1] = end
  BY <1>1, AppendProperties
<1>4. \A n \in 0 .. Len(sent) : EndOf(n)' = EndOf(n)
  <2> TAKE n \in 0 .. Len(sent)
  <2>1. n = 0 \/ n \in 1 .. Len(sent)
    BY <1>1
  <2> QED BY <1>3, <2>1 DEF EndOf
<1> SUFFICES ASSUME NEW n \in 1 .. Len(sent) + 1, Clean(n)'
             PROVE  FrameAt(n)'
  BY <1>2 DEF LogHolds
<1>5. Clean(n)
  BY CleanStays
<1>6. n - 1 \in 0 .. Len(sent)
  BY <1>1
<1>7. EndOf(n - 1)' = EndOf(n - 1)
  BY <1>4, <1>6
<1>8. CASE n \in 1 .. Len(sent)
  BY <1>2, <1>3, <1>5, <1>7, <1>8, FrameStays DEF LogHolds
<1>9. CASE n = Len(sent) + 1
  <2>1. n - 1 = Len(sent)
    BY <1>1, <1>9
  <2>2. sent'[n] = frame /\ ends'[n] = end /\ EndOf(n - 1)' = EndOf(Len(sent))
    BY <1>2, <1>3, <1>7, <1>9, <2>1
  <2> QED BY <1>5, <1>9, <2>2 DEF FrameAt, Wire, LengthBytes
<1> QED BY <1>1, <1>8, <1>9

-----------------------------------------------------------------------------
(* The writer. *)

\* What a write adds goes on with the frame.
LEMMA Written ==
  ASSUME TypeInv, WriterInStep, link = "up", Clean(Len(sent) + 1), Begun,
         NEW k \in 1 .. Len(rest), Takes(k)
  PROVE  /\ Behind \in Nat
         /\ Behind + Len(rest) = 2 + (IF wpc = "length" THEN 0 ELSE Len(frame))
         /\ \A i \in 1 .. Behind + k : log'[EndOf(Len(sent)) + i] = Wire(frame, i)
         /\ \A i \in 1 .. Len(rest) : rest[i] = Wire(frame, Behind + i)
         /\ Len(log') = EndOf(Len(sent)) + Behind + k
<1> DEFINE e == EndOf(Len(sent))
           b == Behind
<1>1. FramingTypeOK
  BY DEF TypeInv
<1>2. e \in Nat /\ Len(log) \in Nat /\ Len(rest) \in Nat /\ k \in Nat
  BY <1>1, Lengths
<1>3. /\ b >= 0 /\ b = Len(log) - e
      /\ b + Len(rest) = 2 + (IF wpc = "length" THEN 0 ELSE Len(frame))
      /\ \A i \in 1 .. b : log[e + i] = Wire(frame, i)
      /\ \A i \in 1 .. Len(rest) : rest[i] = Wire(frame, b + i)
  BY DEF WriterInStep, Behind
<1>4. /\ Len(log') = Len(log) + k
      /\ \A i \in 1 .. Len(log) : log'[i] = log[i]
      /\ \A i \in 1 .. k : log'[Len(log) + i] = rest[i]
  BY <1>1, Taken
<1> HIDE DEF e, b
<1>5. \A i \in 1 .. b + k : log'[e + i] = Wire(frame, i)
  <2> TAKE i \in 1 .. b + k
  <2>1. CASE i <= b
    <3>1. i \in 1 .. b /\ e + i \in 1 .. Len(log)
      BY <1>2, <1>3, <2>1
    <3> QED BY <1>3, <1>4, <3>1
  <2>2. CASE i > b
    <3> DEFINE j == i - b
    <3>1. j \in 1 .. k /\ j \in 1 .. Len(rest) /\ Len(log) + j = e + i /\ b + j = i
      BY <1>2, <1>3, <2>2
    <3> HIDE DEF j
    <3>2. log'[Len(log) + j] = rest[j] /\ rest[j] = Wire(frame, b + j)
      BY <1>3, <1>4, <3>1
    <3> QED BY <3>1, <3>2
  <2> QED BY <1>2, <1>3, <2>1, <2>2
<1>6. b \in Nat /\ Len(log') = e + b + k
  BY <1>2, <1>3, <1>4
<1> QED BY <1>3, <1>5, <1>6 DEF e, b

LEMMA TakesExtends ==
  ASSUME FramingTypeOK, NEW k \in 1 .. Len(rest), Takes(k)
  PROVE  Extends
BY Taken, Lengths DEF Extends

\* A writer in step has never written the whole of what it is writing.
LEMMA FrontOfFrame ==
  TypeInv /\ WriterInStep /\ link = "up" => FrontOnly
<1> SUFFICES ASSUME TypeInv, WriterInStep, link = "up", Clean(Len(sent) + 1)
             PROVE  Behind >= 0 /\ (Behind >= 2 => LengthBehind(Len(sent)) > Behind - 2)
  BY DEF FrontOnly
<1>1. CASE ~Begun
  BY <1>1 DEF WriterInStep
<1>2. CASE Begun
  <2> DEFINE e == EndOf(Len(sent))
             b == Behind
  <2>1. /\ e \in Nat /\ Len(log) \in Nat /\ Len(rest) \in Nat /\ Len(frame) \in Nat
        /\ Len(rest) >= 1 /\ frame \in Payload /\ wpc \in {"length", "payload"}
    BY <1>2, Lengths DEF TypeInv, FuturesFit, Begun
  <2>2. /\ b >= 0 /\ b = Len(log) - e
        /\ b + Len(rest) = 2 + (IF wpc = "length" THEN 0 ELSE Len(frame))
        /\ \A i \in 1 .. b : log[e + i] = Wire(frame, i)
    BY <1>2 DEF WriterInStep, Behind
  <2> HIDE DEF e, b
  <2>3. ASSUME b >= 2
        PROVE  LengthOf(<<log[e + 1], log[e + 2]>>) > b - 2
    <3>1. wpc = "payload" /\ b - 2 < Len(frame)
      BY <2>1, <2>2, <2>3
    <3>2. log[e + 1] = Wire(frame, 1) /\ log[e + 2] = Wire(frame, 2)
      BY <2>1, <2>2, <2>3
    <3>3. LengthOf(<<log[e + 1], log[e + 2]>>) = Len(frame)
      BY <2>1, <3>2, WireOf
    <3> QED BY <2>1, <2>2, <3>1, <3>3
  <2> QED BY <2>2, <2>3 DEF e, b, LengthBehind
<1> QED BY <1>1, <1>2

\* What a step of the writer does to the log and the writer.
WriterGood ==
  /\ LogHolds' /\ WriterInStep' /\ FrontOnly'
  /\ Extends
  /\ \A n \in 0 .. Len(sent) : EndOf(n)' = EndOf(n)

\* The front that a step finds, it leaves.
LEMMA FrontKept ==
  ASSUME TypeInv, TypeInv', FrontOnly, WriterInStep', link' = link, torn \subseteq torn',
         link # "up" => UNCHANGED <<log, sent, ends>>
  PROVE  FrontOnly'
<1>1. CASE link = "up"
  <2>1. TypeInv' /\ WriterInStep' /\ (link = "up")'
    BY <1>1
  <2> QED BY <2>1, FrontOfFrame, PTL
<1>2. CASE link # "up"
  <2>1. Clean(Len(sent) + 1)' => Clean(Len(sent) + 1)
    BY <1>2 DEF Clean
  <2> QED BY <1>2, <2>1 DEF FrontOnly, Behind, LengthBehind, LengthOf, EndOf
<1> QED BY <1>1, <1>2

LEMMA BeginsInStep ==
  ASSUME TypeInv, TypeInv', LogHolds, WriterInStep, FrontOnly,
         NEW payload \in Payload, WriteFramed(payload)
  PROVE  WriterGood
<1>1. /\ wpc = "idle" /\ wpc' = "length" /\ frame' = payload /\ rest' = LengthBytes(Len(payload))
      /\ UNCHANGED <<log, link, sent, ends, torn>>
  BY DEF WriteFramed, streamVars
<1>2. FramingTypeOK
  BY DEF TypeInv
<1>3. Extends
  BY <1>1, <1>2, Lengths DEF Extends
<1>4. Behind' = Behind /\ Clean(Len(sent) + 1)' = Clean(Len(sent) + 1) /\ Begun' /\ ~Begun
  BY <1>1 DEF Behind, EndOf, Clean, Begun
<1>5. Len(rest') = 2 /\ \A i \in 1 .. 2 : rest'[i] = Wire(payload, i)
  <2>1. Len(LengthBytes(Len(payload))) = 2
    BY WireOf
  <2>2. \A i \in 1 .. 2 : LengthBytes(Len(payload))[i] = Wire(payload, i)
    BY DEF Wire
  <2> QED BY <1>1, <2>1, <2>2
<1>6. WriterInStep'
  <2> SUFFICES ASSUME link = "up", Clean(Len(sent) + 1)
               PROVE  /\ Behind' >= 0
                      /\ Behind' + Len(rest') = 2
                      /\ \A i \in 1 .. Behind' : log'[EndOf(Len(sent))' + i] = Wire(payload, i)'
                      /\ \A i \in 1 .. Len(rest') : rest'[i] = Wire(payload, Behind' + i)
    BY <1>1, <1>4 DEF WriterInStep, Wire, LengthBytes
  <2>1. Behind' = 0
    BY <1>4 DEF WriterInStep
  <2> QED BY <1>5, <2>1
<1>7. FrontOnly'
  BY <1>1, <1>6, FrontKept
<1>8. \A n \in 0 .. Len(sent) : EndOf(n)' = EndOf(n)
  BY <1>1 DEF EndOf
<1> QED BY <1>1, <1>2, <1>3, <1>6, <1>7, <1>8, LogStays DEF WriterGood

LEMMA PartInStep ==
  ASSUME TypeInv, TypeInv', LogHolds, WriterInStep, FrontOnly, WritePart
  PROVE  WriterGood
<1>1. PICK k \in 1 .. Len(rest) - 1 : Takes(k) /\ rest' = SubSeq(rest, k + 1, Len(rest))
  BY DEF WritePart
<1>2. FramingTypeOK
  BY DEF TypeInv
<1>3. k \in 1 .. Len(rest) /\ k \in Nat /\ Len(rest) \in Nat /\ Len(log) \in Nat
  BY <1>2, Lengths
<1>4. /\ Begun /\ Begun' /\ wpc' = wpc /\ link = "up"
      /\ UNCHANGED <<link, frame, sent, ends, torn>>
  BY <1>1 DEF WritePart, Takes, Begun
<1>5. Extends
  BY <1>1, <1>2, <1>3, TakesExtends
<1>6. Clean(Len(sent) + 1)' = Clean(Len(sent) + 1) /\ EndOf(Len(sent))' = EndOf(Len(sent))
  BY <1>4 DEF Clean, EndOf
<1>7. WriterInStep'
  <2> DEFINE e == EndOf(Len(sent))
             b == Behind
  <2> SUFFICES ASSUME Clean(Len(sent) + 1)
               PROVE  /\ Behind' >= 0
                      /\ Behind' + Len(rest') = 2 + (IF wpc = "length" THEN 0 ELSE Len(frame))
                      /\ \A i \in 1 .. Behind' : log'[e + i] = Wire(frame, i)
                      /\ \A i \in 1 .. Len(rest') : rest'[i] = Wire(frame, Behind' + i)
    BY <1>4, <1>6 DEF WriterInStep, Wire, LengthBytes
  <2>1. /\ b \in Nat
        /\ b + Len(rest) = 2 + (IF wpc = "length" THEN 0 ELSE Len(frame))
        /\ \A i \in 1 .. b + k : log'[e + i] = Wire(frame, i)
        /\ \A i \in 1 .. Len(rest) : rest[i] = Wire(frame, b + i)
        /\ Len(log') = e + b + k
    BY <1>1, <1>3, <1>4, Written
  <2>2. /\ Len(rest') = Len(rest) - k
        /\ \A i \in 1 .. Len(rest) - k : rest'[i] = rest[k + i]
    BY <1>1, <1>2, <1>3, Taken
  <2>3. e \in Nat
    BY <1>2, Lengths
  <2> HIDE DEF b, e
  <2>4. Behind' = b + k
    <3>1. Behind' = Len(log') - e
      BY <1>6 DEF Behind, e
    <3>2. b \in Nat /\ Len(log') = e + b + k
      BY <2>1
    <3> QED BY <1>3, <2>3, <3>1, <3>2
  <2>5. \A i \in 1 .. Len(rest') : rest'[i] = Wire(frame, (b + k) + i)
    <3> TAKE i \in 1 .. Len(rest')
    <3>1. i \in 1 .. Len(rest) - k /\ k + i \in 1 .. Len(rest) /\ b + (k + i) = (b + k) + i
      <4>1. b \in Nat /\ i \in 1 .. Len(rest) - k
        BY <2>1, <2>2
      <4> QED BY <1>3, <4>1
    <3>2. PICK j \in 1 .. Len(rest) : j = k + i
      BY <3>1
    <3>3. rest'[i] = rest[j] /\ rest[j] = Wire(frame, b + j)
      BY <2>1, <2>2, <3>1, <3>2
    <3> QED BY <3>1, <3>2, <3>3
  <2>6. b + k >= 0 /\ (b + k) + Len(rest') = b + Len(rest)
    BY <1>3, <2>1, <2>2
  <2> QED BY <2>1, <2>4, <2>5, <2>6
<1>8. FrontOnly'
  BY <1>4, <1>7, FrontKept
<1>9. \A n \in 0 .. Len(sent) : EndOf(n)' = EndOf(n)
  BY <1>4 DEF EndOf
<1> QED BY <1>2, <1>4, <1>5, <1>7, <1>8, <1>9, LogStays DEF WriterGood

\* The last byte of the length, and what is still to be written is the payload.
LEMMA LengthInStep ==
  ASSUME TypeInv, TypeInv', LogHolds, WriterInStep, FrontOnly, WriteLength, frame # <<>>
  PROVE  WriterGood
<1>1. /\ Takes(Len(rest)) /\ wpc = "length" /\ wpc' = "payload" /\ rest' = frame
      /\ UNCHANGED <<sent, ends, frame, link, torn>> /\ link = "up" /\ Begun /\ Begun'
  BY DEF WriteLength, Takes, Begun
<1>2. FramingTypeOK
  BY DEF TypeInv
<1>3. Len(rest) \in 1 .. Len(rest) /\ Len(rest) \in Nat /\ Len(log) \in Nat
      /\ frame \in Payload /\ Len(frame) \in Nat
  BY <1>1, <1>2, Lengths DEF TypeInv, FuturesFit
<1>5. Extends
  BY <1>1, <1>2, <1>3, TakesExtends
<1>6. Clean(Len(sent) + 1)' = Clean(Len(sent) + 1) /\ EndOf(Len(sent))' = EndOf(Len(sent))
  BY <1>1 DEF Clean, EndOf
<1>7. WriterInStep'
  <2> DEFINE e == EndOf(Len(sent))
             b == Behind
  <2> SUFFICES ASSUME Clean(Len(sent) + 1)
               PROVE  /\ Behind' >= 0
                      /\ Behind' + Len(frame) = 2 + Len(frame)
                      /\ \A i \in 1 .. Behind' : log'[e + i] = Wire(frame, i)
                      /\ \A i \in 1 .. Len(frame) : frame[i] = Wire(frame, Behind' + i)
    BY <1>1, <1>6 DEF WriterInStep, Wire, LengthBytes
  <2>1. /\ b \in Nat
        /\ b + Len(rest) = 2
        /\ \A i \in 1 .. b + Len(rest) : log'[e + i] = Wire(frame, i)
        /\ Len(log') = e + b + Len(rest)
    BY <1>1, <1>3, Written
  <2>2. e \in Nat
    BY <1>2, Lengths
  <2> HIDE DEF b, e
  <2>3. Behind' = 2
    BY <1>3, <1>6, <2>1, <2>2 DEF Behind, e
  <2>4. \A i \in 1 .. Len(frame) : frame[i] = Wire(frame, 2 + i)
    BY <1>3 DEF Wire
  <2> QED BY <1>3, <2>1, <2>3, <2>4
<1>8. FrontOnly'
  BY <1>1, <1>7, FrontKept
<1>9. \A n \in 0 .. Len(sent) : EndOf(n)' = EndOf(n)
  BY <1>1 DEF EndOf
<1> QED BY <1>1, <1>2, <1>5, <1>7, <1>8, <1>9, LogStays DEF WriterGood

\* The last byte of the frame.
LEMMA LastInStep ==
  ASSUME TypeInv, TypeInv', LogHolds, WriterInStep, FrontOnly, TakesLast, Begun,
         wpc = "length" => frame = <<>>
  PROVE  WriterGood
<1> DEFINE e   == EndOf(Len(sent))
           end == Len(log) + Len(rest)
<1>1. /\ Takes(Len(rest)) /\ link = "up" /\ ~Begun'
      /\ sent' = Append(sent, frame) /\ ends' = Append(ends, end)
      /\ UNCHANGED <<frame, link, torn>>
  BY DEF TakesLast, Takes, Begun
<1>2. FramingTypeOK
  BY DEF TypeInv
<1>3. /\ Len(rest) \in 1 .. Len(rest) /\ Len(rest) \in Nat /\ Len(log) \in Nat /\ e \in Nat
      /\ end \in Nat /\ frame \in Payload /\ Len(frame) \in Nat /\ Len(sent) \in Nat
  BY <1>2, Lengths DEF TypeInv, FuturesFit
<1>4. Len(log') = end
  BY <1>1, <1>2, <1>3, Taken
<1>5. Extends
  BY <1>1, <1>2, <1>3, TakesExtends
<1>6. Len(sent') = Len(sent) + 1 /\ ends'[Len(sent) + 1] = end
      /\ \A n \in 1 .. Len(sent) : ends'[n] = ends[n]
  <2> HIDE DEF end
  <2>1. sent \in Seq(Payload) /\ ends \in Seq(Nat) /\ Len(ends) = Len(sent)
    BY <1>2 DEF FramingTypeOK
  <2>2. Len(sent') = Len(sent) + 1
    BY <1>1, <1>3, <2>1, AppendProperties
  <2> QED BY <1>1, <1>3, <2>1, <2>2, AppendProperties
<1>7. ASSUME Clean(Len(sent) + 1)
      PROVE  /\ end = e + 2 + Len(frame)
             /\ \A i \in 1 .. 2 + Len(frame) : log'[e + i] = Wire(frame, i)
  <2> DEFINE b == Behind
  <2>1. /\ b \in Nat
        /\ b + Len(rest) = 2 + (IF wpc = "length" THEN 0 ELSE Len(frame))
        /\ \A i \in 1 .. b + Len(rest) : log'[e + i] = Wire(frame, i)
        /\ Len(log') = e + b + Len(rest)
    BY <1>1, <1>3, <1>7, Written
  <2>2. wpc = "length" => Len(frame) = 0
    OBVIOUS
  <2> HIDE DEF b, e, end
  <2>3. b + Len(rest) = 2 + Len(frame)
    BY <1>3, <2>1, <2>2
  <2> QED BY <1>3, <1>4, <2>1, <2>3
<1>8. LogHolds'
  <2> HIDE DEF end
  <2>1. Clean(Len(sent) + 1) => end <= Len(log')
    BY <1>3, <1>4
  <2> QED BY <1>1, <1>2, <1>3, <1>5, <1>7, <2>1, LogGrows
<1>9. EndOf(Len(sent))' = end
  BY <1>3, <1>6 DEF EndOf
<1>10. Behind' = 0
  BY <1>3, <1>4, <1>9 DEF Behind
<1>11. WriterInStep'
  BY <1>1, <1>10 DEF WriterInStep
<1>12. FrontOnly'
  BY <1>1, <1>11, FrontKept
<1>13. \A n \in 0 .. Len(sent) : EndOf(n)' = EndOf(n)
  <2> TAKE n \in 0 .. Len(sent)
  <2>1. n = 0 \/ n \in 1 .. Len(sent)
    BY <1>3
  <2> QED BY <1>6, <2>1 DEF EndOf
<1> QED BY <1>5, <1>8, <1>11, <1>12, <1>13 DEF WriterGood

\* A future that ends, having returned or been given up.
LEMMA EndsInStep ==
  ASSUME TypeInv, TypeInv', LogHolds, WriterInStep, FrontOnly, Flush \/ WriteFails \/ GiveUpWrite
  PROVE  WriterGood
<1>1. /\ wpc' = "idle" /\ ~Begun'
      /\ UNCHANGED <<log, link, sent, ends>>
  BY DEF Flush, WriteFails, GiveUpWrite, WriteReturns, Begun, streamVars
<1>2. torn \subseteq torn'
  BY DEF Flush, WriteFails, GiveUpWrite
<1>3. FramingTypeOK
  BY DEF TypeInv
<1>4. Extends
  BY <1>1, <1>3, Lengths DEF Extends
<1>5. Behind' = Behind
  BY <1>1 DEF Behind, EndOf
<1>6. Len(sent) \in Nat /\ Len(log) \in Nat /\ EndOf(Len(sent)) \in Nat
  BY <1>3, Lengths
<1>7. ASSUME link = "up", Clean(Len(sent) + 1)'
      PROVE  Behind = 0
  <2>1. Clean(Len(sent) + 1)
    BY <1>1, <1>2, <1>7 DEF Clean
  <2>2. CASE Flush
    BY <1>7, <2>1, <2>2 DEF Flush, WriterInStep, Begun
  <2>3. CASE GiveUpWrite
    <3>1. CASE Len(log) = EndOf(Len(sent))
      BY <1>6, <3>1 DEF Behind
    <3>2. CASE Len(log) # EndOf(Len(sent))
      <4>1. Len(sent) \in torn'
        BY <2>3, <3>2 DEF GiveUpWrite
      <4> QED BY <1>1, <1>6, <1>7, <4>1 DEF Clean
    <3> QED BY <3>1, <3>2
  <2>4. CASE WriteFails
    BY <1>7, <2>4 DEF WriteFails
  <2> QED BY <2>2, <2>3, <2>4
<1>8. WriterInStep'
  BY <1>1, <1>5, <1>7 DEF WriterInStep
<1>9. FrontOnly'
  BY <1>1, <1>2, <1>8, FrontKept
<1>10. \A n \in 0 .. Len(sent) : EndOf(n)' = EndOf(n)
  BY <1>1 DEF EndOf
<1> QED BY <1>1, <1>2, <1>3, <1>4, <1>8, <1>9, <1>10, LogStays DEF WriterGood

LEMMA WriterKept ==
  ASSUME TypeInv, TypeInv', LogHolds, WriterInStep, FrontOnly,
         (\E payload \in Payload : WriteFramed(payload)) \/ Writes \/ GiveUpWrite
  PROVE  WriterGood
<1>1. CASE \E payload \in Payload : WriteFramed(payload)
  BY <1>1, BeginsInStep
<1>2. CASE WritePart
  BY <1>2, PartInStep
<1>3. CASE WriteLength /\ frame # <<>>
  BY <1>3, LengthInStep
<1>4. CASE WritePayload \/ (WriteLength /\ frame = <<>>)
  BY <1>4, LastInStep DEF WritePayload, WriteLength, Begun
<1>5. CASE Flush \/ WriteFails \/ GiveUpWrite
  BY <1>5, EndsInStep
<1> QED BY <1>1, <1>2, <1>3, <1>4, <1>5 DEF Writes

\* The steps that are not the writer's leave it in step.
LEMMA WriterUndisturbed ==
  ASSUME TypeInv, TypeInv', LogHolds, WriterInStep, FrontOnly,
         UNCHANGED <<log, writerVars, sent, ends>>, torn \subseteq torn',
         (link = "up")' => link = "up"
  PROVE  WriterGood
<1>1. FramingTypeOK
  BY DEF TypeInv
<1>2. Extends
  BY <1>1, Lengths DEF Extends
<1>3. /\ Behind' = Behind /\ Begun' = Begun /\ EndOf(Len(sent))' = EndOf(Len(sent))
      /\ Clean(Len(sent) + 1)' => Clean(Len(sent) + 1)
  BY DEF Behind, EndOf, Begun, Clean, writerVars
<1>4. WriterInStep'
  BY <1>3 DEF WriterInStep, Wire, LengthBytes, writerVars
<1>5. FrontOnly'
  BY <1>3 DEF FrontOnly, LengthBehind, LengthOf
<1>6. \A n \in 0 .. Len(sent) : EndOf(n)' = EndOf(n)
  BY DEF EndOf
<1> QED BY <1>1, <1>2, <1>4, <1>5, <1>6, LogStays DEF WriterGood

-----------------------------------------------------------------------------
(* The reader. *)

\* The steps that are not the reader's leave it in step.
LEMMA ReaderUndisturbed ==
  ASSUME TypeInv, OverTorn, ReadsInStep, WriterGood, torn \subseteq torn',
         UNCHANGED <<taken, readerVars, received>>, Readable' => Readable
  PROVE  ReadsInStep'
<1>1. FramingTypeOK
  BY DEF TypeInv
<1>2. SUFFICES ASSUME Readable, Clean(Len(received) + 1)
               PROVE  /\ taken = Skipped' + Len(got)
                      /\ \A i \in 1 .. Len(got) : got[i] = log'[Skipped' + i]
                      /\ rpc = "payload" => need = LengthBehind(Len(received))'
  BY DEF ReadsInStep, readerVars, Clean
<1> DEFINE r == Len(received)
           k == Skipped
<1>3. r \in 0 .. Len(sent)
  BY <1>1, <1>2, NotOver
<1>4. EndOf(r)' = EndOf(r) /\ EndOf(r) \in Nat
  BY <1>1, <1>3, Lengths DEF WriterGood
<1>5. Skipped' = k /\ k \in Nat /\ (rpc = "payload" => k = EndOf(r) + 2)
  BY <1>4 DEF Skipped, readerVars
<1>6. /\ taken = k + Len(got) /\ taken <= Len(log) /\ Len(got) \in Nat /\ Len(log) \in Nat
      /\ \A i \in 1 .. Len(got) : got[i] = log[k + i]
      /\ rpc = "payload" => need = LengthBehind(r)
  BY <1>1, <1>2, Lengths DEF ReadsInStep
<1>7. \A i \in 1 .. Len(got) : k + i \in 1 .. Len(log)
  BY <1>5, <1>6
<1>8. ASSUME rpc = "payload"
      PROVE  LengthBehind(r)' = LengthBehind(r)
  <2>1. EndOf(r) + 1 \in 1 .. Len(log) /\ EndOf(r) + 2 \in 1 .. Len(log)
    BY <1>4, <1>5, <1>6, <1>8
  <2>2. log'[EndOf(r) + 1] = log[EndOf(r) + 1] /\ log'[EndOf(r) + 2] = log[EndOf(r) + 2]
    BY <2>1 DEF WriterGood, Extends
  <2> QED BY <1>4, <2>2 DEF LengthBehind, LengthOf
<1> QED BY <1>5, <1>6, <1>7, <1>8 DEF WriterGood, Extends

\* k more bytes of what is being read.
LEMMA GivenInStep ==
  ASSUME TypeInv, OverTorn, ReadsInStep, Clean(Len(received) + 1), rpc # "idle",
         NEW k \in 1 .. need - Len(got), Gives(k)
  PROVE  /\ taken' = Skipped + (Len(got) + k)
         /\ Len(got \o Arrived(k)) = Len(got) + k
         /\ \A i \in 1 .. Len(got) + k : (got \o Arrived(k))[i] = log[Skipped + i]
         /\ rpc = "payload" => need = LengthBehind(Len(received))
         /\ taken' <= Len(log)
<1>1. FramingTypeOK
  BY DEF TypeInv
<1>2. /\ Len(got) \in Nat /\ need \in Nat /\ taken \in Nat /\ out \in Nat /\ k \in Nat
      /\ out <= Len(log) /\ Len(log) \in Nat
  BY <1>1, Lengths
<1>3. taken + k <= out /\ link # "reset" /\ taken' = taken + k
  BY DEF Gives
<1>4. Readable
  BY <1>2, <1>3 DEF Readable
<1> DEFINE s == Skipped
<1>5. /\ taken = s + Len(got)
      /\ \A i \in 1 .. Len(got) : got[i] = log[s + i]
      /\ rpc = "payload" => need = LengthBehind(Len(received))
  BY <1>4 DEF ReadsInStep
<1>6. s \in Nat
  <2>1. EndOf(Len(received)) \in Nat
    BY <1>1, NotOver, Lengths
  <2> QED BY <2>1 DEF Skipped
<1>7. /\ Len(got \o Arrived(k)) = Len(got) + k
      /\ \A i \in 1 .. Len(got) : (got \o Arrived(k))[i] = got[i]
      /\ \A i \in 1 .. k : (got \o Arrived(k))[Len(got) + i] = log[taken + i]
  BY <1>1, <1>2, <1>3, Given
<1> HIDE DEF s
<1>8. \A i \in 1 .. Len(got) + k : (got \o Arrived(k))[i] = log[s + i]
  <2> TAKE i \in 1 .. Len(got) + k
  <2>1. CASE i <= Len(got)
    <3>1. i \in 1 .. Len(got)
      BY <1>2, <2>1
    <3> QED BY <1>5, <1>7, <3>1
  <2>2. CASE i > Len(got)
    <3> DEFINE j == i - Len(got)
    <3>1. j \in 1 .. k /\ Len(got) + j = i /\ taken + j = s + i
      BY <1>2, <1>5, <1>6, <2>2
    <3> HIDE DEF j
    <3>2. (got \o Arrived(k))[Len(got) + j] = log[taken + j]
      BY <1>7, <3>1
    <3> QED BY <3>1, <3>2
  <2>3. i <= Len(got) \/ i > Len(got)
    BY <1>2
  <2> QED BY <2>1, <2>2, <2>3
<1>9. taken' = s + (Len(got) + k) /\ taken' <= Len(log)
  BY <1>2, <1>3, <1>5, <1>6
<1> QED BY <1>5, <1>7, <1>8, <1>9 DEF s

\* A length that is followed by as many bytes is that of the next frame sent.
LEMMA NextFrame ==
  ASSUME TypeInv, OverTorn, LogHolds, FrontOnly, Clean(Len(received) + 1),
         NEW n \in Nat, n = LengthBehind(Len(received)),
         EndOf(Len(received)) + 2 + n <= Len(log)
  PROVE  /\ Len(received) < Len(sent)
         /\ n = Len(sent[Len(received) + 1])
         /\ ends[Len(received) + 1] = EndOf(Len(received)) + 2 + n
         /\ \A i \in 1 .. n :
              log[EndOf(Len(received)) + 2 + i] = sent[Len(received) + 1][i]
<1> DEFINE r == Len(received)
           e == EndOf(r)
           f == sent[r + 1]
<1>1. FramingTypeOK
  BY DEF TypeInv
<1>2. /\ r \in 0 .. Len(sent) /\ Len(sent) \in Nat /\ e \in Nat /\ Len(log) \in Nat
      /\ e + 2 + n <= Len(log)
  BY <1>1, NotOver, Lengths
<1>3. r # Len(sent)
  <2> SUFFICES ASSUME r = Len(sent) PROVE FALSE
    OBVIOUS
  <2>1. Behind = Len(log) - e
    BY DEF Behind
  <2>2. Behind >= 2 => n > Behind - 2
    BY DEF FrontOnly
  <2> HIDE DEF r, e
  <2> QED BY <1>2, <2>1, <2>2
<1>4. r < Len(sent) /\ r + 1 \in 1 .. Len(sent) /\ (r + 1) - 1 = r
  BY <1>2, <1>3
<1>5. /\ ends[r + 1] = e + 2 + Len(f)
      /\ \A i \in 1 .. 2 + Len(f) : log[e + i] = Wire(f, i)
  <2>1. FrameAt(r + 1)
    BY <1>4 DEF LogHolds
  <2> QED BY <1>4, <2>1 DEF FrameAt
<1>6. f \in Payload /\ Len(f) \in Nat
  BY <1>1, <1>4, ElementOfSeq, WireOf DEF FramingTypeOK
<1> HIDE DEF f, e
<1>7. n = Len(f)
  <2>1. log[e + 1] = Wire(f, 1) /\ log[e + 2] = Wire(f, 2)
    BY <1>5, <1>6
  <2>2. n = LengthOf(<<log[e + 1], log[e + 2]>>)
    BY DEF LengthBehind, e
  <2> QED BY <1>6, <2>1, <2>2, WireOf
<1>8. ASSUME NEW i \in 1 .. n
      PROVE  log[e + 2 + i] = f[i]
  <2>1. 2 + i \in 1 .. 2 + Len(f) /\ e + (2 + i) = e + 2 + i /\ ~(2 + i <= 2) /\ (2 + i) - 2 = i
    BY <1>2, <1>6, <1>7
  <2>2. log[e + (2 + i)] = Wire(f, 2 + i)
    BY <1>5, <2>1
  <2> QED BY <2>1, <2>2 DEF Wire
<1> QED BY <1>4, <1>5, <1>7, <1>8 DEF e, f

\* What read_exact returns.
LEMMA WholeInStep ==
  ASSUME TypeInv, OverTorn, ReadsInStep, Clean(Len(received) + 1), rpc # "idle", GivesLast
  PROVE  /\ taken' = Skipped + need
         /\ Len(Whole) = need
         /\ \A i \in 1 .. need : Whole[i] = log[Skipped + i]
         /\ rpc = "payload" => need = LengthBehind(Len(received))
         /\ taken' <= Len(log)
         /\ EndOf(Len(received)) \in Nat
<1> DEFINE k == need - Len(got)
<1>1. need \in Nat /\ Len(got) \in Nat /\ Len(got) < need
  BY Lengths DEF TypeInv, FuturesFit
<1>2. k \in 1 .. need - Len(got) /\ Len(got) + k = need
  BY <1>1
<1>3. Gives(k) /\ Whole = got \o Arrived(k)
  BY DEF GivesLast, Whole
<1>4. EndOf(Len(received)) \in Nat
  BY NotOver, Lengths DEF TypeInv
<1> HIDE DEF k
<1> QED BY <1>2, <1>3, <1>4, GivenInStep

\* The two bytes of a length.
LEMMA LengthInHand ==
  ASSUME TypeInv, OverTorn, ReadsInStep, Clean(Len(received) + 1), rpc = "length", GivesLast
  PROVE  /\ LengthOf(Whole) = LengthBehind(Len(received))
         /\ taken' = EndOf(Len(received)) + 2
         /\ taken' <= Len(log)
<1>1. need = 2 /\ Skipped = EndOf(Len(received)) + 0 /\ EndOf(Len(received)) \in Nat
  BY WholeInStep DEF TypeInv, FuturesFit, Skipped
<1>2. /\ taken' = Skipped + 2 /\ taken' <= Len(log)
      /\ Whole[1] = log[Skipped + 1] /\ Whole[2] = log[Skipped + 2]
  BY <1>1, WholeInStep
<1> QED BY <1>1, <1>2 DEF LengthOf, LengthBehind

\* A frame that is returned, where none was torn before it, is the next frame.
LEMMA Delivered ==
  ASSUME TypeInv, OverTorn, LogHolds, FrontOnly, ReadsInStep, Clean(Len(received) + 1),
         ReadEmpty \/ ReadPayload
  PROVE  /\ Len(received) < Len(sent)
         /\ received' = Append(received, sent[Len(received) + 1])
         /\ taken' = ends[Len(received) + 1]
<1> DEFINE r == Len(received)
           e == EndOf(r)
<1>1. FramingTypeOK
  BY DEF TypeInv
<1>2. r \in 0 .. Len(sent) /\ Len(sent) \in Nat /\ e \in Nat
  BY <1>1, NotOver, Lengths
<1>3. ASSUME r < Len(sent)
      PROVE  sent[r + 1] \in Seq(Byte)
  <2>1. r + 1 \in 1 .. Len(sent)
    BY <1>2, <1>3
  <2> QED BY <1>1, <2>1, ElementOfSeq, WireOf DEF FramingTypeOK
<1>4. CASE ReadEmpty
  <2>1. /\ LengthBehind(r) = 0 /\ taken' = e + 2 /\ taken' <= Len(log)
        /\ received' = Append(received, <<>>)
    BY <1>4, LengthInHand DEF ReadEmpty
  <2>2. /\ r < Len(sent) /\ Len(sent[r + 1]) = 0 /\ ends[r + 1] = e + 2 + 0
    BY <1>2, <2>1, NextFrame
  <2>3. sent[r + 1] = <<>>
    BY <1>3, <2>2, EmptySeq
  <2> QED BY <1>2, <2>1, <2>2, <2>3
<1>5. CASE ReadPayload
  <2>1. /\ rpc = "payload" /\ rpc # "idle" /\ GivesLast /\ received' = Append(received, Whole)
    BY <1>5 DEF ReadPayload
  <2>2. Skipped = e + 2
    BY <2>1 DEF Skipped
  <2>3. /\ need \in Nat /\ need = LengthBehind(r)
        /\ taken' = e + 2 + need /\ taken' <= Len(log)
        /\ Len(Whole) = need
        /\ \A i \in 1 .. need : Whole[i] = log[e + 2 + i]
    BY <1>1, <2>1, <2>2, WholeInStep, Lengths
  <2>4. /\ r < Len(sent) /\ need = Len(sent[r + 1]) /\ ends[r + 1] = e + 2 + need
        /\ \A i \in 1 .. need : log[e + 2 + i] = sent[r + 1][i]
    BY <2>3, NextFrame
  <2>5. Whole \in Seq(Byte)
    <3>1. need - Len(got) \in Nat /\ Gives(need - Len(got))
      BY <1>1, <2>1, Lengths DEF TypeInv, FuturesFit, GivesLast
    <3>2. taken + (need - Len(got)) <= out
      BY <3>1 DEF Gives
    <3> QED BY <1>1, <3>1, <3>2, Given DEF Whole
  <2>6. Whole = sent[r + 1]
    BY <1>3, <2>3, <2>4, <2>5, SeqEqual
  <2> QED BY <2>1, <2>3, <2>4, <2>6
<1> QED BY <1>4, <1>5

\* A read that comes to its end, or to nothing, leaves the reader in step or
\* the connection torn.
LEMMA ReaderKept ==
  ASSUME TypeInv, TypeInv', OverTorn, LogHolds, FrontOnly, ReadsInStep,
         ReadFramed \/ Reads \/ GiveUpRead
  PROVE  ReadsInStep'
<1> USE DEF streamVars, writerVars
<1>1. FramingTypeOK
  BY DEF TypeInv
<1>2. torn \subseteq torn' /\ UNCHANGED <<log, sent, ends, link, out>>
  <2>1. torn \subseteq torn'
    BY TornGrows DEF Next
  <2>2. ReadFramed \/ GiveUpRead => UNCHANGED <<log, sent, ends, link, out>>
    BY DEF ReadFramed, GiveUpRead
  <2>3. Reads => UNCHANGED <<log, sent, ends, link, out>>
    BY DEF Reads, ReadPart, ReadLength, ReadEmpty, ReadTooLong, ReadPayload, ReadFails, Gives, GivesLast
  <2> QED BY <2>1, <2>2, <2>3
<1>3. Len(received) \in Nat /\ Len(got) \in Nat /\ need \in Nat /\ taken \in Nat
      /\ out \in Nat
  BY <1>1, Lengths
<1>4. \A n : EndOf(n)' = EndOf(n) /\ LengthBehind(n)' = LengthBehind(n)
  BY <1>2 DEF EndOf, LengthBehind, LengthOf
<1>5. received' = received => (Clean(Len(received) + 1)' => Clean(Len(received) + 1))
  BY <1>2 DEF Clean
<1>6. CASE ReadFramed
  <2>1. /\ rpc = "idle" /\ rpc' = "length" /\ got = <<>> /\ got' = <<>>
        /\ UNCHANGED <<taken, received, torn>>
    BY <1>6 DEF ReadFramed, TypeInv, FuturesFit
  <2>2. Skipped' = Skipped /\ Readable' = Readable
    BY <1>2, <1>4, <2>1 DEF Skipped, Readable
  <2> QED BY <1>5, <2>1, <2>2 DEF ReadsInStep
<1>7. CASE ReadPart
  <2>1. /\ rpc # "idle" /\ UNCHANGED <<rpc, need, received, torn>>
    BY <1>7 DEF ReadPart
  <2>2. PICK k \in 1 .. need - Len(got) - 1 : Gives(k) /\ got' = got \o Arrived(k)
    BY <1>7 DEF ReadPart
  <2>3. k \in 1 .. need - Len(got)
    BY <1>3, <2>2
  <2>4. Skipped' = Skipped
    BY <1>4, <2>1 DEF Skipped
  <2>5. SUFFICES ASSUME Clean(Len(received) + 1)
                 PROVE  /\ taken' = Skipped + Len(got')
                        /\ \A i \in 1 .. Len(got') : got'[i] = log[Skipped + i]
                        /\ rpc = "payload" => need = LengthBehind(Len(received))
    BY <1>2, <1>4, <1>5, <2>1, <2>4 DEF ReadsInStep
  <2> QED BY <2>1, <2>2, <2>3, <2>5, GivenInStep
<1>8. CASE ReadLength
  <2>1. /\ rpc = "length" /\ GivesLast /\ rpc' = "payload" /\ need' = LengthOf(Whole)
        /\ got' = <<>> /\ UNCHANGED <<received, torn>>
    BY <1>8 DEF ReadLength
  <2>2. SUFFICES ASSUME Clean(Len(received) + 1)
                 PROVE  /\ taken' = Skipped' + Len(got')
                        /\ \A i \in 1 .. Len(got') : got'[i] = log[Skipped' + i]
                        /\ need' = LengthBehind(Len(received))
    BY <1>2, <1>4, <1>5, <2>1 DEF ReadsInStep
  <2>3. Skipped' = EndOf(Len(received)) + 2
    BY <1>4, <2>1 DEF Skipped
  <2>4. LengthOf(Whole) = LengthBehind(Len(received)) /\ taken' = EndOf(Len(received)) + 2
    BY <2>1, <2>2, LengthInHand
  <2>5. EndOf(Len(received)) \in Nat
    BY <1>1, <2>2, NotOver, Lengths
  <2>6. Len(got') = 0
    BY <2>1
  <2> QED BY <2>1, <2>3, <2>4, <2>5, <2>6
<1>9. CASE ReadEmpty \/ ReadPayload
  <2>1. rpc' = "idle" /\ got' = <<>>
    BY <1>9 DEF ReadEmpty, ReadPayload, ReadReturns
  <2>2. Len(received') = Len(received) + 1
    <3>1. received' = Append(received, <<>>) \/ received' = Append(received, Whole)
      BY <1>9 DEF ReadEmpty, ReadPayload
    <3> QED BY <1>1, <3>1 DEF FramingTypeOK
  <2>3. SUFFICES ASSUME Clean(Len(received) + 2)
                 PROVE  taken' = Skipped' + Len(got')
    <3>1. Clean(Len(received) + 1)' => Clean(Len(received) + 2)
      BY <1>2, <1>3, <2>2 DEF Clean
    <3> QED BY <2>1, <3>1 DEF ReadsInStep
  <2>4. Clean(Len(received) + 1)
    BY <1>1, <1>3, <2>3 DEF Clean, FramingTypeOK
  <2>5. Len(received) < Len(sent) /\ taken' = ends[Len(received) + 1]
    BY <1>9, <2>4, Delivered
  <2>6. Skipped' = ends[Len(received) + 1] + 0
    BY <1>2, <1>3, <2>1, <2>2 DEF Skipped, EndOf
  <2>7. ends[Len(received) + 1] \in Nat
    <3>1. Len(received) + 1 \in 1 .. Len(ends)
      BY <1>1, <1>3, <2>5, Lengths
    <3> QED BY <1>1, <3>1, ElementOfSeq DEF FramingTypeOK
  <2>8. Len(got') = 0
    BY <2>1
  <2> QED BY <2>5, <2>6, <2>7, <2>8
<1>10. ASSUME Len(received) \in torn', received' = received
       PROVE  ReadsInStep'
  <2>1. ~Clean(Len(received) + 1)'
    BY <1>3, <1>10 DEF Clean
  <2> QED BY <2>1 DEF ReadsInStep
<1>11. CASE ReadTooLong
  BY <1>10, <1>11 DEF ReadTooLong
<1>12. CASE ReadFails
  <2>1. ~Readable'
    BY <1>12 DEF ReadFails, Readable
  <2> QED BY <2>1 DEF ReadsInStep
<1>13. CASE GiveUpRead
  <2>1. /\ rpc # "idle" /\ rpc' = "idle" /\ got' = <<>> /\ UNCHANGED <<taken, received>>
    BY <1>13 DEF GiveUpRead, ReadReturns
  <2>2. CASE rpc = "length" /\ got = <<>>
    <3>1. Skipped' = Skipped /\ Readable' = Readable
      BY <1>2, <1>4, <2>1, <2>2 DEF Skipped, Readable
    <3> QED BY <1>5, <2>1, <2>2, <3>1 DEF ReadsInStep
  <2>3. CASE ~(rpc = "length" /\ got = <<>>)
    BY <1>10, <1>13, <2>1, <2>3 DEF GiveUpRead
  <2> QED BY <2>2, <2>3
<1> QED BY <1>6, <1>7, <1>8, <1>9, <1>11, <1>12, <1>13 DEF Reads

\* Only past a tear does more come out than went in.
LEMMA OverTornKept ==
  ASSUME TypeInv, OverTorn, LogHolds, FrontOnly, ReadsInStep, [Next]_vars
  PROVE  OverTorn'
<1>1. FramingTypeOK
  BY DEF TypeInv
<1>2. Len(received) \in Nat /\ Len(sent) \in Nat /\ torn \subseteq Nat
  BY <1>1, Lengths DEF FramingTypeOK
<1>3. torn \subseteq torn'
  BY TornGrows
<1>4. ASSUME Len(sent') \in Nat, Len(sent') >= Len(sent), received' = received
      PROVE  OverTorn'
  BY <1>2, <1>3, <1>4 DEF OverTorn
<1>5. CASE UNCHANGED <<sent, received>>
  BY <1>2, <1>4, <1>5
<1>6. CASE WriteLength \/ WritePayload
  <2>1. received' = received /\ (sent' = sent \/ sent' = Append(sent, frame))
    BY <1>6 DEF WriteLength, WritePayload, TakesLast, Takes
  <2>2. Len(sent') \in Nat /\ Len(sent') >= Len(sent)
    BY <1>1, <1>2, <2>1 DEF FramingTypeOK
  <2> QED BY <1>4, <2>1, <2>2
<1>7. CASE ReadEmpty \/ ReadPayload
  <2>1. sent' = sent
    BY <1>7 DEF ReadEmpty, ReadPayload, GivesLast, Gives
  <2>2. Len(received') = Len(received) + 1
    <3>1. received' = Append(received, <<>>) \/ received' = Append(received, Whole)
      BY <1>7 DEF ReadEmpty, ReadPayload
    <3> QED BY <1>1, <3>1 DEF FramingTypeOK
  <2>3. CASE Clean(Len(received) + 1)
    <3>1. Len(received) < Len(sent)
      BY <1>7, <2>3, Delivered
    <3> QED BY <1>2, <2>1, <2>2, <3>1 DEF OverTorn
  <2>4. CASE ~Clean(Len(received) + 1)
    <3>1. PICK m \in torn : ~(Len(received) + 1 <= m)
      BY <2>4 DEF Clean
    <3>2. m \in torn' /\ m \in Nat /\ m <= Len(received)
      BY <1>2, <1>3, <3>1
    <3> QED BY <1>2, <1>3, <2>1, <2>2, <3>2 DEF OverTorn
  <2> QED BY <2>3, <2>4
<1>8. UNCHANGED vars => UNCHANGED <<sent, received>>
  BY DEF vars
<1>9. \/ \E payload \in Payload : WriteFramed(payload)
      \/ WritePart \/ Flush \/ WriteFails \/ GiveUpWrite
      \/ ReadFramed \/ ReadPart \/ ReadLength \/ ReadTooLong \/ ReadFails \/ GiveUpRead
      \/ Transmit \/ LinkEnds
      => UNCHANGED <<sent, received>>
  BY DEF WriteFramed, WritePart, Takes, Flush, WriteFails, GiveUpWrite, WriteReturns, ReadFramed,
         ReadPart, ReadLength, ReadTooLong, ReadFails, GiveUpRead, Gives, GivesLast, Transmit, LinkEnds
<1> QED BY <1>5, <1>6, <1>7, <1>8, <1>9 DEF Next, Writes, Reads

-----------------------------------------------------------------------------
(* All of it. *)

LEMMA InvInit == Init => FramingInv
<1> SUFFICES ASSUME Init PROVE FramingInv
  OBVIOUS
<1>1. Len(log) = 0 /\ Len(sent) = 0 /\ Len(got) = 0 /\ Len(received) = 0
  BY DEF Init
<1>2. EndOf(Len(sent)) = 0 /\ EndOf(Len(received)) = 0 /\ ~Begun /\ rpc = "idle" /\ taken = 0
  BY <1>1 DEF Init, EndOf, Begun
<1>3. Behind = 0 /\ Skipped = 0
  BY <1>1, <1>2 DEF Behind, Skipped
<1>4. OverTorn /\ LogHolds
  BY <1>1 DEF OverTorn, LogHolds
<1>5. WriterInStep /\ FrontOnly /\ ReadsInStep
  BY <1>1, <1>2, <1>3 DEF WriterInStep, FrontOnly, ReadsInStep
<1> QED BY <1>4, <1>5, TypeInit DEF FramingInv, TypeInv

LEMMA InvKept == FramingInv /\ [Next]_vars => FramingInv'
<1> SUFFICES ASSUME FramingInv, [Next]_vars PROVE FramingInv'
  OBVIOUS
<1>1. TypeInv /\ OverTorn /\ LogHolds /\ WriterInStep /\ FrontOnly /\ ReadsInStep
  BY DEF FramingInv, TypeInv
<1>2. TypeInv'
  BY <1>1, TypeKept
<1>3. OverTorn'
  BY <1>1, OverTornKept
<1>4. torn \subseteq torn'
  BY TornGrows
<1>5. WriterGood /\ ReadsInStep'
  <2>1. CASE (\E payload \in Payload : WriteFramed(payload)) \/ Writes \/ GiveUpWrite
    <3>1. WriterGood
      BY <1>1, <1>2, <2>1, WriterKept
    <3>2. UNCHANGED <<taken, out, link, readerVars, received>>
      BY <2>1 DEF Writes, WriteFramed, WritePart, WriteLength, WritePayload, TakesLast, Takes,
                  Flush, WriteFails, GiveUpWrite, WriteReturns, streamVars
    <3>3. Readable' = Readable
      BY <3>2 DEF Readable
    <3> QED BY <1>1, <1>4, <3>1, <3>2, <3>3, ReaderUndisturbed
  <2>2. CASE ReadFramed \/ Reads \/ GiveUpRead
    <3>1. UNCHANGED <<log, writerVars, sent, ends, link>>
      BY <2>2 DEF Reads, ReadFramed, ReadPart, ReadLength, ReadEmpty, ReadTooLong, ReadPayload,
                  ReadFails, GiveUpRead, Gives, GivesLast, streamVars
    <3> QED BY <1>1, <1>2, <1>4, <2>2, <3>1, WriterUndisturbed, ReaderKept
  <2>3. CASE Transmit \/ LinkEnds \/ UNCHANGED vars
    <3>1. /\ UNCHANGED <<log, writerVars, sent, ends, taken, readerVars, received>>
          /\ (link = "up")' => link = "up"
      BY <2>3 DEF Transmit, LinkEnds, vars, streamVars
    <3>2. WriterGood
      BY <1>1, <1>2, <1>4, <3>1, WriterUndisturbed
    <3>3. Readable' => Readable
      <4>1. CASE Transmit
        BY <4>1 DEF Transmit, Readable
      <4>2. CASE LinkEnds
        BY <4>2 DEF LinkEnds, Readable
      <4>3. CASE UNCHANGED vars
        BY <4>3 DEF vars, streamVars, Readable
      <4> QED BY <2>3, <4>1, <4>2, <4>3
    <3> QED BY <1>1, <1>4, <3>1, <3>2, <3>3, ReaderUndisturbed
  <2> QED BY <2>1, <2>2, <2>3 DEF Next
<1> QED BY <1>2, <1>3, <1>5 DEF FramingInv, TypeInv, WriterGood

\* The whole invariant: as far as nothing is torn, the log is the frames sent,
\* and the reader is inside the one after those received.
THEOREM FramingInvariantHolds == Spec => []FramingInv
BY InvInit, InvKept, PTL DEF Spec

\* Whatever was given up between frames, and however the transport cuts them,
\* a reader that is idle is at the first byte of a frame.
THEOREM ReaderStaysInStep == Spec => []ReaderInStep
<1>1. FramingInv => ReaderInStep
  <2> SUFFICES ASSUME FramingInv, torn = {}, rpc = "idle", link = "up"
               PROVE  Len(received) <= Len(sent) /\ taken = EndOf(Len(received))
    BY DEF ReaderInStep
  <2>1. Readable /\ Clean(Len(received) + 1) /\ FramingTypeOK /\ OverTorn
    BY DEF FramingInv, Readable, Clean
  <2>2. Len(got) = 0
    BY DEF FramingInv, FuturesFit
  <2>3. Len(received) <= Len(sent) /\ EndOf(Len(received)) \in Nat
    BY <2>1, NotOver, Lengths
  <2> QED BY <2>1, <2>2, <2>3 DEF FramingInv, ReadsInStep, Skipped
<1> QED BY <1>1, FramingInvariantHolds, PTL

-----------------------------------------------------------------------------
(* Framing implements FrameChannel. *)

\* Every step is a step of the channel of frames or none.
LEMMA ChannelStep == FramingInv /\ [Next]_vars => [C!Next]_(C!vars)
<1> SUFFICES ASSUME FramingInv, [Next]_vars PROVE [C!Next]_(C!vars)
  OBVIOUS
<1>1. TypeInv /\ OverTorn /\ LogHolds /\ WriterInStep /\ FrontOnly /\ ReadsInStep
      /\ FramingTypeOK
  BY DEF FramingInv, TypeInv
<1>2. Len(received) \in Nat /\ Len(sent) \in Nat /\ torn \subseteq Nat
  BY <1>1, Lengths DEF FramingTypeOK
<1>3. UNCHANGED <<sent, received, torn>> => UNCHANGED C!vars
  BY DEF C!vars
<1>4. \/ \E payload \in Payload : WriteFramed(payload)
      \/ WritePart \/ Flush \/ WriteFails
      \/ ReadFramed \/ ReadPart \/ ReadLength \/ ReadFails
      \/ Transmit \/ LinkEnds \/ UNCHANGED vars
      => UNCHANGED <<sent, received, torn>>
  BY DEF WriteFramed, WritePart, Takes, Flush, WriteFails, WriteReturns, ReadFramed, ReadPart,
         ReadLength, ReadFails, Gives, GivesLast, Transmit, LinkEnds, vars
<1>5. CASE WriteLength \/ WritePayload
  <2>1. CASE TakesLast
    <3>1. frame \in Payload
      BY <1>1, <1>5 DEF WriteLength, WritePayload, TypeInv, FuturesFit, Begun
    <3>2. C!Send(frame)
      BY <2>1 DEF TakesLast, Takes, C!Send
    <3> QED BY <3>1, <3>2 DEF C!Next
  <2>2. CASE ~TakesLast
    <3>1. UNCHANGED <<sent, received, torn>>
      BY <1>5, <2>2 DEF WriteLength, WritePayload, Takes
    <3> QED BY <1>3, <3>1
  <2> QED BY <2>1, <2>2
<1>6. ASSUME UNCHANGED <<sent, received>>, NEW n \in Nat, torn' \in {torn, torn \cup {n}},
             n >= Len(received) \/ \E m \in torn : m <= n
      PROVE  C!Next
  BY <1>6 DEF C!Next, C!Tear
<1>7. CASE GiveUpWrite
  <2>1. UNCHANGED <<sent, received>> /\ torn' \in {torn, torn \cup {Len(sent)}}
    BY <1>7 DEF GiveUpWrite, WriteReturns
  <2>2. Len(sent) >= Len(received) \/ \E m \in torn : m <= Len(sent)
    BY <1>1, <1>2 DEF OverTorn
  <2> QED BY <1>2, <1>6, <2>1, <2>2
<1>8. CASE ReadTooLong \/ GiveUpRead
  <2>1. UNCHANGED <<sent, received>> /\ torn' \in {torn, torn \cup {Len(received)}}
    BY <1>8 DEF ReadTooLong, GiveUpRead, GivesLast, Gives
  <2> QED BY <1>2, <1>6, <2>1
<1>9. CASE ReadEmpty \/ ReadPayload
  <2>1. UNCHANGED <<sent, torn>>
    BY <1>9 DEF ReadEmpty, ReadPayload, GivesLast, Gives
  <2>2. CASE Clean(Len(received) + 1)
    <3>1. Len(received) < Len(sent) /\ received' = Append(received, sent[Len(received) + 1])
      BY <1>1, <1>9, <2>2, Delivered
    <3>2. \A n \in torn : Len(received) < n
      BY <1>2, <2>2 DEF Clean
    <3>3. C!Deliver
      BY <2>1, <3>1, <3>2 DEF C!Deliver
    <3> QED BY <3>3 DEF C!Next
  <2>3. CASE ~Clean(Len(received) + 1)
    <3>1. \E n \in torn : n <= Len(received)
      BY <1>2, <2>3 DEF Clean
    <3>2. Len(received') = Len(received) + 1 /\ SubSeq(received', 1, Len(received)) = received
      <4> DEFINE S == Seq(Byte)
      <4>1. PICK payload \in S : received' = Append(received, payload)
        <5>1. <<>> \in S
          BY EmptySeq
        <5>2. CASE ReadEmpty
          BY <5>1, <5>2 DEF ReadEmpty
        <5>3. CASE ReadPayload
          <6>1. need - Len(got) \in Nat /\ taken + (need - Len(got)) <= out
            BY <1>1, <5>3, Lengths DEF ReadPayload, TypeInv, FuturesFit, GivesLast, Gives
          <6>2. Whole \in S
            BY <1>1, <6>1, Given DEF Whole
          <6> QED BY <5>3, <6>2 DEF ReadPayload
        <5> QED BY <1>9, <5>2, <5>3
      <4>2. received \in Seq(S)
        BY <1>1 DEF FramingTypeOK
      <4> HIDE DEF S
      <4>3. Len(received') = Len(received) + 1 /\ received' \in Seq(S)
            /\ \A i \in 1 .. Len(received) : received'[i] = received[i]
        BY <4>1, <4>2, AppendProperties
      <4>4. \A i \in 1 .. Len(received) : received'[i] \in S
        BY <4>2, <4>3, ElementOfSeq
      <4>5. /\ SubSeq(received', 1, Len(received)) \in Seq(S)
            /\ Len(SubSeq(received', 1, Len(received))) = Len(received)
            /\ \A i \in 1 .. Len(received) :
                 SubSeq(received', 1, Len(received))[i] = received[i]
        <5>1. 0 + 1 = 1 /\ 0 + Len(received) = Len(received) /\ 0 + Len(received) <= Len(received')
          BY <1>2, <4>3
        <5>2. /\ SubSeq(received', 0 + 1, 0 + Len(received)) \in Seq(S)
              /\ Len(SubSeq(received', 0 + 1, 0 + Len(received))) = Len(received)
              /\ \A i \in 1 .. Len(received) :
                   SubSeq(received', 0 + 1, 0 + Len(received))[i] = received'[0 + i]
          BY <1>2, <4>3, <5>1, Middle
        <5>3. \A i \in 1 .. Len(received) : received'[0 + i] = received[i]
          BY <1>2, <4>3
        <5> QED BY <5>1, <5>2, <5>3
      <4> QED BY <4>2, <4>3, <4>5, SeqEqual
    <3>3. C!Scramble
      BY <2>1, <3>1, <3>2 DEF C!Scramble
    <3> QED BY <3>3 DEF C!Next
  <2> QED BY <2>2, <2>3
<1> QED BY <1>3, <1>4, <1>5, <1>7, <1>8, <1>9 DEF Next, Writes, Reads

\* write_framed and read_framed are a channel of whole frames until one is
\* given up in the middle.
THEOREM FramingIsAChannel == Spec => ChannelSpec
<1>1. Init => C!Init
  BY DEF Init, C!Init
<1> QED BY <1>1, ChannelStep, FramingInvariantHolds, PTL DEF Spec, ChannelSpec, C!Spec

=============================================================================
