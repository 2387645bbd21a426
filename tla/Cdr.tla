--------------------------------- MODULE Cdr ---------------------------------
(***************************************************************************)
(* The typed methods of CdrWriter and CdrReader (src/cdr.rs,               *)
(* src/cdr_reader.rs), each as the uses it makes of their private helpers: *)
(* align and raw of the writer, align and take of the reader.  Codec       *)
(* executes the helpers one by one.  A scalar is the sequence of its       *)
(* little-endian bytes, whatever it stands for.                            *)
(***************************************************************************)
EXTENDS Bytes

-----------------------------------------------------------------------------
(* A field to write, and a type to read. *)

Scalar(width, bytes) == [kind |-> "scalar", width |-> width, pieces |-> <<bytes>>]
F64s(pieces)         == [kind |-> "f64s", width |-> 8, pieces |-> pieces]
Str(bytes)           == [kind |-> "string", width |-> 1, pieces |-> <<bytes>>]

\* An empty string as a writer that is not of this crate may send it, with
\* length 0 and no null (external).
StrZero == [kind |-> "zero", width |-> 1, pieces |-> <<<<>>>>]

\* n is the width of a scalar, the length of an array, the capacity of the
\* heapless::String that a string is copied to.
ScalarType(n) == [kind |-> "scalar", n |-> n]
F64sType(n)   == [kind |-> "f64s", n |-> n]
StrType       == [kind |-> "string", n |-> 0]
OwnedType(n)  == [kind |-> "owned", n |-> n]

\* What deserialize may ask for.
Type == [kind: {"scalar"}, n: {1, 4, 8}] \cup [kind: {"f64s", "string", "owned"}, n: Nat]

-----------------------------------------------------------------------------
(* The writer. *)

Align(n)   == [op |-> "align", n |-> n, bytes |-> <<>>]
Raw(bytes) == [op |-> "raw", n |-> Len(bytes), bytes |-> bytes]

WriteScalar(field) ==
  IF field.width = 1 THEN <<Raw(field.pieces[1])>>
                     ELSE <<Align(field.width), Raw(field.pieces[1])>>

\* f64_array and f64_slice align once.
WriteF64s(field) == <<Align(8)>> \o [i \in DOMAIN field.pieces |-> Raw(field.pieces[i])]

\* The length counts the null that ends the string.
WriteString(field) ==
  <<Align(4), Raw(Le32(Len(field.pieces[1]) + 1)), Raw(field.pieces[1]), Raw(<<0>>)>>

Writes(field) ==
  CASE field.kind = "scalar" -> WriteScalar(field)
    [] field.kind = "f64s"   -> WriteF64s(field)
    [] field.kind = "string" -> WriteString(field)
    [] field.kind = "zero"   -> <<Align(4), Raw(Le32(0))>>

-----------------------------------------------------------------------------
(* The reader: "length" takes the u32 of a string, "bytes" and "null" the  *)
(* rest, and "push" copies it to a heapless::String.                       *)

AlignTo(n) == [op |-> "align", n |-> n]
Take(n)    == [op |-> "take", n |-> n]
TakeLength == [op |-> "length", n |-> 4]
TakeBytes  == [op |-> "bytes", n |-> 0]
TakeNull   == [op |-> "null", n |-> 1]
Push(n)    == [op |-> "push", n |-> n]

ReadScalar(type) ==
  IF type.n = 1 THEN <<Take(1)>> ELSE <<AlignTo(type.n), Take(type.n)>>

\* f64_array aligns, and so does f64_val for every element.
ReadF64s(type) ==
  <<AlignTo(8)>> \o [i \in 1 .. 2 * type.n |-> IF i % 2 = 1 THEN AlignTo(8) ELSE Take(8)]

ReadString == <<AlignTo(4), TakeLength, TakeBytes, TakeNull>>

Reads(type) ==
  CASE type.kind = "scalar" -> ReadScalar(type)
    [] type.kind = "f64s"   -> ReadF64s(type)
    [] type.kind = "string" -> ReadString
    [] type.kind = "owned"  -> ReadString \o <<Push(type.n)>>

=============================================================================
