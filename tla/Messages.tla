------------------------------ MODULE Messages ------------------------------
(***************************************************************************)
(* The message types of the crate (src/ros2/msg): of each the fields that  *)
(* serialize writes, the fields that deserialize reads, which the code     *)
(* lists apart, and MAX_SERIALIZED_SIZE.                                   *)
(***************************************************************************)
EXTENDS Cdr

CONSTANT StringMax    \* STRING_INLINE_MAX, the default N of StringOwned<N>

\* Different bytes for the scalars of a message: the k-th of width n.
Value(n, k) == [i \in 1 .. n |-> (8 * k + i) % 128]

Values(from, count) == [k \in 1 .. count |-> Value(8, from + k)]

\* A string of n characters.
Text(n) == [i \in 1 .. n |-> 97 + (i % 26)]

ScalarTypes(n, count) == [k \in 1 .. count |-> ScalarType(n)]

-----------------------------------------------------------------------------
(* std_msgs *)

Float32Msg == [fields |-> <<Scalar(4, Value(4, 1))>>, types |-> <<ScalarType(4)>>, max |-> 4]
Int32Msg   == [fields |-> <<Scalar(4, Value(4, 2))>>, types |-> <<ScalarType(4)>>, max |-> 4]

\* String of n bytes, which the subscriber reads as StringOwned.
StringMsg(n) == [fields |-> <<Str(Text(n))>>,
                 types  |-> <<OwnedType(StringMax)>>,
                 max    |-> 4 + StringMax + 1]

WriteTime(sec, nanosec) == <<Scalar(4, sec), Scalar(4, nanosec)>>

WriteHeaderZero == WriteTime(Le32(0), Le32(0)) \o <<Str(<<>>)>>

ReadHeader == <<ScalarType(4), ScalarType(4), StrType>>

-----------------------------------------------------------------------------
(* geometry_msgs *)

Vector3(from) == [k \in 1 .. 3 |-> Scalar(8, Value(8, from + k))]

Twist == [fields |-> Vector3(0) \o Vector3(3),
          types  |-> ScalarTypes(8, 3) \o ScalarTypes(8, 3),
          max    |-> 48]

-----------------------------------------------------------------------------
(* sensor_msgs *)

\* Mutant: variance is not read.
RangeMsgShort ==
  [fields |-> WriteHeaderZero \o <<Scalar(1, <<1>>)>>
                \o [k \in 1 .. 5 |-> Scalar(4, Value(4, k))],
   types  |-> ReadHeader \o <<ScalarType(1)>> \o ScalarTypes(4, 4),
   max    |-> 48]

RangeMsg ==
  [fields |-> WriteHeaderZero \o <<Scalar(1, <<1>>)>>
                \o [k \in 1 .. 5 |-> Scalar(4, Value(4, k))],
   types  |-> ReadHeader \o <<ScalarType(1)>> \o ScalarTypes(4, 5),
   max    |-> 48]

\* Where the six arrays of f64 begin, and their lengths.
ImuArrays == <<<<0, 4>>, <<4, 9>>, <<13, 3>>, <<16, 9>>, <<25, 3>>, <<28, 9>>>>

Imu ==
  [fields |-> WriteHeaderZero
                \o [i \in 1 .. 6 |-> F64s(Values(ImuArrays[i][1], ImuArrays[i][2]))],
   types  |-> ReadHeader \o [i \in 1 .. 6 |-> F64sType(ImuArrays[i][2])],
   max    |-> 320]

=============================================================================
