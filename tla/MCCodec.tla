------------------------------- MODULE MCCodec -------------------------------
(***************************************************************************)
(* Values for model checking Codec.                                        *)
(***************************************************************************)
EXTENDS CodecProperties, Messages

\* A field of every kind and alignment, and the type it is read as.
SmallFields ==
  {<<Scalar(1, <<7>>), ScalarType(1)>>,
   <<Scalar(4, Value(4, 1)), ScalarType(4)>>,
   <<Scalar(8, Value(8, 3)), ScalarType(8)>>,
   <<F64s(Values(6, 2)), F64sType(2)>>,
   <<Str(<<>>), StrType>>,
   <<Str(Text(2)), OwnedType(2)>>,
   <<Str(Text(3)), OwnedType(2)>>,
   <<StrZero, StrType>>}

\* Every message of up to three of these.
SmallMessages ==
  {[fields |-> [i \in DOMAIN picks |-> picks[i][1]],
    types  |-> [i \in DOMAIN picks |-> picks[i][2]],
    max    |-> 72] : picks \in UNION {[1 .. n -> SmallFields] : n \in 1 .. 3}}

\* The types of the crate, with strings up to what tx_buf just fits.
CrateMessages ==
  {Float32Msg, Int32Msg, Twist, RangeMsg, Imu}
    \cup {StringMsg(n) : n \in {0, 1, 64, 65, 747, 748, 751}}

Messages == SmallMessages \cup CrateMessages

\* TX_BUF_SIZE less the headers, 12 bytes or 16 with the client key.
CrateSlots == {752, 756}

\* ... and ends of the slot anywhere in a message.
AllSlots == {0, 3, 4, 5, 8, 10, 14, 17, 24, 72} \cup CrateSlots

\* Strings that are longer than the slot by no more than their null, and by more.
LongMessages == {StringMsg(n) : n \in 745 .. 755}

=============================================================================
