-------------------------------- MODULE Bytes --------------------------------
(***************************************************************************)
(* Numbers as bytes: to_le_bytes, from_le_bytes and from_be_bytes, and     *)
(* request_id_be_bytes and object_id_be_bytes of src/protocol.rs.          *)
(***************************************************************************)
EXTENDS Naturals, Sequences

Byte  == 0 .. 255
Short == {256 * high + low : high \in Byte, low \in Byte}

Stale == 256    \* what an earlier message left in a buffer

Le16(n) == <<n % 256, (n \div 256) % 256>>
Le32(n) == <<n % 256, (n \div 256) % 256, ((n \div 256) \div 256) % 256,
             (((n \div 256) \div 256) \div 256) % 256>>

\* What a u32 holds.
Fits32(n) == ((n \div 256) \div 256) \div 256 \in Byte

FromLe16(b) == b[1] + 256 * b[2]
FromLe32(b) == b[1] + 256 * (b[2] + 256 * (b[3] + 256 * b[4]))

Be16(n)     == <<(n \div 256) % 256, n % 256>>
FromBe16(b) == 256 * b[1] + b[2]

Least(m, n) == IF m <= n THEN m ELSE n

\* Bytes up to the next multiple of n.
Padding(pos, n) == (n - (pos % n)) % n

=============================================================================
