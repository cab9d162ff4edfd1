----------------------------- MODULE ByteReader ------------------------------
(***************************************************************************)
(* A ByteStream that is being read, and what integers look like in one     *)
(* (Chat/util/byte_stream.cpp, Chat/util/byte_stream.h).                   *)
(*                                                                         *)
(* A stream is a record of its buffer, the bytes of which are numbered     *)
(* from 0, its length and its offset. The widest integers take 8 bytes;    *)
(* of their values those are modelled that an int32_t can hold.            *)
(***************************************************************************)
EXTENDS Integers, Sequences

\* ByteStream(buf, length): a copy of the bytes, to be read from the start.
FromBytes(bytes) ==
  [buffer |-> [i \in 0 .. Len(bytes) - 1 |-> bytes[i + 1]],
   length |-> Len(bytes), offset |-> 0]

\* ByteStream(b): a copy of another stream, to be read from the start. resetPtr
\* does the same to the stream itself.
CopyOf(buffer, length) == [buffer |-> buffer, length |-> length, offset |-> 0]

end(s) == s.offset = s.length

Fits(s, n) == s.offset + n <= s.length

\* The next n bytes.
BytesAt(s, n) == [i \in 1 .. n |-> s.buffer[s.offset + i - 1]]

\* Of n bytes, peek gives those that are there; when there are too few it
\* subtracts what is left from what is asked for.
Peek(s, n) == BytesAt(s, IF Fits(s, n) THEN n ELSE n - (s.length - s.offset))

-----------------------------------------------------------------------------
(* Integers: readByte to readUInt64, writeByte to writeUInt64.             *)

Width ==
  [byte |-> 1, int8 |-> 1, int16 |-> 2, int32 |-> 4, int64 |-> 8,
   uint8 |-> 1, uint16 |-> 2, uint32 |-> 4, uint64 |-> 8]

Signed == {"byte", "int8", "int16", "int32", "int64"}

\* The bytes of n in memory, the least significant one first.
Represent(n, width) ==
  [i \in 1 .. width |-> IF i <= 4 THEN (n \div 256 ^ (i - 1)) % 256
                        ELSE IF n < 0 THEN 255 ELSE 0]

\* The integer that is in these bytes.
Number(bytes, signed) ==
  LET last == IF Len(bytes) < 4 THEN Len(bytes) ELSE 4
      negative == signed /\ bytes[Len(bytes)] >= 128
      digit(i) == IF i = last /\ negative THEN bytes[i] - 256 ELSE bytes[i]
      weight(i) == IF i <= last THEN digit(i) * 256 ^ (i - 1) ELSE 0
  IN weight(1) + weight(2) + weight(3) + weight(4)
=============================================================================
