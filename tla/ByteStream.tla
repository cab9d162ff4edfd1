----------------------------- MODULE ByteStream ------------------------------
(***************************************************************************)
(* A ByteStream that is being written: the buffer, which doubles when it   *)
(* is full, and the position of the next byte (Chat/util/byte_stream.cpp). *)
(*                                                                         *)
(* One call of write is three kinds of step: it adds to the length, grows  *)
(* the buffer as often as that takes, and copies the data in. Every other  *)
(* write method of the class is this one with the bytes of an integer or a *)
(* string.                                                                 *)
(***************************************************************************)
EXTENDS Naturals, Sequences

CONSTANTS
  Byte,           \* the values of a byte
  Junk,           \* what memory holds that nobody has written
  INIT_CAPACITY,  \* of a stream that is created empty
  Word,           \* unsigned int holds the numbers below this one
  Chunks,         \* what write may be given
  MaxLength       \* bound of the model: bytes written to one stream

ASSUME StreamAssumption ==
  /\ INIT_CAPACITY \in Nat \ {0} /\ INIT_CAPACITY < Word
  /\ MaxLength \in Nat /\ 2 * MaxLength < Word
  /\ Word \in Nat
  /\ Junk \notin Byte
  /\ Chunks \subseteq Seq(Byte)

VARIABLES
  m_buffer,    \* the memory behind the pointer, byte by byte
  m_capacity,
  m_length,
  m_offset,
  writing,     \* is a call of write under way?
  data,        \* what the latest one was given
  written,     \* everything that write was given, in order
  overread     \* has a copy gone beyond the memory it copies from?

streamVars ==
  <<m_buffer, m_capacity, m_length, m_offset, writing, data, written, overread>>

\* Addition of unsigned int.
Wrap(n) == IF n < Word THEN n ELSE n - Word

\* The bytes of a string are numbered from 1, those of the buffer from 0.
BufferOf(capacity) == [0 .. capacity - 1 -> Byte \cup {Junk}]

StreamInit ==
  /\ m_capacity = INIT_CAPACITY
  /\ m_buffer = [i \in 0 .. INIT_CAPACITY - 1 |-> Junk]
  /\ m_length = 0
  /\ m_offset = 0
  /\ writing = FALSE
  /\ data = <<>>
  /\ written = <<>>
  /\ overread = FALSE

\* Mistake: the length of the stream becomes that of the bytes.
Write_SetsLength(bytes) ==
  /\ ~writing
  /\ Len(written) + Len(bytes) <= MaxLength
  /\ writing' = TRUE
  /\ data' = bytes
  /\ m_length' = Len(bytes)
  /\ UNCHANGED <<m_buffer, m_capacity, m_offset, written, overread>>

\* write(bytes): the length is the new one from here on ...
Write(bytes) ==
  /\ ~writing
  /\ Len(written) + Len(bytes) <= MaxLength
  /\ writing' = TRUE
  /\ data' = bytes
  /\ m_length' = Wrap(m_length + Len(bytes))
  /\ UNCHANGED <<m_buffer, m_capacity, m_offset, written, overread>>

\* Mistakes: the old bytes are left behind; the new capacity is not recorded.
Resize_Forgets ==
  /\ writing
  /\ m_length >= m_capacity
  /\ m_capacity' = Wrap(m_capacity + m_capacity)
  /\ m_buffer' = [i \in 0 .. m_capacity' - 1 |-> Junk]
  /\ overread' = TRUE
  /\ UNCHANGED <<m_length, m_offset, writing, data, written>>

Resize_Unrecorded ==
  /\ writing
  /\ m_length >= m_capacity
  /\ UNCHANGED streamVars

\* ... the buffer doubles while it is no longer than that: as many bytes are
\* copied as the new one has, although the old one has half of them ...
Resize ==
  /\ writing
  /\ m_length >= m_capacity
  /\ m_capacity' = Wrap(m_capacity + m_capacity)
  /\ m_buffer' = [i \in 0 .. m_capacity' - 1 |->
                    IF i \in DOMAIN m_buffer THEN m_buffer[i] ELSE Junk]
  /\ overread' = (overread \/ m_capacity' > m_capacity)
  /\ UNCHANGED <<m_length, m_offset, writing, data, written>>

\* Mistake: the bytes are copied whether or not there is room for them.
Copy_Unchecked ==
  /\ writing
  /\ m_buffer' = [i \in DOMAIN m_buffer \cup m_offset .. m_offset + Len(data) - 1 |->
                    IF i \in m_offset .. m_offset + Len(data) - 1
                    THEN data[i - m_offset + 1] ELSE m_buffer[i]]
  /\ m_offset' = Wrap(m_offset + Len(data))
  /\ writing' = FALSE
  /\ written' = written \o data
  /\ UNCHANGED <<m_capacity, m_length, data, overread>>

\* ... and the bytes go where the offset is.
Copy ==
  /\ writing
  /\ m_length < m_capacity
  /\ m_buffer' = [i \in DOMAIN m_buffer |->
                    IF i \in m_offset .. m_offset + Len(data) - 1
                    THEN data[i - m_offset + 1] ELSE m_buffer[i]]
  /\ m_offset' = Wrap(m_offset + Len(data))
  /\ writing' = FALSE
  /\ written' = written \o data
  /\ UNCHANGED <<m_capacity, m_length, data, overread>>

\* The string a stream is sent as.
getBuf == [i \in 1 .. m_length |-> m_buffer[i - 1]]

-----------------------------------------------------------------------------
(* The stream by itself: it is given any chunks in any number of writes.   *)

StreamNext == (\E bytes \in Chunks : Write(bytes)) \/ Resize \/ Copy

StreamSpec == StreamInit /\ [][StreamNext]_streamVars

StreamTypeOK ==
  /\ m_capacity \in 0 .. Word - 1
  /\ m_buffer \in BufferOf(m_capacity)
  /\ m_length \in 0 .. Word - 1
  /\ m_offset \in 0 .. Word - 1
  /\ writing \in BOOLEAN
  /\ data \in Seq(Byte)
  /\ written \in Seq(Byte)
  /\ overread \in BOOLEAN

\* Between two writes the stream holds what was written, all of it and in
\* order, however often the buffer has grown (ByteStream::write, getBuf).
HoldsWhatWasWritten == ~writing => getBuf = written

\* When the bytes are copied the buffer has room for them.
CopiesWithinBuffer ==
  writing /\ m_length < m_capacity => m_offset + Len(data) <= m_capacity

\* Every write comes to an end: the buffer outgrows the length before the
\* capacity wraps around to 0 and doubling it is of no use any more.
WritesEnd == writing ~> ~writing

\* Growing copies only memory the old buffer had.
CopiesOwnMemory == ~overread

\* An inductive invariant, from which the two that follow from the code's own
\* variables are proved: the length counts what was written and what is being
\* written, and the bytes written so far are at the start of the buffer.
StreamInv ==
  /\ StreamTypeOK
  /\ m_capacity > 0
  /\ m_capacity <= INIT_CAPACITY \/ m_capacity <= 2 * MaxLength
  /\ m_offset = Len(written)
  /\ m_length = Len(written) + (IF writing THEN Len(data) ELSE 0)
  /\ m_length <= MaxLength
  /\ ~writing => m_length < m_capacity
  /\ Len(written) < m_capacity
  /\ \A i \in 1 .. Len(written) : m_buffer[i - 1] = written[i]
=============================================================================
