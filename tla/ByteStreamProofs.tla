-------------------------- MODULE ByteStreamProofs ---------------------------
(***************************************************************************)
(* What is proved of ByteStream for any bytes, any initial capacity and    *)
(* any sequence of writes that stays below half of what an unsigned int    *)
(* can count.                                                              *)
(***************************************************************************)
EXTENDS ByteStream, SequenceTheorems, TLAPS

\* The stream starts empty, with room for at least one byte.
LEMMA StreamInitInv == StreamInit => StreamInv
<1> SUFFICES ASSUME StreamInit PROVE StreamInv
  OBVIOUS
<1>1. /\ INIT_CAPACITY \in Nat /\ INIT_CAPACITY > 0 /\ INIT_CAPACITY < Word
      /\ Word \in Nat /\ MaxLength \in Nat
  BY StreamAssumption
<1>2. <<>> \in Seq(Byte) /\ Len(<<>>) = 0
  OBVIOUS
<1>3. StreamTypeOK
  <2>1. m_buffer \in BufferOf(m_capacity)
    BY <1>1 DEF StreamInit, BufferOf
  <2>2. m_capacity \in 0 .. Word - 1 /\ 0 \in 0 .. Word - 1
    BY <1>1 DEF StreamInit
  <2>3. QED BY <1>2, <2>1, <2>2 DEF StreamInit, StreamTypeOK
<1>4. QED BY <1>1, <1>2, <1>3 DEF StreamInit, StreamInv

\* A call of write begins: the length may exceed the capacity for a while.
LEMMA WriteInv ==
  ASSUME StreamInv, NEW bytes \in Seq(Byte), Write(bytes)
  PROVE  StreamInv'
<1>1. bytes \in Seq(Byte) /\ Len(bytes) \in Nat /\ Len(written) \in Nat
  BY DEF StreamInv, StreamTypeOK
<1>2. Word \in Nat /\ MaxLength \in Nat /\ 2 * MaxLength < Word
  BY StreamAssumption
<1>3. /\ ~writing /\ writing' = TRUE /\ data' = bytes
      /\ m_length' = Wrap(m_length + Len(bytes))
      /\ Len(written) + Len(bytes) <= MaxLength
      /\ UNCHANGED <<m_buffer, m_capacity, m_offset, written, overread>>
  BY DEF Write
<1>4. m_length' = Len(written) + Len(bytes)
  BY <1>1, <1>2, <1>3 DEF StreamInv, Wrap
<1>5. StreamTypeOK'
  BY <1>1, <1>2, <1>3, <1>4 DEF StreamInv, StreamTypeOK, BufferOf
<1>6. QED BY <1>1, <1>2, <1>3, <1>4, <1>5 DEF StreamInv

\* The buffer doubles and keeps its bytes. Its capacity does not wrap around:
\* it was no more than a length that is below half of Word.
LEMMA ResizeInv ==
  ASSUME StreamInv, Resize
  PROVE  StreamInv'
<1>1. /\ writing /\ m_length >= m_capacity
      /\ m_capacity' = Wrap(m_capacity + m_capacity)
      /\ m_buffer' = [i \in 0 .. m_capacity' - 1 |->
                        IF i \in DOMAIN m_buffer THEN m_buffer[i] ELSE Junk]
      /\ overread' \in BOOLEAN
      /\ UNCHANGED <<m_length, m_offset, writing, data, written>>
  BY DEF Resize, StreamInv, StreamTypeOK
<1>2. Word \in Nat /\ MaxLength \in Nat /\ 2 * MaxLength < Word
  BY StreamAssumption
<1>3. /\ m_capacity \in Nat /\ m_capacity > 0
      /\ m_length \in Nat /\ m_length <= MaxLength
      /\ Len(written) \in Nat /\ Len(written) < m_capacity
      /\ m_buffer \in BufferOf(m_capacity)
  BY <1>2 DEF StreamInv, StreamTypeOK
<1>4. /\ m_capacity' = m_capacity + m_capacity
      /\ m_capacity' <= 2 * MaxLength
      /\ m_capacity' \in 0 .. Word - 1
  BY <1>1, <1>2, <1>3 DEF Wrap
<1>5. m_buffer' \in BufferOf(m_capacity')
  BY <1>1, <1>3, <1>4 DEF BufferOf
<1>6. \A i \in 1 .. Len(written) : m_buffer'[i - 1] = written[i]
  <2>1. \A i \in 1 .. Len(written) : i - 1 \in DOMAIN m_buffer /\ i - 1 \in 0 .. m_capacity' - 1
    BY <1>3, <1>4 DEF BufferOf
  <2>2. QED BY <1>1, <2>1 DEF StreamInv
<1>7. StreamTypeOK'
  BY <1>1, <1>4, <1>5 DEF StreamInv, StreamTypeOK
<1>8. QED BY <1>1, <1>3, <1>4, <1>6, <1>7 DEF StreamInv

\* The bytes are copied behind those that are there.
LEMMA CopyInv ==
  ASSUME StreamInv, Copy
  PROVE  StreamInv'
<1>1. /\ writing /\ m_length < m_capacity /\ writing' = FALSE
      /\ m_buffer' = [i \in DOMAIN m_buffer |->
                        IF i \in m_offset .. m_offset + Len(data) - 1
                        THEN data[i - m_offset + 1] ELSE m_buffer[i]]
      /\ m_offset' = Wrap(m_offset + Len(data))
      /\ written' = written \o data
      /\ UNCHANGED <<m_capacity, m_length, data, overread>>
  BY DEF Copy
<1>2. /\ m_capacity \in Nat /\ m_capacity < Word /\ Word \in Nat
      /\ Len(written) \in Nat /\ Len(data) \in Nat
      /\ data \in Seq(Byte) /\ written \in Seq(Byte)
      /\ m_offset = Len(written) /\ m_length = Len(written) + Len(data)
      /\ m_buffer \in BufferOf(m_capacity)
  BY <1>1, StreamAssumption DEF StreamInv, StreamTypeOK
<1>3. /\ written' \in Seq(Byte)
      /\ Len(written') = Len(written) + Len(data)
      /\ \A i \in 1 .. Len(written) : written'[i] = written[i]
      /\ \A i \in Len(written) + 1 .. Len(written) + Len(data) :
           written'[i] = data[i - Len(written)]
  BY <1>1, <1>2
<1>4. m_offset' = Len(written')
  BY <1>1, <1>2, <1>3 DEF Wrap
<1>5. m_buffer' \in BufferOf(m_capacity)
  <2>1. \A i \in m_offset .. m_offset + Len(data) - 1 : data[i - m_offset + 1] \in Byte
    BY <1>2
  <2>2. QED BY <1>1, <1>2, <2>1 DEF BufferOf
<1>6. \A i \in 1 .. Len(written') : m_buffer'[i - 1] = written'[i]
  <2>1. ASSUME NEW i \in 1 .. Len(written')
        PROVE  m_buffer'[i - 1] = written'[i]
    <3>1. i \in Int /\ i - 1 \in DOMAIN m_buffer
      BY <1>1, <1>2, <1>3 DEF BufferOf
    <3>2. CASE i <= Len(written)
      <4>1. i - 1 \notin m_offset .. m_offset + Len(data) - 1
        BY <1>2, <3>1, <3>2
      <4>2. m_buffer[i - 1] = written[i]
        BY <1>2, <3>1, <3>2 DEF StreamInv
      <4>3. QED BY <1>1, <1>2, <1>3, <3>1, <3>2, <4>1, <4>2
    <3>3. CASE i > Len(written)
      <4>1. i - 1 \in m_offset .. m_offset + Len(data) - 1
        BY <1>2, <1>3, <3>1, <3>3
      <4>2. (i - 1) - m_offset + 1 = i - Len(written)
        BY <1>2, <3>1
      <4>3. QED BY <1>1, <1>2, <1>3, <3>1, <3>3, <4>1, <4>2
    <3>4. QED BY <1>2, <3>1, <3>2, <3>3
  <2>2. QED BY <2>1
<1>7. StreamTypeOK'
  BY <1>1, <1>2, <1>3, <1>4, <1>5 DEF StreamInv, StreamTypeOK
<1>8. QED BY <1>1, <1>2, <1>3, <1>4, <1>6, <1>7 DEF StreamInv

LEMMA StreamNextInv == StreamInv /\ [StreamNext]_streamVars => StreamInv'
<1> SUFFICES ASSUME StreamInv, [StreamNext]_streamVars PROVE StreamInv'
  OBVIOUS
<1>1. CASE UNCHANGED streamVars
  BY <1>1 DEF streamVars, StreamInv, StreamTypeOK, BufferOf
<1>2. CASE StreamNext
  <2>1. \A bytes \in Chunks : bytes \in Seq(Byte)
    BY StreamAssumption
  <2>2. QED BY <1>2, <2>1, WriteInv, ResizeInv, CopyInv DEF StreamNext
<1>3. QED BY <1>1, <1>2

\* The inductive invariant holds in every reachable state of the stream.
THEOREM StreamInvariantHolds == StreamSpec => []StreamInv
BY StreamInitInv, StreamNextInv, PTL DEF StreamSpec

\* What getBuf returns between two writes.
LEMMA StreamHoldsBytes == StreamInv => HoldsWhatWasWritten
<1> SUFFICES ASSUME StreamInv, ~writing PROVE getBuf = written
  BY DEF HoldsWhatWasWritten
<1>1. /\ written \in Seq(Byte) /\ Len(written) \in Nat /\ m_length = Len(written)
      /\ \A i \in 1 .. Len(written) : m_buffer[i - 1] = written[i]
  BY DEF StreamInv, StreamTypeOK
<1>2. written = [i \in 1 .. Len(written) |-> written[i]]
  BY <1>1
<1>3. QED BY <1>1, <1>2 DEF getBuf

\* Whatever is written to a stream can be taken from it: getBuf returns every
\* byte that write was given, in order (ByteStream::write, ByteStream::getBuf).
THEOREM StreamAlwaysHoldsWhatWasWritten == StreamSpec => []HoldsWhatWasWritten
BY StreamHoldsBytes, StreamInvariantHolds, PTL

\* The room for what is being copied.
LEMMA StreamHasRoom == StreamInv => CopiesWithinBuffer
BY DEF StreamInv, StreamTypeOK, CopiesWithinBuffer

\* The copy at the end of write stays within the buffer (ByteStream::write).
THEOREM StreamAlwaysCopiesWithinBuffer == StreamSpec => []CopiesWithinBuffer
BY StreamHasRoom, StreamInvariantHolds, PTL
=============================================================================
