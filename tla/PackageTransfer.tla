--------------------------- MODULE PackageTransfer ---------------------------
(***************************************************************************)
(* A package on its way: it is serialized to a ByteStream, the bytes are   *)
(* sent as a packet, and the receiver builds a package from them           *)
(* (Chat/network/protocol.h, Chat/util/byte_stream.cpp, ChatApp::send,     *)
(* ENetWrapper::send, ENetWrapper::listen, ChatApp::receiveEvent).         *)
(*                                                                         *)
(* A package is its fields in the order in which serialize writes them: an *)
(* "int8" for the type, "uint16" for user ids, "string" for the rest. The  *)
(* class offers integers of every width; records of them are written and   *)
(* read in the same way, by a program that knows their kinds.              *)
(***************************************************************************)
EXTENDS ByteStream, ByteReader, Address, SequencesExt

CONSTANTS
  Strings,   \* nicknames and lines of chat, as sequences of bytes
  IDs,       \* user ids
  Maps,      \* lists of users that an acknowledgement carries
  Records,   \* fields of any kind, which no package is
  Addresses  \* of peers: the four parts and the port

\* The values of each kind of field. Of the wider integers they are those that
\* ByteReader has.
Between(least, greatest) == {n \in Int : least <= n /\ n <= greatest}

Int8Values  == Between(-128, 127)
Int16Values == Between(-32768, 32767)
Int32Values == Between(-2147483647 - 1, 2147483647)

UInt8Values  == Between(0, 255)
UInt16Values == Between(0, 65535)
UInt32Values == Between(0, 2147483647)

Values ==
  [byte |-> Int8Values, int8 |-> Int8Values, int16 |-> Int16Values,
   int32 |-> Int32Values, int64 |-> Int32Values,
   uint8 |-> UInt8Values, uint16 |-> UInt16Values,
   uint32 |-> UInt32Values, uint64 |-> UInt32Values,
   string |-> Seq(Byte)]

IsField(field) ==
  /\ field = [kind |-> field.kind, value |-> field.value]
  /\ field.kind \in DOMAIN Values
  /\ field.value \in Values[field.kind]

ASSUME TransferAssumption ==
  /\ Byte = 0 .. 255
  /\ Strings \subseteq Seq(Byte)
  /\ IDs \subseteq UInt16Values
  /\ Maps \subseteq Seq(IDs \X Strings)
  /\ \A record \in Records :
       /\ Len(record) \in Nat \ {0} /\ record = [i \in 1 .. Len(record) |-> record[i]]
       /\ \A i \in 1 .. Len(record) : IsField(record[i])
       /\ record[1].kind = "byte"
  /\ \A address \in Addresses : address[1] \in [1 .. 4 -> 0 .. 255]
  /\ MaxLength \in UInt32Values

VARIABLES
  package,       \* the package that is sent
  todo,          \* what serialize has yet to write
  packet,        \* the bytes of the ENetPacket; none before and after
  peer,          \* where it comes from
  peer_address,  \* what the handler is told of that
  stream,        \* the stream it is read from
  peeked,        \* the first byte of it
  got,           \* the fields read from it
  stage          \* "serialize", "sent", "read", "received" or "thrown"

readVars == <<peer, peer_address, stream, peeked, got>>

transferVars == <<package, todo, packet, readVars, stage>>

allVars == <<streamVars, transferVars>>

-----------------------------------------------------------------------------
(* Packages.                                                               *)

Field(kind, value) == [kind |-> kind, value |-> value]

Int8(n)   == Field("int8", n)
UInt16(n) == Field("uint16", n)
String(s) == Field("string", s)

USERNAME       == 0
USERNAME_ACK   == 1
STATE_ADD_USER == 2
STATE_REM_USER == 3
MESSAGE        == 4

\* UserInfo::serialize
UserFields(user) == <<UInt16(user[1]), String(user[2])>>

UsernameFields(name)   == <<Int8(USERNAME), String(name)>>
AddUserFields(user)    == <<Int8(STATE_ADD_USER)>> \o UserFields(user)
RemoveUserFields(id)   == <<Int8(STATE_REM_USER), UInt16(id)>>
MessageFields(id, msg) == <<Int8(MESSAGE), UInt16(id), String(msg)>>

AckFields(id, users) ==
  <<Int8(USERNAME_ACK), UInt16(id)>>
    \o FlattenSeq([i \in DOMAIN users |-> UserFields(users[i])])

Packages ==
       {UsernameFields(s) : s \in Strings}
  \cup {AckFields(id, users) : id \in IDs, users \in Maps}
  \cup {AddUserFields(user) : user \in IDs \X Strings}
  \cup {RemoveUserFields(id) : id \in IDs}
  \cup {MessageFields(id, s) : id \in IDs, s \in Strings}

\* What is given to write, in turn: the bytes of an integer; the length of a
\* string, a uint64_t, and then its bytes. Mistake: the terminating zero is
\* written and not counted.
ChunksOf_Terminated(field) ==
  IF field.kind = "string"
  THEN <<Represent(Len(field.value), Width.uint64), Append(field.value, 0)>>
  ELSE <<Represent(field.value, Width[field.kind])>>

ChunksOf(field) ==
  IF field.kind = "string"
  THEN <<Represent(Len(field.value), Width.uint64), field.value>>
  ELSE <<Represent(field.value, Width[field.kind])>>

\* All that serialize gives to write, and what it comes to.
Calls(fields) == FlattenSeq([i \in DOMAIN fields |-> ChunksOf(fields[i])])
Bytes(fields) == FlattenSeq(Calls(fields))

-----------------------------------------------------------------------------
(* The sender.                                                             *)

Init ==
  /\ StreamInit
  /\ package \in Packages \cup Records
  /\ todo = Calls(package)
  /\ packet = <<>>
  /\ peer \in Addresses /\ peer_address = Address(0, 0)
  /\ stream = FromBytes(<<>>)
  /\ peeked = 0
  /\ got = <<>>
  /\ stage = "serialize"

\* The next call of a write method by serialize.
Serialize ==
  /\ stage = "serialize"
  /\ todo # <<>>
  /\ Write(Head(todo))
  /\ todo' = Tail(todo)
  /\ UNCHANGED <<package, packet, readVars, stage>>

Grow == Resize /\ UNCHANGED transferVars

Fill == Copy /\ UNCHANGED transferVars

Serialized == stage = "serialize" /\ todo = <<>> /\ ~writing

\* The bytes become a packet.
Send ==
  /\ Serialized
  /\ packet' = getBuf
  /\ stage' = "sent"
  /\ UNCHANGED <<streamVars, package, todo, readVars>>

-----------------------------------------------------------------------------
(* The receiver.                                                           *)

StartToRead(s) ==
  /\ stream' = s
  /\ peeked' = Number(Peek(s, Width.int8), TRUE)
  /\ stage' = "read"
  /\ UNCHANGED <<streamVars, package, todo, packet, peer, got>>

\* The listener has the packet, and the address of the peer, for its handler,
\* which copies the bytes into a stream of its own.
Arrive ==
  /\ stage = "sent"
  /\ peer_address' = convert(ENetAddress(peer[1], peer[2]))
  /\ StartToRead(FromBytes(packet))

\* A record is read back where it was written: from the stream itself, or
\* from a copy of it.
Rewind ==
  /\ Serialized
  /\ package \in Records
  /\ StartToRead(CopyOf(m_buffer, m_length))
  /\ UNCHANGED peer_address

\* The fields that the constructor of each package reads.
Layout(type) ==
  CASE type = USERNAME       -> <<"int8", "string">>
    [] type = USERNAME_ACK   -> <<"int8", "uint16">>
    [] type = STATE_ADD_USER -> <<"int8", "uint16", "string">>
    [] type = STATE_REM_USER -> <<"int8", "uint16">>
    [] type = MESSAGE        -> <<"int8", "uint16", "string">>

\* The field that is read next. Which constructor runs is decided by the type
\* that receiveEvent peeks at; that of an acknowledgement goes on to read users
\* until the stream ends.
NextField ==
  LET next == Len(got) + 1
      kinds == IF package \in Records THEN [i \in DOMAIN package |-> package[i].kind]
               ELSE Layout(peeked)
      users == package \notin Records /\ peeked = USERNAME_ACK /\ ~end(stream)
  IN IF next \in DOMAIN kinds THEN kinds[next]
     ELSE IF users THEN (IF next % 2 = 1 THEN "uint16" ELSE "string")
     ELSE "none"

\* Mistake: a package that ends where its last field does is not taken.
Read_EndOff(kind, width, value) ==
  /\ stage = "read"
  /\ NextField = kind
  /\ LET fits == Fits(stream, width) /\ stream.offset + width # stream.length
     IN /\ stage' = IF fits THEN stage ELSE "thrown"
        /\ stream' = IF fits THEN [stream EXCEPT !.offset = @ + width] ELSE stream
        /\ got' = IF fits THEN Append(got, Field(kind, value)) ELSE got
  /\ UNCHANGED <<streamVars, package, todo, packet, peer, peer_address, peeked>>

\* The next field is of this kind and takes so many bytes. The stream throws
\* when it has fewer left.
Read(kind, width, value) ==
  /\ stage = "read"
  /\ NextField = kind
  /\ LET fits == Fits(stream, width)
     IN /\ stage' = IF fits THEN stage ELSE "thrown"
        /\ stream' = IF fits THEN [stream EXCEPT !.offset = @ + width] ELSE stream
        /\ got' = IF fits THEN Append(got, Field(kind, value)) ELSE got
  /\ UNCHANGED <<streamVars, package, todo, packet, peer, peer_address, peeked>>

ReadInteger ==
  \E kind \in DOMAIN Width :
    Read(kind, Width[kind], Number(BytesAt(stream, Width[kind]), kind \in Signed))

\* readString: the length, then as many bytes. The length itself has to fit.
ReadString ==
  LET length == IF Fits(stream, Width.uint64)
                THEN Number(BytesAt(stream, Width.uint64), FALSE) ELSE 0
      bytes == BytesAt(stream, Width.uint64 + length)
  IN Read("string", Width.uint64 + length,
          SubSeq(bytes, Width.uint64 + 1, Width.uint64 + length))

\* The package is complete and goes to its handler; the packet is destroyed.
Receive ==
  /\ stage = "read"
  /\ NextField = "none"
  /\ stage' = "received"
  /\ packet' = <<>>
  /\ UNCHANGED <<streamVars, package, todo, readVars>>

Next ==
  \/ Serialize \/ Grow \/ Fill \/ Send
  \/ Arrive \/ Rewind
  \/ ReadInteger \/ ReadString \/ Receive

Spec == Init /\ [][Next]_allVars

\* Nothing here waits for anything.
FairSpec == Spec /\ WF_allVars(Next)

TypeOK ==
  /\ StreamTypeOK
  /\ package \in Packages \cup Records
  /\ packet \in Seq(Byte)
  /\ peer \in Addresses
  /\ DOMAIN stream = {"buffer", "length", "offset"}
  /\ stream.offset \in 0 .. stream.length
  /\ 0 .. stream.length - 1 \subseteq DOMAIN stream.buffer
  /\ stage \in {"serialize", "sent", "read", "received", "thrown"}

\* An inductive invariant. While a package is serialized the calls of write so
\* far are the first ones of all it takes ...
SendInv ==
  LET calls == Calls(package)
      done == Len(calls) - Len(todo)
  IN /\ done \in 0 .. Len(calls)
     /\ todo = SubSeq(calls, done + 1, Len(calls))
     /\ written \o (IF writing THEN data ELSE <<>>) = FlattenSeq(SubSeq(calls, 1, done))
     /\ stage # "serialize" => todo = <<>> /\ ~writing
     /\ stage = "sent" => packet = Bytes(package)
     /\ stage \in {"serialize", "sent"} => got = <<>>

\* ... and while it is received, the fields read so far are its first ones and
\* the stream has been read as far as these go, so that it does not throw.
ReceiveInv ==
  stage \notin {"serialize", "sent"} =>
    /\ stage # "thrown"
    /\ stream.length = Len(Bytes(package))
    /\ \A i \in 1 .. stream.length : stream.buffer[i - 1] = Bytes(package)[i]
    /\ Len(got) \in 0 .. Len(package) /\ got = SubSeq(package, 1, Len(got))
    /\ stream.offset = Len(Bytes(got))
    /\ stage = "received" => got = package
    /\ package \in Packages =>
         /\ peeked = package[1].value
         /\ peer_address = convert(ENetAddress(peer[1], peer[2]))

TransferInv == SendInv /\ ReceiveInv

\* What is received is the package that was sent, and all of it (serialize and
\* the constructors of the packages, the write and read methods of ByteStream).
RoundTrip == stage = "received" => got = package /\ end(stream)

\* The host logs a user's address as the four parts and the port of the peer,
\* in their order (net::convert, Address::str).
LogNamesAddress ==
  stage = "received" /\ package \in Packages =>
    str(peer_address) = Append(peer[1], peer[2])

\* Every package is received; the receiver never asks for more than was sent.
AllReceived == <>(stage = "received")
=============================================================================
