-------------------------- MODULE MCPackageTransfer --------------------------
(***************************************************************************)
(* PackageTransfer with strings and ids on either side of what one byte,   *)
(* and what the first buffer, can hold, and records with the least and the *)
(* greatest integers of each kind.                                         *)
(***************************************************************************)
EXTENDS PackageTransfer

MCByte == 0 .. 255

\* A string of n bytes, no two neighbours alike.
StringOf(n) == [i \in 1 .. n |-> (i + 96) % 256]

\* One byte, the two lengths at which a line fills a stream of 64 bytes (1 + 2 +
\* 8 bytes precede it), and the longest line that fits the array of input.
MCStrings == {StringOf(n) : n \in {1, 52, 53, 79}}

MCIDs == 0 .. 16 \cup {255, 256, 65535}

\* Nobody, two, and a full session of one letter names.
MCMaps ==
  {<<>>, <<<<0, StringOf(79)>>, <<256, StringOf(1)>>>>,
   [i \in 1 .. 17 |-> <<i - 1, StringOf(1)>>]}

Least ==
  <<Field("byte", -128), Field("int8", -128), Field("int16", -32768),
    Field("int32", -2147483647), Field("int64", -1), Field("uint8", 0),
    Field("uint16", 0), Field("uint32", 0), Field("uint64", 0),
    Field("int16", -1), Field("int32", -256), Field("int64", -2147483647)>>

Greatest ==
  <<Field("byte", 127), Field("int8", 127), Field("int16", 32767),
    Field("int32", 2147483647), Field("int64", 2147483647), Field("uint8", 255),
    Field("uint16", 65535), Field("uint32", 2147483647), Field("uint64", 65536)>>

\* The integers by themselves, around the empty string and where the buffer is
\* full, and a string whose length takes two bytes.
MCRecords ==
  {Least, Greatest, Least \o <<String(StringOf(0))>> \o Greatest,
   Greatest \o <<String(StringOf(24))>> \o Least,
   <<Field("byte", 0), String(StringOf(300))>> \o Least}

MCAddresses ==
  {<<<<127, 0, 0, 1>>, 7777>>, <<<<192, 168, 1, 20>>, 65535>>}

MCChunks ==
  UNION {Range(FlattenSeq([i \in DOMAIN p |-> ChunksOf(p[i])]))
         : p \in Packages \cup Records}
=============================================================================
