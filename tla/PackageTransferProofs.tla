------------------------ MODULE PackageTransferProofs -------------------------
(***************************************************************************)
(* What is proved of PackageTransfer for any strings, ids and lists of     *)
(* users: what is received is what was sent. What a package comes to in    *)
(* bytes is defined by recursion, so that the proofs begin with induction. *)
(***************************************************************************)
EXTENDS PackageTransfer, ByteStreamProofs, WellFoundedInduction

-----------------------------------------------------------------------------
(* Induction, from the least number of which something does not hold.      *)

LEMMA LeastNumber ==
  ASSUME NEW T \in SUBSET Nat, T # {}
  PROVE  \E n \in T : \A m \in T : n <= m
  <1> DEFINE R == {ss \in Nat \X Nat : ss[1] < ss[2]}
  <1>1. IsWellFoundedOn(R, Nat)
    BY NatLessThanWellFounded DEF OpToRel
  <1> HIDE DEF R
  <1>2. \E n \in T : \A m \in T : <<m, n>> \notin R
    BY <1>1, WFMin
  <1>3. \A m, n \in Nat : m < n => <<m, n>> \in R
    BY DEF R
  <1>4. PICK n \in T : \A m \in T : <<m, n>> \notin R
    BY <1>2
  <1>5. n \in Nat /\ \A m \in T : m \in Nat
    OBVIOUS
  <1>6. \A m \in T : ~(m < n)
    BY <1>3, <1>4, <1>5
  <1> QED BY <1>5, <1>6

LEMMA Induction ==
  ASSUME NEW S \in SUBSET Nat, 0 \in S, \A n \in S : n + 1 \in S
  PROVE  S = Nat
  <1>1. SUFFICES ASSUME S # Nat PROVE FALSE
    OBVIOUS
  <1>2. Nat \ S # {} /\ Nat \ S \in SUBSET Nat
    BY <1>1
  <1>3. PICK n \in Nat \ S : \A m \in Nat \ S : n <= m
    BY <1>2, LeastNumber
  <1>4. n # 0 /\ n - 1 \in Nat
    OBVIOUS
  <1>5. n - 1 \in S
    BY <1>3, <1>4
  <1>6. (n - 1) + 1 \in S
    BY <1>5
  <1> QED BY <1>4, <1>6

-----------------------------------------------------------------------------
(* FlattenSeq, the bytes of several sequences one after the other.         *)

Flattens(f, seqs, n) ==
  f = [i \in 1 .. n |-> IF i = 1 THEN seqs[i] ELSE f[i - 1] \o seqs[i]]

LEMMA FlattensAt ==
  ASSUME NEW f, NEW seqs, NEW n \in Nat, Flattens(f, seqs, n), NEW i \in 1 .. n
  PROVE  f[i] = IF i = 1 THEN seqs[i] ELSE f[i - 1] \o seqs[i]
  <1> DEFINE F == [j \in 1 .. n |-> IF j = 1 THEN seqs[j] ELSE f[j - 1] \o seqs[j]]
  <1>1. F[i] = IF i = 1 THEN seqs[i] ELSE f[i - 1] \o seqs[i]
    OBVIOUS
  <1>2. f = F
    BY DEF Flattens
  <1> HIDE DEF F
  <1> QED BY <1>1, <1>2

\* The recursive definition has a solution ...
LEMMA FlattenExists ==
  ASSUME NEW seqs, NEW n \in Nat
  PROVE  \E f : Flattens(f, seqs, n)
  <1> DEFINE S == {m \in Nat : \E f : Flattens(f, seqs, m)}
  <1>1. 0 \in S
    <2>1. Flattens([i \in 1 .. 0 |-> i], seqs, 0)
      BY DEF Flattens
    <2> QED BY <2>1
  <1>2. ASSUME NEW m \in S PROVE m + 1 \in S
    <2>1. PICK f : Flattens(f, seqs, m)
      OBVIOUS
    <2> DEFINE g == [i \in 1 .. m + 1 |->
                       IF i <= m THEN f[i] ELSE IF i = 1 THEN seqs[i] ELSE f[i - 1] \o seqs[i]]
    <2>2. m \in Nat
      OBVIOUS
    <2>3. ASSUME NEW i \in 1 .. m + 1
          PROVE  g[i] = IF i = 1 THEN seqs[i] ELSE g[i - 1] \o seqs[i]
      <3>1. CASE i <= m
        <4>1. i \in 1 .. m /\ (i # 1 => i - 1 <= m /\ i - 1 \in 1 .. m + 1)
          BY <3>1, <2>2
        <4>2. f[i] = IF i = 1 THEN seqs[i] ELSE f[i - 1] \o seqs[i]
          BY <2>1, <2>2, <4>1, FlattensAt
        <4> QED BY <4>1, <4>2
      <3>2. CASE i = m + 1
        BY <3>2, <2>2
      <3> QED BY <3>1, <3>2, <2>2
    <2>4. Flattens(g, seqs, m + 1)
      <3> DEFINE G == [i \in 1 .. m + 1 |-> IF i = 1 THEN seqs[i] ELSE g[i - 1] \o seqs[i]]
      <3>1. \A i \in 1 .. m + 1 : g[i] = G[i]
        BY <2>3
      <3>2. g = [i \in 1 .. m + 1 |-> g[i]]
        OBVIOUS
      <3>3. G = [i \in 1 .. m + 1 |-> G[i]]
        OBVIOUS
      <3>4. g = G
        <4> HIDE DEF g, G
        <4> QED BY <3>1, <3>2, <3>3
      <3> HIDE DEF g
      <3> QED BY <3>4 DEF Flattens
    <2> QED BY <2>2, <2>4
  <1> HIDE DEF S
  <1>3. S = Nat
    <2>1. S \in SUBSET Nat
      BY DEF S
    <2> QED BY <1>1, <1>2, <2>1, Induction
  <1> QED BY <1>3 DEF S

\* ... and only one, of which each element depends on those before it.
LEMMA FlattenUnique ==
  ASSUME NEW f, NEW s, NEW n \in Nat, Flattens(f, s, n),
         NEW g, NEW t, NEW m \in Nat, Flattens(g, t, m),
         NEW k \in Nat, 1 <= k, k <= n, k <= m,
         \A i \in 1 .. k : s[i] = t[i]
  PROVE  f[k] = g[k]
  <1> DEFINE S == {j \in Nat : j \in 1 .. k => f[j] = g[j]}
  <1>1. 0 \in S
    OBVIOUS
  <1>2. ASSUME NEW j \in S PROVE j + 1 \in S
    <2>1. SUFFICES ASSUME j + 1 \in 1 .. k PROVE f[j + 1] = g[j + 1]
      OBVIOUS
    <2>a. j + 1 \in 1 .. n /\ j + 1 \in 1 .. m /\ (j + 1) - 1 = j
      BY <2>1
    <2>b. f[j + 1] = IF j + 1 = 1 THEN s[j + 1] ELSE f[(j + 1) - 1] \o s[j + 1]
      BY <2>a, FlattensAt
    <2>c. g[j + 1] = IF j + 1 = 1 THEN t[j + 1] ELSE g[(j + 1) - 1] \o t[j + 1]
      BY <2>a, FlattensAt
    <2>2. /\ f[j + 1] = IF j + 1 = 1 THEN s[j + 1] ELSE f[j] \o s[j + 1]
          /\ g[j + 1] = IF j + 1 = 1 THEN t[j + 1] ELSE g[j] \o t[j + 1]
      BY <2>a, <2>b, <2>c
    <2>3. s[j + 1] = t[j + 1]
      BY <2>1
    <2>4. j # 0 => f[j] = g[j]
      BY <2>1
    <2> QED BY <2>2, <2>3, <2>4
  <1> HIDE DEF S
  <1>3. S = Nat
    <2>1. S \in SUBSET Nat
      BY DEF S
    <2> QED BY <1>1, <1>2, <2>1, Induction
  <1> QED BY <1>3 DEF S

LEMMA FlattenIsLast ==
  ASSUME NEW seqs, Len(seqs) \in Nat, Len(seqs) # 0
  PROVE  \E f : Flattens(f, seqs, Len(seqs)) /\ FlattenSeq(seqs) = f[Len(seqs)]
  <1> DEFINE n == Len(seqs)
             f == CHOOSE f : f = [i \in 1 .. n |-> IF i = 1 THEN seqs[i] ELSE f[i - 1] \o seqs[i]]
  <1>1. FlattenSeq(seqs) = f[n]
    BY DEF FlattenSeq
  <1>2. \E g : g = [i \in 1 .. n |-> IF i = 1 THEN seqs[i] ELSE g[i - 1] \o seqs[i]]
    BY FlattenExists DEF Flattens
  <1>3. f = [i \in 1 .. n |-> IF i = 1 THEN seqs[i] ELSE f[i - 1] \o seqs[i]]
    BY <1>2
  <1> QED BY <1>1, <1>3 DEF Flattens

LEMMA FlattenNone == FlattenSeq(<<>>) = <<>>
  BY DEF FlattenSeq

\* What one more sequence adds.
LEMMA FlattenOneMore ==
  ASSUME NEW S, NEW seqs \in Seq(Seq(S)), NEW s \in Seq(S)
  PROVE  FlattenSeq(Append(seqs, s)) = FlattenSeq(seqs) \o s
  <1> DEFINE all == Append(seqs, s)
             n == Len(seqs)
  <1>1. /\ n \in Nat /\ Len(all) = n + 1 /\ all[n + 1] = s
        /\ \A i \in 1 .. n : all[i] = seqs[i]
    OBVIOUS
  <1>2. PICK f : Flattens(f, all, n + 1) /\ FlattenSeq(all) = f[n + 1]
    <2>1. Len(all) \in Nat /\ Len(all) # 0
      BY <1>1
    <2> QED BY <2>1, <1>1, FlattenIsLast
  <1> HIDE DEF all
  <1>3. f[n + 1] = IF n + 1 = 1 THEN all[n + 1] ELSE f[n] \o all[n + 1]
    <2>1. n + 1 \in Nat /\ n + 1 \in 1 .. n + 1 /\ (n + 1) - 1 = n
      BY <1>1
    <2>2. f[n + 1] = IF n + 1 = 1 THEN all[n + 1] ELSE f[(n + 1) - 1] \o all[n + 1]
      BY <1>2, <2>1, FlattensAt
    <2> QED BY <2>1, <2>2
  <1>4. CASE n = 0
    <2>1. seqs = <<>> /\ FlattenSeq(seqs) = <<>>
      BY <1>4, FlattenNone
    <2>2. f[n + 1] = s
      BY <1>1, <1>3, <1>4
    <2>3. <<>> \o s = s
      BY ConcatEmptySeq
    <2> QED BY <2>1, <2>2, <2>3, <1>2 DEF all
  <1>5. CASE n # 0
    <2>1. PICK g : Flattens(g, seqs, n) /\ FlattenSeq(seqs) = g[n]
      BY <1>1, <1>5, FlattenIsLast
    <2>2. f[n] = g[n]
      <3>1. n \in Nat /\ 1 <= n /\ n <= n + 1 /\ n <= n /\ n + 1 \in Nat
        BY <1>1, <1>5
      <3>2. Flattens(f, all, n + 1) /\ Flattens(g, seqs, n) /\ \A i \in 1 .. n : all[i] = seqs[i]
        BY <1>1, <1>2, <2>1
      <3> HIDE DEF n
      <3> QED BY <3>1, <3>2, FlattenUnique
    <2>3. f[n + 1] = f[n] \o s
      BY <1>1, <1>3, <1>5
    <2> QED BY <2>1, <2>2, <2>3, <1>2 DEF all
  <1> QED BY <1>4, <1>5

-----------------------------------------------------------------------------
(* Sequences, from the back.                                               *)

LEMMA FirstOnes ==
  ASSUME NEW S, NEW s \in Seq(S), NEW k \in 0 .. Len(s)
  PROVE  /\ SubSeq(s, 1, k) \in Seq(S) /\ Len(SubSeq(s, 1, k)) = k
         /\ \A i \in 1 .. k : SubSeq(s, 1, k)[i] = s[i]
  <1>1. \A i \in 1 .. k : s[i] \in S
    OBVIOUS
  <1>2. k \in Int /\ 1 \in Int /\ (IF 1 <= k THEN k - 1 + 1 ELSE 0) = k /\ k - 1 + 1 = k
    OBVIOUS
  <1>3. /\ SubSeq(s, 1, k) \in Seq(S)
        /\ Len(SubSeq(s, 1, k)) = IF 1 <= k THEN k - 1 + 1 ELSE 0
        /\ \A i \in 1 .. k - 1 + 1 : SubSeq(s, 1, k)[i] = s[1 + i - 1]
    BY <1>1, <1>2, SubSeqProperties
  <1> QED BY <1>2, <1>3

LEMMA AllOfThem ==
  ASSUME NEW S, NEW s \in Seq(S)
  PROVE  SubSeq(s, 1, Len(s)) = s
  BY SubSeqFull

LEMMA FirstOnesAndNext ==
  ASSUME NEW S, NEW s \in Seq(S), NEW k \in Nat, k + 1 <= Len(s)
  PROVE  /\ s[k + 1] \in S
         /\ SubSeq(s, 1, k + 1) = Append(SubSeq(s, 1, k), s[k + 1])
  <1> DEFINE t == SubSeq(s, 1, k)
             u == SubSeq(s, 1, k + 1)
  <1>1. k \in 0 .. Len(s) /\ k + 1 \in 0 .. Len(s) /\ k + 1 \in 1 .. Len(s)
    OBVIOUS
  <1>2. t \in Seq(S) /\ Len(t) = k /\ \A i \in 1 .. k : t[i] = s[i]
    BY <1>1, FirstOnes
  <1>3. u \in Seq(S) /\ Len(u) = k + 1 /\ \A i \in 1 .. k + 1 : u[i] = s[i]
    BY <1>1, FirstOnes
  <1>4. s[k + 1] \in S
    BY <1>1
  <1> HIDE DEF t, u
  <1>5. /\ Append(t, s[k + 1]) \in Seq(S)
        /\ Len(Append(t, s[k + 1])) = k + 1
        /\ \A i \in 1 .. k + 1 : Append(t, s[k + 1])[i] = s[i]
    BY <1>2, <1>4
  <1>6. u = Append(t, s[k + 1])
    BY <1>3, <1>5, SeqEqual
  <1> QED BY <1>4, <1>6 DEF t, u

LEMMA AllButLast ==
  ASSUME NEW S, NEW s \in Seq(S), NEW n \in Nat, Len(s) = n + 1
  PROVE  /\ SubSeq(s, 1, n) \in Seq(S) /\ Len(SubSeq(s, 1, n)) = n
         /\ s[n + 1] \in S
         /\ s = Append(SubSeq(s, 1, n), s[n + 1])
  <1>1. n \in 0 .. Len(s) /\ n + 1 <= Len(s)
    OBVIOUS
  <1>2. /\ SubSeq(s, 1, n) \in Seq(S) /\ Len(SubSeq(s, 1, n)) = n
    BY <1>1, FirstOnes
  <1>3. s[n + 1] \in S /\ SubSeq(s, 1, n + 1) = Append(SubSeq(s, 1, n), s[n + 1])
    BY <1>1, FirstOnesAndNext
  <1>4. SubSeq(s, 1, n + 1) = s
    BY AllOfThem
  <1> QED BY <1>2, <1>3, <1>4

LEMMA FlattenType ==
  ASSUME NEW S, NEW seqs \in Seq(Seq(S))
  PROVE  FlattenSeq(seqs) \in Seq(S)
  <1> DEFINE N == {n \in Nat : \A s \in Seq(Seq(S)) : Len(s) = n => FlattenSeq(s) \in Seq(S)}
  <1>1. 0 \in N
    <2>1. ASSUME NEW s \in Seq(Seq(S)), Len(s) = 0 PROVE FlattenSeq(s) \in Seq(S)
      <3>1. s = <<>> /\ <<>> \in Seq(S)
        BY <2>1
      <3> QED BY <3>1, FlattenNone
    <2> QED BY <2>1
  <1>2. ASSUME NEW n \in N PROVE n + 1 \in N
    <2>1. ASSUME NEW s \in Seq(Seq(S)), Len(s) = n + 1 PROVE FlattenSeq(s) \in Seq(S)
      <3> DEFINE t == SubSeq(s, 1, n)
      <3>0. n \in Nat
        OBVIOUS
      <3>1. t \in Seq(Seq(S)) /\ Len(t) = n /\ s[n + 1] \in Seq(S) /\ s = Append(t, s[n + 1])
        BY <2>1, <3>0, AllButLast
      <3> HIDE DEF t
      <3>2. FlattenSeq(t) \in Seq(S)
        BY <3>1
      <3>3. FlattenSeq(Append(t, s[n + 1])) = FlattenSeq(t) \o s[n + 1]
        BY <3>1, FlattenOneMore
      <3>4. FlattenSeq(t) \o s[n + 1] \in Seq(S)
        BY <3>1, <3>2
      <3> QED BY <3>1, <3>3, <3>4
    <2> QED BY <2>1
  <1> HIDE DEF N
  <1>3. N = Nat
    <2>1. N \in SUBSET Nat
      BY DEF N
    <2> QED BY <1>1, <1>2, <2>1, Induction
  <1>4. Len(seqs) \in N
    BY <1>3
  <1> QED BY <1>4 DEF N

-----------------------------------------------------------------------------
(* Integers and their bytes.                                               *)

LEMMA Widths ==
  /\ DOMAIN Values = DOMAIN Width \cup {"string"} /\ "string" \notin DOMAIN Width
  /\ DOMAIN Width = {"byte", "int8", "int16", "int32", "int64", "uint8", "uint16", "uint32", "uint64"}
  /\ Values["string"] = Seq(Byte) /\ Width.uint64 = 8 /\ Width.int8 = 1 /\ Width.uint16 = 2
  BY SMT DEF Values, Width

\* What the kinds of integers hold.
LEMMA Kinds ==
  /\ \A k \in {"byte", "int8"} : Width[k] = 1 /\ (k \in Signed) = TRUE /\ Values[k] = Int8Values
  /\ Width["uint8"] = 1 /\ ("uint8" \in Signed) = FALSE /\ Values["uint8"] = UInt8Values
  /\ Width["int16"] = 2 /\ ("int16" \in Signed) = TRUE /\ Values["int16"] = Int16Values
  /\ Width["uint16"] = 2 /\ ("uint16" \in Signed) = FALSE /\ Values["uint16"] = UInt16Values
  /\ \A k \in {"int32", "int64"} :
       Width[k] \in {4, 8} /\ (k \in Signed) = TRUE /\ Values[k] = Int32Values
  /\ \A k \in {"uint32", "uint64"} :
       Width[k] \in {4, 8} /\ (k \in Signed) = FALSE /\ Values[k] = UInt32Values
  <1>1. /\ Width["byte"] = 1 /\ Width["int8"] = 1 /\ Width["uint8"] = 1
        /\ Width["int16"] = 2 /\ Width["uint16"] = 2
        /\ Width["int32"] = 4 /\ Width["uint32"] = 4
        /\ Width["int64"] = 8 /\ Width["uint64"] = 8
    BY SMT DEF Width
  <1>2. /\ Values["byte"] = Int8Values /\ Values["int8"] = Int8Values
        /\ Values["uint8"] = UInt8Values /\ Values["int16"] = Int16Values
        /\ Values["uint16"] = UInt16Values
        /\ Values["int32"] = Int32Values /\ Values["int64"] = Int32Values
        /\ Values["uint32"] = UInt32Values /\ Values["uint64"] = UInt32Values
    BY SMT DEF Values
  <1>3. /\ ("byte" \in Signed) = TRUE /\ ("int8" \in Signed) = TRUE /\ ("int16" \in Signed) = TRUE
        /\ ("int32" \in Signed) = TRUE /\ ("int64" \in Signed) = TRUE
        /\ ("uint8" \in Signed) = FALSE /\ ("uint16" \in Signed) = FALSE
        /\ ("uint32" \in Signed) = FALSE /\ ("uint64" \in Signed) = FALSE
    BY SMT DEF Signed
  <1> QED BY <1>1, <1>2, <1>3

LEMMA WidthAndValues ==
  ASSUME NEW k \in DOMAIN Width
  PROVE  Width[k] \in {1, 2, 4, 8} /\ Values[k] \subseteq Int
  <1>1. /\ Int8Values \subseteq Int /\ Int16Values \subseteq Int /\ Int32Values \subseteq Int
        /\ UInt8Values \subseteq Int /\ UInt16Values \subseteq Int /\ UInt32Values \subseteq Int
    BY SMT DEF Int8Values, Int16Values, Int32Values, UInt8Values, UInt16Values, UInt32Values, Between
  <1> QED BY <1>1, Widths, Kinds

LEMMA Powers ==
  /\ 256 ^ 0 = 1 /\ 256 ^ 1 = 256 /\ 256 ^ 2 = 65536 /\ 256 ^ 3 = 16777216
  /\ 256 ^ (1 - 1) = 1 /\ 256 ^ (2 - 1) = 256 /\ 256 ^ (3 - 1) = 65536 /\ 256 ^ (4 - 1) = 16777216
  BY SMT

\* The four digits, and the sign of the widest integers.
AreDigits(bytes, n, width) ==
  /\ Len(bytes) = width
  /\ bytes[1] = n % 256
  /\ width > 1 => bytes[2] = (n \div 256) % 256
  /\ width > 2 => /\ bytes[3] = (n \div 65536) % 256
                  /\ bytes[4] = (n \div 16777216) % 256
  /\ width > 4 => \A i \in 5 .. 8 : bytes[i] = IF n < 0 THEN 255 ELSE 0

LEMMA Digits ==
  ASSUME NEW n \in Int, NEW width \in {1, 2, 4, 8}
  PROVE  AreDigits(Represent(n, width), n, width)
  <1>1. Len(Represent(n, width)) = width
    BY SMT DEF Represent
  <1>2. n \div 1 = n
    BY SMT
  <1>3. Represent(n, width)[1] = (n \div 256 ^ (1 - 1)) % 256
    BY SMT DEF Represent
  <1>4. Represent(n, width)[1] = n % 256
    BY <1>2, <1>3, Powers, SMT
  <1>5. width > 1 => Represent(n, width)[2] = (n \div 256) % 256
    BY Powers, SMT DEF Represent
  <1>6. width > 2 => Represent(n, width)[3] = (n \div 65536) % 256
    BY Powers, SMT DEF Represent
  <1>7. width > 2 => Represent(n, width)[4] = (n \div 16777216) % 256
    BY Powers, SMT DEF Represent
  <1>8. width > 4 => \A i \in 5 .. 8 : Represent(n, width)[i] = IF n < 0 THEN 255 ELSE 0
    BY SMT DEF Represent
  <1> QED BY <1>1, <1>4, <1>5, <1>6, <1>7, <1>8, SMT DEF AreDigits

LEMMA DigitsAreIntegers ==
  ASSUME NEW n \in Int, NEW width \in {1, 2, 4, 8}, NEW r, AreDigits(r, n, width)
  PROVE  /\ r[1] \in 0 .. 255
         /\ width > 1 => r[2] \in 0 .. 255
         /\ width > 2 => r[3] \in 0 .. 255 /\ r[4] \in 0 .. 255
         /\ width > 4 => \A i \in 5 .. 8 : r[i] \in 0 .. 255
  <1>1. \A m \in Int : m % 256 \in 0 .. 255
    BY SMT
  <1>2. n \div 256 \in Int /\ n \div 65536 \in Int /\ n \div 16777216 \in Int
    BY SMT
  <1>3. r[1] \in 0 .. 255
    BY <1>1, SMT DEF AreDigits
  <1>4. ASSUME width > 1 PROVE r[2] \in 0 .. 255
    <2>1. r[2] = (n \div 256) % 256
      BY <1>4, SMT DEF AreDigits
    <2> QED BY <1>1, <1>2, <2>1, SMT
  <1>5. ASSUME width > 2 PROVE r[3] \in 0 .. 255 /\ r[4] \in 0 .. 255
    <2>1. r[3] = (n \div 65536) % 256
      BY <1>5, SMT DEF AreDigits
    <2>2. r[4] = (n \div 16777216) % 256
      BY <1>5, SMT DEF AreDigits
    <2>3. r[3] \in 0 .. 255
      BY <1>1, <1>2, <2>1, SMT
    <2>4. r[4] \in 0 .. 255
      BY <1>1, <1>2, <2>2, SMT
    <2> QED BY <2>3, <2>4
  <1>6. ASSUME width > 4 PROVE \A i \in 5 .. 8 : r[i] \in 0 .. 255
    <2>1. \A i \in 5 .. 8 : r[i] = IF n < 0 THEN 255 ELSE 0
      BY <1>6, SMT DEF AreDigits
    <2> QED BY <2>1, SMT
  <1> QED BY <1>3, <1>4, <1>5, <1>6

LEMMA RepresentType ==
  ASSUME NEW n \in Int, NEW width \in {1, 2, 4, 8}
  PROVE  Represent(n, width) \in Seq(Byte) /\ Len(Represent(n, width)) = width
  <1> DEFINE r == Represent(n, width)
  <1>1. Byte = 0 .. 255
    BY TransferAssumption
  <1>2. r = [i \in 1 .. width |-> r[i]]
    BY SMT DEF Represent
  <1>3. AreDigits(r, n, width)
    BY Digits
  <1> HIDE DEF r
  <1>4. \A i \in 1 .. width : r[i] \in Byte
    BY <1>1, <1>3, DigitsAreIntegers, SMT
  <1>5. r \in [1 .. width -> Byte]
    BY <1>2, <1>4
  <1>6. Len(r) = width
    BY <1>3, SMT DEF AreDigits
  <1>7. r \in Seq(Byte)
    BY <1>5, SMT
  <1> QED BY <1>6, <1>7, SMT DEF r

\* The length of a string is read as it was written.
LEMMA ReadsLength ==
  ASSUME NEW n \in UInt32Values
  PROVE  Number(Represent(n, 8), FALSE) = n
  <1> DEFINE r == Represent(n, 8)
             sum == r[1] + r[2] * 256 + r[3] * 65536 + r[4] * 16777216
  <1>1. n \in Int /\ 0 <= n /\ n <= 2147483647
    BY SMT DEF UInt32Values, Between
  <1>2. AreDigits(r, n, 8)
    BY <1>1, Digits
  <1> HIDE DEF r
  <1>3. /\ Len(r) = 8
        /\ r[1] \in Int /\ r[2] \in Int /\ r[3] \in Int /\ r[4] \in Int
    BY <1>1, <1>2, SMT DEF AreDigits
  <1>4. Number(r, FALSE) = sum
    BY <1>3, Powers, SMT DEF Number
  <1>5. r[1] = n % 256 /\ r[2] = (n \div 256) % 256
        /\ r[3] = (n \div 65536) % 256 /\ r[4] = (n \div 16777216) % 256
    BY <1>1, <1>2, SMT DEF AreDigits
  <1>6. n = sum
    BY <1>1, <1>5, SMT
  <1> HIDE DEF sum
  <1> QED BY <1>4, <1>6 DEF r

\* An integer of any kind is read as it was written (the write and read methods
\* of ByteStream).
LEMMA ReadsInteger ==
  ASSUME NEW k \in DOMAIN Width, NEW n \in Values[k]
  PROVE  Number(Represent(n, Width[k]), k \in Signed) = n
  <1> DEFINE w == Width[k]
             r == Represent(n, w)
             sum == r[1] + r[2] * 256 + r[3] * 65536 + r[4] * 16777216
             signedSum == r[1] + r[2] * 256 + r[3] * 65536 + (r[4] - 256) * 16777216
  <1>1. n \in Int /\ w \in {1, 2, 4, 8}
    BY WidthAndValues
  <1>2. AreDigits(r, n, w)
    BY <1>1, Digits
  <1>3. /\ Len(r) = w /\ r[1] \in Int
        /\ w > 1 => r[2] \in Int
        /\ w > 2 => r[3] \in Int /\ r[4] \in Int
    <2>1. Len(r) = w
      BY <1>1, RepresentType
    <2> HIDE DEF r, w
    <2>2. /\ r[1] \in 0 .. 255
          /\ w > 1 => r[2] \in 0 .. 255
          /\ w > 2 => r[3] \in 0 .. 255 /\ r[4] \in 0 .. 255
      BY <1>1, <1>2, DigitsAreIntegers, SMT
    <2>3. \A m \in 0 .. 255 : m \in Int
      BY SMT
    <2> QED BY <2>1, <2>2, <2>3
  <1> SUFFICES Number(r, k \in Signed) = n
    OBVIOUS
  <1> HIDE DEF r
  <1>4. CASE k \in {"byte", "int8"}
    <2>1. w = 1 /\ (k \in Signed) = TRUE /\ n \in Int8Values
      BY <1>4, Kinds
    <2>a. -128 <= n /\ n <= 127
      BY <2>1, SMT DEF Int8Values, Between
    <2> HIDE DEF w
    <2>2. Number(r, TRUE) = IF r[1] >= 128 THEN r[1] - 256 ELSE r[1]
      BY <1>3, Powers, <2>1, SMT DEF Number
    <2>3. r[1] = n % 256
      BY <1>2, <2>1, SMT DEF AreDigits
    <2>4. n = IF r[1] >= 128 THEN r[1] - 256 ELSE r[1]
      BY <1>1, <2>a, <2>3, SMT
    <2> QED BY <2>1, <2>2, <2>4
  <1>5. CASE k = "uint8"
    <2>1. w = 1 /\ (k \in Signed) = FALSE /\ n \in UInt8Values
      BY <1>5, Kinds
    <2>a. 0 <= n /\ n <= 255
      BY <2>1, SMT DEF UInt8Values, Between
    <2> HIDE DEF w
    <2>2. Number(r, FALSE) = r[1]
      BY <1>3, Powers, <2>1, SMT DEF Number
    <2>3. r[1] = n % 256
      BY <1>2, <2>1, SMT DEF AreDigits
    <2>4. n = r[1]
      BY <1>1, <2>a, <2>3, SMT
    <2> QED BY <2>1, <2>2, <2>4
  <1>6. CASE k = "int16"
    <2>1. w = 2 /\ (k \in Signed) = TRUE /\ n \in Int16Values
      BY <1>6, Kinds
    <2>a. -32768 <= n /\ n <= 32767
      BY <2>1, SMT DEF Int16Values, Between
    <2> HIDE DEF w
    <2>2. r[1] \in Int /\ r[2] \in Int /\ Len(r) = 2
      BY <1>3, <2>1, SMT
    <2>3. r[1] = n % 256 /\ r[2] = (n \div 256) % 256
      BY <1>2, <2>1, SMT DEF AreDigits
    <2>4. CASE r[2] >= 128
      <3> DEFINE value == r[1] + (r[2] - 256) * 256
      <3>1. Number(r, TRUE) = value
        BY <2>2, <2>4, Powers, SMT DEF Number
      <3>2. n = value
        BY <1>1, <2>a, <2>3, <2>4, SMT
      <3> HIDE DEF value
      <3> QED BY <2>1, <3>1, <3>2
    <2>5. CASE ~(r[2] >= 128)
      <3> DEFINE value == r[1] + r[2] * 256
      <3>1. Number(r, TRUE) = value
        BY <2>2, <2>5, Powers, SMT DEF Number
      <3>2. n = value
        BY <1>1, <2>a, <2>3, <2>5, SMT
      <3> HIDE DEF value
      <3> QED BY <2>1, <3>1, <3>2
    <2> QED BY <2>4, <2>5
  <1>7. CASE k = "uint16"
    <2>1. w = 2 /\ (k \in Signed) = FALSE /\ n \in UInt16Values
      BY <1>7, Kinds
    <2>a. 0 <= n /\ n <= 65535
      BY <2>1, SMT DEF UInt16Values, Between
    <2> HIDE DEF w
    <2> DEFINE value == r[1] + r[2] * 256
    <2>2. Number(r, FALSE) = value
      BY <1>3, Powers, <2>1, SMT DEF Number
    <2>3. r[1] = n % 256 /\ r[2] = (n \div 256) % 256
      BY <1>2, <2>1, SMT DEF AreDigits
    <2>4. n = value
      BY <1>1, <2>a, <2>3, SMT
    <2> HIDE DEF value
    <2> QED BY <2>1, <2>2, <2>4
  <1>8. CASE k \in {"int32", "int64"}
    <2>1. w \in {4, 8} /\ (k \in Signed) = TRUE /\ n \in Int32Values
      BY <1>8, Kinds
    <2>2. n \in Int /\ -2147483647 - 1 <= n /\ n <= 2147483647
      BY <2>1, SMT DEF Int32Values, Between
    <2> HIDE DEF w
    <2>3. r[1] = n % 256 /\ r[2] = (n \div 256) % 256
          /\ r[3] = (n \div 65536) % 256 /\ r[4] = (n \div 16777216) % 256
      BY <1>2, <2>1, SMT DEF AreDigits
    <2>4. r[4] >= 128 <=> n < 0
      BY <1>1, <2>2, <2>3, SMT
    <2>5. r[w] >= 128 <=> n < 0
      <3>1. CASE w = 4
        BY <2>4, <3>1
      <3>2. CASE w = 8
        <4>1. r[8] = IF n < 0 THEN 255 ELSE 0
          BY <1>2, <3>2, SMT DEF AreDigits
        <4> QED BY <3>2, <4>1, SMT
      <3> QED BY <2>1, <3>1, <3>2
    <2>6. CASE n < 0
      <3>1. Number(r, TRUE) = signedSum
        BY <1>3, Powers, <2>1, <2>5, <2>6, SMT DEF Number
      <3>2. n = signedSum
        BY <2>2, <2>3, <2>6, SMT
      <3> HIDE DEF signedSum
      <3> QED BY <2>1, <3>1, <3>2
    <2>7. CASE ~(n < 0)
      <3>1. Number(r, TRUE) = sum
        BY <1>3, Powers, <2>1, <2>5, <2>7, SMT DEF Number
      <3>2. n = sum
        BY <2>2, <2>3, <2>7, SMT
      <3> HIDE DEF sum
      <3> QED BY <2>1, <3>1, <3>2
    <2> QED BY <2>6, <2>7
  <1>9. CASE k \in {"uint32", "uint64"}
    <2>1. w \in {4, 8} /\ (k \in Signed) = FALSE /\ n \in UInt32Values
      BY <1>9, Kinds
    <2>2. n \in Int /\ 0 <= n /\ n <= 2147483647
      BY <2>1, SMT DEF UInt32Values, Between
    <2> HIDE DEF w
    <2>3. r[1] = n % 256 /\ r[2] = (n \div 256) % 256
          /\ r[3] = (n \div 65536) % 256 /\ r[4] = (n \div 16777216) % 256
      BY <1>2, <2>1, SMT DEF AreDigits
    <2>4. Number(r, FALSE) = sum
      BY <1>3, Powers, <2>1, SMT DEF Number
    <2>5. n = sum
      BY <1>1, <2>2, <2>3, SMT
    <2> HIDE DEF sum
    <2> QED BY <2>1, <2>4, <2>5
  <1> HIDE DEF w, r
  <1> QED BY <1>4, <1>5, <1>6, <1>7, <1>8, <1>9, Widths

-----------------------------------------------------------------------------
(* Fields and their bytes.                                                 *)

Encoding(field) ==
  IF field.kind = "string" THEN Represent(Len(field.value), 8) \o field.value
  ELSE Represent(field.value, Width[field.kind])

\* What a field adds to the bytes, in one call of write or in two.
LEMMA ChunksOfField ==
  ASSUME NEW f, IsField(f)
  PROVE  /\ ChunksOf(f) \in Seq(Seq(Byte))
         /\ Encoding(f) \in Seq(Byte) /\ Len(Encoding(f)) > 0
         /\ \A seqs \in Seq(Seq(Byte)) : FlattenSeq(seqs \o ChunksOf(f)) = FlattenSeq(seqs) \o Encoding(f)
  <1>1. f.kind \in DOMAIN Values /\ f.value \in Values[f.kind]
    BY DEF IsField
  <1>2. CASE f.kind = "string"
    <2> DEFINE c == Represent(Len(f.value), 8)
               s == f.value
    <2>1. s \in Seq(Byte) /\ Len(s) \in Nat
      BY <1>1, <1>2, Widths
    <2>2. c \in Seq(Byte) /\ Len(c) = 8
      BY <2>1, RepresentType
    <2>3. ChunksOf(f) = <<c, s>> /\ Encoding(f) = c \o s
      BY <1>2, Widths DEF ChunksOf, Encoding
    <2> HIDE DEF c, s
    <2>4. c \o s \in Seq(Byte) /\ Len(c \o s) = 8 + Len(s)
      <3>1. c \in Seq(Byte) /\ s \in Seq(Byte)
        BY <2>1, <2>2
      <3>2. c \o s \in Seq(Byte) /\ Len(c \o s) = Len(c) + Len(s)
        BY <3>1
      <3> QED BY <2>2, <3>2
    <2>5. <<c, s>> \in Seq(Seq(Byte))
      BY <2>1, <2>2
    <2>6. ASSUME NEW seqs \in Seq(Seq(Byte))
          PROVE  FlattenSeq(seqs \o <<c, s>>) = FlattenSeq(seqs) \o (c \o s)
      <3>1. seqs \o <<c, s>> = Append(Append(seqs, c), s)
        BY <2>1, <2>2
      <3>2. Append(seqs, c) \in Seq(Seq(Byte)) /\ FlattenSeq(seqs) \in Seq(Byte)
        BY <2>2, FlattenType
      <3>3. FlattenSeq(Append(seqs, c)) = FlattenSeq(seqs) \o c
        BY <2>2, FlattenOneMore
      <3>4. FlattenSeq(Append(Append(seqs, c), s)) = FlattenSeq(Append(seqs, c)) \o s
        BY <2>1, <3>2, FlattenOneMore
      <3>5. (FlattenSeq(seqs) \o c) \o s = FlattenSeq(seqs) \o (c \o s)
        BY <2>1, <2>2, <3>2, ConcatAssociative
      <3> QED BY <3>1, <3>3, <3>4, <3>5
    <2>7. Len(c \o s) > 0
      BY <2>1, <2>4
    <2> QED BY <2>3, <2>4, <2>5, <2>6, <2>7
  <1>3. CASE f.kind # "string"
    <2> DEFINE c == Represent(f.value, Width[f.kind])
    <2>1. f.kind \in DOMAIN Width
      BY <1>1, <1>3, Widths
    <2>2. f.value \in Int /\ Width[f.kind] \in {1, 2, 4, 8}
      BY <1>1, <2>1, WidthAndValues
    <2>3. c \in Seq(Byte) /\ Len(c) = Width[f.kind]
      BY <2>2, RepresentType
    <2>4. ChunksOf(f) = <<c>> /\ Encoding(f) = c
      BY <1>3 DEF ChunksOf, Encoding
    <2> HIDE DEF c
    <2>5. ASSUME NEW seqs \in Seq(Seq(Byte))
          PROVE  FlattenSeq(seqs \o <<c>>) = FlattenSeq(seqs) \o c
      <3>1. seqs \o <<c>> = Append(seqs, c)
        BY <2>3
      <3> QED BY <2>3, <3>1, FlattenOneMore
    <2>6. <<c>> \in Seq(Seq(Byte)) /\ Len(c) > 0
      BY <2>2, <2>3
    <2> QED BY <2>3, <2>4, <2>5, <2>6
  <1> QED BY <1>2, <1>3

LEMMA CallsOneMore ==
  ASSUME NEW F, \A f \in F : IsField(f), NEW fields \in Seq(F), NEW f \in F
  PROVE  Calls(Append(fields, f)) = Calls(fields) \o ChunksOf(f)
  <1> DEFINE C(s) == [i \in DOMAIN s |-> ChunksOf(s[i])]
             S == Seq(Seq(Byte))
  <1>1. \A g \in F : ChunksOf(g) \in S
    BY ChunksOfField
  <1> HIDE DEF S
  <1>2. C(fields) \in Seq(S) /\ Len(C(fields)) = Len(fields)
    BY <1>1
  <1>3. ChunksOf(f) \in S
    BY <1>1
  <1>4. C(Append(fields, f)) = Append(C(fields), ChunksOf(f))
    <2> DEFINE all == Append(fields, f)
               n == Len(fields)
    <2>1. n \in Nat /\ all \in Seq(F) /\ Len(all) = n + 1 /\ all[n + 1] = f
          /\ \A i \in 1 .. n : all[i] = fields[i]
      OBVIOUS
    <2> HIDE DEF all
    <2>2. C(all) \in Seq(S) /\ Len(C(all)) = n + 1
          /\ \A i \in 1 .. n + 1 : C(all)[i] = ChunksOf(all[i])
      BY <1>1, <2>1
    <2>3. \A i \in 1 .. n : C(fields)[i] = ChunksOf(fields[i])
      OBVIOUS
    <2> HIDE DEF C
    <2>4. /\ Append(C(fields), ChunksOf(f)) \in Seq(S)
          /\ Len(Append(C(fields), ChunksOf(f))) = n + 1
          /\ \A i \in 1 .. n : Append(C(fields), ChunksOf(f))[i] = C(fields)[i]
          /\ Append(C(fields), ChunksOf(f))[n + 1] = ChunksOf(f)
      BY <1>2, <1>3, <2>1
    <2> DEFINE t == Append(C(fields), ChunksOf(f))
               u == C(all)
    <2>5. \A i \in 1 .. n + 1 : u[i] = t[i]
      BY <2>1, <2>2, <2>3, <2>4
    <2> HIDE DEF t
    <2>6. u = t
      BY <2>2, <2>4, <2>5, SeqEqual DEF t
    <2> QED BY <2>6 DEF t, all
  <1>5. FlattenSeq(Append(C(fields), ChunksOf(f))) = FlattenSeq(C(fields)) \o ChunksOf(f)
    BY <1>2, <1>3, FlattenOneMore DEF S
  <1> QED BY <1>4, <1>5 DEF Calls

LEMMA CallsType ==
  ASSUME NEW F, \A f \in F : IsField(f), NEW fields \in Seq(F)
  PROVE  Calls(fields) \in Seq(Seq(Byte)) /\ Bytes(fields) \in Seq(Byte)
  <1> DEFINE S == Seq(Seq(Byte))
  <1>1. \A g \in F : ChunksOf(g) \in S
    BY ChunksOfField
  <1> HIDE DEF S
  <1>2. [i \in DOMAIN fields |-> ChunksOf(fields[i])] \in Seq(S)
    BY <1>1
  <1>3. Calls(fields) \in Seq(Seq(Byte))
    BY <1>2, FlattenType DEF S, Calls
  <1> QED BY <1>3, FlattenType DEF Bytes

\* The bytes of a package are those of its fields, one after the other
\* (Package::serialize).
LEMMA BytesOneMore ==
  ASSUME NEW F, \A f \in F : IsField(f), NEW fields \in Seq(F), NEW f \in F
  PROVE  Bytes(Append(fields, f)) = Bytes(fields) \o Encoding(f)
  <1>1. Calls(Append(fields, f)) = Calls(fields) \o ChunksOf(f)
    BY CallsOneMore
  <1>2. Calls(fields) \in Seq(Seq(Byte))
    BY CallsType
  <1>3. FlattenSeq(Calls(fields) \o ChunksOf(f)) = FlattenSeq(Calls(fields)) \o Encoding(f)
    BY <1>2, ChunksOfField
  <1> QED BY <1>1, <1>3 DEF Bytes

LEMMA NoBytes == Bytes(<<>>) = <<>>
  <1>1. [i \in DOMAIN <<>> |-> ChunksOf(<<>>[i])] = <<>>
    OBVIOUS
  <1> QED BY <1>1, FlattenNone DEF Bytes, Calls

\* The bytes of the first fields of a package are the first of its bytes.
LEMMA BytesBegin ==
  ASSUME NEW F, \A f \in F : IsField(f), NEW fields \in Seq(F), NEW k \in 0 .. Len(fields)
  PROVE  LET first == Bytes(SubSeq(fields, 1, k))
         IN /\ Len(first) <= Len(Bytes(fields))
            /\ \A i \in 1 .. Len(first) : Bytes(fields)[i] = first[i]
  <1> DEFINE Begins(s, t) == Len(s) <= Len(t) /\ \A i \in 1 .. Len(s) : t[i] = s[i]
             N == {n \in Nat : n \in k .. Len(fields) =>
                     Begins(Bytes(SubSeq(fields, 1, k)), Bytes(SubSeq(fields, 1, n)))}
  <1>1. k \in Nat /\ Len(fields) \in Nat
    OBVIOUS
  <1>2. \A n \in 0 .. Len(fields) : SubSeq(fields, 1, n) \in Seq(F)
    BY FirstOnes
  <1>3. \A n \in 0 .. Len(fields) : Bytes(SubSeq(fields, 1, n)) \in Seq(Byte)
    BY <1>2, CallsType
  <1>4. \A s \in Seq(Byte) : Begins(s, s)
    OBVIOUS
  <1>5. 0 \in N
    <2>1. ASSUME 0 \in k .. Len(fields)
          PROVE  Begins(Bytes(SubSeq(fields, 1, k)), Bytes(SubSeq(fields, 1, 0)))
      <3>1. k = 0 /\ Bytes(SubSeq(fields, 1, k)) \in Seq(Byte)
        BY <1>1, <1>3, <2>1
      <3> HIDE DEF Begins
      <3> QED BY <3>1, <1>4
    <2> HIDE DEF Begins
    <2> QED BY <2>1
  <1>6. ASSUME NEW n \in N PROVE n + 1 \in N
    <2>1. ASSUME n + 1 \in k .. Len(fields)
          PROVE  Begins(Bytes(SubSeq(fields, 1, k)), Bytes(SubSeq(fields, 1, n + 1)))
      <3> DEFINE b == Bytes(SubSeq(fields, 1, k))
                 c == Bytes(SubSeq(fields, 1, n))
                 e == Encoding(fields[n + 1])
      <3>1. n \in Nat /\ n \in 0 .. Len(fields) /\ n + 1 \in 0 .. Len(fields) /\ n + 1 <= Len(fields)
        BY <1>1, <2>1
      <3>2. CASE n + 1 = k
        <4>1. b \in Seq(Byte) /\ b = Bytes(SubSeq(fields, 1, n + 1))
          BY <1>3, <3>2
        <4> HIDE DEF Begins
        <4> QED BY <4>1, <1>4
      <3>3. CASE n + 1 # k
        <4>1. n \in k .. Len(fields)
          BY <1>1, <2>1, <3>1, <3>3
        <4>2. Begins(b, c)
          BY <4>1
        <4>3. fields[n + 1] \in F /\ SubSeq(fields, 1, n + 1) = Append(SubSeq(fields, 1, n), fields[n + 1])
          BY <3>1, FirstOnesAndNext
        <4>4. Bytes(SubSeq(fields, 1, n + 1)) = c \o e
          <5>1. SubSeq(fields, 1, n) \in Seq(F)
            BY <1>2, <3>1
          <5> QED BY <4>3, <5>1, BytesOneMore
        <4>5. b \in Seq(Byte) /\ c \in Seq(Byte) /\ e \in Seq(Byte)
          BY <1>3, <3>1, <4>3, ChunksOfField
        <4> HIDE DEF b, c, e
        <4>6. Begins(b, c \o e)
          <5>1. /\ Len(c \o e) = Len(c) + Len(e)
                /\ \A i \in 1 .. Len(c) : (c \o e)[i] = c[i]
            BY <4>5
          <5> QED BY <5>1, <4>2, <4>5
        <4> QED BY <4>4, <4>6 DEF b
      <3> QED BY <3>2, <3>3
    <2> HIDE DEF Begins
    <2> QED BY <2>1
  <1> HIDE DEF N
  <1>7. N = Nat
    <2>1. N \in SUBSET Nat
      BY DEF N
    <2> QED BY <1>5, <1>6, <2>1, Induction
  <1>8. Len(fields) \in N /\ Len(fields) \in k .. Len(fields)
    BY <1>1, <1>7
  <1>9. SubSeq(fields, 1, Len(fields)) = fields
    BY AllOfThem
  <1> HIDE DEF Begins
  <1>10. Begins(Bytes(SubSeq(fields, 1, k)), Bytes(fields))
    BY <1>8, <1>9 DEF N
  <1> QED BY <1>10 DEF Begins

\* Where the bytes of a package go on after its first fields.
LEMMA BytesGoOn ==
  ASSUME NEW F, \A f \in F : IsField(f), NEW fields \in Seq(F), NEW k \in Nat, k + 1 <= Len(fields)
  PROVE  LET all == Bytes(fields)
             done == Len(Bytes(SubSeq(fields, 1, k)))
             e == Encoding(fields[k + 1])
         IN /\ done \in Nat /\ e \in Seq(Byte) /\ Len(e) > 0 /\ done + Len(e) <= Len(all)
            /\ \A i \in 1 .. Len(e) : all[done + i] = e[i]
            /\ Len(Bytes(SubSeq(fields, 1, k + 1))) = done + Len(e)
  <1> DEFINE all == Bytes(fields)
             b == Bytes(SubSeq(fields, 1, k))
             c == Bytes(SubSeq(fields, 1, k + 1))
             e == Encoding(fields[k + 1])
  <1>1. k \in 0 .. Len(fields) /\ k + 1 \in 0 .. Len(fields)
    OBVIOUS
  <1>2. SubSeq(fields, 1, k) \in Seq(F)
    BY <1>1, FirstOnes
  <1>3. fields[k + 1] \in F /\ SubSeq(fields, 1, k + 1) = Append(SubSeq(fields, 1, k), fields[k + 1])
    BY FirstOnesAndNext
  <1>4. c = b \o e
    BY <1>2, <1>3, BytesOneMore
  <1>5. b \in Seq(Byte) /\ all \in Seq(Byte)
    BY <1>2, CallsType
  <1>6. e \in Seq(Byte) /\ Len(e) > 0
    BY <1>3, ChunksOfField
  <1>7. Len(c) <= Len(all) /\ \A i \in 1 .. Len(c) : all[i] = c[i]
    BY <1>1, BytesBegin
  <1> HIDE DEF all, b, c, e
  <1>8. Len(b) \in Nat /\ Len(e) \in Nat /\ Len(c) = Len(b) + Len(e)
        /\ \A i \in 1 .. Len(e) : c[Len(b) + i] = e[i]
    BY <1>4, <1>5, <1>6
  <1>9. \A i \in 1 .. Len(e) : all[Len(b) + i] = e[i]
    BY <1>7, <1>8
  <1> QED BY <1>6, <1>7, <1>8, <1>9 DEF all, b, c, e

-----------------------------------------------------------------------------
(* The packages, field by field.                                           *)

FieldsOf(fields) == {fields[i] : i \in 1 .. Len(fields)}

AreFields(fields) ==
  fields \in Seq(FieldsOf(fields)) /\ \A f \in FieldsOf(fields) : IsField(f)

IDFields     == {UInt16(id) : id \in IDs}
StringFields == {String(s) : s \in Strings}

\* Whether it is the id or the nickname of a user.
IsTurnOf(field, i) ==
  IF i % 2 = 1 THEN field \in IDFields ELSE field \in StringFields

LEMMA FieldsAreFields ==
  \A f \in IDFields \cup StringFields :
    IsField(f) /\ (f \in IDFields => f.kind = "uint16") /\ (f \in StringFields => f.kind = "string")
  <1>1. ASSUME NEW id \in IDs PROVE IsField(UInt16(id)) /\ UInt16(id).kind = "uint16"
    <2>1. id \in Values["uint16"]
      BY TransferAssumption, Kinds
    <2>2. "uint16" \in DOMAIN Values
      BY Widths
    <2> QED BY <2>1, <2>2 DEF IsField, UInt16, Field
  <1>2. ASSUME NEW s \in Strings PROVE IsField(String(s)) /\ String(s).kind = "string"
    <2>1. s \in Values["string"]
      BY TransferAssumption, Widths
    <2>2. "string" \in DOMAIN Values
      BY Widths
    <2> QED BY <2>1, <2>2 DEF IsField, String, Field
  <1>3. \A f \in IDFields : IsField(f) /\ f.kind = "uint16"
    BY <1>1 DEF IDFields
  <1>4. \A f \in StringFields : IsField(f) /\ f.kind = "string"
    BY <1>2 DEF StringFields
  <1>5. \A f \in IDFields : f \notin StringFields
    BY <1>3, <1>4
  <1> QED BY <1>3, <1>4, <1>5

\* The users of an acknowledgement: ids and nicknames take turns
\* (UsernameAckPackage::serialize).
LEMMA UsersTakeTurns ==
  ASSUME NEW users \in Seq(IDs \X Strings)
  PROVE  LET U == FlattenSeq([i \in DOMAIN users |-> UserFields(users[i])])
         IN /\ U \in Seq(IDFields \cup StringFields)
            /\ \A i \in 1 .. Len(U) : IsTurnOf(U[i], i)
  <1> DEFINE G == IDFields \cup StringFields
             M(s) == [i \in DOMAIN s |-> UserFields(s[i])]
             Turns(s) == /\ FlattenSeq(M(s)) \in Seq(G)
                         /\ Len(FlattenSeq(M(s))) = 2 * Len(s)
                         /\ \A i \in 1 .. Len(FlattenSeq(M(s))) : IsTurnOf(FlattenSeq(M(s))[i], i)
             N == {n \in Nat : \A s \in Seq(IDs \X Strings) : Len(s) = n => Turns(s)}
  <1>1. ASSUME NEW user \in IDs \X Strings
        PROVE  \E f \in IDFields, g \in StringFields : UserFields(user) = <<f, g>>
    BY DEF UserFields, IDFields, StringFields
  <1>2. ASSUME NEW user \in IDs \X Strings PROVE UserFields(user) \in Seq(G)
    <2>1. PICK f \in IDFields, g \in StringFields : UserFields(user) = <<f, g>>
      BY <1>1
    <2>2. f \in G /\ g \in G
      OBVIOUS
    <2> HIDE DEF G
    <2> QED BY <2>1, <2>2
  <1>3. 0 \in N
    <2>1. ASSUME NEW s \in Seq(IDs \X Strings), Len(s) = 0 PROVE Turns(s)
      <3>1. M(s) = <<>>
        BY <2>1
      <3>2. FlattenSeq(M(s)) = <<>>
        BY <3>1, FlattenNone
      <3> HIDE DEF M
      <3> QED BY <2>1, <3>2
    <2> HIDE DEF Turns
    <2> QED BY <2>1
  <1>4. ASSUME NEW n \in N PROVE n + 1 \in N
    <2>1. ASSUME NEW s \in Seq(IDs \X Strings), Len(s) = n + 1 PROVE Turns(s)
      <3> DEFINE t == SubSeq(s, 1, n)
                 x == s[n + 1]
                 T == FlattenSeq(M(t))
      <3>1. n \in Nat
        OBVIOUS
      <3>2. t \in Seq(IDs \X Strings) /\ Len(t) = n /\ x \in IDs \X Strings /\ s = Append(t, x)
        BY <2>1, <3>1, AllButLast
      <3>3. Turns(t)
        <4> HIDE DEF Turns, t
        <4> QED BY <3>2
      <3> HIDE DEF t, x
      <3>4. M(s) = Append(M(t), UserFields(x))
        <4> DEFINE S == Seq(G)
        <4>0. \A user \in IDs \X Strings : UserFields(user) \in S
          BY <1>2
        <4> HIDE DEF S
        <4>1. M(t) \in Seq(S) /\ Len(M(t)) = n /\ UserFields(x) \in S
          BY <4>0, <3>2
        <4>2. M(s) \in Seq(S) /\ Len(M(s)) = n + 1
          <5>1. DOMAIN s = 1 .. n + 1 /\ \A i \in 1 .. n + 1 : s[i] \in IDs \X Strings
            BY <2>1, <3>1
          <5>2. \A i \in 1 .. n + 1 : UserFields(s[i]) \in S
            BY <4>0, <5>1
          <5>3. M(s) \in [1 .. n + 1 -> S]
            BY <5>1, <5>2
          <5> HIDE DEF M
          <5> QED BY <5>3, <3>1
        <4>3. /\ \A i \in 1 .. n : M(s)[i] = UserFields(t[i]) /\ M(t)[i] = UserFields(t[i])
              /\ M(s)[n + 1] = UserFields(x)
          BY <2>1, <3>1, <3>2
        <4> DEFINE u == Append(M(t), UserFields(x))
                   v == M(s)
        <4> HIDE DEF M
        <4>4. /\ u \in Seq(S) /\ Len(u) = n + 1
              /\ \A i \in 1 .. n : u[i] = M(t)[i]
              /\ u[n + 1] = UserFields(x)
          BY <4>1
        <4> HIDE DEF u
        <4>5. \A i \in 1 .. n + 1 : v[i] = u[i]
          BY <3>1, <4>3, <4>4
        <4>6. v = u
          BY <4>2, <4>4, <4>5, SeqEqual
        <4> QED BY <4>6 DEF u
      <3>5. M(t) \in Seq(Seq(G)) /\ UserFields(x) \in Seq(G)
        <4> HIDE DEF G
        <4> QED BY <1>2, <3>2
      <3>6. FlattenSeq(M(s)) = T \o UserFields(x)
        <4> HIDE DEF M, G
        <4> QED BY <3>4, <3>5, FlattenOneMore
      <3>7. PICK f \in IDFields, g \in StringFields : UserFields(x) = <<f, g>>
        BY <1>1, <3>2
      <3>8. T \in Seq(G) /\ Len(T) = 2 * n /\ \A i \in 1 .. Len(T) : IsTurnOf(T[i], i)
        BY <3>2, <3>3
      <3> HIDE DEF T, M
      <3>9. /\ T \o <<f, g>> \in Seq(G) /\ Len(T \o <<f, g>>) = 2 * n + 2
            /\ \A i \in 1 .. 2 * n : (T \o <<f, g>>)[i] = T[i]
            /\ (T \o <<f, g>>)[2 * n + 1] = f /\ (T \o <<f, g>>)[2 * n + 2] = g
        <4>1. f \in G /\ g \in G
          OBVIOUS
        <4> HIDE DEF G
        <4> DEFINE e == <<f, g>>
        <4>2. e \in Seq(G) /\ Len(e) = 2 /\ e[1] = f /\ e[2] = g
          BY <4>1
        <4> HIDE DEF e
        <4>3. /\ T \o e \in Seq(G) /\ Len(T \o e) = Len(T) + Len(e)
              /\ \A i \in 1 .. Len(T) + Len(e) :
                   (T \o e)[i] = IF i <= Len(T) THEN T[i] ELSE e[i - Len(T)]
          BY <3>8, <4>2, ConcatProperties
        <4>4. \A i \in 1 .. 2 * n : (T \o e)[i] = T[i]
          BY <3>1, <3>8, <4>2, <4>3
        <4>5. (T \o e)[2 * n + 1] = f /\ (T \o e)[2 * n + 2] = g
          <5>1. /\ 2 * n + 1 \in 1 .. 2 * n + 2 /\ ~(2 * n + 1 <= 2 * n) /\ (2 * n + 1) - 2 * n = 1
                /\ 2 * n + 2 \in 1 .. 2 * n + 2 /\ ~(2 * n + 2 <= 2 * n) /\ (2 * n + 2) - 2 * n = 2
            BY <3>1
          <5> QED BY <3>8, <4>2, <4>3, <5>1
        <4>6. Len(T \o e) = 2 * n + 2
          BY <3>8, <4>2, <4>3
        <4> QED BY <4>3, <4>4, <4>5, <4>6 DEF e
      <3>10. IsTurnOf(f, 2 * n + 1) /\ IsTurnOf(g, 2 * n + 2)
        <4>1. (2 * n + 1) % 2 = 1 /\ (2 * n + 2) % 2 = 0
          BY <3>1
        <4> QED BY <4>1 DEF IsTurnOf
      <3> DEFINE w == T \o <<f, g>>
      <3> HIDE DEF w
      <3>11. \A i \in 1 .. 2 * n + 2 : IsTurnOf(w[i], i)
        <4>1. ASSUME NEW i \in 1 .. 2 * n + 2 PROVE IsTurnOf(w[i], i)
          <5>1. i \in 1 .. 2 * n \/ i = 2 * n + 1 \/ i = 2 * n + 2
            BY <3>1
          <5>2. CASE i \in 1 .. 2 * n
            BY <3>8, <3>9, <5>2 DEF w
          <5>3. CASE i = 2 * n + 1
            BY <3>9, <3>10, <5>3 DEF w
          <5>4. CASE i = 2 * n + 2
            BY <3>9, <3>10, <5>4 DEF w
          <5> QED BY <5>1, <5>2, <5>3, <5>4
        <4> QED BY <4>1
      <3>12. FlattenSeq(M(s)) = w /\ w \in Seq(G) /\ Len(w) = 2 * n + 2
        BY <3>6, <3>7, <3>9 DEF w
      <3>13. 2 * n + 2 = 2 * Len(s)
        BY <2>1, <3>1
      <3> QED BY <3>11, <3>12, <3>13
    <2> HIDE DEF Turns
    <2> QED BY <2>1
  <1> HIDE DEF N
  <1>5. N = Nat
    <2>1. N \in SUBSET Nat
      BY DEF N
    <2> QED BY <1>3, <1>4, <2>1, Induction
  <1>6. Turns(users)
    <2>1. Len(users) \in N
      BY <1>5
    <2> HIDE DEF Turns
    <2> QED BY <2>1 DEF N
  <1> QED BY <1>6

\* What the constructors of the packages go by.
LaidOut(p) ==
  LET type == p[1].value
      n == Len(Layout(type))
  IN /\ p[1] = Int8(type) /\ type \in 0 .. 4
     /\ n \in Nat /\ n <= Len(p) /\ DOMAIN Layout(type) = 1 .. n
     /\ \A i \in 1 .. n : p[i].kind = Layout(type)[i]
     /\ type # USERNAME_ACK => Len(p) = n
     /\ type = USERNAME_ACK =>
          n = 2 /\ \A i \in 3 .. Len(p) : p[i].kind = IF i % 2 = 1 THEN "uint16" ELSE "string"

LEMMA TypeIsField ==
  \A type \in 0 .. 4 : IsField(Int8(type)) /\ Int8(type).kind = "int8" /\ Int8(type).value = type
  <1>1. ASSUME NEW type \in 0 .. 4
        PROVE  IsField(Int8(type)) /\ Int8(type).kind = "int8" /\ Int8(type).value = type
    <2>1. type \in Values["int8"]
      BY Kinds, SMT DEF Int8Values, Between
    <2>2. "int8" \in DOMAIN Values
      BY Widths
    <2> QED BY <2>1, <2>2 DEF IsField, Int8, Field
  <1> QED BY <1>1

\* The fields of any sequence of fields.
LEMMA SequenceOfFields ==
  ASSUME NEW F, \A f \in F : IsField(f), NEW p \in Seq(F)
  PROVE  AreFields(p)
  <1>1. \A f \in FieldsOf(p) : IsField(f)
    BY DEF FieldsOf
  <1>2. p \in [1 .. Len(p) -> FieldsOf(p)] /\ Len(p) \in Nat
    BY DEF FieldsOf
  <1>3. p \in Seq(FieldsOf(p))
    BY <1>2
  <1> QED BY <1>1, <1>3 DEF AreFields

LEMMA LaidOutBy ==
  ASSUME NEW p, NEW type \in 0 .. 4, p[1] = Int8(type),
         NEW n \in Nat, NEW t, Layout(type) = t, Len(t) = n, DOMAIN t = 1 .. n, n <= Len(p),
         \A i \in 1 .. n : p[i].kind = t[i],
         type # USERNAME_ACK => Len(p) = n,
         type = USERNAME_ACK =>
           n = 2 /\ \A i \in 3 .. Len(p) : p[i].kind = IF i % 2 = 1 THEN "uint16" ELSE "string"
  PROVE  LaidOut(p)
  <1>1. p[1].value = type
    BY TypeIsField
  <1> QED BY <1>1 DEF LaidOut

LEMMA PackagesAreLaidOut ==
  ASSUME NEW p \in Packages
  PROVE  AreFields(p) /\ LaidOut(p)
  <1> DEFINE F == {Int8(type) : type \in 0 .. 4} \cup IDFields \cup StringFields
             Goal == AreFields(p) /\ LaidOut(p)
  <1>1. \A f \in F : IsField(f)
    BY TypeIsField, FieldsAreFields
  <1>2. \A id \in IDs : UInt16(id) \in F /\ UInt16(id).kind = "uint16"
    BY FieldsAreFields DEF IDFields
  <1>3. \A s \in Strings : String(s) \in F /\ String(s).kind = "string"
    BY FieldsAreFields DEF StringFields
  <1>4. \A type \in 0 .. 4 : Int8(type) \in F /\ Int8(type).kind = "int8" /\ Int8(type).value = type
    BY TypeIsField
  <1>5. p \in Seq(F) => AreFields(p)
    BY <1>1, SequenceOfFields
  <1>6. /\ USERNAME = 0 /\ USERNAME_ACK = 1 /\ STATE_ADD_USER = 2 /\ STATE_REM_USER = 3 /\ MESSAGE = 4
        /\ Layout(0) = <<"int8", "string">> /\ Layout(1) = <<"int8", "uint16">>
        /\ Layout(2) = <<"int8", "uint16", "string">> /\ Layout(3) = <<"int8", "uint16">>
        /\ Layout(4) = <<"int8", "uint16", "string">>
    BY DEF Layout, USERNAME, USERNAME_ACK, STATE_ADD_USER, STATE_REM_USER, MESSAGE
  <1>a. /\ Len(<<"int8", "string">>) = 2 /\ DOMAIN <<"int8", "string">> = 1 .. 2
        /\ Len(<<"int8", "uint16">>) = 2 /\ DOMAIN <<"int8", "uint16">> = 1 .. 2
        /\ Len(<<"int8", "uint16", "string">>) = 3 /\ DOMAIN <<"int8", "uint16", "string">> = 1 .. 3
    OBVIOUS
  <1>7. ASSUME NEW user \in IDs \X Strings
        PROVE  user[1] \in IDs /\ user[2] \in Strings /\ UserFields(user) = <<UInt16(user[1]), String(user[2])>>
    BY DEF UserFields
  <1> HIDE DEF F
  <1>8. ASSUME NEW s \in Strings, p = UsernameFields(s) PROVE Goal
    <2>1. p = <<Int8(0), String(s)>>
      BY <1>6, <1>8 DEF UsernameFields
    <2>2. p \in Seq(F) /\ Len(p) = 2 /\ p[1] = Int8(0) /\ p[2].kind = "string"
      BY <2>1, <1>3, <1>4
    <2>3. \A i \in 1 .. 2 : p[i].kind = <<"int8", "string">>[i]
      BY <2>2, <1>4
    <2>4. LaidOut(p)
      <3>1. Layout(0) = <<"int8", "string">> /\ 0 # USERNAME_ACK /\ 0 \in 0 .. 4
        BY <1>6
      <3> QED BY <2>2, <2>3, <3>1, <1>a, LaidOutBy
    <2> QED BY <2>2, <2>4, <1>5
  <1>9. ASSUME NEW id \in IDs, NEW s \in Strings,
               p = <<Int8(2), UInt16(id), String(s)>> \/ p = <<Int8(4), UInt16(id), String(s)>>
        PROVE  Goal
    <2>1. PICK type \in {2, 4} : p = <<Int8(type), UInt16(id), String(s)>>
      BY <1>9
    <2>2. Int8(type) \in F /\ Int8(type).kind = "int8" /\ UInt16(id) \in F /\ String(s) \in F
      BY <1>2, <1>3, <1>4
    <2>3. p \in Seq(F) /\ Len(p) = 3 /\ p[1] = Int8(type)
      BY <2>1, <2>2
    <2>4. \A i \in 1 .. 3 : p[i].kind = <<"int8", "uint16", "string">>[i]
      BY <2>1, <2>2, <1>2, <1>3
    <2>5. Layout(type) = <<"int8", "uint16", "string">> /\ type # USERNAME_ACK /\ type \in 0 .. 4
      BY <1>6
    <2>6. LaidOut(p)
      BY <2>3, <2>4, <2>5, <1>a, LaidOutBy
    <2> QED BY <2>3, <2>6, <1>5
  <1>10. ASSUME NEW user \in IDs \X Strings, p = AddUserFields(user) PROVE Goal
    <2>1. p = <<Int8(2), UInt16(user[1]), String(user[2])>>
      <3>1. p = <<Int8(2)>> \o <<UInt16(user[1]), String(user[2])>>
        BY <1>6, <1>7, <1>10 DEF AddUserFields
      <3>2. ASSUME NEW x, NEW y, NEW z PROVE <<x>> \o <<y, z>> = <<x, y, z>>
        <4> DEFINE S == {x, y, z}
                   u == <<x>>
                   v == <<y, z>>
                   w == <<x, y, z>>
        <4>1. u \in Seq(S) /\ Len(u) = 1 /\ u[1] = x
          OBVIOUS
        <4>2. v \in Seq(S) /\ Len(v) = 2 /\ v[1] = y /\ v[2] = z
          OBVIOUS
        <4>3. w \in Seq(S) /\ Len(w) = 3 /\ w[1] = x /\ w[2] = y /\ w[3] = z
          OBVIOUS
        <4> HIDE DEF S, u, v, w
        <4>a. /\ u \o v \in Seq(S) /\ Len(u \o v) = Len(u) + Len(v)
              /\ \A i \in 1 .. Len(u) + Len(v) :
                   (u \o v)[i] = IF i <= Len(u) THEN u[i] ELSE v[i - Len(u)]
          BY <4>1, <4>2, ConcatProperties
        <4>4. u \o v \in Seq(S) /\ Len(u \o v) = 3
          BY <4>1, <4>2, <4>a
        <4>5. \A i \in 1 .. 3 : (u \o v)[i] = w[i]
          BY <4>1, <4>2, <4>3, <4>a
        <4>6. u \o v = w
          BY <4>3, <4>4, <4>5, SeqEqual
        <4> QED BY <4>6 DEF u, v, w
      <3> QED BY <3>1, <3>2
    <2> QED BY <2>1, <1>7, <1>9
  <1>11. ASSUME NEW id \in IDs, p = RemoveUserFields(id) PROVE Goal
    <2>1. p = <<Int8(3), UInt16(id)>>
      BY <1>6, <1>11 DEF RemoveUserFields
    <2>2. p \in Seq(F) /\ Len(p) = 2 /\ p[1] = Int8(3) /\ p[2].kind = "uint16"
      BY <2>1, <1>2, <1>4
    <2>3. \A i \in 1 .. 2 : p[i].kind = <<"int8", "uint16">>[i]
      BY <2>2, <1>4
    <2>4. LaidOut(p)
      <3>1. Layout(3) = <<"int8", "uint16">> /\ 3 # USERNAME_ACK /\ 3 \in 0 .. 4
        BY <1>6
      <3> QED BY <2>2, <2>3, <3>1, <1>a, LaidOutBy
    <2> QED BY <2>2, <2>4, <1>5
  <1>12. ASSUME NEW id \in IDs, NEW s \in Strings, p = MessageFields(id, s) PROVE Goal
    <2>1. p = <<Int8(4), UInt16(id), String(s)>>
      BY <1>6, <1>12 DEF MessageFields
    <2> QED BY <2>1, <1>9
  <1>13. ASSUME NEW id \in IDs, NEW users \in Maps, p = AckFields(id, users) PROVE Goal
    <2> DEFINE U == FlattenSeq([i \in DOMAIN users |-> UserFields(users[i])])
               head == <<Int8(1), UInt16(id)>>
    <2>1. users \in Seq(IDs \X Strings)
      BY TransferAssumption
    <2>2. U \in Seq(IDFields \cup StringFields) /\ \A i \in 1 .. Len(U) : IsTurnOf(U[i], i)
      BY <2>1, UsersTakeTurns
    <2>3. U \in Seq(F)
      BY <2>2, SeqMonotonic DEF F
    <2>4. head \in Seq(F) /\ Len(head) = 2 /\ head[1] = Int8(1) /\ head[2] = UInt16(id)
      BY <1>2, <1>4
    <2>5. p = head \o U
      BY <1>6, <1>13 DEF AckFields
    <2> HIDE DEF U, head
    <2>6. /\ p \in Seq(F) /\ Len(p) = Len(head) + Len(U)
          /\ \A i \in 1 .. Len(head) + Len(U) :
               p[i] = IF i <= Len(head) THEN head[i] ELSE U[i - Len(head)]
      BY <2>3, <2>4, <2>5, ConcatProperties
    <2>7. /\ Len(U) \in Nat /\ Len(p) = 2 + Len(U)
          /\ p[1] = Int8(1) /\ p[2] = UInt16(id)
          /\ \A i \in 3 .. Len(p) : i - 2 \in 1 .. Len(U) /\ p[i] = U[i - 2]
      BY <2>3, <2>4, <2>6
    <2>8. ASSUME NEW i \in 3 .. Len(p) PROVE p[i].kind = IF i % 2 = 1 THEN "uint16" ELSE "string"
      <3>1. i - 2 \in 1 .. Len(U) /\ p[i] = U[i - 2]
        BY <2>7
      <3>2. (i - 2) % 2 = i % 2
        BY <2>7
      <3>3. IsTurnOf(p[i], i - 2)
        BY <2>2, <3>1
      <3> QED BY <3>2, <3>3, FieldsAreFields DEF IsTurnOf
    <2>9. \A i \in 1 .. 2 : p[i].kind = <<"int8", "uint16">>[i]
      BY <2>7, <1>2, <1>4
    <2>10. LaidOut(p)
      <3>1. Layout(1) = <<"int8", "uint16">> /\ 1 = USERNAME_ACK /\ 1 \in 0 .. 4 /\ 2 <= Len(p)
        BY <1>6, <2>7
      <3> QED BY <2>7, <2>8, <2>9, <3>1, <1>a, LaidOutBy
    <2> QED BY <2>6, <2>10, <1>5
  <1> HIDE DEF Goal
  <1>14. Goal
    BY <1>8, <1>10, <1>11, <1>12, <1>13 DEF Packages
  <1> QED BY <1>14 DEF Goal

\* What a record is, and that it is no package.
LEMMA RecordsAreFields ==
  ASSUME NEW p \in Records
  PROVE  AreFields(p) /\ Len(p) > 0 /\ p \notin Packages
  <1>1. /\ Len(p) \in Nat \ {0} /\ p = [i \in 1 .. Len(p) |-> p[i]]
        /\ \A i \in 1 .. Len(p) : IsField(p[i])
        /\ p[1].kind = "byte"
    BY TransferAssumption
  <1>2. \A f \in FieldsOf(p) : IsField(f)
    BY <1>1 DEF FieldsOf
  <1>3. p \in [1 .. Len(p) -> FieldsOf(p)]
    BY <1>1 DEF FieldsOf
  <1>4. p \in Seq(FieldsOf(p))
    BY <1>1, <1>3
  <1>5. ASSUME p \in Packages PROVE FALSE
    <2>1. p[1] = Int8(p[1].value)
      BY <1>5, PackagesAreLaidOut DEF LaidOut
    <2>2. p[1].kind = "int8"
      BY <2>1 DEF Int8, Field
    <2> QED BY <2>2, <1>1
  <1> QED BY <1>1, <1>2, <1>4, <1>5 DEF AreFields

-----------------------------------------------------------------------------
(* The sender.                                                             *)

LEMMA PackageIsFields ==
  ASSUME package \in Packages \cup Records
  PROVE  /\ AreFields(package) /\ Len(package) \in Nat \ {0}
         /\ Calls(package) \in Seq(Seq(Byte)) /\ Bytes(package) \in Seq(Byte)
         /\ \A i \in 1 .. Len(package) : IsField(package[i])
         /\ package \in Packages => package \notin Records
  <1>1. AreFields(package) /\ Len(package) \in Nat \ {0}
    <2>1. CASE package \in Packages
      <3>1. AreFields(package) /\ LaidOut(package)
        BY <2>1, PackagesAreLaidOut
      <3>2. /\ Len(package) \in Nat
            /\ package[1].value \in 0 .. 4
            /\ Len(Layout(package[1].value)) <= Len(package)
        BY <3>1 DEF AreFields, LaidOut
      <3>3. \A type \in 0 .. 4 : Len(Layout(type)) \in {2, 3}
        BY DEF Layout, USERNAME, USERNAME_ACK, STATE_ADD_USER, STATE_REM_USER, MESSAGE
      <3>4. Len(Layout(package[1].value)) \in {2, 3}
        BY <3>2, <3>3
      <3> HIDE DEF Layout
      <3> QED BY <3>1, <3>2, <3>4
    <2>2. CASE package \in Records
      BY <2>2, RecordsAreFields DEF AreFields
    <2> QED BY <2>1, <2>2
  <1>2. Calls(package) \in Seq(Seq(Byte)) /\ Bytes(package) \in Seq(Byte)
    BY <1>1, CallsType DEF AreFields
  <1>3. \A i \in 1 .. Len(package) : IsField(package[i])
    BY <1>1 DEF AreFields, FieldsOf
  <1>4. package \in Packages => package \notin Records
    BY RecordsAreFields
  <1> QED BY <1>1, <1>2, <1>3, <1>4

\* No write has been called.
LEMMA NothingWritten ==
  ASSUME Init
  PROVE  StreamInv /\ TypeOK /\ TransferInv
  <1>1. StreamInv
    BY StreamInitInv DEF Init
  <1>2. /\ package \in Packages \cup Records /\ todo = Calls(package) /\ stage = "serialize"
        /\ packet = <<>> /\ peer \in Addresses /\ stream = FromBytes(<<>>) /\ got = <<>>
        /\ written = <<>> /\ writing = FALSE
    BY DEF Init, StreamInit
  <1>3. TypeOK
    <2>1. stream.offset = 0 /\ stream.length = 0 /\ DOMAIN stream = {"buffer", "length", "offset"}
      BY <1>2 DEF FromBytes
    <2>2. StreamTypeOK
      BY <1>1 DEF StreamInv
    <2>3. 0 .. stream.length - 1 \subseteq DOMAIN stream.buffer
      BY <2>1
    <2> QED BY <1>2, <2>1, <2>2, <2>3 DEF TypeOK
  <1>4. Calls(package) \in Seq(Seq(Byte)) /\ Len(Calls(package)) \in Nat
    BY <1>2, PackageIsFields
  <1>5. SubSeq(Calls(package), 1, Len(Calls(package))) = Calls(package)
    BY <1>4, AllOfThem
  <1>6. SubSeq(Calls(package), 1, 0) = <<>>
    BY <1>4
  <1>7. written \o <<>> = <<>>
    BY <1>2, ConcatEmptySeq
  <1>8. FlattenSeq(SubSeq(Calls(package), 1, 0)) = <<>>
    BY <1>6, FlattenNone
  <1>9. Len(Calls(package)) - Len(todo) = 0 /\ 0 + 1 = 1 /\ 0 \in 0 .. Len(Calls(package))
    BY <1>2, <1>4
  <1>10. SendInv
    <2> DEFINE calls == Calls(package)
    <2> HIDE DEF calls
    <2>1. /\ Len(calls) - Len(todo) = 0 /\ 0 \in 0 .. Len(calls) /\ todo = SubSeq(calls, 0 + 1, Len(calls))
          /\ written \o <<>> = FlattenSeq(SubSeq(calls, 1, 0))
      BY <1>2, <1>5, <1>7, <1>8, <1>9 DEF calls
    <2> QED BY <2>1, <1>2 DEF SendInv, calls
  <1>11. ReceiveInv
    BY <1>2 DEF ReceiveInv
  <1> QED BY <1>1, <1>3, <1>10, <1>11 DEF TransferInv

\* What is left of a sequence, and what is left of that.
LEMMA HeadAndTail ==
  ASSUME NEW S, NEW s \in Seq(S), NEW k \in Nat, k <= Len(s)
  PROVE  LET t == SubSeq(s, k + 1, Len(s))
         IN /\ t \in Seq(S) /\ Len(t) = Len(s) - k
            /\ t # <<>> => /\ k + 1 <= Len(s) /\ Head(t) = s[k + 1]
                           /\ Tail(t) = SubSeq(s, k + 2, Len(s)) /\ Len(Tail(t)) = Len(s) - (k + 1)
  <1> DEFINE n == Len(s)
             t == SubSeq(s, k + 1, n)
  <1>1. n \in Nat /\ k <= n /\ \A i \in 1 .. n : s[i] \in S
    OBVIOUS
  <1>2. t = [i \in 1 .. n - k |-> s[k + i]]
    BY <1>1
  <1>3. t \in Seq(S) /\ Len(t) = n - k
    BY <1>1, <1>2
  <1>4. ASSUME t # <<>> PROVE k + 1 <= n
    BY <1>1, <1>3, <1>4
  <1>5. ASSUME k + 1 <= n
        PROVE  Head(t) = s[k + 1] /\ Tail(t) = SubSeq(s, k + 2, n) /\ Len(Tail(t)) = n - (k + 1)
    <2>1. Head(t) = s[k + 1]
      BY <1>1, <1>2, <1>3, <1>5
    <2>2. Tail(t) = [i \in 1 .. n - (k + 1) |-> s[(k + 1) + i]]
      BY <1>1, <1>2, <1>3, <1>5
    <2>3. SubSeq(s, k + 2, n) = [i \in 1 .. n - (k + 1) |-> s[(k + 1) + i]]
      BY <1>1, <1>5
    <2>4. Len([i \in 1 .. n - (k + 1) |-> s[(k + 1) + i]]) = n - (k + 1)
      BY <1>1, <1>5
    <2> QED BY <2>1, <2>2, <2>3, <2>4
  <1> QED BY <1>3, <1>4, <1>5

\* While a package is serialized: nothing has been read.
LEMMA NotYetReceived ==
  ASSUME stage \in {"serialize", "sent"}
  PROVE  ReceiveInv
  BY DEF ReceiveInv

\* The next call of write is given the next of the chunks.
LEMMA SerializeInv ==
  ASSUME StreamInv, TypeOK, TransferInv, Serialize
  PROVE  StreamInv' /\ TypeOK' /\ TransferInv'
  <1> DEFINE calls == Calls(package)
             done == Len(calls) - Len(todo)
             before == SubSeq(calls, 1, done)
  <1>1. /\ stage = "serialize" /\ todo # <<>> /\ Write(Head(todo)) /\ todo' = Tail(todo)
        /\ UNCHANGED <<package, packet, peer, peer_address, stream, peeked, got, stage>>
    BY DEF Serialize, readVars
  <1>2. /\ ~writing /\ writing' = TRUE /\ data' = Head(todo) /\ UNCHANGED written
    BY <1>1 DEF Write
  <1>3. calls \in Seq(Seq(Byte)) /\ Len(calls) \in Nat
    BY PackageIsFields DEF TypeOK
  <1>4. /\ done \in 0 .. Len(calls) /\ todo = SubSeq(calls, done + 1, Len(calls))
        /\ written \o <<>> = FlattenSeq(before) /\ got = <<>>
    <2>1. SendInv
      BY DEF TransferInv
    <2> QED BY <1>1, <1>2, <2>1 DEF SendInv
  <1>5. written \in Seq(Byte)
    BY DEF StreamInv, StreamTypeOK
  <1> HIDE DEF calls, done, before
  <1>6. done \in Nat /\ done <= Len(calls)
    BY <1>3, <1>4
  <1>7. /\ Len(todo) = Len(calls) - done /\ done + 1 <= Len(calls) /\ Head(todo) = calls[done + 1]
        /\ Tail(todo) = SubSeq(calls, done + 2, Len(calls)) /\ Len(Tail(todo)) = Len(calls) - (done + 1)
    <2> DEFINE S == Seq(Byte)
    <2>1. calls \in Seq(S)
      BY <1>3
    <2> HIDE DEF S
    <2> QED BY <1>1, <1>4, <1>6, <2>1, HeadAndTail
  <1>8. /\ calls[done + 1] \in Seq(Byte)
        /\ SubSeq(calls, 1, done + 1) = Append(before, calls[done + 1])
        /\ before \in Seq(Seq(Byte))
    <2> DEFINE S == Seq(Byte)
    <2>1. calls \in Seq(S)
      BY <1>3
    <2> HIDE DEF S
    <2>2. calls[done + 1] \in S /\ SubSeq(calls, 1, done + 1) = Append(SubSeq(calls, 1, done), calls[done + 1])
      BY <1>6, <1>7, <2>1, FirstOnesAndNext
    <2>3. SubSeq(calls, 1, done) \in Seq(S)
      BY <1>4, <2>1, FirstOnes
    <2> QED BY <2>2, <2>3 DEF S, before
  <1>9. FlattenSeq(SubSeq(calls, 1, done + 1)) = written \o Head(todo)
    <2>1. FlattenSeq(Append(before, calls[done + 1])) = FlattenSeq(before) \o calls[done + 1]
      BY <1>8, FlattenOneMore
    <2>2. written \o <<>> = written
      BY <1>5, ConcatEmptySeq
    <2> QED BY <1>4, <1>7, <1>8, <2>1, <2>2
  <1>10. StreamInv'
    <2>1. Head(todo) \in Seq(Byte)
      BY <1>7, <1>8
    <2> QED BY <1>1, <2>1, WriteInv
  <1>11. TypeOK'
    <2>1. StreamTypeOK'
      BY <1>10 DEF StreamInv
    <2> QED BY <1>1, <2>1 DEF TypeOK
  <1>12. SendInv'
    <2>1. calls' = calls
      BY <1>1 DEF calls
    <2>2. Len(calls) - Len(todo') = done + 1 /\ done + 1 \in 0 .. Len(calls) /\ (done + 1) + 1 = done + 2
      BY <1>1, <1>3, <1>6, <1>7
    <2>3. todo' = SubSeq(calls, (done + 1) + 1, Len(calls))
      BY <1>1, <1>7, <2>2
    <2>4. written' \o (IF writing' THEN data' ELSE <<>>) = FlattenSeq(SubSeq(calls, 1, done + 1))
      BY <1>2, <1>9
    <2>5. stage' = "serialize" /\ got' = <<>>
      BY <1>1, <1>4
    <2> QED BY <2>1, <2>2, <2>3, <2>4, <2>5 DEF SendInv, calls
  <1>13. ReceiveInv'
    BY <1>1 DEF ReceiveInv
  <1> QED BY <1>10, <1>11, <1>12, <1>13 DEF TransferInv

\* Where the buffer is and how long makes no difference.
LEMMA GrowInv ==
  ASSUME StreamInv, TypeOK, TransferInv, Grow
  PROVE  StreamInv' /\ TypeOK' /\ TransferInv'
  <1>1. Resize /\ UNCHANGED <<package, todo, packet, peer, peer_address, stream, peeked, got, stage>>
    BY DEF Grow, transferVars, readVars
  <1>2. UNCHANGED <<writing, data, written>>
    BY <1>1 DEF Resize
  <1>3. StreamInv'
    BY <1>1, ResizeInv
  <1>4. TypeOK'
    <2>1. StreamTypeOK'
      BY <1>3 DEF StreamInv
    <2> QED BY <1>1, <2>1 DEF TypeOK
  <1>5. SendInv' /\ ReceiveInv'
    BY <1>1, <1>2 DEF TransferInv, SendInv, ReceiveInv
  <1> QED BY <1>3, <1>4, <1>5 DEF TransferInv

\* What was being written has been written.
LEMMA FillInv ==
  ASSUME StreamInv, TypeOK, TransferInv, Fill
  PROVE  StreamInv' /\ TypeOK' /\ TransferInv'
  <1> DEFINE calls == Calls(package)
             done == Len(calls) - Len(todo)
             soFar == FlattenSeq(SubSeq(calls, 1, done))
  <1>1. Copy /\ UNCHANGED <<package, todo, packet, peer, peer_address, stream, peeked, got, stage>>
    BY DEF Fill, transferVars, readVars
  <1>2. writing /\ writing' = FALSE /\ written' = written \o data
    BY <1>1 DEF Copy
  <1>3. StreamInv'
    BY <1>1, CopyInv
  <1>4. TypeOK'
    <2>1. StreamTypeOK'
      BY <1>3 DEF StreamInv
    <2> QED BY <1>1, <2>1 DEF TypeOK
  <1>5. /\ done \in 0 .. Len(calls) /\ todo = SubSeq(calls, done + 1, Len(calls))
        /\ written \o data = soFar /\ stage = "serialize" /\ got = <<>>
    <2>1. SendInv
      BY DEF TransferInv
    <2>2. stage # "serialize" => ~writing
      BY <2>1 DEF SendInv
    <2> QED BY <1>2, <2>1, <2>2 DEF SendInv
  <1>6. written' \in Seq(Byte)
    BY <1>3 DEF StreamInv, StreamTypeOK
  <1>7. written' \o <<>> = soFar
    <2>1. written' \o <<>> = written'
      BY <1>6, ConcatEmptySeq
    <2> QED BY <1>2, <1>5, <2>1
  <1>8. SendInv'
    <2>1. calls' = calls /\ done' = done
      BY <1>1
    <2>2. soFar' = soFar
      BY <1>1
    <2> QED BY <1>1, <1>2, <1>5, <1>7, <2>1, <2>2 DEF SendInv
  <1>9. ReceiveInv'
    BY <1>1, <1>5 DEF ReceiveInv
  <1> QED BY <1>3, <1>4, <1>8, <1>9 DEF TransferInv

\* When serialize has returned, the stream holds the bytes of the package.
LEMMA SerializedBytes ==
  ASSUME StreamInv, TypeOK, TransferInv, todo = <<>>, ~writing
  PROVE  /\ written = Bytes(package) /\ getBuf = Bytes(package)
         /\ m_length = Len(Bytes(package)) /\ m_length \in Nat /\ m_length <= MaxLength
         /\ \A i \in 1 .. m_length : m_buffer[i - 1] = Bytes(package)[i]
         /\ 0 .. m_length - 1 \subseteq DOMAIN m_buffer
  <1> DEFINE calls == Calls(package)
  <1>1. calls \in Seq(Seq(Byte)) /\ Len(calls) \in Nat
    BY PackageIsFields DEF TypeOK
  <1>2. written \in Seq(Byte) /\ m_length = Len(written) /\ m_length \in Nat /\ m_length <= MaxLength
        /\ (\A i \in 1 .. Len(written) : m_buffer[i - 1] = written[i])
        /\ m_length < m_capacity /\ m_capacity \in Nat /\ DOMAIN m_buffer = 0 .. m_capacity - 1
    BY StreamAssumption DEF StreamInv, StreamTypeOK, BufferOf
  <1>3. Len(calls) - Len(todo) = Len(calls)
    BY <1>1
  <1>4. written \o <<>> = FlattenSeq(SubSeq(calls, 1, Len(calls)))
    BY <1>3 DEF TransferInv, SendInv
  <1>5. written \o <<>> = written
    BY <1>2, ConcatEmptySeq
  <1>6. SubSeq(calls, 1, Len(calls)) = calls
    BY <1>1, AllOfThem
  <1>7. written = Bytes(package)
    BY <1>4, <1>5, <1>6 DEF Bytes
  <1>8. getBuf = written
    BY StreamHoldsBytes DEF HoldsWhatWasWritten
  <1> QED BY <1>2, <1>7, <1>8

LEMMA SendInvariant ==
  ASSUME StreamInv, TypeOK, TransferInv, Send
  PROVE  StreamInv' /\ TypeOK' /\ TransferInv'
  <1>1. /\ stage = "serialize" /\ todo = <<>> /\ ~writing
        /\ packet' = getBuf /\ stage' = "sent"
        /\ UNCHANGED <<package, todo, peer, peer_address, stream, peeked, got>>
        /\ UNCHANGED streamVars
    BY DEF Send, Serialized, readVars
  <1>2. getBuf = Bytes(package) /\ Bytes(package) \in Seq(Byte)
    BY <1>1, SerializedBytes, PackageIsFields DEF TypeOK
  <1>3. StreamInv' /\ UNCHANGED <<writing, data, written>>
    <2>1. [StreamNext]_streamVars
      BY <1>1
    <2> QED BY <1>1, <2>1, StreamNextInv DEF streamVars
  <1>4. TypeOK'
    <2>1. StreamTypeOK'
      BY <1>3 DEF StreamInv
    <2> QED BY <1>1, <1>2, <2>1 DEF TypeOK
  <1>5. SendInv'
    BY <1>1, <1>2, <1>3 DEF TransferInv, SendInv
  <1>6. ReceiveInv'
    BY <1>1 DEF ReceiveInv
  <1> QED BY <1>3, <1>4, <1>5, <1>6 DEF TransferInv

-----------------------------------------------------------------------------
(* The receiver.                                                           *)

\* The next field that has not been read is in the stream, at the offset.
LEMMA NextBytes ==
  ASSUME package \in Packages \cup Records,
         NEW s, s.length = Len(Bytes(package)),
         \A i \in 1 .. s.length : s.buffer[i - 1] = Bytes(package)[i],
         NEW k \in Nat, k + 1 <= Len(package), s.offset = Len(Bytes(SubSeq(package, 1, k)))
  PROVE  LET e == Encoding(package[k + 1])
         IN /\ e \in Seq(Byte) /\ Len(e) > 0 /\ s.offset \in Nat /\ s.length \in Nat
            /\ s.offset + Len(e) <= s.length
            /\ Len(Bytes(SubSeq(package, 1, k + 1))) = s.offset + Len(e)
            /\ \A n \in 0 .. Len(e) : Fits(s, n) /\ BytesAt(s, n) = [i \in 1 .. n |-> e[i]]
  <1> DEFINE all == Bytes(package)
             e == Encoding(package[k + 1])
  <1>1. AreFields(package) /\ all \in Seq(Byte)
    BY PackageIsFields
  <1>2. /\ e \in Seq(Byte) /\ Len(e) > 0 /\ s.offset \in Nat /\ s.offset + Len(e) <= Len(all)
        /\ \A i \in 1 .. Len(e) : all[s.offset + i] = e[i]
        /\ Len(Bytes(SubSeq(package, 1, k + 1))) = s.offset + Len(e)
    <2> DEFINE F == FieldsOf(package)
    <2>1. (\A f \in F : IsField(f)) /\ package \in Seq(F)
      BY <1>1 DEF AreFields
    <2> HIDE DEF F
    <2> QED BY <2>1, BytesGoOn
  <1> HIDE DEF e, all
  <1>3. s.length = Len(all) /\ Len(all) \in Nat /\ Len(e) \in Nat
        /\ \A i \in 1 .. s.length : s.buffer[i - 1] = all[i]
    BY <1>1, <1>2 DEF all
  <1>4. ASSUME NEW n \in 0 .. Len(e)
        PROVE  Fits(s, n) /\ BytesAt(s, n) = [i \in 1 .. n |-> e[i]]
    <2>1. s.offset + n <= s.length
      BY <1>2, <1>3
    <2>2. ASSUME NEW i \in 1 .. n PROVE s.buffer[s.offset + i - 1] = e[i]
      <3>1. s.offset + i \in 1 .. s.length /\ i \in 1 .. Len(e)
        BY <1>2, <1>3, <2>1
      <3>2. s.buffer[(s.offset + i) - 1] = all[s.offset + i]
        BY <1>3, <3>1
      <3> QED BY <1>2, <3>1, <3>2
    <2> QED BY <2>1, <2>2 DEF Fits, BytesAt
  <1> QED BY <1>2, <1>3, <1>4 DEF e

\* The type of a package is what is peeked at.
LEMMA PeeksType ==
  ASSUME package \in Packages,
         NEW s, s.length = Len(Bytes(package)), s.offset = 0,
         \A i \in 1 .. s.length : s.buffer[i - 1] = Bytes(package)[i]
  PROVE  Number(Peek(s, Width.int8), TRUE) = package[1].value
  <1> DEFINE type == package[1].value
             e == Encoding(package[0 + 1])
  <1>1. package[1] = Int8(type) /\ type \in 0 .. 4 /\ 0 + 1 <= Len(package)
    <2>1. LaidOut(package)
      BY PackagesAreLaidOut
    <2>2. Len(package) \in Nat \ {0}
      BY PackageIsFields
    <2> QED BY <2>1, <2>2 DEF LaidOut
  <1>2. package[1].kind = "int8" /\ type \in Values["int8"]
    <2>1. IsField(Int8(type)) /\ Int8(type).kind = "int8" /\ Int8(type).value = type
      BY <1>1, TypeIsField
    <2> QED BY <1>1, <2>1 DEF IsField
  <1>3. Width["int8"] = 1 /\ ("int8" \in Signed) = TRUE /\ "int8" \in DOMAIN Width
    BY Kinds, Widths
  <1>4. e = Represent(type, 1)
    BY <1>2, <1>3 DEF Encoding
  <1>5. e \in Seq(Byte) /\ Len(e) = 1 /\ e = [i \in 1 .. 1 |-> e[i]]
    <2>1. type \in Int
      BY <1>1
    <2>2. Represent(type, 1) \in Seq(Byte) /\ Len(Represent(type, 1)) = 1
      BY <2>1, RepresentType
    <2> HIDE DEF e
    <2> QED BY <1>4, <2>2
  <1>6. Bytes(SubSeq(package, 1, 0)) = <<>>
    <2>1. SubSeq(package, 1, 0) = <<>>
      BY PackageIsFields DEF AreFields
    <2> QED BY <2>1, NoBytes
  <1>7. s.offset = Len(Bytes(SubSeq(package, 1, 0)))
    BY <1>6
  <1>8. \A n \in 0 .. Len(e) : Fits(s, n) /\ BytesAt(s, n) = [i \in 1 .. n |-> e[i]]
    BY <1>1, <1>7, NextBytes
  <1> HIDE DEF e, type
  <1>9. Peek(s, 1) = e
    BY <1>5, <1>8 DEF Peek
  <1>10. Number(Represent(type, Width["int8"]), "int8" \in Signed) = type
    BY <1>2, <1>3, ReadsInteger
  <1>11. Number(Represent(type, 1), TRUE) = type
    BY <1>3, <1>10
  <1> QED BY <1>3, <1>4, <1>9, <1>11 DEF type

\* A stream that has the bytes of the package is read from the start.
LEMMA StartToReadInv ==
  ASSUME StreamInv, TypeOK, TransferInv, stage \in {"serialize", "sent"}, todo = <<>>, ~writing,
         NEW s, StartToRead(s),
         DOMAIN s = {"buffer", "length", "offset"}, s.length = Len(Bytes(package)), s.offset = 0,
         \A i \in 1 .. s.length : s.buffer[i - 1] = Bytes(package)[i],
         0 .. s.length - 1 \subseteq DOMAIN s.buffer,
         package \in Packages => peer_address' = convert(ENetAddress(peer[1], peer[2]))
  PROVE  StreamInv' /\ TypeOK' /\ TransferInv'
  <1>1. /\ stream' = s /\ peeked' = Number(Peek(s, Width.int8), TRUE) /\ stage' = "read"
        /\ UNCHANGED streamVars /\ UNCHANGED <<package, todo, packet, peer, got>>
    BY DEF StartToRead
  <1>2. StreamInv' /\ UNCHANGED <<writing, data, written>>
    <2>1. [StreamNext]_streamVars
      BY <1>1
    <2> QED BY <1>1, <2>1, StreamNextInv DEF streamVars
  <1>3. AreFields(package) /\ Len(package) \in Nat /\ Bytes(package) \in Seq(Byte)
    BY PackageIsFields DEF TypeOK
  <1>4. TypeOK'
    <2>1. StreamTypeOK'
      BY <1>2 DEF StreamInv
    <2>2. 0 \in 0 .. s.length
      BY <1>3
    <2> QED BY <1>1, <2>1, <2>2 DEF TypeOK
  <1>5. got = <<>> /\ SendInv'
    BY <1>1, <1>2 DEF TransferInv, SendInv
  <1>6. got' = SubSeq(package, 1, Len(got')) /\ Len(got') = 0 /\ 0 \in 0 .. Len(package)
    BY <1>1, <1>3, <1>5 DEF AreFields
  <1>7. Len(Bytes(got')) = 0
    BY <1>1, <1>5, NoBytes
  <1>8. package \in Packages => peeked' = package[1].value
    BY <1>1, PeeksType
  <1>9. ReceiveInv'
    <2>1. UNCHANGED <<package, peer>> /\ stream' = s /\ stage' = "read"
      BY <1>1
    <2> QED BY <1>6, <1>7, <1>8, <2>1 DEF ReceiveInv
  <1> QED BY <1>2, <1>4, <1>5, <1>9 DEF TransferInv

LEMMA ArriveInv ==
  ASSUME StreamInv, TypeOK, TransferInv, Arrive
  PROVE  StreamInv' /\ TypeOK' /\ TransferInv'
  <1> DEFINE s == FromBytes(packet)
  <1>1. /\ stage = "sent" /\ StartToRead(s)
        /\ peer_address' = convert(ENetAddress(peer[1], peer[2]))
    BY DEF Arrive
  <1>2. todo = <<>> /\ ~writing /\ packet = Bytes(package)
    BY <1>1 DEF TransferInv, SendInv
  <1>3. packet \in Seq(Byte)
    BY DEF TypeOK
  <1>4. /\ DOMAIN s = {"buffer", "length", "offset"} /\ s.length = Len(packet) /\ s.offset = 0
        /\ s.buffer = [i \in 0 .. Len(packet) - 1 |-> packet[i + 1]]
    BY DEF FromBytes
  <1> HIDE DEF s
  <1>5. \A i \in 1 .. s.length : s.buffer[i - 1] = packet[i]
    BY <1>3, <1>4
  <1>6. 0 .. s.length - 1 \subseteq DOMAIN s.buffer
    BY <1>4
  <1> QED BY <1>1, <1>2, <1>4, <1>5, <1>6, StartToReadInv

LEMMA RewindInv ==
  ASSUME StreamInv, TypeOK, TransferInv, Rewind
  PROVE  StreamInv' /\ TypeOK' /\ TransferInv'
  <1> DEFINE s == CopyOf(m_buffer, m_length)
  <1>1. /\ stage = "serialize" /\ todo = <<>> /\ ~writing /\ package \in Records /\ StartToRead(s)
    BY DEF Rewind, Serialized
  <1>2. package \notin Packages
    BY <1>1, RecordsAreFields
  <1>3. DOMAIN s = {"buffer", "length", "offset"} /\ s.length = m_length /\ s.offset = 0 /\ s.buffer = m_buffer
    BY DEF CopyOf
  <1> HIDE DEF s
  <1>4. /\ m_length = Len(Bytes(package))
        /\ \A i \in 1 .. m_length : m_buffer[i - 1] = Bytes(package)[i]
        /\ 0 .. m_length - 1 \subseteq DOMAIN m_buffer
    BY <1>1, SerializedBytes
  <1> QED BY <1>1, <1>2, <1>3, <1>4, StartToReadInv

\* Whether a field is read next, and which: the one of the package that has not
\* been read.
LEMMA NextFieldOfPackage ==
  ASSUME package \in Packages \cup Records, ReceiveInv, stage = "read"
  PROVE  /\ Len(got) \in 0 .. Len(package)
         /\ Len(got) < Len(package) => NextField = package[Len(got) + 1].kind
         /\ Len(got) = Len(package) => NextField = "none" /\ got = package /\ end(stream)
  <1> DEFINE k == Len(got)
             n == Len(package)
  <1>1. AreFields(package) /\ n \in Nat \ {0} /\ package \in Seq(FieldsOf(package))
    BY PackageIsFields DEF AreFields
  <1>2. /\ k \in 0 .. n /\ got = SubSeq(package, 1, k) /\ stream.offset = Len(Bytes(got))
        /\ stream.length = Len(Bytes(package))
        /\ \A i \in 1 .. stream.length : stream.buffer[i - 1] = Bytes(package)[i]
        /\ package \in Packages => peeked = package[1].value
    BY DEF ReceiveInv
  <1> HIDE DEF k, n
  <1>3. k = n => got = package /\ end(stream)
    <2>1. SubSeq(package, 1, n) = package
      BY <1>1, AllOfThem DEF n
    <2> QED BY <1>2, <2>1 DEF end
  <1>4. ASSUME k < n PROVE ~end(stream)
    <2>1. k \in Nat /\ k + 1 <= Len(package)
      BY <1>1, <1>2, <1>4 DEF n
    <2>2. stream.offset = Len(Bytes(SubSeq(package, 1, k)))
      BY <1>2
    <2> DEFINE e == Encoding(package[k + 1])
    <2>3. /\ e \in Seq(Byte) /\ Len(e) > 0 /\ stream.offset \in Nat /\ stream.length \in Nat
          /\ stream.offset + Len(e) <= stream.length
      BY <1>2, <2>1, <2>2, NextBytes
    <2> HIDE DEF e
    <2> QED BY <2>3 DEF end
  <1>5. DOMAIN package = 1 .. n
    BY <1>1 DEF n
  <1>6. CASE package \in Records
    <2>1. NextField = IF k + 1 \in DOMAIN package THEN package[k + 1].kind ELSE "none"
      BY <1>6 DEF NextField, k
    <2>2. k + 1 \in DOMAIN package <=> k < n
      BY <1>1, <1>2, <1>5
    <2>3. (k < n => NextField = package[k + 1].kind) /\ (k = n => NextField = "none")
      BY <1>1, <1>2, <2>1, <2>2
    <2> QED BY <1>2, <1>3, <2>3 DEF k, n
  <1>7. CASE package \in Packages
    <2> DEFINE type == package[1].value
               kinds == Layout(type)
               m == Len(kinds)
    <2>1. /\ type \in 0 .. 4 /\ m \in Nat /\ m <= n /\ DOMAIN kinds = 1 .. m
          /\ \A i \in 1 .. m : package[i].kind = kinds[i]
          /\ type # USERNAME_ACK => n = m
          /\ type = USERNAME_ACK =>
               m = 2 /\ \A i \in 3 .. n : package[i].kind = IF i % 2 = 1 THEN "uint16" ELSE "string"
      BY <1>7, PackagesAreLaidOut DEF LaidOut, n
    <2>2. peeked = type /\ package \notin Records
      BY <1>2, <1>7, PackageIsFields
    <2> HIDE DEF type
    <2>3. NextField = IF k + 1 \in DOMAIN kinds THEN kinds[k + 1]
                      ELSE IF type = USERNAME_ACK /\ ~end(stream)
                           THEN IF (k + 1) % 2 = 1 THEN "uint16" ELSE "string"
                           ELSE "none"
      BY <2>2 DEF NextField, k
    <2> HIDE DEF kinds, m
    <2>4. CASE k < m
      <3>1. k + 1 \in 1 .. m /\ k < n
        BY <1>1, <1>2, <2>1, <2>4
      <3>2. NextField = package[k + 1].kind
        BY <2>1, <2>3, <3>1
      <3>3. k # n
        BY <1>1, <1>2, <3>1
      <3> QED BY <1>2, <3>2, <3>3 DEF k, n
    <2>5. CASE ~(k < m) /\ k < n
      <3>1. k + 1 \notin 1 .. m /\ k + 1 \in 1 .. n /\ m # n
        BY <1>1, <1>2, <2>1, <2>5
      <3>2. type = USERNAME_ACK /\ m = 2
        BY <2>1, <3>1
      <3>3. k + 1 \in 3 .. n
        BY <1>1, <1>2, <3>2, <2>5
      <3>4. NextField = IF (k + 1) % 2 = 1 THEN "uint16" ELSE "string"
        BY <1>4, <2>1, <2>3, <2>5, <3>1, <3>2
      <3>5. package[k + 1].kind = IF (k + 1) % 2 = 1 THEN "uint16" ELSE "string"
        BY <2>1, <3>2, <3>3
      <3>6. k # n
        BY <1>1, <1>2, <2>5
      <3> QED BY <1>2, <3>4, <3>5, <3>6 DEF k, n
    <2>6. CASE k = n
      <3>1. k + 1 \notin 1 .. m /\ ~(k < n)
        BY <1>1, <1>2, <2>1, <2>6
      <3>2. NextField = "none"
        BY <1>3, <2>1, <2>3, <2>6, <3>1
      <3> QED BY <1>2, <1>3, <3>1, <3>2 DEF k, n
    <2>7. (k < m) \/ (~(k < m) /\ k < n) \/ (k = n)
      BY <1>1, <1>2
    <2> QED BY <2>4, <2>5, <2>6, <2>7
  <1> QED BY <1>6, <1>7

\* A field is read as it was written.
LEMMA ReadInv ==
  ASSUME StreamInv, TypeOK, TransferInv,
         NEW kind, NEW width, NEW value, Read(kind, width, value),
         Len(got) < Len(package), IsField(package[Len(got) + 1]),
         kind = package[Len(got) + 1].kind, value = package[Len(got) + 1].value,
         width = Len(Encoding(package[Len(got) + 1]))
  PROVE  StreamInv' /\ TypeOK' /\ TransferInv'
  <1> DEFINE k == Len(got)
             n == Len(package)
             f == package[k + 1]
             e == Encoding(f)
  <1>1. /\ stage = "read"
        /\ stage' = IF Fits(stream, width) THEN stage ELSE "thrown"
        /\ stream' = IF Fits(stream, width) THEN [stream EXCEPT !.offset = @ + width] ELSE stream
        /\ got' = IF Fits(stream, width) THEN Append(got, Field(kind, value)) ELSE got
        /\ UNCHANGED streamVars /\ UNCHANGED <<package, todo, packet, peer, peer_address, peeked>>
    BY DEF Read
  <1>2. /\ k \in 0 .. n /\ got = SubSeq(package, 1, k) /\ stream.offset = Len(Bytes(got))
        /\ stream.length = Len(Bytes(package))
        /\ \A i \in 1 .. stream.length : stream.buffer[i - 1] = Bytes(package)[i]
        /\ package \in Packages =>
             /\ peeked = package[1].value
             /\ peer_address = convert(ENetAddress(peer[1], peer[2]))
    BY <1>1 DEF TransferInv, ReceiveInv
  <1>3. n \in Nat /\ package \in Seq(FieldsOf(package)) /\ package \in Packages \cup Records
    BY PackageIsFields DEF AreFields, TypeOK
  <1>4. k \in Nat /\ k + 1 <= n
    BY <1>2, <1>3
  <1> HIDE DEF k, n
  <1>5. /\ e \in Seq(Byte) /\ Len(e) > 0 /\ stream.offset \in Nat /\ stream.length \in Nat
        /\ stream.offset + Len(e) <= stream.length
        /\ Len(Bytes(SubSeq(package, 1, k + 1))) = stream.offset + Len(e)
    <2>1. k + 1 <= Len(package) /\ stream.offset = Len(Bytes(SubSeq(package, 1, k)))
      BY <1>2, <1>4 DEF n
    <2> QED BY <1>2, <1>3, <1>4, <2>1, NextBytes
  <1>6. width = Len(e) /\ kind = f.kind /\ value = f.value /\ IsField(f)
    BY DEF k
  <1> HIDE DEF f, e
  <1>7. Fits(stream, width)
    BY <1>5, <1>6 DEF Fits
  <1>8. got' = SubSeq(package, 1, k + 1) /\ Len(got') = k + 1
    <2>1. Field(kind, value) = f
      BY <1>6 DEF IsField, Field
    <2>2. SubSeq(package, 1, k + 1) = Append(SubSeq(package, 1, k), package[k + 1])
      BY <1>3, <1>4, FirstOnesAndNext DEF n
    <2>3. k + 1 \in 0 .. Len(package)
      BY <1>3, <1>4 DEF n
    <2>4. Len(SubSeq(package, 1, k + 1)) = k + 1
      BY <1>3, <2>3, FirstOnes
    <2> QED BY <1>1, <1>2, <1>7, <2>1, <2>2, <2>4 DEF f
  <1>9. /\ DOMAIN stream' = {"buffer", "length", "offset"} /\ stream'.offset = stream.offset + Len(e)
        /\ stream'.length = stream.length /\ stream'.buffer = stream.buffer
    BY <1>1, <1>6, <1>7 DEF TypeOK
  <1>10. StreamInv' /\ UNCHANGED <<writing, data, written>> /\ stage' = "read"
    <2>1. [StreamNext]_streamVars
      BY <1>1
    <2> QED BY <1>1, <1>7, <2>1, StreamNextInv DEF streamVars
  <1>11. TypeOK'
    <2>1. StreamTypeOK'
      BY <1>10 DEF StreamInv
    <2>2. stream'.offset \in 0 .. stream'.length
      BY <1>5, <1>9
    <2> QED BY <1>1, <1>9, <1>10, <2>1, <2>2 DEF TypeOK
  <1>12. SendInv'
    BY <1>1, <1>10 DEF TransferInv, SendInv
  <1>13. ReceiveInv'
    <2>1. k + 1 \in 0 .. Len(package)
      BY <1>3, <1>4 DEF n
    <2>2. stream'.offset = Len(Bytes(got'))
      BY <1>5, <1>8, <1>9
    <2> QED BY <1>1, <1>2, <1>8, <1>9, <1>10, <2>1, <2>2 DEF ReceiveInv
  <1> QED BY <1>10, <1>11, <1>12, <1>13 DEF TransferInv

\* What a read method finds: the bytes of the next field.
LEMMA ReadsNextField ==
  ASSUME TypeOK, TransferInv, stage = "read", NextField # "none"
  PROVE  LET f == package[Len(got) + 1]
             e == Encoding(f)
         IN /\ Len(got) < Len(package) /\ IsField(f) /\ NextField = f.kind
            /\ e \in Seq(Byte) /\ stream.offset \in Nat /\ stream.length = Len(Bytes(package))
            /\ Len(e) <= stream.length
            /\ \A n \in 0 .. Len(e) : Fits(stream, n) /\ BytesAt(stream, n) = [i \in 1 .. n |-> e[i]]
  <1> DEFINE k == Len(got)
             e == Encoding(package[k + 1])
  <1>1. /\ package \in Packages \cup Records /\ Len(package) \in Nat
        /\ \A i \in 1 .. Len(package) : IsField(package[i])
    BY PackageIsFields DEF TypeOK
  <1>2. ReceiveInv
    BY DEF TransferInv
  <1>3. /\ k \in 0 .. Len(package) /\ k # Len(package)
        /\ k < Len(package) => NextField = package[k + 1].kind
    BY <1>1, <1>2, NextFieldOfPackage
  <1>4. k \in Nat /\ k < Len(package) /\ k + 1 <= Len(package) /\ k + 1 \in 1 .. Len(package)
    <2> HIDE DEF k
    <2> QED BY <1>1, <1>3
  <1>5. /\ stream.length = Len(Bytes(package)) /\ stream.offset = Len(Bytes(SubSeq(package, 1, k)))
        /\ \A i \in 1 .. stream.length : stream.buffer[i - 1] = Bytes(package)[i]
    BY <1>2 DEF ReceiveInv
  <1>6. /\ e \in Seq(Byte) /\ stream.offset \in Nat /\ stream.length \in Nat
        /\ stream.offset + Len(e) <= stream.length
        /\ \A n \in 0 .. Len(e) : Fits(stream, n) /\ BytesAt(stream, n) = [i \in 1 .. n |-> e[i]]
    <2> HIDE DEF k
    <2> QED BY <1>1, <1>4, <1>5, NextBytes
  <1>7. Len(e) <= stream.length
    <2> HIDE DEF e
    <2> QED BY <1>6
  <1> QED BY <1>1, <1>3, <1>4, <1>5, <1>6, <1>7

LEMMA ReadIntegerInv ==
  ASSUME StreamInv, TypeOK, TransferInv, ReadInteger
  PROVE  StreamInv' /\ TypeOK' /\ TransferInv'
  <1> DEFINE f == package[Len(got) + 1]
             e == Encoding(f)
  <1>1. PICK kind \in DOMAIN Width :
          Read(kind, Width[kind], Number(BytesAt(stream, Width[kind]), kind \in Signed))
    BY DEF ReadInteger
  <1>2. stage = "read" /\ NextField = kind
    BY <1>1 DEF Read
  <1>3. kind # "none" /\ kind # "string" /\ Width[kind] \in {1, 2, 4, 8} /\ Values[kind] \subseteq Int
    BY Widths, WidthAndValues
  <1>4. /\ Len(got) < Len(package) /\ IsField(f) /\ kind = f.kind
        /\ e \in Seq(Byte)
        /\ \A n \in 0 .. Len(e) : BytesAt(stream, n) = [i \in 1 .. n |-> e[i]]
    BY <1>2, <1>3, ReadsNextField
  <1> HIDE DEF f
  <1>5. f.value \in Values[kind] /\ e = Represent(f.value, Width[kind])
    BY <1>3, <1>4 DEF IsField, Encoding
  <1>6. Len(e) = Width[kind]
    <2>1. f.value \in Int
      BY <1>3, <1>5
    <2>2. Len(Represent(f.value, Width[kind])) = Width[kind]
      BY <1>3, <2>1, RepresentType
    <2> QED BY <1>5, <2>2
  <1> HIDE DEF e
  <1>7. BytesAt(stream, Width[kind]) = e
    <2>1. Len(e) \in 0 .. Len(e) /\ e = [i \in 1 .. Len(e) |-> e[i]]
      BY <1>4
    <2>2. BytesAt(stream, Len(e)) = [i \in 1 .. Len(e) |-> e[i]]
      BY <1>4, <2>1
    <2> QED BY <1>6, <2>1, <2>2
  <1>8. Number(BytesAt(stream, Width[kind]), kind \in Signed) = f.value
    <2>1. Number(Represent(f.value, Width[kind]), kind \in Signed) = f.value
      BY <1>5, ReadsInteger
    <2> QED BY <1>5, <1>7, <2>1
  <1>9. Width[kind] = Len(Encoding(f))
    BY <1>6 DEF e
  <1> QED BY <1>1, <1>4, <1>8, <1>9, ReadInv DEF f

LEMMA ReadStringInv ==
  ASSUME StreamInv, TypeOK, TransferInv, ReadString
  PROVE  StreamInv' /\ TypeOK' /\ TransferInv'
  <1> DEFINE f == package[Len(got) + 1]
             e == Encoding(f)
             s == f.value
             c == Represent(Len(s), 8)
             length == IF Fits(stream, Width.uint64)
                       THEN Number(BytesAt(stream, Width.uint64), FALSE) ELSE 0
             bytes == BytesAt(stream, Width.uint64 + length)
  <1>1. Read("string", Width.uint64 + length, SubSeq(bytes, Width.uint64 + 1, Width.uint64 + length))
    BY DEF ReadString
  <1>2. stage = "read" /\ NextField = "string"
    BY <1>1 DEF Read
  <1>3. /\ Len(got) < Len(package) /\ IsField(f) /\ f.kind = "string"
        /\ e \in Seq(Byte) /\ Len(e) <= stream.length /\ stream.length = Len(Bytes(package))
        /\ \A n \in 0 .. Len(e) : Fits(stream, n) /\ BytesAt(stream, n) = [i \in 1 .. n |-> e[i]]
    BY <1>2, ReadsNextField
  <1> HIDE DEF f
  <1>4. s \in Seq(Byte) /\ Len(s) \in Nat /\ e = c \o s
    BY <1>3, Widths DEF IsField, Encoding
  <1>5. c \in Seq(Byte) /\ Len(c) = 8
    BY <1>4, RepresentType
  <1> HIDE DEF c, s
  <1>6. /\ Len(e) = 8 + Len(s) /\ \A i \in 1 .. 8 : e[i] = c[i]
        /\ \A i \in 1 .. Len(s) : e[8 + i] = s[i]
    <2>1. c \in Seq(Byte) /\ s \in Seq(Byte)
      BY <1>4, <1>5
    <2>2. /\ Len(c \o s) = Len(c) + Len(s) /\ \A i \in 1 .. Len(c) : (c \o s)[i] = c[i]
          /\ \A i \in 1 .. Len(s) : (c \o s)[Len(c) + i] = s[i]
      BY <2>1, ConcatProperties
    <2> QED BY <1>4, <1>5, <2>2
  <1> HIDE DEF e
  <1>7. Len(s) \in UInt32Values
    <2>1. todo = <<>> /\ ~writing
      BY <1>2 DEF TransferInv, SendInv
    <2>2. Len(Bytes(package)) <= MaxLength
      BY <2>1, SerializedBytes
    <2>3. MaxLength \in Int /\ MaxLength <= 2147483647
      BY TransferAssumption, SMT DEF UInt32Values, Between
    <2>4. Len(s) <= MaxLength
      BY <1>3, <1>4, <1>6, <2>2, <2>3
    <2> QED BY <1>4, <2>3, <2>4, SMT DEF UInt32Values, Between
  <1>8. Fits(stream, 8) /\ BytesAt(stream, 8) = c
    <2>1. 8 \in 0 .. Len(e)
      BY <1>4, <1>6
    <2>2. Fits(stream, 8) /\ BytesAt(stream, 8) = [i \in 1 .. 8 |-> e[i]]
      BY <1>3, <2>1
    <2>3. c = [i \in 1 .. 8 |-> e[i]]
      BY <1>5, <1>6
    <2> QED BY <2>2, <2>3
  <1>9. length = Len(s)
    <2>1. Number(Represent(Len(s), 8), FALSE) = Len(s)
      BY <1>7, ReadsLength
    <2> QED BY <1>8, <2>1, Widths DEF c
  <1> HIDE DEF length
  <1>10. bytes = e
    <2>1. Len(e) \in 0 .. Len(e) /\ e = [i \in 1 .. Len(e) |-> e[i]]
      BY <1>3
    <2>2. BytesAt(stream, Len(e)) = [i \in 1 .. Len(e) |-> e[i]]
      BY <1>3, <2>1
    <2>3. Width.uint64 + length = Len(e)
      BY <1>6, <1>9, Widths
    <2> QED BY <2>1, <2>2, <2>3 DEF bytes
  <1> HIDE DEF bytes
  <1>11. SubSeq(e, 8 + 1, 8 + Len(s)) = s
    <2>1. SubSeq(e, 8 + 1, 8 + Len(s)) = [i \in 1 .. Len(s) |-> e[8 + i]]
      BY <1>3, <1>4, <1>6
    <2>2. s = [i \in 1 .. Len(s) |-> s[i]]
      BY <1>4
    <2>3. [i \in 1 .. Len(s) |-> s[i]] = [i \in 1 .. Len(s) |-> e[8 + i]]
      BY <1>6
    <2> QED BY <2>1, <2>2, <2>3
  <1>12. Read("string", Len(e), s)
    <2>1. Width.uint64 + length = 8 + Len(s) /\ Width.uint64 + 1 = 8 + 1
      BY <1>9, Widths
    <2>2. SubSeq(bytes, Width.uint64 + 1, Width.uint64 + length) = s
      BY <1>10, <1>11, <2>1
    <2> QED BY <1>1, <1>6, <2>1, <2>2
  <1>13. Len(e) = Len(Encoding(f)) /\ s = f.value
    BY DEF e, s
  <1> QED BY <1>3, <1>12, <1>13, ReadInv DEF f

LEMMA ReceiveInvariant ==
  ASSUME StreamInv, TypeOK, TransferInv, Receive
  PROVE  StreamInv' /\ TypeOK' /\ TransferInv'
  <1>1. /\ stage = "read" /\ NextField = "none" /\ stage' = "received" /\ packet' = <<>>
        /\ UNCHANGED streamVars
        /\ UNCHANGED <<package, todo, peer, peer_address, stream, peeked, got>>
    BY DEF Receive, readVars
  <1>2. StreamInv' /\ UNCHANGED <<writing, data, written>>
    <2>1. [StreamNext]_streamVars
      BY <1>1
    <2> QED BY <1>1, <2>1, StreamNextInv DEF streamVars
  <1>3. got = package
    <2>1. ReceiveInv /\ package \in Packages \cup Records
      BY DEF TransferInv, TypeOK
    <2>2. /\ Len(got) \in 0 .. Len(package) /\ Len(package) \in Nat
          /\ Len(got) < Len(package) => NextField = package[Len(got) + 1].kind
          /\ Len(got) = Len(package) => got = package
      BY <1>1, <2>1, NextFieldOfPackage, PackageIsFields
    <2>3. \A i \in 1 .. Len(package) : package[i].kind # "none"
      BY <2>1, PackageIsFields, Widths DEF IsField
    <2> QED BY <1>1, <2>2, <2>3
  <1>4. TypeOK'
    <2>1. StreamTypeOK'
      BY <1>2 DEF StreamInv
    <2> QED BY <1>1, <2>1 DEF TypeOK
  <1>5. SendInv'
    BY <1>1, <1>2 DEF TransferInv, SendInv
  <1>6. ReceiveInv'
    BY <1>1, <1>3 DEF TransferInv, ReceiveInv
  <1> QED BY <1>2, <1>4, <1>5, <1>6 DEF TransferInv

-----------------------------------------------------------------------------
(* What holds of every package.                                            *)

LEMMA NextTransferInv ==
  StreamInv /\ TypeOK /\ TransferInv /\ [Next]_allVars => StreamInv' /\ TypeOK' /\ TransferInv'
  <1> SUFFICES ASSUME StreamInv, TypeOK, TransferInv, [Next]_allVars
               PROVE  StreamInv' /\ TypeOK' /\ TransferInv'
    OBVIOUS
  <1>1. CASE Serialize
    BY <1>1, SerializeInv
  <1>2. CASE Grow
    BY <1>2, GrowInv
  <1>3. CASE Fill
    BY <1>3, FillInv
  <1>4. CASE Send
    BY <1>4, SendInvariant
  <1>5. CASE Arrive
    BY <1>5, ArriveInv
  <1>6. CASE Rewind
    BY <1>6, RewindInv
  <1>7. CASE ReadInteger
    BY <1>7, ReadIntegerInv
  <1>8. CASE ReadString
    BY <1>8, ReadStringInv
  <1>9. CASE Receive
    BY <1>9, ReceiveInvariant
  <1>10. CASE UNCHANGED allVars
    <2>1. UNCHANGED streamVars /\ UNCHANGED <<writing, data, written>>
          /\ UNCHANGED <<package, todo, packet, peer, peer_address, stream, peeked, got, stage>>
      BY <1>10 DEF allVars, transferVars, readVars, streamVars
    <2>2. [StreamNext]_streamVars
      BY <2>1
    <2>3. StreamInv'
      BY <2>2, StreamNextInv
    <2>4. TypeOK'
      <3>1. StreamTypeOK'
        BY <2>3 DEF StreamInv
      <3> QED BY <2>1, <3>1 DEF TypeOK
    <2>5. SendInv' /\ ReceiveInv'
      BY <2>1 DEF TransferInv, SendInv, ReceiveInv
    <2> QED BY <2>3, <2>4, <2>5 DEF TransferInv
  <1> QED BY <1>1, <1>2, <1>3, <1>4, <1>5, <1>6, <1>7, <1>8, <1>9, <1>10 DEF Next

\* The inductive invariant, for any package: what has been written is the
\* bytes of its first fields, and what has been read is its first fields
\* (serialize of the packages, ByteStream::write, the read methods and the
\* constructors that call them).
THEOREM TransferInvariantHolds == Spec => []TransferInv
  <1>1. Init => StreamInv /\ TypeOK /\ TransferInv
    BY NothingWritten
  <1> QED BY <1>1, NextTransferInv, PTL DEF Spec

\* The types of the transfer: the offset of the stream that is read stays
\* within its length, and the length within its buffer.
THEOREM TransferTypeCorrect == Spec => []TypeOK
  <1>1. Init => StreamInv /\ TypeOK /\ TransferInv
    BY NothingWritten
  <1> QED BY <1>1, NextTransferInv, PTL DEF Spec

\* The stream that serialize fills is never written beyond its buffer, and
\* holds all it was given (ByteStream::write, getBuf).
THEOREM SerializedStreamIsWhole == Spec => []StreamInv
  <1>1. Init => StreamInv /\ TypeOK /\ TransferInv
    BY NothingWritten
  <1> QED BY <1>1, NextTransferInv, PTL DEF Spec

LEMMA ReceivedAll == TypeOK /\ TransferInv => RoundTrip
  <1> SUFFICES ASSUME TypeOK, TransferInv, stage = "received"
               PROVE  got = package /\ end(stream)
    BY DEF RoundTrip
  <1>1. /\ got = package /\ stream.length = Len(Bytes(package)) /\ stream.offset = Len(Bytes(got))
    BY DEF TransferInv, ReceiveInv
  <1> QED BY <1>1 DEF end

\* Whatever the strings, the ids and the users of an acknowledgement, a package
\* that is received has the fields that were sent, and nothing of the packet is
\* left (serialize and the constructors of the packages, ChatApp::send,
\* ChatApp::receiveEvent).
THEOREM PackagesAlwaysComeThrough == Spec => []RoundTrip
  BY TransferInvariantHolds, TransferTypeCorrect, ReceivedAll, PTL

\* The four parts of an address are the digits of its number to the base 256.
LEMMA PartsOfAddress ==
  ASSUME NEW parts \in [1 .. 4 -> 0 .. 255], NEW port
  PROVE  str(convert(ENetAddress(parts, port))) = Append(parts, port)
  <1> DEFINE n == parts[1] + 256 * (parts[2] + 256 * (parts[3] + 256 * parts[4]))
  <1>1. IPv4(n) = parts
    <2>1. /\ parts[1] \in Int /\ 0 <= parts[1] /\ parts[1] <= 255
          /\ parts[2] \in Int /\ 0 <= parts[2] /\ parts[2] <= 255
          /\ parts[3] \in Int /\ 0 <= parts[3] /\ parts[3] <= 255
          /\ parts[4] \in Int /\ 0 <= parts[4] /\ parts[4] <= 255
      BY SMT
    <2>2. ASSUME NEW a \in Int, NEW b \in Int, NEW c \in Int, NEW d \in Int, NEW m \in Int,
                 0 <= a, a <= 255, 0 <= b, b <= 255, 0 <= c, c <= 255, 0 <= d, d <= 255,
                 m = a + 256 * (b + 256 * (c + 256 * d))
          PROVE  /\ m % 256 = a /\ (m \div 256) % 256 = b
                 /\ (m \div 65536) % 256 = c /\ (m \div 16777216) % 256 = d
      BY <2>2, SMT
    <2>3. n \in Int
      BY <2>1, SMT
    <2>4. /\ n % 256 = parts[1] /\ (n \div 256) % 256 = parts[2]
          /\ (n \div 65536) % 256 = parts[3] /\ (n \div 16777216) % 256 = parts[4]
      <3> DEFINE a == parts[1]
                 b == parts[2]
                 c == parts[3]
                 d == parts[4]
      <3>1. /\ a \in Int /\ 0 <= a /\ a <= 255 /\ b \in Int /\ 0 <= b /\ b <= 255
            /\ c \in Int /\ 0 <= c /\ c <= 255 /\ d \in Int /\ 0 <= d /\ d <= 255
        BY <2>1, SMT
      <3>2. n = a + 256 * (b + 256 * (c + 256 * d))
        OBVIOUS
      <3> HIDE DEF a, b, c, d, n
      <3>3. /\ n % 256 = a /\ (n \div 256) % 256 = b
            /\ (n \div 65536) % 256 = c /\ (n \div 16777216) % 256 = d
        BY <2>2, <2>3, <3>1, <3>2, SMT
      <3> QED BY <3>3, SMT DEF a, b, c, d
    <2> HIDE DEF n
    <2>5. n \div 1 = n
      BY <2>3, SMT
    <2>6. /\ IPv4(n)[1] = n % 256 /\ IPv4(n)[2] = (n \div 256) % 256
          /\ IPv4(n)[3] = (n \div 65536) % 256 /\ IPv4(n)[4] = (n \div 16777216) % 256
      BY <2>5, Powers, SMT DEF IPv4
    <2>7. \A k \in 1 .. 4 : IPv4(n)[k] = parts[k]
      BY <2>4, <2>6, SMT
    <2>8. IPv4(n) = [k \in 1 .. 4 |-> IPv4(n)[k]]
      BY SMT DEF IPv4
    <2>9. parts = [k \in 1 .. 4 |-> parts[k]]
      BY SMT
    <2> QED BY <2>7, <2>8, <2>9, SMT
  <1>2. convert(ENetAddress(parts, port)).host = n /\ convert(ENetAddress(parts, port)).port = port
    BY DEF convert, ENetAddress, Address
  <1> HIDE DEF n
  <1> QED BY <1>1, <1>2 DEF str

\* The host logs the address that a user has, whatever it is (net::convert,
\* Address::str, IPv4).
THEOREM LogAlwaysNamesAddress == Spec => []LogNamesAddress
  <1>1. TypeOK /\ TransferInv => LogNamesAddress
    <2> SUFFICES ASSUME TypeOK, TransferInv, stage = "received", package \in Packages
                 PROVE  str(peer_address) = Append(peer[1], peer[2])
      BY DEF LogNamesAddress
    <2>1. peer_address = convert(ENetAddress(peer[1], peer[2]))
      BY DEF TransferInv, ReceiveInv
    <2>2. peer[1] \in [1 .. 4 -> 0 .. 255]
      BY TransferAssumption DEF TypeOK
    <2>3. str(convert(ENetAddress(peer[1], peer[2]))) = Append(peer[1], peer[2])
      BY <2>2, PartsOfAddress
    <2> QED BY <2>1, <2>3
  <1> QED BY <1>1, TransferInvariantHolds, TransferTypeCorrect, PTL
=============================================================================
