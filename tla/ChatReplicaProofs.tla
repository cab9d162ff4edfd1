-------------------------- MODULE ChatReplicaProofs --------------------------
(***************************************************************************)
(* What is proved of the clients of a session that loses no packet: their  *)
(* lists follow the host's, whatever times out and whoever leaves.         *)
(***************************************************************************)
EXTENDS ChatSessionProofs, WellFoundedInduction

-----------------------------------------------------------------------------
(* Lists and queues.                                                       *)

\* A package at the end of a queue tells nothing before the others are handled,
\* and then what it says.
LEMMA KnowsAppend ==
  ASSUME NEW list, NEW q \in Seq(DownPackages), NEW pkg \in DownPackages, NEW u, NEW x
  PROVE  /\ \A k \in 0 .. Len(q) :
              Knows(list, Append(q, pkg), k, u, x) <=> Knows(list, q, k, u, x)
         /\ Knows(list, Append(q, pkg), Len(q) + 1, u, x) <=>
              (Knows(list, q, Len(q), u, x) /\ ~Removes(pkg, u)) \/ Adds(pkg, u, x)
<1> DEFINE t == Append(q, pkg)
           n == Len(q)
<1>1. /\ n \in Nat /\ Len(t) = n + 1
      /\ \A i \in 1 .. n : t[i] = q[i]
      /\ t[n + 1] = pkg
  BY AppendProperties
<1> HIDE DEF t, n
<1>2. ASSUME NEW k \in 0 .. n
      PROVE  Knows(list, t, k, u, x) <=> Knows(list, q, k, u, x)
  <2>1. \A i \in 0 .. k : i # 0 => t[i] = q[i]
    BY <1>1
  <2>2. \A i \in 0 .. k : \A j \in i + 1 .. k : t[j] = q[j]
    BY <1>1
  <2>3. QED BY <2>1, <2>2 DEF Knows
<1>3. ASSUME Knows(list, t, n + 1, u, x)
      PROVE  (Knows(list, q, n, u, x) /\ ~Removes(pkg, u)) \/ Adds(pkg, u, x)
  <2>1. PICK i \in 0 .. n + 1 :
          /\ IF i = 0 THEN list[u] = x ELSE Adds(t[i], u, x)
          /\ \A j \in i + 1 .. n + 1 : ~Removes(t[j], u)
    BY <1>3 DEF Knows
  <2>2. CASE i = n + 1
    BY <2>1, <2>2, <1>1
  <2>3. CASE i \in 0 .. n
    <3>1. n + 1 \in i + 1 .. n + 1 /\ \A j \in i + 1 .. n : j \in i + 1 .. n + 1 /\ t[j] = q[j]
      BY <1>1, <2>3
    <3>2. i # 0 => t[i] = q[i]
      BY <1>1, <2>3
    <3>3. ~Removes(pkg, u) /\ Knows(list, q, n, u, x)
      BY <3>1, <3>2, <2>1, <2>3, <1>1 DEF Knows
    <3>4. QED BY <3>3
  <2>4. QED BY <2>1, <2>2, <2>3, <1>1
<1>4. ASSUME Knows(list, q, n, u, x), ~Removes(pkg, u)
      PROVE  Knows(list, t, n + 1, u, x)
  <2>1. PICK i \in 0 .. n :
          /\ IF i = 0 THEN list[u] = x ELSE Adds(q[i], u, x)
          /\ \A j \in i + 1 .. n : ~Removes(q[j], u)
    BY <1>4 DEF Knows
  <2>2. i \in 0 .. n + 1 /\ (i # 0 => t[i] = q[i])
    BY <1>1
  <2>3. \A j \in i + 1 .. n + 1 : ~Removes(t[j], u)
    BY <1>1, <1>4, <2>1
  <2>4. QED BY <2>1, <2>2, <2>3 DEF Knows
<1>5. ASSUME Adds(pkg, u, x)
      PROVE  Knows(list, t, n + 1, u, x)
  <2>1. /\ n + 1 \in 0 .. n + 1 /\ n + 1 # 0
        /\ \A j \in (n + 1) + 1 .. n + 1 : ~Removes(t[j], u)
    BY <1>1
  <2>2. QED BY <2>1, <1>1, <1>5 DEF Knows
<1>6. QED BY <1>2, <1>3, <1>4, <1>5 DEF t, n

\* Whether the acknowledgement has come by then.
LEMMA ToldAppend ==
  ASSUME NEW already, NEW q \in Seq(DownPackages), NEW pkg \in DownPackages
  PROVE  /\ \A k \in 0 .. Len(q) : Told(already, Append(q, pkg), k) <=> Told(already, q, k)
         /\ Told(already, Append(q, pkg), Len(q) + 1) <=>
              Told(already, q, Len(q)) \/ pkg.type = "USERNAME_ACK"
<1>1. /\ Len(q) \in Nat
      /\ \A i \in 1 .. Len(q) : Append(q, pkg)[i] = q[i]
      /\ Append(q, pkg)[Len(q) + 1] = pkg
  BY AppendProperties
<1>2. 1 .. Len(q) + 1 = 1 .. Len(q) \cup {Len(q) + 1}
  BY <1>1
<1>3. \A k \in 0 .. Len(q) : \A i \in 1 .. k : Append(q, pkg)[i] = q[i]
  BY <1>1
<1>4. QED BY <1>1, <1>2, <1>3 DEF Told

\* The first package does to the list what it says; the others say what they
\* said before.
LEMMA KnowsTail ==
  ASSUME NEW list, NEW q \in Seq(DownPackages), q # <<>>, NEW new, NEW u, NEW x,
         new[u] = x <=> (list[u] = x /\ ~Removes(Head(q), u)) \/ Adds(Head(q), u, x)
  PROVE  \A k \in 0 .. Len(q) - 1 :
           Knows(new, Tail(q), k, u, x) <=> Knows(list, q, k + 1, u, x)
<1> DEFINE t == Tail(q)
<1>1. /\ Len(q) \in Nat /\ Len(q) >= 1 /\ Head(q) = q[1]
      /\ Len(t) = Len(q) - 1
      /\ \A i \in 1 .. Len(q) - 1 : t[i] = q[i + 1]
  BY HeadTailProperties
<1> HIDE DEF t
<1> SUFFICES ASSUME NEW k \in 0 .. Len(q) - 1
             PROVE  Knows(new, t, k, u, x) <=> Knows(list, q, k + 1, u, x)
  BY DEF t
<1>2. ASSUME Knows(new, t, k, u, x) PROVE Knows(list, q, k + 1, u, x)
  <2>1. PICK i \in 0 .. k :
          /\ IF i = 0 THEN new[u] = x ELSE Adds(t[i], u, x)
          /\ \A j \in i + 1 .. k : ~Removes(t[j], u)
    BY <1>2 DEF Knows
  <2>2. \A j \in i + 2 .. k + 1 : j - 1 \in i + 1 .. k /\ t[j - 1] = q[j]
    BY <1>1
  <2>3. \A j \in (i + 1) + 1 .. k + 1 : ~Removes(q[j], u)
    BY <2>1, <2>2
  <2>4. CASE i # 0
    <3>1. i + 1 \in 0 .. k + 1 /\ i + 1 # 0 /\ t[i] = q[i + 1]
      BY <1>1, <2>4
    <3>2. QED BY <3>1, <2>1, <2>3, <2>4 DEF Knows
  <2>5. CASE i = 0 /\ Adds(q[1], u, x)
    <3>1. 1 \in 0 .. k + 1 /\ \A j \in 1 + 1 .. k + 1 : ~Removes(q[j], u)
      BY <1>1, <2>3, <2>5
    <3>2. QED BY <3>1, <2>5 DEF Knows
  <2>6. CASE i = 0 /\ list[u] = x /\ ~Removes(q[1], u)
    <3>1. 0 \in 0 .. k + 1 /\ \A j \in 0 + 1 .. k + 1 : ~Removes(q[j], u)
      BY <1>1, <2>3, <2>6
    <3>2. QED BY <3>1, <2>6 DEF Knows
  <2>7. QED BY <1>1, <2>1, <2>4, <2>5, <2>6
<1>3. ASSUME Knows(list, q, k + 1, u, x) PROVE Knows(new, t, k, u, x)
  <2>1. PICK i \in 0 .. k + 1 :
          /\ IF i = 0 THEN list[u] = x ELSE Adds(q[i], u, x)
          /\ \A j \in i + 1 .. k + 1 : ~Removes(q[j], u)
    BY <1>3 DEF Knows
  <2>2. \A j \in 1 .. k : j + 1 \in 1 .. k + 1 /\ t[j] = q[j + 1]
    BY <1>1
  <2>3. CASE i > 1
    <3>1. i - 1 \in 0 .. k /\ i - 1 # 0 /\ t[i - 1] = q[i]
      BY <1>1, <2>3
    <3>2. \A j \in (i - 1) + 1 .. k : ~Removes(t[j], u)
      BY <2>1, <2>2, <2>3
    <3>3. QED BY <3>1, <3>2, <2>1, <2>3 DEF Knows
  <2>4. CASE i \in {0, 1}
    <3>1. new[u] = x
      <4>1. CASE i = 1
        BY <4>1, <2>1, <1>1
      <4>2. CASE i = 0
        <5>1. 1 \in i + 1 .. k + 1
          BY <4>2
        <5>2. QED BY <5>1, <4>2, <2>1, <1>1
      <4>3. QED BY <4>1, <4>2, <2>4
    <3>2. \A j \in 0 + 1 .. k : ~Removes(t[j], u)
      BY <2>1, <2>2, <2>4
    <3>3. 0 \in 0 .. k
      OBVIOUS
    <3>4. QED BY <3>1, <3>2, <3>3 DEF Knows
  <2>5. QED BY <2>1, <2>3, <2>4
<1>4. QED BY <1>2, <1>3

\* The acknowledgement comes no later.
LEMMA ToldTail ==
  ASSUME NEW q \in Seq(DownPackages), q # <<>>, NEW already, NEW now,
         now => already \/ Head(q).type = "USERNAME_ACK"
  PROVE  \A k \in 0 .. Len(q) - 1 : Told(now, Tail(q), k) => Told(already, q, k + 1)
<1>1. /\ Len(q) \in Nat /\ Len(q) >= 1 /\ Head(q) = q[1]
      /\ \A i \in 1 .. Len(q) - 1 : Tail(q)[i] = q[i + 1]
  BY HeadTailProperties
<1> SUFFICES ASSUME NEW k \in 0 .. Len(q) - 1, Told(now, Tail(q), k)
             PROVE  Told(already, q, k + 1)
  OBVIOUS
<1>2. CASE now
  <2>1. 1 \in 1 .. k + 1
    OBVIOUS
  <2>2. QED BY <1>1, <1>2, <2>1 DEF Told
<1>3. CASE ~now
  <2>1. PICK i \in 1 .. k : Tail(q)[i].type = "USERNAME_ACK"
    BY <1>3 DEF Told
  <2>2. i + 1 \in 1 .. k + 1 /\ q[i + 1].type = "USERNAME_ACK"
    BY <1>1, <2>1
  <2>3. QED BY <2>2 DEF Told
<1>4. QED BY <1>2, <1>3

\* Nothing is wrong with an empty queue.
LEMMA EmptyQueueOK == \A list, already : QueueOK(list, <<>>, already)
<1>1. Len(<<>>) = 0 /\ DOMAIN <<>> = {} /\ 0 .. 0 = {0}
  OBVIOUS
<1>2. \A list, u, x : Knows(list, <<>>, 0, u, x) => list[u] = x
  BY <1>1 DEF Knows
<1>3. QED BY <1>1, <1>2 DEF QueueOK

\* When the host's list changes and the package that it sends says so, and it
\* speaks of users that are listed.
LEMMA AppendOK ==
  ASSUME NEW list, NEW q \in Seq(DownPackages), NEW already, NEW map, NEW new,
         NEW pkg \in DownPackages,
         QueueOK(list, q, already), EndsWith(list, q, already, map),
         \A u \in UserIDs, x \in Names :
           new[u] = x <=> (map[u] = x /\ ~Removes(pkg, u)) \/ Adds(pkg, u, x),
         pkg.type = "USERNAME_ACK" =>
           \A u \in UserIDs, x \in Names : new[u] = x => Adds(pkg, u, x),
         pkg.type = "MESSAGE" => map[pkg.user] = pkg.line.by /\ pkg.line.by \in Names,
         pkg.type = "STATE_REM_USER" => map[pkg.user] \in Names
  PROVE  QueueOK(list, Append(q, pkg), already) /\ EndsWith(list, Append(q, pkg), already, new)
<1> DEFINE t == Append(q, pkg)
           n == Len(q)
<1>1. /\ n \in Nat /\ Len(t) = n + 1
      /\ \A i \in 1 .. n : t[i] = q[i]
      /\ t[n + 1] = pkg
      /\ DOMAIN t = 1 .. n + 1 /\ DOMAIN q = 1 .. n
  BY AppendProperties
<1>2. /\ \A u, x : \A k \in 0 .. n : Knows(list, t, k, u, x) <=> Knows(list, q, k, u, x)
      /\ \A u, x : Knows(list, t, n + 1, u, x) <=>
                     (Knows(list, q, n, u, x) /\ ~Removes(pkg, u)) \/ Adds(pkg, u, x)
  BY KnowsAppend
<1>3. /\ \A k \in 0 .. n : Told(already, t, k) <=> Told(already, q, k)
      /\ Told(already, t, n + 1) <=> Told(already, q, n) \/ pkg.type = "USERNAME_ACK"
  BY ToldAppend
<1> HIDE DEF t, n
<1>4. EndsWith(list, t, already, new)
  <2> SUFFICES ASSUME NEW u \in UserIDs, NEW x \in Names
               PROVE  /\ Knows(list, t, n + 1, u, x) => new[u] = x
                      /\ new[u] = x /\ Told(already, t, n + 1) => Knows(list, t, n + 1, u, x)
    BY <1>1 DEF EndsWith
  <2>1. /\ Knows(list, q, n, u, x) => map[u] = x
        /\ map[u] = x /\ Told(already, q, n) => Knows(list, q, n, u, x)
    BY DEF EndsWith, n
  <2>2. QED BY <2>1, <1>2, <1>3
<1>5. ASSUME NEW k \in 0 .. n + 1, NEW u \in UserIDs, NEW x \in Names, Knows(list, t, k, u, x),
             NEW y \in Names, Knows(list, t, k, u, y)
      PROVE  x = y
  <2>1. CASE k = n + 1
    BY <1>1, <1>4, <1>5, <2>1 DEF EndsWith
  <2>2. CASE k \in 0 .. n
    BY <1>2, <1>5, <2>2 DEF QueueOK, n
  <2>3. QED BY <2>1, <2>2, <1>1
<1>6. ASSUME NEW k \in 1 .. n + 1
      PROVE  /\ t[k].type = "MESSAGE" =>
                  \A x \in Names : Knows(list, t, k - 1, t[k].user, x) => x = t[k].line.by
             /\ t[k].type \in {"MESSAGE", "STATE_REM_USER"} /\ Told(already, t, k - 1) =>
                  \E x \in Names : Knows(list, t, k - 1, t[k].user, x)
  <2>1. k - 1 \in 0 .. n
    BY <1>1
  <2>2. CASE k \in 1 .. n
    <3>1. t[k] = q[k] /\ k \in DOMAIN q
      BY <1>1, <2>2
    <3>2. /\ q[k].type = "MESSAGE" =>
                  \A x \in Names : Knows(list, q, k - 1, q[k].user, x) => x = q[k].line.by
          /\ q[k].type \in {"MESSAGE", "STATE_REM_USER"} /\ Told(already, q, k - 1) =>
                  \E x \in Names : Knows(list, q, k - 1, q[k].user, x)
      BY <3>1 DEF QueueOK
    <3>3. QED BY <3>1, <3>2, <2>1, <1>2, <1>3
  <2>3. CASE k = n + 1
    <3>1. t[k] = pkg /\ k - 1 = n
      BY <1>1, <2>3
    <3>2. pkg.type \in {"MESSAGE", "STATE_REM_USER"} => pkg.user \in UserIDs
      BY PackageFields DEF MessagePackages
    <3>3. ASSUME pkg.type \in {"MESSAGE", "STATE_REM_USER"}
          PROVE  \A x \in Names :
                   /\ Knows(list, q, n, pkg.user, x) => map[pkg.user] = x
                   /\ map[pkg.user] = x /\ Told(already, q, n) => Knows(list, q, n, pkg.user, x)
      BY <3>2, <3>3 DEF EndsWith, n
    <3>4. QED BY <3>1, <3>3, <2>1, <1>2, <1>3
  <2>4. QED BY <2>2, <2>3, <1>1
<1>7. QueueOK(list, t, already)
  BY <1>1, <1>5, <1>6 DEF QueueOK
<1>8. QED BY <1>4, <1>7 DEF t

\* When a client has handled the first package.
LEMMA ConsumeOK ==
  ASSUME NEW list, NEW q \in Seq(DownPackages), q # <<>>, NEW already, NEW new, NEW now,
         QueueOK(list, q, already),
         \A u \in UserIDs, x \in Names :
           new[u] = x <=> (list[u] = x /\ ~Removes(Head(q), u)) \/ Adds(Head(q), u, x),
         now => already \/ Head(q).type = "USERNAME_ACK"
  PROVE  /\ QueueOK(new, Tail(q), now)
         /\ \A map : EndsWith(list, q, already, map) => EndsWith(new, Tail(q), now, map)
<1> DEFINE t == Tail(q)
           n == Len(q)
<1>1. /\ n \in Nat /\ n >= 1 /\ t \in Seq(DownPackages)
      /\ Len(t) = n - 1
      /\ \A i \in 1 .. n - 1 : t[i] = q[i + 1]
      /\ DOMAIN t = 1 .. n - 1 /\ DOMAIN q = 1 .. n
  BY HeadTailProperties
<1>2. \A u \in UserIDs, x \in Names : \A k \in 0 .. n - 1 :
        Knows(new, t, k, u, x) <=> Knows(list, q, k + 1, u, x)
  BY KnowsTail
<1>3. \A k \in 0 .. n - 1 : Told(now, t, k) => Told(already, q, k + 1)
  BY ToldTail
<1> HIDE DEF t, n
<1>4. ASSUME NEW k \in 0 .. n - 1, NEW u \in UserIDs, NEW x \in Names, Knows(new, t, k, u, x),
             NEW y \in Names, Knows(new, t, k, u, y)
      PROVE  x = y
  <2>1. k + 1 \in 0 .. Len(q)
    BY <1>1 DEF n
  <2>2. QED BY <2>1, <1>2, <1>4 DEF QueueOK
<1>5. ASSUME NEW k \in 1 .. n - 1
      PROVE  /\ t[k].type = "MESSAGE" =>
                  \A x \in Names : Knows(new, t, k - 1, t[k].user, x) => x = t[k].line.by
             /\ t[k].type \in {"MESSAGE", "STATE_REM_USER"} /\ Told(now, t, k - 1) =>
                  \E x \in Names : Knows(new, t, k - 1, t[k].user, x)
  <2>1. k - 1 \in 0 .. n - 1 /\ (k - 1) + 1 = k /\ (k + 1) - 1 = k /\ k + 1 \in DOMAIN q
        /\ t[k] = q[k + 1] /\ t[k] \in DownPackages
    BY <1>1
  <2>2. t[k].type \in {"MESSAGE", "STATE_REM_USER"} => t[k].user \in UserIDs
    BY <2>1, PackageFields DEF MessagePackages
  <2>3. /\ q[k + 1].type = "MESSAGE" =>
             \A x \in Names : Knows(list, q, k, q[k + 1].user, x) => x = q[k + 1].line.by
        /\ q[k + 1].type \in {"MESSAGE", "STATE_REM_USER"} /\ Told(already, q, k) =>
             \E x \in Names : Knows(list, q, k, q[k + 1].user, x)
    <3>1. QueueOK(list, q, already) /\ k + 1 \in DOMAIN q /\ (k + 1) - 1 = k
      BY <2>1
    <3>2. QED BY <3>1 DEF QueueOK
  <2>4. Told(now, t, k - 1) => Told(already, q, k)
    BY <2>1, <1>3
  <2>5. t[k].user \in UserIDs =>
          \A x \in Names : Knows(new, t, k - 1, t[k].user, x) <=> Knows(list, q, k, t[k].user, x)
    BY <2>1, <1>2
  <2>6. QED BY <2>1, <2>2, <2>3, <2>4, <2>5
<1>6. QueueOK(new, t, now)
  BY <1>1, <1>4, <1>5 DEF QueueOK
<1>7. ASSUME NEW map, EndsWith(list, q, already, map) PROVE EndsWith(new, t, now, map)
  <2>1. n - 1 \in 0 .. n - 1 /\ (n - 1) + 1 = n
    BY <1>1
  <2>2. \A u \in UserIDs, x \in Names :
          Knows(new, t, n - 1, u, x) <=> Knows(list, q, n, u, x)
    BY <2>1, <1>2
  <2>3. Told(now, t, n - 1) => Told(already, q, n)
    BY <2>1, <1>3
  <2>4. \A u \in UserIDs, x \in Names :
          /\ Knows(list, q, n, u, x) => map[u] = x
          /\ map[u] = x /\ Told(already, q, n) => Knows(list, q, n, u, x)
    BY <1>7 DEF EndsWith, n
  <2>5. QED BY <2>2, <2>3, <2>4, <1>1 DEF EndsWith
<1>8. QED BY <1>6, <1>7 DEF t
-----------------------------------------------------------------------------
(* Steps of the host.                                                      *)

ClientsOK == \A c \in Clients : ClientOK(c)

SendingOK == hostSending # <<>> => Head(hostSending).by = HostName

\* A step of the host that sends nothing and lets nobody in.
LEMMA QuietHost ==
  ASSUME ClientsOK, UNCHANGED <<users, localUser, clientState, screen, link, down>>,
         \A c \in Clients : Reachable(c)' => Reachable(c) /\ hostUsers' = hostUsers,
         \A p \in PeerIDs : peerState'[p] = "acknowledging" =>
           peerState[p] = "acknowledging" /\ owner'[p] = owner[p]
  PROVE  ClientsOK'
<1> SUFFICES ASSUME NEW c \in Clients PROVE ClientOK(c)'
  BY DEF ClientsOK
<1>1. ClientOK(c) /\ Registered(c)' = Registered(c)
  BY DEF ClientsOK, Registered
<1>2. (\E p \in PeerIDs : owner'[p] = c /\ peerState'[p] = "acknowledging") =>
        users'[c] = EmptyMap /\ down'[c] = <<>>
  BY <1>1 DEF ClientOK
<1>3. QED BY <1>1, <1>2 DEF ClientOK

\* A step of the host that sends one package to every client it reaches, when the
\* clients that it reaches thereafter are among them.
LEMMA SendingHost ==
  ASSUME TypeOK, PeersOK, ClientsOK,
         UNCHANGED <<users, localUser, clientState, screen, link>>,
         \A c \in Clients : Reachable(c)' => Reachable(c),
         \A p \in PeerIDs : peerState'[p] = "acknowledging" =>
           peerState[p] = "acknowledging" /\ owner'[p] = owner[p],
         \A c \in Clients :
           \/ /\ down'[c] = down[c]
              /\ ~Reachable(c)'
           \/ /\ Reachable(c)
              /\ QueueOK(users[c], down'[c], Registered(c))
              /\ EndsWith(users[c], down'[c], Registered(c), hostUsers')
  PROVE  ClientsOK'
<1> SUFFICES ASSUME NEW c \in Clients PROVE ClientOK(c)'
  BY DEF ClientsOK
<1>1. ClientOK(c) /\ Registered(c)' = Registered(c)
  BY DEF ClientsOK, Registered
<1>2. (\E p \in PeerIDs : owner'[p] = c /\ peerState'[p] = "acknowledging") =>
        users'[c] = EmptyMap /\ down'[c] = <<>>
  <2>1. ASSUME NEW p \in PeerIDs, owner'[p] = c, peerState'[p] = "acknowledging"
        PROVE  users'[c] = EmptyMap /\ down'[c] = <<>>
    <3>1. owner[p] = c /\ peerState[p] = "acknowledging"
      BY <2>1
    <3>2. ~Reachable(c)
      <4>1. \A q \in PeerIDs : owner[q] = c => q = p
        BY <3>1, ProtocolAssumption DEF PeersOK
      <4>2. QED BY <3>1, <4>1 DEF Reachable
    <3>3. QED BY <1>1, <3>1, <3>2 DEF ClientOK
  <2>2. QED BY <2>1
<1>3. /\ QueueOK(users[c], down'[c], Registered(c))
      /\ Reachable(c)' => EndsWith(users[c], down'[c], Registered(c), hostUsers')
  BY <1>1 DEF ClientOK
<1>4. QED BY <1>1, <1>2, <1>3 DEF ClientOK

\* What a client is sent fits its queue when it fits the host's list.
LEMMA SendOK ==
  ASSUME TypeOK, ClientsOK, NEW c \in Clients, Reachable(c), NEW pkg \in DownPackages, NEW new,
         \A u \in UserIDs, x \in Names :
           new[u] = x <=> (hostUsers[u] = x /\ ~Removes(pkg, u)) \/ Adds(pkg, u, x),
         pkg.type = "USERNAME_ACK" =>
           \A u \in UserIDs, x \in Names : new[u] = x => Adds(pkg, u, x),
         pkg.type = "MESSAGE" => hostUsers[pkg.user] = pkg.line.by /\ pkg.line.by \in Names,
         pkg.type = "STATE_REM_USER" => hostUsers[pkg.user] \in Names
  PROVE  /\ QueueOK(users[c], Append(down[c], pkg), Registered(c))
         /\ EndsWith(users[c], Append(down[c], pkg), Registered(c), new)
<1>1. down[c] \in Seq(DownPackages)
  BY DEF TypeOK, TransportTypeOK
<1>2. /\ QueueOK(users[c], down[c], Registered(c))
      /\ EndsWith(users[c], down[c], Registered(c), hostUsers)
  BY DEF ClientsOK, ClientOK
<1>3. QED BY <1>1, <1>2, AppendOK

\* A line of chat changes no list.
LEMMA MessageOK ==
  ASSUME TypeOK, PeersOK, ClientsOK,
         UNCHANGED <<clientVars, link, owner, peerState, hostUsers>>,
         NEW pkg \in DownPackages, pkg.type = "MESSAGE",
         hostUsers[pkg.user] = pkg.line.by, pkg.line.by \in Names,
         down' = Broadcast(down, pkg)
  PROVE  ClientsOK'
<1> USE DEF clientVars
<1>1. \A c \in Clients : Reachable(c)' = Reachable(c)
  BY DEF Reachable
<1>2. \A u, x : ~Removes(pkg, u) /\ ~Adds(pkg, u, x)
  BY DEF Removes, Adds
<1>3. ASSUME NEW c \in Clients, Reachable(c)
      PROVE  /\ QueueOK(users[c], Append(down[c], pkg), Registered(c))
             /\ EndsWith(users[c], Append(down[c], pkg), Registered(c), hostUsers)
  BY <1>2, <1>3, SendOK
<1>4. \A c \in Clients :
        \/ down'[c] = down[c] /\ ~Reachable(c)'
        \/ /\ Reachable(c)
           /\ QueueOK(users[c], down'[c], Registered(c))
           /\ EndsWith(users[c], down'[c], Registered(c), hostUsers')
  BY <1>1, <1>3 DEF Broadcast
<1>5. QED BY <1>1, <1>4, SendingHost

LEMMA HostBeginStateReplica ==
  ASSUME IInv, ClientsOK, HostBeginState, UNCHANGED clientVars
  PROVE  ClientsOK'
<1> USE DEF HostBeginState, transportVars, clientVars
<1>1. \A c \in Clients : ~Reachable(c)'
  BY ProtocolAssumption DEF Reachable, IInv, PeersOK
<1>2. QED BY <1>1, QuietHost

LEMMA HostSendsInputReplica ==
  ASSUME IInv, ClientsOK, SendingOK, HostSendsInput, UNCHANGED clientVars
  PROVE  ClientsOK'
<1> USE DEF IInv, HostSendsInput
<1> DEFINE pkg == MessagePackage(0, Head(hostSending))
<1>1. Head(hostSending) \in Lines /\ 0 \in UserIDs /\ HostName \in Names
  BY ProtocolAssumption DEF TypeOK, HostTypeOK, UserIDs, Names
<1>2. /\ pkg \in DownPackages /\ pkg.type = "MESSAGE"
      /\ pkg.user = 0 /\ pkg.line = Head(hostSending)
  BY <1>1, PackageTypes DEF MessagePackage
<1>3. hostUsers[pkg.user] = pkg.line.by /\ pkg.line.by \in Names
  BY <1>1, <1>2 DEF RosterOK, SendingOK
<1> HIDE DEF pkg
<1>4. down' = Broadcast(down, pkg)
  BY DEF pkg
<1>5. QED BY <1>2, <1>3, <1>4, MessageOK

LEMMA HostAcceptsReplica ==
  ASSUME IInv, ClientsOK, NEW p \in PeerIDs, NEW c \in Clients, HostAccepts(p, c),
         UNCHANGED clientVars
  PROVE  ClientsOK'
<1> USE DEF IInv, HostAccepts, Accept, hostVars, clientVars
<1>1. /\ owner'[p] = c /\ peerState'[p] = "acknowledging" /\ owner[p] = NoUser
      /\ \A q \in PeerIDs \ {p} : owner'[q] = owner[q] /\ peerState'[q] = peerState[q]
  BY DEF TypeOK, TransportTypeOK
<1>2. ASSUME NEW d \in Clients, Reachable(d)' PROVE Reachable(d)
  BY <1>1, <1>2 DEF Reachable
<1>3. users[c] = EmptyMap /\ down[c] = <<>>
  BY DEF FreshOK
<1> SUFFICES ASSUME NEW d \in Clients PROVE ClientOK(d)'
  BY DEF ClientsOK
<1>4. ClientOK(d) /\ Registered(d)' = Registered(d)
  BY DEF ClientsOK, Registered
<1>5. ASSUME NEW q \in PeerIDs, owner'[q] = d, peerState'[q] = "acknowledging"
      PROVE  users[d] = EmptyMap /\ down[d] = <<>>
  <2>1. CASE q = p
    BY <1>1, <1>3, <1>5, <2>1
  <2>2. CASE q # p
    BY <1>1, <1>4, <1>5, <2>2 DEF ClientOK
  <2>3. QED BY <2>1, <2>2
<1>6. QED BY <1>2, <1>4, <1>5 DEF ClientOK

\* The client that is reached from now on knows nothing, and has been told
\* nothing: the host does not list it yet.
LEMMA HostConnectEventReplica ==
  ASSUME IInv, ClientsOK, NEW p \in PeerIDs, HostConnectEvent(p), UNCHANGED clientVars
  PROVE  ClientsOK'
<1> USE DEF IInv, HostConnectEvent, clientVars
<1> DEFINE c == owner[p]
<1>1. c \in Clients
  BY PeerHasClient
<1>2. /\ peerState'[p] = "connected"
      /\ \A q \in PeerIDs \ {p} : peerState'[q] = peerState[q]
  BY DEF TypeOK, TransportTypeOK
<1>3. users[c] = EmptyMap /\ down[c] = <<>>
  BY <1>1 DEF ClientsOK, ClientOK
<1>4. ~Registered(c)
  <2>1. hostUsers[toUserID(p)] = NoUser
    BY DEF RosterOK
  <2>2. ~ListedByHost(c)
    BY <1>1, <2>1, ProtocolAssumption DEF ListedByHost
  <2>3. QED BY <1>1, <2>2 DEF ListedOK
<1>5. EndsWith(EmptyMap, <<>>, FALSE, hostUsers)
  <2>1. \A u \in UserIDs, x \in Names : EmptyMap[u] # x
    BY ProtocolAssumption DEF EmptyMap, Names
  <2>2. Len(<<>>) = 0 /\ \A u, x : Knows(EmptyMap, <<>>, 0, u, x) => EmptyMap[u] = x
    BY DEF Knows
  <2>3. ~Told(FALSE, <<>>, 0)
    BY DEF Told
  <2>4. QED BY <2>1, <2>2, <2>3 DEF EndsWith
<1> SUFFICES ASSUME NEW d \in Clients PROVE ClientOK(d)'
  BY DEF ClientsOK
<1>6. ClientOK(d) /\ Registered(d)' = Registered(d)
  BY DEF ClientsOK, Registered
<1>7. Reachable(d)' => EndsWith(users[d], down[d], Registered(d), hostUsers)
  <2>1. CASE d = c
    <3>1. Registered(c) = FALSE
      BY <1>4 DEF Registered
    <3>2. QED BY <1>3, <1>5, <2>1, <3>1
  <2>2. CASE d # c
    <3>1. Reachable(d)' => Reachable(d)
      BY <1>2, <2>2 DEF Reachable
    <3>2. QED BY <1>6, <3>1 DEF ClientOK
  <2>3. QED BY <2>1, <2>2
<1>8. (\E q \in PeerIDs : owner'[q] = d /\ peerState'[q] = "acknowledging") =>
        users'[d] = EmptyMap /\ down'[d] = <<>>
  BY <1>2, <1>6 DEF ClientOK
<1>9. QED BY <1>6, <1>7, <1>8 DEF ClientOK

LEMMA HostReceivesMessageReplica ==
  ASSUME IInv, ClientsOK, NEW p \in PeerIDs, HostReceivesMessage(p), UNCHANGED clientVars
  PROVE  ClientsOK'
<1> USE DEF IInv
<1> DEFINE c == owner[p]
           pkg == Head(up[c])
<1>1. HostHas(p, "MESSAGE")
  BY DEF HostReceivesMessage
<1>2. /\ c \in Clients /\ pkg.type = "MESSAGE"
      /\ pkg.line.by = c /\ hostUsers[pkg.user] = c
      /\ pkg \in DownPackages
  BY <1>1, HostKnowsSender, PackageFields DEF DownPackages
<1>3. HasUser(hostUsers, pkg.user) /\ c \in Names
  BY <1>2, ProtocolAssumption DEF HasUser, Names
<1>4. down' = Broadcast(down, pkg) /\ UNCHANGED <<link, owner, peerState, hostUsers>>
  BY <1>3 DEF HostReceivesMessage
<1> HIDE DEF pkg
<1>5. QED BY <1>2, <1>3, <1>4, MessageOK

\* A name is entered in the list. The new client gets the whole list before the
\* entry, the others the entry only.
LEMMA HostReceivesUsernameReplica ==
  ASSUME IInv, ClientsOK, NEW p \in PeerIDs, HostReceivesUsername(p), UNCHANGED clientVars
  PROVE  ClientsOK'
<1> USE DEF IInv, clientVars
<1> DEFINE c == owner[p]
           u == toUserID(p)
           name == Head(up[c]).username
           ack == UsernameAckPackage(u, hostUsers')
           add == AddUserPackage(u, name)
           answered == SendDown(down, u, ack)
<1>1. HostHas(p, "USERNAME") /\ peerState[p] = "connected" /\ hostState = "hosting"
  BY DEF HostReceivesUsername, HostHas
<1>2. c \in Clients /\ c # NoUser /\ c \in Names
  BY <1>1, PeerHasClient, ProtocolAssumption DEF Names
<1>3. name = c
  BY <1>1, <1>2, HostTakes DEF AuthorsOK
<1>4. /\ hostUsers' = Insert(hostUsers, u, c)
      /\ down' = Broadcast(answered, add)
      /\ UNCHANGED <<owner, peerState, link>>
  BY <1>3 DEF HostReceivesUsername
<1>5. u \in UserIDs /\ toPeerID(u) = p
  BY UserIDOfPeer
<1>6. /\ hostUsers' \in UserMap
      /\ hostUsers'[u] = c
      /\ \A v \in UserIDs \ {u} : hostUsers'[v] = hostUsers[v]
      /\ hostUsers[u] \in {NoUser, c}
  <2>1. hostUsers \in UserMap /\ hostUsers[u] \in {NoUser, c}
    BY <1>1 DEF TypeOK, HostTypeOK, RosterOK
  <2>2. QED BY <1>2, <1>4, <1>5, <2>1, UserMapTypes DEF Insert, UserMap
<1>7. /\ ack \in DownPackages /\ ack.type = "USERNAME_ACK" /\ ack.users = hostUsers'
  BY <1>5, <1>6, PackageTypes, PackageKinds
<1>8. /\ add \in DownPackages /\ add.type = "STATE_ADD_USER"
      /\ add.user = u /\ add.name = c
  BY <1>2, <1>3, <1>5, PackageTypes, PackageKinds
<1>9. \A d \in Clients :
        answered[d] = down[d] \/ (answered[d] = Append(down[d], ack) /\ d = c /\ Reachable(c))
  BY <1>5 DEF SendDown, TypeOK, TransportTypeOK
<1>10. \A d \in Clients : down'[d] = IF Reachable(d) THEN Append(answered[d], add) ELSE answered[d]
  BY <1>4 DEF Broadcast
<1> HIDE DEF ack, add, answered
<1>11. \A v \in UserIDs, x \in Names :
         /\ hostUsers'[v] = x <=> hostUsers[v] = x \/ Adds(add, v, x)
         /\ ~Removes(add, v)
  <2>1. \A v, x : ~Removes(add, v) /\ (Adds(add, v, x) <=> v = u /\ x = c)
    BY <1>8 DEF Adds, Removes
  <2>2. NoUser \notin Names
    BY ProtocolAssumption DEF Names
  <2>3. QED BY <1>6, <2>1, <2>2
<1>12. \A v, x : ~Removes(ack, v) /\ (Adds(ack, v, x) <=> hostUsers'[v] = x)
  BY <1>7 DEF Adds, Removes
<1>13. ASSUME NEW d \in Clients, Reachable(d)
       PROVE  /\ QueueOK(users[d], down'[d], Registered(d))
              /\ EndsWith(users[d], down'[d], Registered(d), hostUsers')
  <2>1. /\ down[d] \in Seq(DownPackages)
        /\ QueueOK(users[d], down[d], Registered(d))
        /\ EndsWith(users[d], down[d], Registered(d), hostUsers)
    BY <1>13 DEF ClientsOK, ClientOK, TypeOK, TransportTypeOK
  <2>2. CASE answered[d] = down[d]
    <3>1. down'[d] = Append(down[d], add)
      BY <1>10, <1>13, <2>2
    <3>2. QED BY <1>8, <1>11, <1>13, <3>1, SendOK
  <2>3. CASE answered[d] = Append(down[d], ack)
    <3>1. /\ answered[d] \in Seq(DownPackages)
          /\ QueueOK(users[d], answered[d], Registered(d))
          /\ EndsWith(users[d], answered[d], Registered(d), hostUsers')
      <4>1. \A v \in UserIDs, x \in Names :
              hostUsers'[v] = x <=> (hostUsers[v] = x /\ ~Removes(ack, v)) \/ Adds(ack, v, x)
        BY <1>11, <1>12
      <4>2. /\ QueueOK(users[d], Append(down[d], ack), Registered(d))
            /\ EndsWith(users[d], Append(down[d], ack), Registered(d), hostUsers')
        BY <1>7, <1>12, <1>13, <4>1, SendOK
      <4>3. Append(down[d], ack) \in Seq(DownPackages)
        BY <1>7, <2>1, AppendRange
      <4>4. QED BY <2>3, <4>2, <4>3
    <3>2. down'[d] = Append(answered[d], add)
      BY <1>10, <1>13
    <3>3. \A v \in UserIDs, x \in Names :
            hostUsers'[v] = x <=> (hostUsers'[v] = x /\ ~Removes(add, v)) \/ Adds(add, v, x)
      BY <1>11
    <3>4. /\ QueueOK(users[d], Append(answered[d], add), Registered(d))
          /\ EndsWith(users[d], Append(answered[d], add), Registered(d), hostUsers')
      BY <1>8, <3>1, <3>3, AppendOK
    <3>5. QED BY <3>2, <3>4
  <2>4. QED BY <1>9, <1>13, <2>2, <2>3
<1>14. \A d \in Clients : Reachable(d)' = Reachable(d)
  BY <1>4 DEF Reachable
<1>15. \A d \in Clients :
         \/ down'[d] = down[d] /\ ~Reachable(d)'
         \/ /\ Reachable(d)
            /\ QueueOK(users[d], down'[d], Registered(d))
            /\ EndsWith(users[d], down'[d], Registered(d), hostUsers')
  BY <1>9, <1>10, <1>13, <1>14
<1>16. QED BY <1>4, <1>14, <1>15, SendingHost

\* A peer is reset: the broadcasts do not reach its client any more.
LEMMA ResetPeerReaches ==
  ASSUME TypeOK, PeersOK, NEW p \in PeerIDs, ResetPeer(p), owner[p] \in Clients,
         UNCHANGED link
  PROVE  /\ \A c \in Clients : Reachable(c)' <=> Reachable(c) /\ c # owner[p]
         /\ \A q \in PeerIDs : peerState'[q] # "disconnected" =>
              peerState'[q] = peerState[q] /\ owner'[q] = owner[q]
<1>1. /\ owner'[p] = NoUser /\ peerState'[p] = "disconnected"
      /\ \A q \in PeerIDs \ {p} : owner'[q] = owner[q] /\ peerState'[q] = peerState[q]
      /\ owner[p] # NoUser
  BY ProtocolAssumption DEF ResetPeer, TypeOK, TransportTypeOK
<1>2. \A q \in PeerIDs \ {p} : owner[q] # owner[p]
  BY <1>1 DEF PeersOK
<1>3. ASSUME NEW c \in Clients
      PROVE  Reachable(c)' <=> Reachable(c) /\ c # owner[p]
  <2>1. ASSUME Reachable(c)' PROVE Reachable(c) /\ c # owner[p]
    BY <1>1, <1>2, <2>1 DEF Reachable
  <2>2. ASSUME Reachable(c), c # owner[p] PROVE Reachable(c)'
    BY <1>1, <2>2 DEF Reachable
  <2>3. QED BY <2>1, <2>2
<1>4. QED BY <1>1, <1>3

\* The user of a peer that is gone leaves the host's list and, with the package
\* that says so, everybody's.
LEMMA HostDisconnectEventReplica ==
  ASSUME IInv, ClientsOK, NEW p \in PeerIDs, HostDisconnectEvent(p), UNCHANGED clientVars
  PROVE  ClientsOK'
<1> USE DEF IInv, clientVars
<1> DEFINE u == toUserID(p)
           pkg == RemoveUserPackage(u)
<1>1. owner[p] \in Clients /\ u \in UserIDs /\ ResetPeer(p) /\ UNCHANGED link
  BY PeerHasClient, UserIDOfPeer DEF HostDisconnectEvent
<1>2. /\ \A c \in Clients : Reachable(c)' <=> Reachable(c) /\ c # owner[p]
      /\ \A q \in PeerIDs : peerState'[q] # "disconnected" =>
           peerState'[q] = peerState[q] /\ owner'[q] = owner[q]
  BY <1>1, ResetPeerReaches
<1>3. CASE HasUser(hostUsers, u)
  <2>1. /\ down' = Farewell(p)
        /\ hostUsers' = Erase(hostUsers, u)
    BY <1>3 DEF HostDisconnectEvent
  <2>2. pkg \in DownPackages /\ pkg.type = "STATE_REM_USER" /\ pkg.user = u
    BY <1>1, PackageTypes, PackageKinds
  <2>3. \A c \in Clients :
          down'[c] = IF c # owner[p] /\ Reachable(c) THEN Append(down[c], pkg) ELSE down[c]
    BY <2>1 DEF Farewell
  <2> HIDE DEF pkg
  <2>4. /\ hostUsers \in UserMap
        /\ hostUsers'[u] = NoUser
        /\ \A v \in UserIDs \ {u} : hostUsers'[v] = hostUsers[v]
    BY <1>1, <2>1 DEF TypeOK, HostTypeOK, Erase, UserMap
  <2>5. hostUsers[u] \in Names
    BY <1>1, <1>3, <2>4 DEF HasUser, UserMap
  <2>6. \A v \in UserIDs, x \in Names :
          hostUsers'[v] = x <=> (hostUsers[v] = x /\ ~Removes(pkg, v)) \/ Adds(pkg, v, x)
    <3>1. \A v, x : (Removes(pkg, v) <=> v = u) /\ ~Adds(pkg, v, x)
      BY <2>2 DEF Removes, Adds
    <3>2. NoUser \notin Names
      BY ProtocolAssumption DEF Names
    <3>3. QED BY <2>4, <3>1, <3>2
  <2>7. ASSUME NEW c \in Clients, Reachable(c)
        PROVE  /\ QueueOK(users[c], Append(down[c], pkg), Registered(c))
               /\ EndsWith(users[c], Append(down[c], pkg), Registered(c), hostUsers')
    BY <2>2, <2>5, <2>6, <2>7, SendOK
  <2>8. \A c \in Clients :
          \/ down'[c] = down[c] /\ ~Reachable(c)'
          \/ /\ Reachable(c)
             /\ QueueOK(users[c], down'[c], Registered(c))
             /\ EndsWith(users[c], down'[c], Registered(c), hostUsers')
    BY <1>2, <2>3, <2>7
  <2>9. QED BY <1>1, <1>2, <2>8, SendingHost
<1>4. CASE ~HasUser(hostUsers, u)
  <2>1. UNCHANGED <<down, hostUsers>>
    BY <1>4 DEF HostDisconnectEvent
  <2>2. QED BY <1>1, <1>2, <2>1, QuietHost
<1>5. QED BY <1>3, <1>4

LEMMA HostAbandonsReplica ==
  ASSUME IInv, ClientsOK, NEW p \in PeerIDs, HostAbandons(p), UNCHANGED clientVars
  PROVE  ClientsOK'
<1> USE DEF IInv, HostAbandons, Abandon, hostVars, clientVars
<1>1. owner[p] \in Clients
  BY PeerHasClient
<1>2. /\ \A c \in Clients : Reachable(c)' <=> Reachable(c) /\ c # owner[p]
      /\ \A q \in PeerIDs : peerState'[q] # "disconnected" =>
           peerState'[q] = peerState[q] /\ owner'[q] = owner[q]
  BY <1>1, ResetPeerReaches
<1>3. QED BY <1>2, QuietHost

LEMMA HostInputReplica ==
  ASSUME IInv, ClientsOK, HostInput, UNCHANGED clientVars
  PROVE  ClientsOK'
<1> USE DEF HostInput, transportVars, clientVars
<1>1. \A c \in Clients : Reachable(c)' = Reachable(c)
  BY DEF Reachable
<1>2. QED BY <1>1, QuietHost

LEMMA HostExitReplica ==
  ASSUME IInv, ClientsOK, HostExit, UNCHANGED clientVars
  PROVE  ClientsOK'
<1> USE DEF HostExit, ResetAllPeers, clientVars
<1>1. \A c \in Clients : ~Reachable(c)'
  BY DEF Reachable
<1>2. \A q \in PeerIDs : peerState'[q] # "acknowledging"
  OBVIOUS
<1>3. QED BY <1>1, <1>2, QuietHost

-----------------------------------------------------------------------------
(* Steps of a client.                                                      *)

\* What one client does leaves the others as they are.
LEMMA ClientAlone ==
  ASSUME ClientsOK, NEW c \in Clients, UNCHANGED <<hostUsers, owner, peerState>>,
         \A d \in Clients \ {c} :
           /\ clientState'[d] = clientState[d] /\ link'[d] = link[d]
           /\ users'[d] = users[d] /\ localUser'[d] = localUser[d]
           /\ screen'[d] = screen[d] /\ down'[d] = down[d],
         ClientOK(c)'
  PROVE  ClientsOK'
<1> SUFFICES ASSUME NEW d \in Clients \ {c} PROVE ClientOK(d)'
  BY DEF ClientsOK
<1>1. Registered(d)' = Registered(d) /\ Reachable(d)' = Reachable(d)
  BY DEF Registered, Reachable
<1>2. ClientOK(d)
  BY DEF ClientsOK
<1>3. QED BY <1>1, <1>2 DEF ClientOK

\* A client that ends is reached no more; it crashes only without a user id.
LEMMA ClientEndsReplica ==
  ASSUME TypeOK, ClientsOK, NEW c \in Clients, NEW s \in {"quit", "crashed"},
         clientState' = [clientState EXCEPT ![c] = s], CloseLink(c),
         UNCHANGED <<hostVars, users, localUser, screen, owner, peerState>>,
         s = "crashed" => ~Registered(c)
  PROVE  ClientsOK'
<1> USE DEF CloseLink, hostVars, TypeOK, TransportTypeOK, ClientTypeOK
<1>1. /\ clientState'[c] = s /\ link'[c] = "closed" /\ down'[c] = <<>>
      /\ \A d \in Clients \ {c} :
           clientState'[d] = clientState[d] /\ link'[d] = link[d] /\ down'[d] = down[d]
  OBVIOUS
<1>2. ~Reachable(c)' /\ Registered(c)' = Registered(c)
  BY <1>1 DEF Reachable, Registered
<1>3. ClientOK(c)'
  BY <1>1, <1>2, EmptyQueueOK DEF ClientsOK, ClientOK
<1>4. QED BY <1>1, <1>3, ClientAlone

LEMMA ClientBeginStateReplica ==
  ASSUME IInv, ClientsOK, NEW c \in Clients, ClientBeginState(c), UNCHANGED hostVars
  PROVE  ClientsOK'
<1> USE DEF IInv, ClientBeginState, hostVars, TypeOK, TransportTypeOK, ClientTypeOK
<1>1. /\ clientState'[c] = "client" /\ link'[c] = "connecting"
      /\ \A d \in Clients \ {c} : clientState'[d] = clientState[d] /\ link'[d] = link[d]
  OBVIOUS
<1>2. ~Reachable(c)' /\ Registered(c)' = Registered(c)
  BY <1>1 DEF Reachable, Registered
<1>3. ClientOK(c)'
  BY <1>1, <1>2 DEF ClientsOK, ClientOK
<1>4. QED BY <1>1, <1>3, ClientAlone

\* The host has not seen yet that the connection is open.
LEMMA ClientConnectEventReplica ==
  ASSUME IInv, ClientsOK, NEW c \in Clients, ClientConnectEvent(c), UNCHANGED hostVars
  PROVE  ClientsOK'
<1> USE DEF IInv, ClientConnectEvent, hostVars, clientVars
<1>1. link[c] = "connecting" /\ \A d \in Clients \ {c} : link'[d] = link[d]
  BY DEF TypeOK, TransportTypeOK
<1>2. ~Reachable(c)'
  BY <1>1 DEF Reachable, PeersOK
<1>3. Registered(c)' = Registered(c)
  BY DEF Registered
<1>4. ClientOK(c)'
  BY <1>1, <1>2, <1>3 DEF ClientsOK, ClientOK
<1>5. QED BY <1>1, <1>4, ClientAlone

\* What the window of a client shows after one more line.
LEMMA AppendEntry ==
  ASSUME TypeOK, ClientsOK, NEW c \in Clients, NEW entry \in Entries,
         entry.name = entry.line.by
  PROVE  \A e \in Range(Append(screen[c], entry)) : e.name = e.line.by
<1>1. screen[c] \in Seq(Entries)
  BY DEF TypeOK, ClientTypeOK
<1>2. Range(Append(screen[c], entry)) = Range(screen[c]) \cup {entry}
  BY <1>1, AppendRange
<1>3. QED BY <1>2 DEF ClientsOK, ClientOK

\* A client that types knows itself by its own name.
LEMMA ClientInputReplica ==
  ASSUME IInv, ClientsOK, NEW c \in Clients, ClientInput(c), UNCHANGED hostVars
  PROVE  ClientsOK'
<1> USE DEF IInv, hostVars
<1> DEFINE line == [by |-> c, n |-> typed[c] + 1]
           entry == [name |-> users[c][localUser[c]], line |-> line]
<1>1. CASE localUser[c] = Wild /\ Crash(c)
  <2>1. ~Registered(c)
    BY <1>1, ClientAssumption DEF Registered
  <2>2. QED BY <1>1, <2>1, ClientEndsReplica DEF Crash, ClientInput
<1>2. CASE /\ Registered(c)
           /\ screen' = [screen EXCEPT ![c] = Append(@, entry)]
           /\ UNCHANGED <<clientState, users, localUser, link, down>>
  <2>1. UNCHANGED <<owner, peerState>> /\ typed[c] < ClientLines
    BY DEF ClientInput
  <2>2. users[c][localUser[c]] = c
    BY <1>2 DEF IdentityOK, Identity
  <2>3. line \in Lines
    <3>1. typed[c] \in 0 .. ClientLines /\ ClientLines \in Nat
      BY ProtocolAssumption DEF TypeOK, ClientTypeOK
    <3>2. typed[c] + 1 \in 1 .. ClientLines
      BY <2>1, <3>1
    <3>3. QED BY <3>2 DEF Lines
  <2>4. entry \in Entries /\ entry.name = entry.line.by
    BY <2>2, <2>3 DEF Entries, Names
  <2>5. screen'[c] = Append(screen[c], entry)
        /\ \A d \in Clients \ {c} : screen'[d] = screen[d]
    BY <1>2 DEF TypeOK, ClientTypeOK
  <2> HIDE DEF entry
  <2>6. \A e \in Range(screen'[c]) : e.name = e.line.by
    BY <2>4, <2>5, AppendEntry
  <2>7. Registered(c)' = Registered(c) /\ Reachable(c)' = Reachable(c)
    BY <1>2, <2>1 DEF Registered, Reachable
  <2>8. ClientOK(c)'
    BY <1>2, <2>1, <2>6, <2>7 DEF ClientsOK, ClientOK
  <2>9. QED BY <1>2, <2>1, <2>5, <2>8, ClientAlone
<1>3. QED BY <1>1, <1>2 DEF ClientInput

\* What the first package says of a user whom the client knows already.
LEMMA HeadFits ==
  ASSUME NEW list, NEW q \in Seq(DownPackages), q # <<>>, NEW already,
         QueueOK(list, q, already)
  PROVE  /\ \A u \in UserIDs, x \in Names, y \in Names :
              list[u] = y /\ ~Removes(Head(q), u) /\ Adds(Head(q), u, x) => x = y
         /\ Head(q).type = "MESSAGE" /\ list[Head(q).user] \in Names =>
              list[Head(q).user] = Head(q).line.by
         /\ Head(q).type \in {"MESSAGE", "STATE_REM_USER"} /\ already =>
              list[Head(q).user] \in Names
<1>1. /\ Len(q) \in Nat /\ Len(q) >= 1 /\ Head(q) = q[1]
      /\ 1 \in DOMAIN q /\ 1 \in 0 .. Len(q) /\ 1 - 1 = 0
  BY HeadTailProperties
<1>2. \A u, x : Knows(list, q, 0, u, x) <=> list[u] = x
  BY DEF Knows
<1>3. \A u \in UserIDs, x \in Names, y \in Names :
        list[u] = y /\ ~Removes(Head(q), u) /\ Adds(Head(q), u, x) => x = y
  <2> SUFFICES ASSUME NEW u \in UserIDs, NEW x \in Names, NEW y \in Names,
                      list[u] = y, ~Removes(Head(q), u), Adds(Head(q), u, x)
               PROVE  x = y
    OBVIOUS
  <2>1. Knows(list, q, 1, u, y)
    <3>1. 0 \in 0 .. 1 /\ \A j \in 0 + 1 .. 1 : ~Removes(q[j], u)
      BY <1>1
    <3>2. QED BY <3>1 DEF Knows
  <2>2. Knows(list, q, 1, u, x)
    <3>1. 1 \in 0 .. 1 /\ 1 # 0 /\ \A j \in 1 + 1 .. 1 : ~Removes(q[j], u)
      OBVIOUS
    <3>2. QED BY <1>1, <3>1 DEF Knows
  <2>3. QED BY <1>1, <2>1, <2>2 DEF QueueOK
<1>4. already => Told(already, q, 0)
  BY DEF Told
<1>5. /\ q[1].type = "MESSAGE" =>
           \A x \in Names : Knows(list, q, 0, q[1].user, x) => x = q[1].line.by
      /\ q[1].type \in {"MESSAGE", "STATE_REM_USER"} /\ Told(already, q, 0) =>
           \E x \in Names : Knows(list, q, 0, q[1].user, x)
  BY <1>1 DEF QueueOK
<1>6. QED BY <1>1, <1>2, <1>3, <1>4, <1>5

\* The same of the first package for a client.
LEMMA ClientHeadFits ==
  ASSUME IInv, ClientsOK, NEW c \in Clients, NEW type, ClientHas(c, type)
  PROVE  LET pkg == Head(down[c])
         IN /\ pkg \in DownPackages /\ pkg.type = type
            /\ \A u \in UserIDs, x \in Names, y \in Names :
                 users[c][u] = y /\ ~Removes(pkg, u) /\ Adds(pkg, u, x) => x = y
            /\ type = "MESSAGE" /\ users[c][pkg.user] \in Names =>
                 users[c][pkg.user] = pkg.line.by
            /\ type \in {"MESSAGE", "STATE_REM_USER"} /\ Registered(c) =>
                 users[c][pkg.user] \in Names
<1>1. down[c] \in Seq(DownPackages) /\ down[c] # <<>>
  BY DEF IInv, TypeOK, TransportTypeOK, ClientHas
<1>2. QueueOK(users[c], down[c], Registered(c))
  BY DEF ClientsOK, ClientOK
<1>3. Head(down[c]) \in DownPackages /\ Head(down[c]).type = type
  BY ClientTakes DEF IInv
<1>4. QED BY <1>1, <1>2, <1>3, HeadFits

\* A package is handled: the list of the client becomes what the package says.
LEMMA ClientHandlesReplica ==
  ASSUME IInv, ClientsOK, NEW c \in Clients, NEW type, ClientHas(c, type),
         ClientConsumes(c), UNCHANGED <<hostVars, clientState, owner, peerState>>,
         \A d \in Clients \ {c} :
           users'[d] = users[d] /\ localUser'[d] = localUser[d] /\ screen'[d] = screen[d],
         \A u \in UserIDs, x \in Names :
           users'[c][u] = x <=> \/ users[c][u] = x /\ ~Removes(Head(down[c]), u)
                               \/ Adds(Head(down[c]), u, x),
         Registered(c)' => Registered(c) \/ type = "USERNAME_ACK",
         \A e \in Range(screen'[c]) : e.name = e.line.by
  PROVE  ClientsOK'
<1> USE DEF hostVars
<1> DEFINE q == down[c]
           list == users[c]
           new == users'[c]
           already == Registered(c)
           now == Registered(c)'
<1>1. q \in Seq(DownPackages) /\ q # <<>> /\ link[c] = "connected" /\ Head(q).type = type
  BY DEF IInv, TypeOK, TransportTypeOK, ClientHas
<1>2. /\ down'[c] = Tail(q) /\ link' = link
      /\ \A d \in Clients \ {c} : down'[d] = down[d]
  BY DEF ClientConsumes, IInv, TypeOK, TransportTypeOK
<1>3. Reachable(c)' = Reachable(c)
  BY <1>2 DEF Reachable
<1>4. ClientOK(c)
  BY DEF ClientsOK
<1>5. /\ clientState[c] # "crashed"
      /\ ~\E p \in PeerIDs : owner[p] = c /\ peerState[p] = "acknowledging"
  BY <1>1, <1>4 DEF ClientOK
<1>6. /\ QueueOK(list, q, already)
      /\ Reachable(c) => EndsWith(list, q, already, hostUsers)
  BY <1>4 DEF ClientOK
<1>7. /\ \A u \in UserIDs, x \in Names :
           new[u] = x <=> (list[u] = x /\ ~Removes(Head(q), u)) \/ Adds(Head(q), u, x)
      /\ now => already \/ Head(q).type = "USERNAME_ACK"
  BY <1>1
<1> HIDE DEF q, list, new, already, now
<1>8. /\ QueueOK(new, Tail(q), now)
      /\ \A map : EndsWith(list, q, already, map) => EndsWith(new, Tail(q), now, map)
  BY <1>1, <1>6, <1>7, ConsumeOK
<1>9. /\ QueueOK(users[c], down[c], Registered(c))'
      /\ Reachable(c)' => EndsWith(users[c], down[c], Registered(c), hostUsers)'
  BY <1>2, <1>3, <1>6, <1>8 DEF new, now
<1>10. ClientOK(c)'
  BY <1>5, <1>9 DEF ClientOK
<1>11. QED BY <1>2, <1>10, ClientAlone

LEMMA ClientReceivesAckReplica ==
  ASSUME IInv, ClientsOK, NEW c \in Clients, ClientReceivesAck(c), UNCHANGED hostVars
  PROVE  ClientsOK'
<1> USE DEF IInv, hostVars
<1> DEFINE pkg == Head(down[c])
           listed == {u \in UserIDs : HasUser(pkg.users, u)}
<1>1. ClientHas(c, "USERNAME_ACK") /\ UNCHANGED <<owner, peerState, up>>
  BY DEF ClientReceivesAck
<1>2. CASE localUser[c] = Wild /\ Crash(c)
  <2>1. ~Registered(c)
    BY <1>2, ClientAssumption DEF Registered
  <2>2. QED BY <1>1, <1>2, <2>1, ClientEndsReplica DEF Crash
<1>3. CASE /\ users' = [users EXCEPT ![c] = InsertAll(@, pkg.users)]
           /\ localUser' = [localUser EXCEPT ![c] =
                              IF pkg.assigned \in listed THEN pkg.assigned ELSE @]
           /\ ClientConsumes(c)
           /\ UNCHANGED <<clientState, screen, typed>>
  <2>1. /\ pkg.type = "USERNAME_ACK" /\ pkg.users \in UserMap
        /\ \A u \in UserIDs, x \in Names, y \in Names :
             users[c][u] = y /\ ~Removes(pkg, u) /\ Adds(pkg, u, x) => x = y
    BY <1>1, ClientHeadFits, PackageFields
  <2>2. \A u, x : ~Removes(pkg, u) /\ (Adds(pkg, u, x) <=> pkg.users[u] = x)
    BY <2>1 DEF Removes, Adds
  <2>3. /\ \A d \in Clients \ {c} : users'[d] = users[d] /\ localUser'[d] = localUser[d]
        /\ users'[c] = InsertAll(users[c], pkg.users)
        /\ users[c] \in UserMap
    BY <1>3 DEF TypeOK, ClientTypeOK
  <2> HIDE DEF pkg
  <2>4. ASSUME NEW u \in UserIDs, NEW x \in Names
        PROVE  users'[c][u] = x <=> (users[c][u] = x /\ ~Removes(pkg, u)) \/ Adds(pkg, u, x)
    <3>1. users'[c][u] = IF users[c][u] = NoUser THEN pkg.users[u] ELSE users[c][u]
      BY <2>3 DEF InsertAll
    <3>2. users[c][u] \in Names \cup {NoUser} /\ NoUser \notin Names
      BY <2>3, ProtocolAssumption DEF UserMap, Names
    <3>3. CASE users[c][u] = NoUser
      BY <2>2, <3>1, <3>2, <3>3
    <3>4. CASE users[c][u] \in Names
      BY <2>1, <2>2, <3>1, <3>2, <3>4
    <3>5. QED BY <3>2, <3>3, <3>4
  <2>5. \A e \in Range(screen'[c]) : e.name = e.line.by
    BY <1>3 DEF ClientsOK, ClientOK
  <2>6. QED BY <1>1, <1>3, <2>3, <2>4, <2>5, ClientHandlesReplica DEF pkg
<1>4. QED BY <1>2, <1>3 DEF ClientReceivesAck

LEMMA ClientReceivesAddUserReplica ==
  ASSUME IInv, ClientsOK, NEW c \in Clients, ClientReceivesAddUser(c), UNCHANGED hostVars
  PROVE  ClientsOK'
<1> USE DEF IInv, hostVars
<1> DEFINE pkg == Head(down[c])
<1>1. ClientHas(c, "STATE_ADD_USER") /\ UNCHANGED <<owner, peerState, up>>
  BY DEF ClientReceivesAddUser
<1>2. CASE localUser[c] = Wild /\ Crash(c)
  <2>1. ~Registered(c)
    BY <1>2, ClientAssumption DEF Registered
  <2>2. QED BY <1>1, <1>2, <2>1, ClientEndsReplica DEF Crash
<1>3. CASE /\ users' = [users EXCEPT ![c] = Insert(@, pkg.user, pkg.name)]
           /\ ClientConsumes(c)
           /\ UNCHANGED <<clientState, localUser, screen, typed>>
  <2>1. /\ pkg.type = "STATE_ADD_USER" /\ pkg.user \in UserIDs /\ pkg.name \in Names
        /\ \A u \in UserIDs, x \in Names, y \in Names :
             users[c][u] = y /\ ~Removes(pkg, u) /\ Adds(pkg, u, x) => x = y
    BY <1>1, ClientHeadFits, PackageFields
  <2>2. \A u, x : ~Removes(pkg, u) /\ (Adds(pkg, u, x) <=> u = pkg.user /\ x = pkg.name)
    BY <2>1 DEF Removes, Adds
  <2>3. /\ \A d \in Clients \ {c} : users'[d] = users[d]
        /\ users'[c] = Insert(users[c], pkg.user, pkg.name)
        /\ users[c] \in UserMap
    BY <1>3 DEF TypeOK, ClientTypeOK
  <2> HIDE DEF pkg
  <2>4. ASSUME NEW u \in UserIDs, NEW x \in Names
        PROVE  users'[c][u] = x <=> (users[c][u] = x /\ ~Removes(pkg, u)) \/ Adds(pkg, u, x)
    <3>1. users'[c][u] = IF u = pkg.user /\ users[c][u] = NoUser THEN pkg.name ELSE users[c][u]
      BY <2>1, <2>3 DEF Insert, UserMap
    <3>2. users[c][u] \in Names \cup {NoUser} /\ NoUser \notin Names
      BY <2>3, ProtocolAssumption DEF UserMap, Names
    <3>3. CASE users[c][u] = NoUser
      BY <2>1, <2>2, <3>1, <3>2, <3>3
    <3>4. CASE users[c][u] \in Names
      BY <2>1, <2>2, <3>1, <3>2, <3>4
    <3>5. QED BY <3>2, <3>3, <3>4
  <2>5. /\ Registered(c)' = Registered(c)
        /\ \A e \in Range(screen'[c]) : e.name = e.line.by
    BY <1>3 DEF ClientsOK, ClientOK, Registered
  <2>6. QED BY <1>1, <1>3, <2>3, <2>4, <2>5, ClientHandlesReplica DEF pkg
<1>4. QED BY <1>2, <1>3 DEF ClientReceivesAddUser

\* A client that has a user id knows whoever leaves, and is not told of itself.
LEMMA ClientReceivesRemoveUserReplica ==
  ASSUME IInv, ClientsOK, NEW c \in Clients, ClientReceivesRemoveUser(c), UNCHANGED hostVars
  PROVE  ClientsOK'
<1> USE DEF IInv, hostVars
<1> DEFINE pkg == Head(down[c])
           u == pkg.user
<1>1. ClientHas(c, "STATE_REM_USER") /\ UNCHANGED <<owner, peerState, up>>
  BY DEF ClientReceivesRemoveUser
<1>2. /\ pkg.type = "STATE_REM_USER" /\ u \in UserIDs
      /\ Registered(c) => users[c][u] \in Names
  BY <1>1, ClientHeadFits, PackageFields
<1>3. CASE (~HasUser(users[c], u) \/ localUser[c] \in {Wild, u}) /\ Crash(c)
  <2>1. ~Registered(c)
    <3>1. ASSUME Registered(c) PROVE localUser[c] # u
      <4>1. PICK a \in 1 .. MaxConn : Identity(c, a)
        BY DEF IdentityOK
      <4>2. pkg \in Range(down[c])
        BY <1>1, ClientTakes
      <4>3. QED BY <1>2, <3>1, <4>1, <4>2 DEF Identity
    <3>2. Registered(c) => localUser[c] # Wild
      BY ClientAssumption DEF Registered
    <3>3. Registered(c) => HasUser(users[c], u)
      BY <1>2, ProtocolAssumption DEF HasUser, Names
    <3>4. QED BY <1>3, <3>1, <3>2, <3>3
  <2>2. QED BY <1>1, <1>3, <2>1, ClientEndsReplica DEF Crash
<1>4. CASE /\ users' = [users EXCEPT ![c] = Erase(@, u)]
           /\ ClientConsumes(c)
           /\ UNCHANGED <<clientState, localUser, screen, typed>>
  <2>1. \A v, x : (Removes(pkg, v) <=> v = u) /\ ~Adds(pkg, v, x)
    BY <1>2 DEF Removes, Adds
  <2>2. /\ \A d \in Clients \ {c} : users'[d] = users[d]
        /\ users'[c] = Erase(users[c], u)
        /\ users[c] \in UserMap
    BY <1>4 DEF TypeOK, ClientTypeOK
  <2> HIDE DEF pkg
  <2>3. ASSUME NEW v \in UserIDs, NEW x \in Names
        PROVE  users'[c][v] = x <=> (users[c][v] = x /\ ~Removes(pkg, v)) \/ Adds(pkg, v, x)
    <3>1. users'[c][v] = IF v = u THEN NoUser ELSE users[c][v]
      BY <1>2, <2>2 DEF Erase, UserMap
    <3>2. NoUser \notin Names
      BY ProtocolAssumption DEF Names
    <3>3. QED BY <2>1, <3>1, <3>2
  <2>4. /\ Registered(c)' = Registered(c)
        /\ \A e \in Range(screen'[c]) : e.name = e.line.by
    BY <1>4 DEF ClientsOK, ClientOK, Registered
  <2>5. QED BY <1>1, <1>4, <2>2, <2>3, <2>4, ClientHandlesReplica DEF pkg
<1>5. QED BY <1>3, <1>4 DEF ClientReceivesRemoveUser

\* A client that has a user id knows whoever speaks, and by the right name.
LEMMA ClientReceivesMessageReplica ==
  ASSUME IInv, ClientsOK, NEW c \in Clients, ClientReceivesMessage(c), UNCHANGED hostVars
  PROVE  ClientsOK'
<1> USE DEF IInv, hostVars
<1> DEFINE pkg == Head(down[c])
           entry == [name |-> users[c][pkg.user], line |-> pkg.line]
<1>1. ClientHas(c, "MESSAGE") /\ UNCHANGED <<owner, peerState, up>>
  BY DEF ClientReceivesMessage
<1>2. /\ pkg.type = "MESSAGE" /\ pkg.user \in UserIDs /\ pkg.line \in Lines
      /\ users[c][pkg.user] \in Names => users[c][pkg.user] = pkg.line.by
      /\ Registered(c) => users[c][pkg.user] \in Names
  BY <1>1, ClientHeadFits, PackageFields
<1>3. CASE (~HasUser(users[c], pkg.user) \/ localUser[c] = Wild) /\ Crash(c)
  <2>1. ~Registered(c)
    BY <1>2, <1>3, ProtocolAssumption, ClientAssumption DEF Registered, HasUser, Names
  <2>2. QED BY <1>1, <1>3, <2>1, ClientEndsReplica DEF Crash
<1>4. CASE /\ HasUser(users[c], pkg.user)
           /\ screen' = IF pkg.user = localUser[c] THEN screen
                        ELSE [screen EXCEPT ![c] = Append(@, entry)]
           /\ ClientConsumes(c)
           /\ UNCHANGED <<clientState, users, localUser, typed>>
  <2>1. users[c][pkg.user] \in Names
    BY <1>2, <1>4 DEF TypeOK, ClientTypeOK, UserMap, HasUser
  <2>2. entry \in Entries /\ entry.name = entry.line.by
    BY <1>2, <2>1 DEF Entries
  <2>3. /\ \A d \in Clients \ {c} : screen'[d] = screen[d]
        /\ screen'[c] \in {screen[c], Append(screen[c], entry)}
    BY <1>4 DEF TypeOK, ClientTypeOK
  <2>4. \A u, x : ~Removes(pkg, u) /\ ~Adds(pkg, u, x)
    BY <1>2 DEF Removes, Adds
  <2> HIDE DEF pkg, entry
  <2>5. \A e \in Range(screen'[c]) : e.name = e.line.by
    BY <2>2, <2>3, AppendEntry DEF ClientsOK, ClientOK
  <2>6. Registered(c)' = Registered(c)
    BY <1>4 DEF Registered
  <2>7. \A u \in UserIDs, x \in Names :
          users'[c][u] = x <=> (users[c][u] = x /\ ~Removes(pkg, u)) \/ Adds(pkg, u, x)
    BY <1>4, <2>4
  <2>8. QED BY <1>1, <1>4, <2>3, <2>5, <2>6, <2>7, ClientHandlesReplica DEF pkg
<1>5. QED BY <1>3, <1>4 DEF ClientReceivesMessage

-----------------------------------------------------------------------------
(* The invariant and what follows from it.                                 *)

LEMMA InitReplica == Init => ClientsOK /\ SendingOK
<1> SUFFICES ASSUME Init PROVE ClientsOK /\ SendingOK
  OBVIOUS
<1> USE DEF Init, TransportInit, HostInit, ClientInit
<1>1. ASSUME NEW c \in Clients PROVE ClientOK(c)
  <2>1. down[c] = <<>> /\ screen[c] = <<>> /\ link[c] = "none" /\ clientState[c] = "prompt"
    OBVIOUS
  <2>2. ~Reachable(c) /\ \A p \in PeerIDs : peerState[p] # "acknowledging"
    BY DEF Reachable
  <2>3. Range(screen[c]) = {}
    BY <2>1 DEF Range
  <2>4. QED BY <2>1, <2>2, <2>3, EmptyQueueOK DEF ClientOK
<1>2. QED BY <1>1 DEF ClientsOK, SendingOK

\* What the host broadcasts for its user is a line of its user.
LEMMA NextSending == SendingOK /\ [Next]_vars => SendingOK'
<1> SUFFICES ASSUME SendingOK, [Next]_vars PROVE SendingOK'
  OBVIOUS
<1>1. CASE HostInput
  BY <1>1 DEF HostInput, SendingOK
<1>2. CASE HostSendsInput
  BY <1>2 DEF HostSendsInput, SendingOK
<1>3. CASE UNCHANGED hostSending
  BY <1>3 DEF SendingOK
<1>4. QED BY <1>1, <1>2, <1>3
     DEF Next, HostStep, HostUser, HostListener, ClientStep, NetworkStep, vars, hostVars,
         HostBeginState, HostExit, HostAccepts, HostConnectEvent, HostReceivesUsername,
         HostReceivesMessage, HostDisconnectEvent, HostAbandons

LEMMA NextReplica ==
  ASSUME ~Lossy, IInv, ClientsOK, SendingOK, [Next]_vars
  PROVE  ClientsOK'
<1>1. CASE HostStep
  <2>1. UNCHANGED clientVars
    BY <1>1 DEF HostStep
  <2>2. CASE HostUser
    BY <2>1, <2>2, HostBeginStateReplica, HostInputReplica, HostSendsInputReplica,
       HostExitReplica DEF HostUser
  <2>3. ASSUME NEW p \in PeerIDs, HostListener(p) PROVE ClientsOK'
    BY <2>1, <2>3, HostConnectEventReplica, HostReceivesUsernameReplica,
       HostReceivesMessageReplica, HostDisconnectEventReplica, HostAbandonsReplica
       DEF HostListener
  <2>4. ASSUME NEW p \in PeerIDs, NEW c \in Clients, HostAccepts(p, c) PROVE ClientsOK'
    BY <2>1, <2>4, HostAcceptsReplica
  <2>5. QED BY <1>1, <2>2, <2>3, <2>4 DEF HostStep
<1>2. CASE ClientStep
  <2>1. UNCHANGED hostVars
    BY <1>2 DEF ClientStep
  <2>2. ASSUME NEW c \in Clients, ClientExit(c) \/ ClientDisconnectEvent(c)
        PROVE  ClientsOK'
    <3>1. ClientExit(c) \/ ClientDisconnectEvent(c) => Quit(c)
          /\ UNCHANGED <<users, localUser, screen, owner, peerState>>
      BY DEF ClientExit, ClientDisconnectEvent
    <3>2. QED BY <2>1, <2>2, <3>1, ClientEndsReplica DEF Quit, IInv
  <2>3. ASSUME NEW c \in Clients, ClientUser(c) PROVE ClientsOK'
    BY <2>1, <2>2, <2>3, ClientBeginStateReplica, ClientInputReplica DEF ClientUser
  <2>4. ASSUME NEW c \in Clients, ClientListener(c) PROVE ClientsOK'
    BY <2>1, <2>2, <2>4, ClientConnectEventReplica, ClientReceivesAckReplica,
       ClientReceivesAddUserReplica, ClientReceivesRemoveUserReplica,
       ClientReceivesMessageReplica DEF ClientListener
  <2>5. QED BY <1>2, <2>3, <2>4 DEF ClientStep
<1>3. CASE NetworkStep
  BY <1>3 DEF NetworkStep, Lose
<1>4. CASE UNCHANGED vars
  <2>1. \A c \in Clients : Reachable(c)' = Reachable(c)
    BY <1>4 DEF vars, transportVars, Reachable
  <2>2. QED BY <1>4, <2>1, QuietHost DEF vars, transportVars, hostVars, clientVars
<1>5. QED BY <1>1, <1>2, <1>3, <1>4 DEF Next

\* When no packet is lost, what every client knows and is about to be told fits
\* together, and ends with the list that the host keeps: USERNAME_ACK,
\* STATE_ADD_USER and STATE_REM_USER are enough to follow it, whoever joins,
\* leaves or times out meanwhile, and whatever user id is given out again.
THEOREM ListsFollowTheHost == Spec => []ReplicaOK
<1> DEFINE Inv == ~Lossy => ClientsOK /\ SendingOK
<1>1. Init => Inv
  BY InitReplica
<1>2. IInv /\ Inv /\ [Next]_vars => Inv'
  <2> SUFFICES ASSUME ~Lossy, IInv, ClientsOK, SendingOK, [Next]_vars
               PROVE  ClientsOK' /\ SendingOK'
    OBVIOUS
  <2>1. QED BY NextReplica, NextSending
<1>3. Inv => ReplicaOK
  BY DEF ReplicaOK, ClientsOK, SendingOK
<1> HIDE DEF Inv
<1>4. QED BY <1>1, <1>2, <1>3, InvariantHolds, PTL DEF Spec

\* When no packet is lost, the handlers of a client that has its user id find
\* every user that a package speaks of; they dereference what they looked up
\* without a test (ChatState_Client::receiveMessageEvent).
THEOREM RegisteredNeverCrashes == Spec => []RegisteredNeverFaults
<1>1. ReplicaOK => RegisteredNeverFaults
  BY DEF ReplicaOK, ClientOK, RegisteredNeverFaults
<1>2. QED BY <1>1, ListsFollowTheHost, PTL

\* When no packet is lost, a client shows every line under the name of the user
\* who typed it, though it is looked up by a user id that others had before.
THEOREM ClientsNameTheAuthors == Spec => [](~Lossy => ClientsNameAuthors)
<1>1. ReplicaOK => (~Lossy => ClientsNameAuthors)
  BY DEF ReplicaOK, ClientOK, ClientsNameAuthors
<1>2. QED BY <1>1, ListsFollowTheHost, PTL

-----------------------------------------------------------------------------
(* What a queue makes of a list, when all of its packages are handled.     *)

\* Induction, from the least number of which something does not hold.
LEMMA LeastNumber ==
  ASSUME NEW T \in SUBSET Nat, T # {}
  PROVE  \E n \in T : \A m \in T : n <= m
  <1> DEFINE R == {ss \in Nat \X Nat : ss[1] < ss[2]}
  <1>1. IsWellFoundedOn(R, Nat)
    BY NatLessThanWellFounded DEF OpToRel
  <1> HIDE DEF R
  <1>2. \E n \in T : \A m \in T : <<m, n>> \notin R
    BY <1>1, WFMin
  <1>3. \A m, n \in Nat : m < n => <<m, n>> \in R
    BY DEF R
  <1>4. PICK n \in T : \A m \in T : <<m, n>> \notin R
    BY <1>2
  <1>5. n \in Nat /\ \A m \in T : m \in Nat
    OBVIOUS
  <1>6. \A m \in T : ~(m < n)
    BY <1>3, <1>4, <1>5
  <1> QED BY <1>5, <1>6

LEMMA Induction ==
  ASSUME NEW S \in SUBSET Nat, 0 \in S, \A n \in S : n + 1 \in S
  PROVE  S = Nat
  <1>1. SUFFICES ASSUME S # Nat PROVE FALSE
    OBVIOUS
  <1>2. Nat \ S # {} /\ Nat \ S \in SUBSET Nat
    BY <1>1
  <1>3. PICK n \in Nat \ S : \A m \in Nat \ S : n <= m
    BY <1>2, LeastNumber
  <1>4. n # 0 /\ n - 1 \in Nat
    OBVIOUS
  <1>5. n - 1 \in S
    BY <1>3, <1>4
  <1>6. (n - 1) + 1 \in S
    BY <1>5
  <1> QED BY <1>4, <1>6

\* The first n packages are handled, the last of them last.
Handles(f, list, q, n) ==
  f = [s \in SUBSET (1 .. n) |->
         IF s = {} THEN list ELSE ApplyPackage(f[s \ {Max(s)}], q[Max(s)])]

LEMMA HandlesAt ==
  ASSUME NEW f, NEW list, NEW q, NEW n \in Nat, Handles(f, list, q, n), NEW s \in SUBSET (1 .. n)
  PROVE  f[s] = IF s = {} THEN list ELSE ApplyPackage(f[s \ {Max(s)}], q[Max(s)])
<1> DEFINE F == [t \in SUBSET (1 .. n) |->
                   IF t = {} THEN list ELSE ApplyPackage(f[t \ {Max(t)}], q[Max(t)])]
<1>1. F[s] = IF s = {} THEN list ELSE ApplyPackage(f[s \ {Max(s)}], q[Max(s)])
  OBVIOUS
<1>2. f = F
  BY DEF Handles
<1> HIDE DEF F
<1>3. QED BY <1>1, <1>2

LEMMA LastIsMax ==
  ASSUME NEW n \in Nat, NEW s \in SUBSET (1 .. n + 1), n + 1 \in s
  PROVE  Max(s) = n + 1
<1>1. \A y \in s : y \in Nat /\ n + 1 >= y
  OBVIOUS
<1>2. \A x \in s : (\A y \in s : x >= y) => x = n + 1
  BY <1>1
<1>3. QED BY <1>1, <1>2 DEF Max

LEMMA HandlesNext ==
  ASSUME NEW f, NEW list, NEW q, NEW n \in Nat, Handles(f, list, q, n), NEW k \in 0 .. n - 1
  PROVE  f[1 .. k + 1] = ApplyPackage(f[1 .. k], q[k + 1])
<1> DEFINE s == 1 .. k + 1
<1>1. /\ k \in Nat /\ s \in SUBSET (1 .. n) /\ s \in SUBSET (1 .. k + 1)
      /\ k + 1 \in s /\ s # {} /\ s \ {k + 1} = 1 .. k
  OBVIOUS
<1> HIDE DEF s
<1>2. Max(s) = k + 1
  BY <1>1, LastIsMax
<1>3. f[s] = IF s = {} THEN list ELSE ApplyPackage(f[s \ {Max(s)}], q[Max(s)])
  <2>1. Handles(f, list, q, n)
    OBVIOUS
  <2>2. s \in SUBSET (1 .. n)
    BY <1>1
  <2>3. QED BY <2>1, <2>2, HandlesAt
<1>4. QED BY <1>1, <1>2, <1>3 DEF s

\* The fold is defined by recursion; this is that there is such a function.
LEMMA SomethingHandles ==
  ASSUME NEW list, NEW q, NEW n \in Nat
  PROVE  \E f : Handles(f, list, q, n)
<1> DEFINE S == {m \in Nat : \E f : Handles(f, list, q, m)}
<1>1. 0 \in S
  <2>1. \A s \in SUBSET (1 .. 0) : s = {}
    OBVIOUS
  <2>2. Handles([s \in SUBSET (1 .. 0) |-> list], list, q, 0)
    BY <2>1 DEF Handles
  <2>3. QED BY <2>2
<1>2. ASSUME NEW m \in S PROVE m + 1 \in S
  <2>1. PICK f : Handles(f, list, q, m)
    OBVIOUS
  <2> DEFINE g == [s \in SUBSET (1 .. m + 1) |->
                     IF m + 1 \in s THEN ApplyPackage(f[s \ {m + 1}], q[m + 1]) ELSE f[s]]
             G == [s \in SUBSET (1 .. m + 1) |->
                     IF s = {} THEN list ELSE ApplyPackage(g[s \ {Max(s)}], q[Max(s)])]
  <2>2. \A s \in SUBSET (1 .. m + 1) : m + 1 \notin s => g[s] = f[s]
    OBVIOUS
  <2>3. \A s \in SUBSET (1 .. m + 1) :
          m + 1 \in s => g[s] = ApplyPackage(f[s \ {m + 1}], q[m + 1])
    OBVIOUS
  <2> HIDE DEF g
  <2>4. ASSUME NEW s \in SUBSET (1 .. m + 1)
        PROVE  g[s] = IF s = {} THEN list ELSE ApplyPackage(g[s \ {Max(s)}], q[Max(s)])
    <3>1. CASE m + 1 \in s
      <4>1. Max(s) = m + 1
        BY <3>1, LastIsMax
      <4>2. s \ {m + 1} \in SUBSET (1 .. m + 1) /\ m + 1 \notin s \ {m + 1} /\ s # {}
        BY <3>1
      <4>3. g[s \ {m + 1}] = f[s \ {m + 1}]
        BY <2>2, <4>2
      <4>4. QED BY <2>3, <3>1, <4>1, <4>2, <4>3
    <3>2. CASE m + 1 \notin s
      <4>1. s \in SUBSET (1 .. m)
        BY <3>2
      <4>2. f[s] = IF s = {} THEN list ELSE ApplyPackage(f[s \ {Max(s)}], q[Max(s)])
        BY <2>1, <4>1, HandlesAt
      <4>3. s \ {Max(s)} \in SUBSET (1 .. m + 1) /\ m + 1 \notin s \ {Max(s)}
        BY <3>2
      <4>4. g[s \ {Max(s)}] = f[s \ {Max(s)}] /\ g[s] = f[s]
        BY <2>2, <3>2, <4>3
      <4>5. QED BY <4>2, <4>4
    <3>3. QED BY <3>1, <3>2
  <2>5. g = G
    <3>1. g = [s \in SUBSET (1 .. m + 1) |-> g[s]]
      BY DEF g
    <3>2. QED BY <2>4, <3>1
  <2>6. Handles(g, list, q, m + 1)
    BY <2>5 DEF Handles
  <2>7. m + 1 \in Nat
    OBVIOUS
  <2>8. QED BY <2>6, <2>7
<1> HIDE DEF S
<1>3. S = Nat
  <2>1. S \in SUBSET Nat
    BY DEF S
  <2>2. QED BY <1>1, <1>2, <2>1, Induction
<1>4. QED BY <1>3 DEF S

\* Package by package.
HandledInTurn(f, list, q) ==
  f[0] = list /\ \A k \in 0 .. Len(q) - 1 : f[k + 1] = ApplyPackage(f[k], q[k + 1])

LEMMA FoldIsLast ==
  ASSUME NEW list, NEW S, NEW q \in Seq(S)
  PROVE  \E f : HandledInTurn(f, list, q) /\ FoldLeft(ApplyPackage, list, q) = f[Len(q)]
<1> DEFINE n == Len(q)
           f == CHOOSE f : f = [s \in SUBSET DOMAIN q |->
                  IF s = {} THEN list ELSE ApplyPackage(f[s \ {Max(s)}], q[Max(s)])]
           g == [k \in 0 .. n |-> f[1 .. k]]
<1>1. FoldLeft(ApplyPackage, list, q) = f[DOMAIN q]
  BY DEF FoldLeft, MapThenFoldSet
<1>2. n \in Nat /\ DOMAIN q = 1 .. n
  OBVIOUS
<1>3. Handles(f, list, q, n)
  <2>1. PICK h : Handles(h, list, q, n)
    BY <1>2, SomethingHandles
  <2>2. h = [s \in SUBSET DOMAIN q |->
               IF s = {} THEN list ELSE ApplyPackage(h[s \ {Max(s)}], q[Max(s)])]
    BY <1>2, <2>1 DEF Handles
  <2>3. f = [s \in SUBSET DOMAIN q |->
               IF s = {} THEN list ELSE ApplyPackage(f[s \ {Max(s)}], q[Max(s)])]
    BY <2>2
  <2> HIDE DEF f
  <2>4. QED BY <1>2, <2>3 DEF Handles
<1> HIDE DEF f, n
<1>4. f[{}] = list
  BY <1>2, <1>3, HandlesAt
<1>5. ASSUME NEW k \in 0 .. n - 1
      PROVE  f[1 .. k + 1] = ApplyPackage(f[1 .. k], q[k + 1])
  BY <1>2, <1>3, HandlesNext
<1>6. g[0] = list /\ \A k \in 0 .. n - 1 : g[k + 1] = ApplyPackage(g[k], q[k + 1])
  <2>1. 1 .. 0 = {} /\ 0 \in 0 .. n
    BY <1>2
  <2>2. \A k \in 0 .. n - 1 : k \in 0 .. n /\ k + 1 \in 0 .. n
    BY <1>2
  <2>3. g[0] = list
    BY <1>4, <2>1
  <2>4. \A k \in 0 .. n - 1 : g[k] = f[1 .. k] /\ g[k + 1] = f[1 .. k + 1]
    BY <2>2
  <2> HIDE DEF g
  <2>5. QED BY <1>5, <2>3, <2>4
<1>7. g[n] = f[DOMAIN q]
  BY <1>2
<1> HIDE DEF g
<1>8. QED BY <1>1, <1>6, <1>7 DEF HandledInTurn, n

\* What one package does is what it tells, to one who knows of each user one
\* name at most.
LEMMA ApplyTells ==
  ASSUME NEW list \in UserMap, NEW pkg \in DownPackages, NEW u \in UserIDs,
         \A x, y \in Names :
           list[u] = x /\ ~Removes(pkg, u) /\ Adds(pkg, u, y) => x = y
  PROVE  /\ ApplyPackage(list, pkg) \in UserMap
         /\ \A x \in Names :
              ApplyPackage(list, pkg)[u] = x
                <=> (list[u] = x /\ ~Removes(pkg, u)) \/ Adds(pkg, u, x)
<1>1. NoUser \notin Names /\ list[u] \in Names \cup {NoUser}
  BY ProtocolAssumption DEF Names, UserMap
<1>2. CASE pkg.type = "USERNAME_ACK"
  <2>1. pkg.users \in UserMap
    BY <1>2 DEF DownPackages, MessagePackages
  <2>2. ApplyPackage(list, pkg) = InsertAll(list, pkg.users)
    BY <1>2 DEF ApplyPackage
  <2>3. InsertAll(list, pkg.users) \in UserMap
    BY <2>1 DEF InsertAll, UserMap
  <2>4. InsertAll(list, pkg.users)[u] = IF list[u] = NoUser THEN pkg.users[u] ELSE list[u]
    BY DEF InsertAll
  <2>5. ~Removes(pkg, u) /\ \A x : Adds(pkg, u, x) <=> pkg.users[u] = x
    BY <1>2 DEF Removes, Adds
  <2>6. QED BY <1>1, <2>2, <2>3, <2>4, <2>5
<1>3. CASE pkg.type = "STATE_ADD_USER"
  <2>1. pkg.user \in UserIDs /\ pkg.name \in Names
    BY <1>3 DEF DownPackages, MessagePackages
  <2>2. ApplyPackage(list, pkg) = Insert(list, pkg.user, pkg.name)
    BY <1>3 DEF ApplyPackage
  <2>3. Insert(list, pkg.user, pkg.name) \in UserMap
    BY <2>1 DEF Insert, UserMap
  <2>4. Insert(list, pkg.user, pkg.name)[u] =
          IF u = pkg.user /\ list[u] = NoUser THEN pkg.name ELSE list[u]
    BY <2>1 DEF Insert, UserMap
  <2>5. ~Removes(pkg, u) /\ \A x : Adds(pkg, u, x) <=> u = pkg.user /\ pkg.name = x
    BY <1>3 DEF Removes, Adds
  <2>6. QED BY <1>1, <2>1, <2>2, <2>3, <2>4, <2>5
<1>4. CASE pkg.type = "STATE_REM_USER"
  <2>1. pkg.user \in UserIDs
    BY <1>4 DEF DownPackages, MessagePackages
  <2>2. ApplyPackage(list, pkg) = Erase(list, pkg.user)
    BY <1>4 DEF ApplyPackage
  <2>3. Erase(list, pkg.user) \in UserMap
    BY <2>1 DEF Erase, UserMap
  <2>4. Erase(list, pkg.user)[u] = IF u = pkg.user THEN NoUser ELSE list[u]
    BY <2>1 DEF Erase, UserMap
  <2>5. (Removes(pkg, u) <=> u = pkg.user) /\ \A x : ~Adds(pkg, u, x)
    BY <1>4 DEF Removes, Adds
  <2>6. QED BY <1>1, <2>2, <2>3, <2>4, <2>5
<1>5. CASE pkg.type = "MESSAGE"
  BY <1>5 DEF ApplyPackage, Removes, Adds
<1>6. QED BY <1>2, <1>3, <1>4, <1>5 DEF DownPackages, MessagePackages

\* One more package is known to say what it says.
LEMMA KnowsNext ==
  ASSUME NEW list, NEW q \in Seq(DownPackages), NEW k \in 0 .. Len(q) - 1, NEW u, NEW x
  PROVE  Knows(list, q, k + 1, u, x) <=>
           (Knows(list, q, k, u, x) /\ ~Removes(q[k + 1], u)) \/ Adds(q[k + 1], u, x)
<1> DEFINE Since(i, m) == /\ IF i = 0 THEN list[u] = x ELSE Adds(q[i], u, x)
                          /\ \A j \in i + 1 .. m : ~Removes(q[j], u)
<1>1. k \in Nat /\ \A i \in 0 .. k + 1 : i \in Nat /\ (i \in 0 .. k \/ i = k + 1)
  OBVIOUS
<1>2. \A i \in 0 .. k : Since(i, k + 1) <=> Since(i, k) /\ ~Removes(q[k + 1], u)
  <2>1. \A i \in 0 .. k : i + 1 .. k + 1 = (i + 1 .. k) \cup {k + 1}
    BY <1>1
  <2>2. QED BY <2>1
<1>3. Since(k + 1, k + 1) <=> Adds(q[k + 1], u, x)
  BY <1>1
<1>4. (Knows(list, q, k + 1, u, x) <=> \E i \in 0 .. k + 1 : Since(i, k + 1))
      /\ (Knows(list, q, k, u, x) <=> \E i \in 0 .. k : Since(i, k))
  BY DEF Knows
<1>5. k + 1 \in 0 .. k + 1 /\ \A i \in 0 .. k : i \in 0 .. k + 1
  BY <1>1
<1> HIDE DEF Since
<1>6. QED BY <1>1, <1>2, <1>3, <1>4, <1>5

\* A queue that fits the list makes of it what it tells.
LEMMA QueueTells ==
  ASSUME NEW list \in UserMap, NEW q \in Seq(DownPackages), NEW already, QueueOK(list, q, already)
  PROVE  /\ FoldLeft(ApplyPackage, list, q) \in UserMap
         /\ \A u \in UserIDs, x \in Names :
              FoldLeft(ApplyPackage, list, q)[u] = x <=> Knows(list, q, Len(q), u, x)
<1> DEFINE n == Len(q)
<1>1. PICK f : HandledInTurn(f, list, q) /\ FoldLeft(ApplyPackage, list, q) = f[n]
  BY FoldIsLast
<1> DEFINE Agrees(k) == /\ f[k] \in UserMap
                        /\ \A u \in UserIDs, x \in Names : f[k][u] = x <=> Knows(list, q, k, u, x)
           S == {k \in Nat : k <= n => Agrees(k)}
<1>2. n \in Nat /\ f[0] = list
      /\ \A k \in 0 .. n - 1 : f[k + 1] = ApplyPackage(f[k], q[k + 1]) /\ q[k + 1] \in DownPackages
  BY <1>1 DEF HandledInTurn
<1>3. \A k \in 0 .. n, u \in UserIDs, x, y \in Names :
        Knows(list, q, k, u, x) /\ Knows(list, q, k, u, y) => x = y
  BY DEF QueueOK
<1> HIDE DEF n
<1>4. 0 \in S
  <2>1. \A u, x : Knows(list, q, 0, u, x) <=> list[u] = x
    BY DEF Knows
  <2>2. QED BY <1>2, <2>1
<1>5. ASSUME NEW k \in S PROVE k + 1 \in S
  <2>1. SUFFICES ASSUME k + 1 <= n PROVE Agrees(k + 1)
    OBVIOUS
  <2>2. k \in Nat /\ k \in 0 .. n - 1 /\ k <= n /\ k + 1 \in 0 .. n
    BY <1>2, <2>1
  <2>3. Agrees(k)
    BY <2>2
  <2> DEFINE pkg == q[k + 1]
  <2>4. pkg \in DownPackages /\ f[k + 1] = ApplyPackage(f[k], pkg) /\ f[k] \in UserMap
    BY <1>2, <2>2, <2>3
  <2>5. \A u, x : Knows(list, q, k + 1, u, x) <=>
                    (Knows(list, q, k, u, x) /\ ~Removes(pkg, u)) \/ Adds(pkg, u, x)
    BY <2>2, KnowsNext DEF n
  <2> HIDE DEF pkg
  <2>6. ASSUME NEW u \in UserIDs
        PROVE  /\ f[k + 1] \in UserMap
               /\ \A x \in Names : f[k + 1][u] = x <=> Knows(list, q, k + 1, u, x)
    <3>1. ASSUME NEW x \in Names, NEW y \in Names,
                 f[k][u] = x, ~Removes(pkg, u), Adds(pkg, u, y)
          PROVE  x = y
      <4>1. Knows(list, q, k, u, x)
        BY <2>3, <3>1
      <4>2. Knows(list, q, k + 1, u, x) /\ Knows(list, q, k + 1, u, y)
        BY <2>5, <3>1, <4>1
      <4>3. QED BY <1>3, <2>2, <4>2
    <3>2. /\ ApplyPackage(f[k], pkg) \in UserMap
          /\ \A x \in Names : ApplyPackage(f[k], pkg)[u] = x
               <=> (f[k][u] = x /\ ~Removes(pkg, u)) \/ Adds(pkg, u, x)
      BY <2>4, <3>1, ApplyTells
    <3>3. QED BY <2>3, <2>4, <2>5, <3>2
  <2>7. 0 \in UserIDs
    BY ProtocolAssumption DEF UserIDs
  <2>8. QED BY <2>6, <2>7
<1> HIDE DEF S
<1>6. S = Nat
  <2>1. S \in SUBSET Nat
    BY DEF S
  <2>2. QED BY <1>4, <1>5, <2>1, Induction
<1>7. Agrees(n)
  BY <1>2, <1>6 DEF S
<1>8. QED BY <1>1, <1>7 DEF n

\* When no packet is lost, a client that has its user id comes to have the list
\* of the host: it only has to handle what is on its way to it, which brings it
\* what it does not know and takes what it should not (receiveUsernameAckEvent,
\* receiveAddUserEvent, receiveRemoveUserEvent of ChatState_Client).
THEOREM ReplicasAlwaysCatchUp == Spec => []ReplicaCatchesUp
<1>1. TypeOK /\ ReplicaOK => ReplicaCatchesUp
  <2> SUFFICES ASSUME TypeOK, ReplicaOK, ~Lossy, NEW c \in Clients, Registered(c), Reachable(c)
               PROVE  FoldLeft(ApplyPackage, users[c], down[c]) = hostUsers
    BY DEF ReplicaCatchesUp
  <2> DEFINE map == FoldLeft(ApplyPackage, users[c], down[c])
  <2>1. users[c] \in UserMap /\ down[c] \in Seq(DownPackages) /\ hostUsers \in UserMap
    BY DEF TypeOK, ClientTypeOK, TransportTypeOK, HostTypeOK
  <2>2. /\ QueueOK(users[c], down[c], Registered(c))
        /\ EndsWith(users[c], down[c], Registered(c), hostUsers)
    BY DEF ReplicaOK, ClientOK
  <2>3. /\ map \in UserMap
        /\ \A u \in UserIDs, x \in Names :
             map[u] = x <=> Knows(users[c], down[c], Len(down[c]), u, x)
    BY <2>1, <2>2, QueueTells
  <2>4. \A u \in UserIDs, x \in Names :
          hostUsers[u] = x <=> Knows(users[c], down[c], Len(down[c]), u, x)
    BY <2>2 DEF EndsWith, Told
  <2> HIDE DEF map
  <2>5. ASSUME NEW u \in UserIDs PROVE map[u] = hostUsers[u]
    <3>1. \A x \in Names : map[u] = x <=> hostUsers[u] = x
      BY <2>3, <2>4
    <3>2. map[u] \in Names \cup {NoUser} /\ hostUsers[u] \in Names \cup {NoUser}
      BY <2>1, <2>3 DEF UserMap
    <3>3. QED BY <3>1, <3>2
  <2>6. map = hostUsers
    BY <2>1, <2>3, <2>5 DEF UserMap
  <2>7. QED BY <2>6 DEF map
<1>2. IInv => TypeOK
  BY DEF IInv
<1>3. QED BY <1>1, <1>2, InvariantHolds, ListsFollowTheHost, PTL
=============================================================================
