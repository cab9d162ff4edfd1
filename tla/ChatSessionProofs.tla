------------------------- MODULE ChatSessionProofs -------------------------
(***************************************************************************)
(* What is proved of ChatSession for any number of clients, peers and      *)
(* lines, with or without loss and timeouts.                               *)
(***************************************************************************)
EXTENDS ChatInvariant, SequenceTheorems, TLAPS

-----------------------------------------------------------------------------
(* Sequences.                                                              *)

\* Appending an element adds it to the elements of a sequence.
LEMMA AppendRange ==
  ASSUME NEW S, NEW s \in Seq(S), NEW x \in S
  PROVE  /\ Append(s, x) \in Seq(S)
         /\ Range(Append(s, x)) = Range(s) \cup {x}
<1>1. /\ Append(s, x) \in Seq(S)
      /\ Len(Append(s, x)) = Len(s) + 1
      /\ \A i \in 1 .. Len(s) : Append(s, x)[i] = s[i]
      /\ Append(s, x)[Len(s) + 1] = x
  BY AppendProperties
<1>2. DOMAIN Append(s, x) = DOMAIN s \cup {Len(s) + 1}
  BY <1>1
<1>3. QED BY <1>1, <1>2 DEF Range

\* The first element and the rest of a sequence consist of its elements.
LEMMA HeadTailRange ==
  ASSUME NEW S, NEW s \in Seq(S), s # <<>>
  PROVE  /\ Head(s) \in S
         /\ Head(s) \in Range(s)
         /\ Tail(s) \in Seq(S)
         /\ Range(Tail(s)) \subseteq Range(s)
<1>1. /\ Len(s) \in Nat \ {0}
      /\ Head(s) = s[1]
  OBVIOUS
<1>2. /\ Tail(s) \in Seq(S)
      /\ Len(Tail(s)) = Len(s) - 1
      /\ \A i \in 1 .. Len(Tail(s)) : Tail(s)[i] = s[i + 1]
  BY HeadTailProperties
<1>3. Range(Tail(s)) \subseteq Range(s)
  BY <1>1, <1>2 DEF Range
<1>4. QED BY <1>1, <1>2, <1>3 DEF Range

\* A sequence from which an element is removed consists of its other elements.
LEMMA RemoveAtRange ==
  ASSUME NEW S, NEW s \in Seq(S), NEW i \in DOMAIN s
  PROVE  /\ RemoveAt(s, i) \in Seq(S)
         /\ Range(RemoveAt(s, i)) \subseteq Range(s)
         /\ Len(RemoveAt(s, i)) = Len(s) - 1
         /\ \A k \in 1 .. Len(s) - 1 :
              RemoveAt(s, i)[k] = IF k < i THEN s[k] ELSE s[k + 1]
<1> DEFINE a == SubSeq(s, 1, i - 1)
           b == SubSeq(s, i + 1, Len(s))
<1>1. i \in 1 .. Len(s) /\ Len(s) \in Nat
  OBVIOUS
<1>2. /\ a \in Seq(S) /\ Len(a) = i - 1
      /\ \A k \in 1 .. Len(a) : a[k] = s[k]
  BY <1>1, SubSeqProperties
<1>3. /\ b \in Seq(S) /\ Len(b) = Len(s) - i
      /\ \A k \in 1 .. Len(b) : b[k] = s[k + i]
  BY <1>1, SubSeqProperties
<1>4. RemoveAt(s, i) = a \o b
  BY DEF RemoveAt
<1> HIDE DEF a, b
<1>5. /\ a \o b \in Seq(S)
      /\ Len(a \o b) = Len(s) - 1
      /\ \A k \in 1 .. Len(s) - 1 :
           (a \o b)[k] = IF k < i THEN s[k] ELSE s[k + 1]
  BY <1>1, <1>2, <1>3, SMTT(30)
<1>6. ASSUME NEW k \in DOMAIN (a \o b)
      PROVE  (a \o b)[k] \in Range(s)
  <2>1. k \in 1 .. Len(s) - 1
    BY <1>5
  <2>2. k \in DOMAIN s /\ k + 1 \in DOMAIN s
    BY <1>1, <2>1
  <2>3. QED BY <1>1, <1>5, <2>1, <2>2 DEF Range
<1>7. Range(a \o b) \subseteq Range(s)
  BY <1>6 DEF Range
<1>8. QED BY <1>4, <1>5, <1>7

-----------------------------------------------------------------------------
(* Identifiers.                                                            *)

\* Neither cast between 16-bit identifiers loses anything: the peer ids map
\* one to one to the user ids of clients.
LEMMA UserIDOfPeer ==
  ASSUME NEW p \in PeerIDs
  PROVE  /\ toUserID(p) = p + 1
         /\ toUserID(p) \in 1 .. MaxConn
         /\ toUserID(p) \in UserIDs
         /\ toPeerID(toUserID(p)) = p
<1>1. MaxConn \in 1 .. 4095 /\ p \in 0 .. MaxConn - 1
  BY ProtocolAssumption DEF PeerIDs
<1>2. p + 1 \in 1 .. 4095
  BY <1>1 DEF PeerIDs
<1>3. \A n \in 1 .. 4095 : n \in Int /\ 0 <= n /\ n < IDSpace /\ IDSpace \in Int
  BY SMT DEF IDSpace
<1>4. \A n, m \in Int : 0 <= n /\ n < m => n % m = n
  BY SMT
<1>5. toUserID(p) = p + 1
  <2>1. p + 1 \in Int /\ 0 <= p + 1 /\ p + 1 < IDSpace /\ IDSpace \in Int
    BY <1>1, <1>2, <1>3 DEF PeerIDs
  <2>2. QED BY <2>1, <1>4 DEF toUserID
<1>6. QED BY <1>1, <1>5 DEF toPeerID, UserIDs

-----------------------------------------------------------------------------
(* Maps of users and packages.                                             *)

\* There is at least one peer, so 1 is the user id of one.
LEMMA FirstUserID == 1 \in 1 .. MaxConn /\ 1 \in UserIDs
<1>1. \A n \in 1 .. 4095 : n \in Int /\ 1 <= n
  OBVIOUS
<1>2. MaxConn \in 1 .. 4095
  BY ProtocolAssumption
<1>3. MaxConn \in Int /\ 1 <= MaxConn
  BY <1>1, <1>2
<1>4. QED BY <1>3 DEF UserIDs

\* Every operation on a map of users yields a map of users.
LEMMA UserMapTypes ==
  /\ EmptyMap \in UserMap
  /\ \A m \in UserMap, u \in UserIDs, x \in Names : Insert(m, u, x) \in UserMap
  /\ \A m, o \in UserMap : InsertAll(m, o) \in UserMap
  /\ \A m \in UserMap, u \in UserIDs : Erase(m, u) \in UserMap
BY DEF UserMap, EmptyMap, Insert, InsertAll, Erase

\* Every package that is built is one that may be sent.
LEMMA PackageTypes ==
  /\ \A x \in Names : UsernamePackage(x) \in UpPackages
  /\ \A u \in UserIDs, l \in Lines :
       /\ MessagePackage(u, l) \in UpPackages
       /\ MessagePackage(u, l) \in DownPackages
  /\ \A u \in UserIDs, m \in UserMap : UsernameAckPackage(u, m) \in DownPackages
  /\ \A u \in UserIDs, x \in Names : AddUserPackage(u, x) \in DownPackages
  /\ \A u \in UserIDs : RemoveUserPackage(u) \in DownPackages
<1>1. \A x \in Names : UsernamePackage(x) \in UpPackages
  BY DEF UsernamePackage, UpPackages
<1>2. \A u \in UserIDs, l \in Lines : MessagePackage(u, l) \in MessagePackages
  BY DEF MessagePackage, MessagePackages
<1>3. \A u \in UserIDs, m \in UserMap : UsernameAckPackage(u, m) \in DownPackages
  BY DEF UsernameAckPackage, DownPackages
<1>4. \A u \in UserIDs, x \in Names : AddUserPackage(u, x) \in DownPackages
  BY DEF AddUserPackage, DownPackages
<1>5. \A u \in UserIDs : RemoveUserPackage(u) \in DownPackages
  BY DEF RemoveUserPackage, DownPackages
<1>6. QED BY <1>1, <1>2, <1>3, <1>4, <1>5 DEF UpPackages, DownPackages

\* The type of a package determines its fields.
LEMMA PackageFields ==
  /\ \A pkg \in UpPackages :
       /\ pkg.type \in {"USERNAME", "MESSAGE"}
       /\ pkg.type = "USERNAME" => pkg.username \in Names
       /\ pkg.type = "MESSAGE" =>
            pkg \in MessagePackages /\ pkg.user \in UserIDs /\ pkg.line \in Lines
  /\ \A pkg \in DownPackages :
       /\ pkg.type = "USERNAME_ACK" => pkg.assigned \in UserIDs /\ pkg.users \in UserMap
       /\ pkg.type = "STATE_ADD_USER" => pkg.user \in UserIDs /\ pkg.name \in Names
       /\ pkg.type = "STATE_REM_USER" => pkg.user \in UserIDs
       /\ pkg.type = "MESSAGE" => pkg.user \in UserIDs /\ pkg.line \in Lines
BY DEF UpPackages, DownPackages, MessagePackages

\* The type of a package is that of its constructor.
LEMMA PackageKinds ==
  /\ \A x : UsernamePackage(x).type = "USERNAME" /\ UsernamePackage(x).username = x
  /\ \A u, m : /\ UsernameAckPackage(u, m).type = "USERNAME_ACK"
               /\ UsernameAckPackage(u, m).assigned = u
               /\ UsernameAckPackage(u, m).users = m
  /\ \A u, x : /\ AddUserPackage(u, x).type = "STATE_ADD_USER"
               /\ AddUserPackage(u, x).user = u
               /\ AddUserPackage(u, x).name = x
  /\ \A u : /\ RemoveUserPackage(u).type = "STATE_REM_USER"
            /\ RemoveUserPackage(u).user = u
  /\ \A u, l : /\ MessagePackage(u, l).type = "MESSAGE"
               /\ MessagePackage(u, l).user = u
               /\ MessagePackage(u, l).line = l
BY DEF UsernamePackage, UsernameAckPackage, AddUserPackage, RemoveUserPackage,
       MessagePackage

-----------------------------------------------------------------------------
(* Queues of packages.                                                     *)

DownQueues == [Clients -> Seq(DownPackages)]

\* A broadcast adds one package to the queues of the clients it reaches.
LEMMA BroadcastRange ==
  ASSUME NEW q \in DownQueues, NEW pkg \in DownPackages
  PROVE  /\ Broadcast(q, pkg) \in DownQueues
         /\ \A c \in Clients :
              Range(Broadcast(q, pkg)[c]) =
                IF Reachable(c) THEN Range(q[c]) \cup {pkg} ELSE Range(q[c])
<1> SUFFICES ASSUME NEW c \in Clients
             PROVE  /\ Broadcast(q, pkg)[c] \in Seq(DownPackages)
                    /\ Range(Broadcast(q, pkg)[c]) =
                         IF Reachable(c) THEN Range(q[c]) \cup {pkg} ELSE Range(q[c])
  BY DEF Broadcast, DownQueues
<1>1. q[c] \in Seq(DownPackages)
  BY DEF DownQueues
<1>2. /\ Append(q[c], pkg) \in Seq(DownPackages)
      /\ Range(Append(q[c], pkg)) = Range(q[c]) \cup {pkg}
  BY <1>1, AppendRange
<1>3. QED BY <1>1, <1>2 DEF Broadcast

\* A client that is not connected gets nothing.
LEMMA NothingSent ==
  ASSUME NEW c \in Clients, link[c] # "connected"
  PROVE  /\ \A q, pkg : Broadcast(q, pkg)[c] = q[c]
         /\ \A p \in PeerIDs : Farewell(p)[c] = down[c]
BY DEF Broadcast, Farewell, Reachable

\* A package for one user is added to the queue of that user's client, if at
\* all.
LEMMA SendDownRange ==
  ASSUME TypeOK, NEW q \in DownQueues, NEW pkg \in DownPackages, NEW p \in PeerIDs
  PROVE  /\ SendDown(q, toUserID(p), pkg) \in DownQueues
         /\ \A c \in Clients :
              Range(SendDown(q, toUserID(p), pkg)[c]) \subseteq
                IF owner[p] = c THEN Range(q[c]) \cup {pkg} ELSE Range(q[c])
<1>1. toPeerID(toUserID(p)) = p
  BY UserIDOfPeer
<1>2. \A c \in Clients : /\ Append(q[c], pkg) \in Seq(DownPackages)
                         /\ Range(Append(q[c], pkg)) = Range(q[c]) \cup {pkg}
  BY AppendRange DEF DownQueues
<1>3. owner[p] \in Clients \cup {NoUser}
  BY DEF TypeOK, TransportTypeOK
<1>4. QED BY <1>1, <1>2, <1>3 DEF SendDown, DownQueues

\* The same for the announcement that the user behind a peer is gone.
LEMMA FarewellRange ==
  ASSUME TypeOK, NEW p \in PeerIDs
  PROVE  /\ Farewell(p) \in DownQueues
         /\ \A c \in Clients :
              Range(Farewell(p)[c]) =
                IF c # owner[p] /\ Reachable(c)
                THEN Range(down[c]) \cup {RemoveUserPackage(toUserID(p))}
                ELSE Range(down[c])
<1> DEFINE pkg == RemoveUserPackage(toUserID(p))
<1>1. pkg \in DownPackages
  BY UserIDOfPeer, PackageTypes
<1>2. \A c \in Clients : /\ down[c] \in Seq(DownPackages)
                         /\ Append(down[c], pkg) \in Seq(DownPackages)
                         /\ Range(Append(down[c], pkg)) = Range(down[c]) \cup {pkg}
  BY <1>1, AppendRange DEF TypeOK, TransportTypeOK
<1>3. QED BY <1>2 DEF Farewell, DownQueues

-----------------------------------------------------------------------------
(* Type correctness.                                                       *)

\* Replacing the queue to the host of one client.
LEMMA UpType ==
  ASSUME TypeOK, NEW c \in Clients, NEW q \in Seq(UpPackages)
  PROVE  [up EXCEPT ![c] = q] \in [Clients -> Seq(UpPackages)]
BY DEF TypeOK, TransportTypeOK

\* What the listener of the host takes from a queue.
LEMMA HostTakes ==
  ASSUME TypeOK, NEW p \in PeerIDs, NEW type, HostHas(p, type)
  PROVE  /\ peerState[p] = "connected"
         /\ owner[p] \in Clients \cup {NoUser}
         /\ owner[p] \in Clients =>
              /\ Head(up[owner[p]]) \in UpPackages
              /\ Head(up[owner[p]]) \in Range(up[owner[p]])
              /\ Head(up[owner[p]]).type = type
              /\ Tail(up[owner[p]]) \in Seq(UpPackages)
              /\ Range(Tail(up[owner[p]])) \subseteq Range(up[owner[p]])
<1>1. owner[p] \in Clients \cup {NoUser} /\ up \in [Clients -> Seq(UpPackages)]
  BY DEF TypeOK, TransportTypeOK
<1>2. peerState[p] = "connected" /\ up[owner[p]] # <<>> /\ Head(up[owner[p]]).type = type
  BY DEF HostHas
<1>3. CASE owner[p] \in Clients
  BY <1>1, <1>2, <1>3, HeadTailRange
<1>4. QED BY <1>1, <1>2, <1>3

\* What the listener of a client takes from its queue.
LEMMA ClientTakes ==
  ASSUME TypeOK, NEW c \in Clients, NEW type, ClientHas(c, type)
  PROVE  /\ Head(down[c]) \in DownPackages
         /\ Head(down[c]) \in Range(down[c])
         /\ Head(down[c]).type = type
         /\ Tail(down[c]) \in Seq(DownPackages)
         /\ Range(Tail(down[c])) \subseteq Range(down[c])
<1>1. down[c] \in Seq(DownPackages)
  BY DEF TypeOK, TransportTypeOK
<1>2. down[c] # <<>> /\ Head(down[c]).type = type
  BY DEF ClientHas
<1>3. QED BY <1>1, <1>2, HeadTailRange

-----------------------------------------------------------------------------
(* What a step leaves alone.                                               *)

\* A peer that is in use has a client.
LEMMA PeerHasClient ==
  ASSUME TypeOK, PeersOK, NEW p \in PeerIDs, peerState[p] # "disconnected"
  PROVE  owner[p] \in Clients
BY DEF TypeOK, TransportTypeOK, PeersOK

\* The client behind a connected peer has opened its end.
LEMMA PeerSpeaksOpen ==
  ASSUME TypeOK, PeersOK, NEW p \in PeerIDs, peerState[p] = "connected"
  PROVE  link[owner[p]] \notin {"none", "connecting"}
BY DEF TypeOK, TransportTypeOK, PeersOK

LEMMA PeersFrame ==
  ASSUME PeersOK, UNCHANGED <<owner, peerState, hostState>>,
         \A p \in PeerIDs : owner[p] # NoUser =>
           link'[owner[p]] = link[owner[p]] \/ link'[owner[p]] \notin {"none", "connecting"}
  PROVE  PeersOK'
BY DEF PeersOK

LEMMA RosterFrame ==
  ASSUME RosterOK, UNCHANGED <<owner, peerState, hostState, hostUsers>>
  PROVE  RosterOK'
BY DEF RosterOK

\* Packages that leave a queue never hurt, nor do messages to clients.
LEMMA AuthorsFrame ==
  ASSUME AuthorsOK, \A c \in Clients : Range(up'[c]) \subseteq Range(up[c])
  PROVE  AuthorsOK'
BY DEF AuthorsOK

LEMMA IdentityFrame ==
  ASSUME IdentityOK,
         \A p \in PeerIDs : owner'[p] \in {owner[p], NoUser},
         UNCHANGED <<users, localUser>>,
         \A c \in Clients : Range(up'[c]) \subseteq Range(up[c]),
         \A c \in Clients : \A pkg \in Range(down'[c]) :
           pkg \in Range(down[c]) \/ pkg.type = "MESSAGE"
  PROVE  IdentityOK'
<1>1. ASSUME NEW c \in Clients, NEW a \in 1 .. MaxConn, Identity(c, a)
      PROVE  Identity(c, a)'
  <2>1. c # NoUser
    BY ProtocolAssumption
  <2>2. \A p \in PeerIDs : owner'[p] = c => toUserID(p) = a
    BY <1>1, <2>1 DEF Identity
  <2>3. QED BY <1>1, <2>2 DEF Identity, Registered
<1>2. QED BY <1>1 DEF IdentityOK

LEMMA ListedFrame ==
  ASSUME ListedOK,
         \A p \in PeerIDs : owner'[p] \in {owner[p], NoUser},
         \A p \in PeerIDs :
           owner'[p] # NoUser => hostUsers'[toUserID(p)] = hostUsers[toUserID(p)],
         UNCHANGED localUser,
         \A c \in Clients : Range(up'[c]) \subseteq Range(up[c]),
         \A c \in Clients : \A pkg \in Range(down'[c]) :
           pkg \in Range(down[c]) \/ pkg.type = "MESSAGE"
  PROVE  ListedOK'
<1>1. \A c \in Clients : c # NoUser
  BY ProtocolAssumption
<1>2. \A c \in Clients : ListedByHost(c) => ListedByHost(c)'
  BY <1>1 DEF ListedByHost
<1>3. QED BY <1>2 DEF ListedOK, Registered

LEMMA FreshFrame ==
  ASSUME FreshOK, UNCHANGED <<link, clientState, users, localUser>>,
         \A c \in Clients : link[c] # "connected" => up'[c] = up[c] /\ down'[c] = down[c]
  PROVE  FreshOK'
BY DEF FreshOK, Registered

\* The variables the invariant is about besides the types.
LEMMA InvariantFrame ==
  ASSUME IInv, TypeOK',
         UNCHANGED <<transportVars, hostState, hostUsers, clientState, users, localUser>>,
         HostNamesAuthors'
  PROVE  IInv'
<1> USE DEF IInv, transportVars
<1>1. PeersOK' /\ RosterOK'
  BY PeersFrame, RosterFrame
<1>2. AuthorsOK' /\ IdentityOK' /\ ListedOK'
  BY AuthorsFrame, IdentityFrame, ListedFrame
<1>3. FreshOK'
  BY DEF FreshOK, Registered
<1>4. QED BY <1>1, <1>2, <1>3 DEF HostFindsSender

-----------------------------------------------------------------------------
(* The host's steps.                                                       *)

LEMMA HostBeginStateInv ==
  ASSUME IInv, HostBeginState, UNCHANGED clientVars
  PROVE  IInv'
<1> USE DEF IInv, HostBeginState, transportVars, clientVars
<1>1. 0 \in UserIDs /\ HostName \in Names /\ HostName # NoUser
  BY ProtocolAssumption DEF UserIDs, Names
<1>2. hostUsers' = [EmptyMap EXCEPT ![0] = HostName]
  BY <1>1 DEF RosterOK, Insert, EmptyMap
<1>3. TypeOK'
  BY <1>1, UserMapTypes DEF TypeOK, TransportTypeOK, HostTypeOK, ClientTypeOK, HostStates
<1>4. \A p \in PeerIDs : owner[p] = NoUser /\ toUserID(p) \in UserIDs \ {0}
  BY UserIDOfPeer DEF PeersOK, UserIDs
<1>5. PeersOK'
  BY <1>4 DEF PeersOK
<1>6. RosterOK'
  BY <1>1, <1>2, <1>4 DEF RosterOK, EmptyMap
<1>7. AuthorsOK' /\ IdentityOK'
  BY AuthorsFrame, IdentityFrame
<1>8. ListedOK'
  BY <1>4, ListedFrame
<1>9. FreshOK' /\ HostFindsSender' /\ HostNamesAuthors'
  BY DEF FreshOK, Registered, HostFindsSender, HostNamesAuthors
<1>10. QED BY <1>3, <1>5, <1>6, <1>7, <1>8, <1>9

LEMMA HostInputInv ==
  ASSUME IInv, HostInput, UNCHANGED clientVars
  PROVE  IInv'
<1> USE DEF IInv, HostInput, transportVars, clientVars
<1> DEFINE line == [by |-> HostName, n |-> hostTyped + 1]
           entry == [name |-> hostUsers[0], line |-> line]
<1>1. hostUsers[0] = HostName
  BY DEF RosterOK
<1>2. hostTyped' \in 0 .. HostLines /\ line \in Lines
  BY ProtocolAssumption DEF TypeOK, HostTypeOK, Lines
<1>3. entry \in Entries
  BY <1>1, <1>2 DEF Entries, Names
<1>4. /\ hostScreen' \in Seq(Entries)
      /\ Range(hostScreen') = Range(hostScreen) \cup {entry}
  BY <1>3, AppendRange DEF TypeOK, HostTypeOK
<1>5. TypeOK'
  BY <1>2, <1>4 DEF TypeOK, TransportTypeOK, HostTypeOK, ClientTypeOK
<1>6. HostNamesAuthors'
  BY <1>1, <1>4 DEF HostNamesAuthors
<1>7. QED BY <1>5, <1>6, InvariantFrame

LEMMA HostSendsInputInv ==
  ASSUME IInv, HostSendsInput, UNCHANGED clientVars
  PROVE  IInv'
<1> USE DEF IInv, HostSendsInput, clientVars
<1> DEFINE pkg == MessagePackage(0, Head(hostSending))
<1>1. Head(hostSending) \in Lines /\ 0 \in UserIDs
  BY ProtocolAssumption DEF TypeOK, HostTypeOK, UserIDs
<1>2. pkg \in DownPackages /\ pkg.type = "MESSAGE"
  BY <1>1, PackageTypes, PackageKinds
<1>3. /\ down' \in DownQueues
      /\ \A c \in Clients : Range(down'[c]) =
           IF Reachable(c) THEN Range(down[c]) \cup {pkg} ELSE Range(down[c])
  BY <1>2, BroadcastRange DEF TypeOK, TransportTypeOK, DownQueues
<1>4. TypeOK'
  BY <1>3 DEF TypeOK, TransportTypeOK, HostTypeOK, ClientTypeOK, DownQueues
<1>5. PeersOK' /\ RosterOK' /\ AuthorsOK'
  BY PeersFrame, RosterFrame, AuthorsFrame
<1>6. FreshOK'
  BY NothingSent, FreshFrame
<1>7. IdentityOK' /\ ListedOK'
  BY <1>2, <1>3, IdentityFrame, ListedFrame
<1>8. QED BY <1>4, <1>5, <1>6, <1>7 DEF HostFindsSender, HostNamesAuthors

LEMMA HostExitInv ==
  ASSUME IInv, HostExit, UNCHANGED clientVars
  PROVE  IInv'
<1> USE DEF IInv, HostExit, ResetAllPeers, clientVars
<1>1. TypeOK'
  BY DEF TypeOK, TransportTypeOK, HostTypeOK, ClientTypeOK, HostStates, PeerStates
<1>2. \A c \in Clients : Range(up'[c]) \subseteq Range(up[c])
  BY DEF Range
<1>3. PeersOK' /\ RosterOK'
  BY DEF PeersOK, RosterOK
<1>4. AuthorsOK' /\ IdentityOK' /\ ListedOK'
  BY <1>2, AuthorsFrame, IdentityFrame, ListedFrame
<1>5. FreshOK' /\ HostFindsSender' /\ HostNamesAuthors'
  BY DEF FreshOK, Registered, HostFindsSender, HostNamesAuthors
<1>6. QED BY <1>1, <1>3, <1>4, <1>5

LEMMA HostAcceptsInv ==
  ASSUME IInv, NEW p \in PeerIDs, NEW c \in Clients, HostAccepts(p, c),
         UNCHANGED clientVars
  PROVE  IInv'
<1> USE DEF IInv, HostAccepts, Accept, hostVars, clientVars
<1>1. TypeOK'
  BY DEF TypeOK, TransportTypeOK, HostTypeOK, ClientTypeOK, PeerStates
<1>2. /\ c # NoUser
      /\ owner[p] = NoUser /\ owner'[p] = c
      /\ \A q \in PeerIDs : owner[q] # c
      /\ \A q \in PeerIDs \ {p} : owner'[q] = owner[q] /\ peerState'[q] = peerState[q]
      /\ peerState'[p] = "acknowledging"
  BY ProtocolAssumption DEF TypeOK, TransportTypeOK, HasPeer
<1>3. /\ up[c] = <<>> /\ down[c] = <<>>
      /\ users[c] = EmptyMap /\ ~Registered(c)
  BY DEF FreshOK
<1>4. PeersOK'
  BY <1>2 DEF PeersOK
<1>5. RosterOK'
  BY <1>2 DEF RosterOK, PeersOK
<1>6. FreshOK' /\ AuthorsOK'
  BY DEF FreshOK, Registered, AuthorsOK
<1>7. IdentityOK'
  <2>1. Identity(c, toUserID(p))'
    <3>1. toUserID(p) \in UserIDs
      BY UserIDOfPeer
    <3>2. \A q \in PeerIDs : owner'[q] = c => q = p
      BY <1>2
    <3>3. QED BY <1>3, <3>1, <3>2 DEF Identity, Registered, EmptyMap, Range
  <2>2. ASSUME NEW d \in Clients \ {c}, NEW a \in 1 .. MaxConn, Identity(d, a)
        PROVE  Identity(d, a)'
    BY <1>2, <2>2 DEF Identity, Registered
  <2>3. QED BY <2>1, <2>2, UserIDOfPeer DEF IdentityOK
<1>8. ListedOK'
  <2>1. \A d \in Clients \ {c} : ListedByHost(d) => ListedByHost(d)'
    BY <1>2 DEF ListedByHost
  <2>2. QED BY <1>3, <2>1 DEF ListedOK, Registered, Range
<1>9. QED BY <1>1, <1>4, <1>5, <1>6, <1>7, <1>8 DEF HostFindsSender, HostNamesAuthors

LEMMA HostConnectEventInv ==
  ASSUME IInv, NEW p \in PeerIDs, HostConnectEvent(p), UNCHANGED clientVars
  PROVE  IInv'
<1> USE DEF IInv, HostConnectEvent, clientVars
<1>1. TypeOK'
  BY DEF TypeOK, TransportTypeOK, HostTypeOK, ClientTypeOK, PeerStates
<1>2. owner[p] \in Clients
  BY PeerHasClient
<1>3. PeersOK'
  BY <1>2, ProtocolAssumption DEF PeersOK, TypeOK, TransportTypeOK
<1>4. RosterOK'
  BY DEF RosterOK, TypeOK, TransportTypeOK
<1>5. FreshOK' /\ AuthorsOK'
  BY DEF FreshOK, Registered, AuthorsOK
<1>6. IdentityOK' /\ ListedOK'
  BY IdentityFrame, ListedFrame
<1>7. QED BY <1>1, <1>3, <1>4, <1>5, <1>6 DEF HostFindsSender, HostNamesAuthors

\* A peer is reset, and the host forgets its user with it.
LEMMA ResetPeerInv ==
  ASSUME IInv, NEW p \in PeerIDs, ResetPeer(p), owner[p] \in Clients,
         hostUsers' \in UserMap,
         UNCHANGED <<hostState, users, localUser, link>>,
         hostUsers'[toUserID(p)] = NoUser,
         \A u \in UserIDs \ {toUserID(p)} : hostUsers'[u] = hostUsers[u]
  PROVE  /\ down' \in DownQueues => TransportTypeOK'
         /\ PeersOK'
         /\ RosterOK'
         /\ AuthorsOK'
         /\ \A c \in Clients : Range(up'[c]) \subseteq Range(up[c])
         /\ \A q \in PeerIDs : owner'[q] \in {owner[q], NoUser}
         /\ \A q \in PeerIDs :
              owner'[q] # NoUser => hostUsers'[toUserID(q)] = hostUsers[toUserID(q)]
<1> USE DEF IInv, ResetPeer
<1>1. /\ owner'[p] = NoUser /\ peerState'[p] = "disconnected"
      /\ \A q \in PeerIDs \ {p} : owner'[q] = owner[q] /\ peerState'[q] = peerState[q]
      /\ owner[p] # NoUser
  BY ProtocolAssumption DEF TypeOK, TransportTypeOK
<1>2. /\ up' \in [Clients -> Seq(UpPackages)]
      /\ \A c \in Clients : up'[c] = IF c = owner[p] THEN <<>> ELSE up[c]
  BY <1>1 DEF TypeOK, TransportTypeOK
<1>3. \A c \in Clients : Range(up'[c]) \subseteq Range(up[c])
  BY <1>2 DEF Range
<1>4. \A q \in PeerIDs : /\ toUserID(q) \in UserIDs \ {0}
                         /\ toUserID(q) = toUserID(p) => q = p
  BY UserIDOfPeer DEF UserIDs, PeerIDs
<1>5. down' \in DownQueues => TransportTypeOK'
  BY <1>2 DEF TypeOK, TransportTypeOK, DownQueues, PeerStates
<1>6. PeersOK'
  BY <1>1 DEF PeersOK
<1>7. RosterOK'
  <2>1. 0 \in UserIDs \ {toUserID(p)}
    BY <1>4, ProtocolAssumption DEF UserIDs
  <2>2. hostState = "hosting"
    BY <1>1 DEF PeersOK
  <2>3. QED BY <1>1, <1>4, <2>1, <2>2 DEF RosterOK
<1>8. AuthorsOK'
  BY <1>3, AuthorsFrame
<1>9. QED BY <1>1, <1>3, <1>4, <1>5, <1>6, <1>7, <1>8

LEMMA HostAbandonsInv ==
  ASSUME IInv, NEW p \in PeerIDs, HostAbandons(p), UNCHANGED clientVars
  PROVE  IInv'
<1> USE DEF IInv, HostAbandons, Abandon, hostVars, clientVars
<1>1. owner[p] \in Clients /\ hostState = "hosting"
  BY PeerHasClient, ProtocolAssumption DEF PeersOK
<1>2. hostUsers \in UserMap /\ hostUsers[toUserID(p)] = NoUser
  BY <1>1 DEF RosterOK, TypeOK, HostTypeOK
<1>3. /\ down' \in DownQueues => TransportTypeOK'
      /\ PeersOK' /\ RosterOK' /\ AuthorsOK'
      /\ \A c \in Clients : Range(up'[c]) \subseteq Range(up[c])
      /\ \A q \in PeerIDs : owner'[q] \in {owner[q], NoUser}
  BY <1>1, <1>2, ResetPeerInv
<1>4. TypeOK'
  BY <1>3 DEF TypeOK, TransportTypeOK, HostTypeOK, ClientTypeOK, DownQueues
<1>5. IdentityOK' /\ ListedOK'
  BY <1>3, IdentityFrame, ListedFrame
<1>6. FreshOK'
  BY DEF ResetPeer, FreshOK, Registered, TypeOK, TransportTypeOK
<1>7. QED BY <1>3, <1>4, <1>5, <1>6 DEF HostFindsSender, HostNamesAuthors

LEMMA HostDisconnectEventInv ==
  ASSUME IInv, NEW p \in PeerIDs, HostDisconnectEvent(p), UNCHANGED clientVars
  PROVE  IInv'
<1> USE DEF IInv, HostDisconnectEvent, clientVars
<1> DEFINE u == toUserID(p)
           pkg == RemoveUserPackage(u)
<1>1. owner[p] \in Clients /\ u \in UserIDs
  BY PeerHasClient, UserIDOfPeer
<1>2. hostUsers \in UserMap
  BY DEF TypeOK, HostTypeOK
<1>3. hostUsers' = Erase(hostUsers, u)
  BY <1>1, <1>2 DEF HasUser, Erase, UserMap
<1>4. /\ hostUsers' \in UserMap
      /\ hostUsers'[u] = NoUser
      /\ \A v \in UserIDs \ {u} : hostUsers'[v] = hostUsers[v]
  BY <1>1, <1>2, <1>3, UserMapTypes DEF Erase, UserMap
<1>5. pkg.type = "STATE_REM_USER" /\ pkg.user = u
  BY PackageKinds
<1>6. /\ down' \in DownQueues
      /\ \A c \in Clients : \A k \in Range(down'[c]) :
           k \in Range(down[c]) \/ (k = pkg /\ c # owner[p] /\ Reachable(c))
  <2>1. CASE HasUser(hostUsers, u)
    BY <2>1, FarewellRange
  <2>2. CASE ~HasUser(hostUsers, u)
    BY <2>2 DEF TypeOK, TransportTypeOK, DownQueues
  <2>3. QED BY <2>1, <2>2
<1>7. /\ TransportTypeOK' /\ PeersOK' /\ RosterOK' /\ AuthorsOK'
      /\ \A c \in Clients : Range(up'[c]) \subseteq Range(up[c])
      /\ \A q \in PeerIDs : owner'[q] \in {owner[q], NoUser}
      /\ \A q \in PeerIDs :
           owner'[q] # NoUser => hostUsers'[toUserID(q)] = hostUsers[toUserID(q)]
  BY <1>1, <1>4, <1>6, ResetPeerInv
<1>8. TypeOK'
  BY <1>4, <1>7 DEF TypeOK, HostTypeOK, ClientTypeOK
<1>9. FreshOK'
  <2>1. ASSUME NEW c \in Clients, link[c] \in {"none", "connecting"}
        PROVE  up'[c] = <<>> /\ down'[c] = <<>>
    <3>1. up[c] = <<>> /\ down[c] = <<>>
      BY <2>1 DEF FreshOK
    <3>2. up'[c] = <<>>
      BY <1>1, <3>1 DEF ResetPeer, TypeOK, TransportTypeOK
    <3>3. down'[c] = <<>>
      BY <2>1, <3>1, NothingSent
    <3>4. QED BY <3>2, <3>3
  <2>2. QED BY <2>1 DEF FreshOK, Registered
<1>10. IdentityOK'
  <2>1. ASSUME NEW c \in Clients, NEW a \in 1 .. MaxConn, Identity(c, a)
        PROVE  Identity(c, a)'
    <3>1. \A q \in PeerIDs : owner'[q] = c => toUserID(q) = a
      BY <1>7, <2>1, ProtocolAssumption DEF Identity
    <3>2. \A k \in Range(down'[c]) :
            k \in Range(down[c]) \/ (k.type = "STATE_REM_USER" /\ k.user # a)
      <4>1. ASSUME c # owner[p], Reachable(c)
            PROVE  u # a
        <5>1. PICK q \in PeerIDs : owner[q] = c
          BY <4>1 DEF Reachable
        <5>2. toUserID(q) = a /\ q # p
          BY <2>1, <4>1, <5>1 DEF Identity
        <5>3. QED BY <5>2, UserIDOfPeer DEF PeerIDs
      <4>2. QED BY <1>5, <1>6, <4>1
    <3>3. QED BY <1>7, <2>1, <3>1, <3>2 DEF Identity, Registered
  <2>2. QED BY <2>1 DEF IdentityOK
<1>11. ListedOK'
  <2>1. \A c \in Clients : ListedByHost(c) => ListedByHost(c)'
    BY <1>7, ProtocolAssumption DEF ListedByHost
  <2>2. QED BY <1>5, <1>6, <1>7, <2>1 DEF ListedOK, Registered
<1>12. QED BY <1>7, <1>8, <1>9, <1>10, <1>11 DEF HostFindsSender, HostNamesAuthors

\* What the host takes from the queue of one peer leaves every queue with
\* what it had or less.
LEMMA HostConsumesRange ==
  ASSUME TypeOK, NEW p \in PeerIDs, NEW type, HostHas(p, type), HostConsumes(p),
         owner[p] \in Clients
  PROVE  /\ up' \in [Clients -> Seq(UpPackages)]
         /\ \A c \in Clients : Range(up'[c]) \subseteq Range(up[c])
         /\ \A c \in Clients : c # owner[p] => up'[c] = up[c]
<1> DEFINE rest == Tail(up[owner[p]])
<1>1. rest \in Seq(UpPackages) /\ Range(rest) \subseteq Range(up[owner[p]])
  BY HostTakes
<1>2. up' = [up EXCEPT ![owner[p]] = rest]
  BY DEF HostConsumes
<1> HIDE DEF rest
<1>3. up' \in [Clients -> Seq(UpPackages)]
  BY <1>1, <1>2, UpType
<1>4. \A c \in Clients : up'[c] = IF c = owner[p] THEN rest ELSE up[c]
  BY <1>2 DEF TypeOK, TransportTypeOK
<1>5. QED BY <1>1, <1>3, <1>4

\* A message comes from the user behind the peer, and the host lists that user.
LEMMA HostKnowsSender ==
  ASSUME IInv, NEW p \in PeerIDs, HostHas(p, "MESSAGE")
  PROVE  LET c   == owner[p]
             pkg == Head(up[c])
         IN /\ c \in Clients
            /\ pkg \in UpPackages /\ pkg \in Range(up[c]) /\ pkg.type = "MESSAGE"
            /\ pkg.user = toUserID(p) /\ pkg.line.by = c
            /\ hostUsers[pkg.user] = c
<1> USE DEF IInv
<1> DEFINE c == owner[p]
           pkg == Head(up[c])
<1>1. c \in Clients
  BY PeerHasClient DEF HostHas
<1>2. pkg \in UpPackages /\ pkg \in Range(up[c]) /\ pkg.type = "MESSAGE"
  BY <1>1, HostTakes
<1>3. pkg.user = toUserID(p) /\ pkg.line.by = c
  <2>1. PICK a \in 1 .. MaxConn : Identity(c, a)
    BY <1>1 DEF IdentityOK
  <2>2. QED BY <1>1, <1>2, <2>1 DEF Identity, AuthorsOK
<1>4. hostUsers[pkg.user] = c
  BY <1>1, <1>2, <1>3 DEF ListedOK, ListedByHost
<1>5. QED BY <1>1, <1>2, <1>3, <1>4

LEMMA HostReceivesMessageInv ==
  ASSUME IInv, NEW p \in PeerIDs, HostReceivesMessage(p), UNCHANGED clientVars
  PROVE  IInv'
<1> USE DEF IInv, clientVars
<1> DEFINE c == owner[p]
           pkg == Head(up[c])
           entry == [name |-> hostUsers[pkg.user], line |-> pkg.line]
<1>1. HostHas(p, "MESSAGE") /\ peerState[p] = "connected"
  BY DEF HostReceivesMessage, HostHas
<1>2. c \in Clients
  BY <1>1, HostKnowsSender
<1>3. pkg \in UpPackages /\ pkg \in Range(up[c]) /\ pkg.type = "MESSAGE"
  BY <1>1, HostKnowsSender
<1>4. pkg.user = toUserID(p) /\ pkg.line.by = c
  BY <1>1, HostKnowsSender
<1>5. hostUsers[pkg.user] = c
  BY <1>1, HostKnowsSender
<1>6. HasUser(hostUsers, pkg.user)
  BY <1>2, <1>5, ProtocolAssumption DEF HasUser
<1>7. /\ hostScreen' = Append(hostScreen, entry)
      /\ down' = Broadcast(down, pkg)
      /\ HostConsumes(p)
      /\ UNCHANGED <<hostState, owner, peerState, hostUsers, hostPeers, hostSending,
                     hostTyped, link>>
  BY <1>6 DEF HostReceivesMessage
<1>8. pkg \in DownPackages /\ entry \in Entries
  BY <1>2, <1>3, <1>5, PackageFields DEF DownPackages, Entries, Names
<1>9. /\ hostScreen' \in Seq(Entries)
      /\ Range(hostScreen') = Range(hostScreen) \cup {entry}
  BY <1>7, <1>8, AppendRange DEF TypeOK, HostTypeOK
<1>10. /\ down' \in DownQueues
       /\ \A d \in Clients : \A k \in Range(down'[d]) :
            k \in Range(down[d]) \/ k.type = "MESSAGE"
  <2>1. down \in DownQueues
    BY DEF TypeOK, TransportTypeOK, DownQueues
  <2>2. /\ Broadcast(down, pkg) \in DownQueues
        /\ \A d \in Clients : Range(Broadcast(down, pkg)[d]) =
             IF Reachable(d) THEN Range(down[d]) \cup {pkg} ELSE Range(down[d])
    BY <1>8, <2>1, BroadcastRange
  <2>3. QED BY <1>3, <1>7, <2>2
<1>11. /\ up' \in [Clients -> Seq(UpPackages)]
       /\ \A d \in Clients : Range(up'[d]) \subseteq Range(up[d])
       /\ \A d \in Clients : d # c => up'[d] = up[d]
  BY <1>1, <1>2, <1>7, HostConsumesRange
<1>12. TypeOK'
  BY <1>7, <1>9, <1>10, <1>11
     DEF TypeOK, TransportTypeOK, HostTypeOK, ClientTypeOK, DownQueues
<1>13. PeersOK' /\ RosterOK' /\ AuthorsOK'
  BY <1>7, <1>11, PeersFrame, RosterFrame, AuthorsFrame
<1>14. IdentityOK' /\ ListedOK'
  BY <1>7, <1>10, <1>11, IdentityFrame, ListedFrame
<1>15. FreshOK'
  BY <1>1, <1>2, <1>7, <1>11, NothingSent, PeerSpeaksOpen DEF FreshOK, Registered
<1>16. HostNamesAuthors'
  BY <1>4, <1>5, <1>9 DEF HostNamesAuthors
<1>17. QED BY <1>7, <1>12, <1>13, <1>14, <1>15, <1>16 DEF HostFindsSender

LEMMA HostReceivesUsernameInv ==
  ASSUME IInv, NEW p \in PeerIDs, HostReceivesUsername(p), UNCHANGED clientVars
  PROVE  IInv'
<1> USE DEF IInv, clientVars
<1> DEFINE c == owner[p]
           u == toUserID(p)
           name == Head(up[c]).username
           ack == UsernameAckPackage(u, hostUsers')
           add == AddUserPackage(u, name)
           answered == SendDown(down, u, ack)
<1>1. HostHas(p, "USERNAME") /\ peerState[p] = "connected" /\ hostState = "hosting"
  BY DEF HostReceivesUsername, HostHas
<1>2. c \in Clients /\ c # NoUser /\ c \in Names
  BY <1>1, PeerHasClient, ProtocolAssumption DEF Names
<1>3. name = c
  BY <1>1, <1>2, HostTakes DEF AuthorsOK
<1>4. /\ HostConsumes(p)
      /\ hostUsers' = Insert(hostUsers, u, c)
      /\ down' = Broadcast(answered, add)
      /\ UNCHANGED <<hostState, hostPeers, hostScreen, hostSending, hostTyped,
                     owner, peerState, link>>
  BY <1>3 DEF HostReceivesUsername
<1>5. /\ u \in UserIDs \ {0}
      /\ \A q \in PeerIDs : toUserID(q) = u => q = p
      /\ \A q \in PeerIDs : toUserID(q) \in UserIDs
  BY UserIDOfPeer DEF PeerIDs
<1>6. /\ hostUsers' \in UserMap
      /\ hostUsers'[u] = c
      /\ \A v \in UserIDs \ {u} : hostUsers'[v] = hostUsers[v]
  <2>1. hostUsers \in UserMap /\ hostUsers[u] \in {NoUser, c}
    BY <1>1 DEF TypeOK, HostTypeOK, RosterOK
  <2>2. QED BY <1>2, <1>4, <1>5, <2>1, UserMapTypes DEF Insert, UserMap
<1>7. /\ ack \in DownPackages /\ ack.type = "USERNAME_ACK"
      /\ ack.assigned = u /\ ack.users = hostUsers'
  BY <1>5, <1>6, PackageTypes, PackageKinds
<1>8. /\ add \in DownPackages /\ add.type = "STATE_ADD_USER"
      /\ add.user = u /\ add.name = c
  BY <1>2, <1>3, <1>5, PackageTypes, PackageKinds
<1> HIDE DEF ack, add
<1>9. down \in DownQueues
  BY DEF TypeOK, TransportTypeOK, DownQueues
<1>10. /\ answered \in DownQueues
       /\ \A d \in Clients : Range(answered[d]) \subseteq
            IF c = d THEN Range(down[d]) \cup {ack} ELSE Range(down[d])
  BY <1>7, <1>9, SendDownRange
<1>11. /\ down' \in DownQueues
       /\ \A d \in Clients : \A k \in Range(down'[d]) :
            \/ k \in Range(down[d])
            \/ k = ack /\ d = c
            \/ k = add /\ Reachable(d)
  <2>1. /\ Broadcast(answered, add) \in DownQueues
        /\ \A d \in Clients : Range(Broadcast(answered, add)[d]) =
             IF Reachable(d) THEN Range(answered[d]) \cup {add} ELSE Range(answered[d])
    BY <1>8, <1>10, BroadcastRange
  <2> HIDE DEF answered
  <2>2. down' = Broadcast(answered, add)
    BY <1>4 DEF answered, add
  <2>3. QED BY <1>10, <2>1, <2>2
<1>12. /\ up' \in [Clients -> Seq(UpPackages)]
       /\ \A d \in Clients : Range(up'[d]) \subseteq Range(up[d])
       /\ \A d \in Clients : d # c => up'[d] = up[d]
  BY <1>1, <1>2, <1>4, HostConsumesRange
<1>13. TypeOK'
  BY <1>4, <1>6, <1>11, <1>12
     DEF TypeOK, TransportTypeOK, HostTypeOK, ClientTypeOK, DownQueues
<1>14. PeersOK' /\ AuthorsOK'
  BY <1>4, <1>12, PeersFrame, AuthorsFrame
<1>15. RosterOK'
  BY <1>1, <1>4, <1>5, <1>6, ProtocolAssumption DEF RosterOK, UserIDs
<1>16. FreshOK'
  <2>1. ASSUME NEW d \in Clients, link[d] \in {"none", "connecting"}
        PROVE  down'[d] = down[d] /\ d # c
    <3>1. d # c
      BY <1>1, <1>2, <2>1, PeerSpeaksOpen
    <3>2. answered[d] = down[d]
      BY <1>5, <2>1, <3>1, UserIDOfPeer DEF SendDown
    <3>3. QED BY <1>4, <2>1, <3>1, <3>2, NothingSent
  <2>2. QED BY <1>4, <1>12, <2>1 DEF FreshOK, Registered
<1>17. IdentityOK'
  <2>1. ASSUME NEW d \in Clients, NEW a \in 1 .. MaxConn, Identity(d, a)
        PROVE  Identity(d, a)'
    <3>1. d = c => a = u
      BY <2>1 DEF Identity
    <3>2. Reachable(d) /\ a = u => d = c
      BY <1>5, <2>1 DEF Reachable, Identity
    <3>3. \A k \in Range(down'[d]) :
            /\ k.type = "USERNAME_ACK" => k.assigned = a /\ k.users[a] = d
            /\ k.type = "STATE_ADD_USER" /\ k.user = a => k.name = d
            /\ k.type = "STATE_REM_USER" => k.user # a
      BY <1>6, <1>7, <1>8, <1>11, <2>1, <3>1, <3>2 DEF Identity
    <3>4. QED BY <1>4, <1>12, <2>1, <3>3 DEF Identity, Registered
  <2>2. QED BY <2>1 DEF IdentityOK
<1>18. ListedOK'
  <2>1. \A d \in Clients : ListedByHost(d) => ListedByHost(d)'
    BY <1>4, <1>5, <1>6 DEF ListedByHost
  <2>2. ListedByHost(c)'
    BY <1>2, <1>4, <1>6 DEF ListedByHost, PeersOK
  <2>3. QED BY <1>4, <1>8, <1>11, <1>12, <2>1, <2>2 DEF ListedOK, Registered
<1>19. QED BY <1>4, <1>13, <1>14, <1>15, <1>16, <1>17, <1>18
           DEF HostFindsSender, HostNamesAuthors

-----------------------------------------------------------------------------
(* The clients' steps.                                                     *)

LEMMA ClientBeginStateInv ==
  ASSUME IInv, NEW c \in Clients, ClientBeginState(c), UNCHANGED hostVars
  PROVE  IInv'
<1> USE DEF IInv, ClientBeginState, hostVars
<1>1. TypeOK'
  BY DEF TypeOK, TransportTypeOK, HostTypeOK, ClientTypeOK, ClientStates, LinkStates
<1>2. link[c] = "none"
  BY DEF FreshOK
<1>3. \A p \in PeerIDs : owner[p] # NoUser => owner[p] # c
  BY <1>2 DEF PeersOK
<1>4. PeersOK'
  BY <1>3, ProtocolAssumption DEF PeersOK, TypeOK, TransportTypeOK
<1>5. FreshOK'
  BY <1>2 DEF FreshOK, Registered, TypeOK, TransportTypeOK, ClientTypeOK
<1>6. RosterOK' /\ AuthorsOK' /\ IdentityOK' /\ ListedOK'
  BY RosterFrame, AuthorsFrame, IdentityFrame, ListedFrame
<1>7. QED BY <1>1, <1>4, <1>5, <1>6 DEF HostFindsSender, HostNamesAuthors

\* A client that ends closes its end of the connection and stays as it is.
LEMMA ClientEndsInv ==
  ASSUME IInv, NEW c \in Clients, clientState[c] # "prompt",
         NEW s \in {"quit", "crashed"},
         clientState' = [clientState EXCEPT ![c] = s], CloseLink(c),
         UNCHANGED <<hostVars, users, localUser, screen, typed, owner, peerState, up>>
  PROVE  IInv'
<1> USE DEF IInv, CloseLink, hostVars
<1>1. TypeOK'
  BY DEF TypeOK, TransportTypeOK, HostTypeOK, ClientTypeOK, ClientStates, LinkStates
<1>2. \A d \in Clients : Range(down'[d]) \subseteq Range(down[d])
  BY DEF Range, TypeOK, TransportTypeOK
<1>3. PeersOK'
  BY PeersFrame, ProtocolAssumption DEF TypeOK, TransportTypeOK
<1>4. RosterOK' /\ AuthorsOK' /\ IdentityOK' /\ ListedOK'
  BY <1>2, RosterFrame, AuthorsFrame, IdentityFrame, ListedFrame
<1>5. FreshOK'
  BY DEF FreshOK, Registered, TypeOK, TransportTypeOK, ClientTypeOK
<1>6. QED BY <1>1, <1>3, <1>4, <1>5 DEF HostFindsSender, HostNamesAuthors

LEMMA ClientExitInv ==
  ASSUME IInv, NEW c \in Clients, ClientExit(c), UNCHANGED hostVars
  PROVE  IInv'
BY ClientEndsInv DEF ClientExit, Quit, hostVars

LEMMA ClientDisconnectEventInv ==
  ASSUME IInv, NEW c \in Clients, ClientDisconnectEvent(c), UNCHANGED hostVars
  PROVE  IInv'
<1>1. clientState[c] # "prompt"
  BY DEF IInv, FreshOK, ClientDisconnectEvent
<1>2. QED BY <1>1, ClientEndsInv DEF ClientDisconnectEvent, Quit, hostVars

LEMMA ClientInputInv ==
  ASSUME IInv, NEW c \in Clients, ClientInput(c), UNCHANGED hostVars
  PROVE  IInv'
<1> USE DEF IInv, hostVars
<1> DEFINE line == [by |-> c, n |-> typed[c] + 1]
           entry == [name |-> users[c][localUser[c]], line |-> line]
           pkg == MessagePackage(localUser[c], line)
<1>1. CASE localUser[c] = Wild /\ Crash(c) /\ UNCHANGED up
  BY <1>1, ClientEndsInv DEF ClientInput, Crash
<1>2. CASE /\ Registered(c)
           /\ typed' = [typed EXCEPT ![c] = @ + 1]
           /\ screen' = [screen EXCEPT ![c] = Append(@, entry)]
           /\ SendUp(c, pkg)
           /\ UNCHANGED <<clientState, users, localUser, link, down>>
  <2>1. /\ typed[c] < ClientLines /\ c \in Names
        /\ UNCHANGED <<owner, peerState>>
    BY DEF ClientInput, Names
  <2>2. typed[c] + 1 \in 0 .. ClientLines /\ line \in Lines
    <3>1. typed[c] \in 0 .. ClientLines /\ ClientLines \in Nat
      BY ProtocolAssumption DEF TypeOK, ClientTypeOK
    <3>2. typed[c] + 1 \in 1 .. ClientLines
      BY <2>1, <3>1
    <3>3. QED BY <3>2 DEF Lines
  <2>3. PICK a \in 1 .. MaxConn : Identity(c, a)
    BY DEF IdentityOK
  <2>4. localUser[c] = a /\ localUser[c] \in UserIDs /\ users[c][localUser[c]] = c
    BY <1>2, <2>3 DEF Identity, Registered
  <2>5. /\ entry \in Entries
        /\ pkg \in UpPackages /\ pkg.type = "MESSAGE" /\ pkg.user = a /\ pkg.line.by = c
    BY <2>1, <2>2, <2>4, PackageTypes, PackageKinds DEF Entries
  <2> HIDE DEF pkg, entry
  <2>6. Append(screen[c], entry) \in Seq(Entries)
    BY <2>5, AppendRange DEF TypeOK, ClientTypeOK
  <2>7. /\ up' \in [Clients -> Seq(UpPackages)]
        /\ \A d \in Clients : \A k \in Range(up'[d]) :
             k \in Range(up[d]) \/ (d = c /\ k = pkg)
        /\ \A d \in Clients : link[d] # "connected" => up'[d] = up[d]
    <3>1. up[c] \in Seq(UpPackages)
      BY DEF TypeOK, TransportTypeOK
    <3>2. /\ Append(up[c], pkg) \in Seq(UpPackages)
          /\ Range(Append(up[c], pkg)) = Range(up[c]) \cup {pkg}
      BY <2>5, <3>1, AppendRange
    <3>3. QED BY <1>2, <3>1, <3>2 DEF SendUp, TypeOK, TransportTypeOK
  <2>8. TypeOK'
    BY <1>2, <2>1, <2>2, <2>6, <2>7
       DEF TypeOK, TransportTypeOK, HostTypeOK, ClientTypeOK
  <2>9. PeersOK' /\ RosterOK' /\ FreshOK'
    BY <1>2, <2>1, <2>7, PeersFrame, RosterFrame, FreshFrame
  <2>10. AuthorsOK'
    BY <2>5, <2>7 DEF AuthorsOK
  <2>11. IdentityOK'
    <3>1. ASSUME NEW d \in Clients, NEW b \in 1 .. MaxConn, Identity(d, b)
          PROVE  Identity(d, b)'
      <4>1. d = c => b = a
        BY <1>2, <2>4, <3>1 DEF Identity
      <4>2. \A k \in Range(up'[d]) : k.type = "MESSAGE" => k.user = b
        BY <2>5, <2>7, <3>1, <4>1 DEF Identity
      <4>3. QED BY <1>2, <2>1, <3>1, <4>2 DEF Identity, Registered
    <3>2. QED BY <3>1 DEF IdentityOK
  <2>12. ListedOK'
    BY <1>2, <2>1, <2>7 DEF ListedOK, ListedByHost, Registered
  <2>13. QED BY <2>8, <2>9, <2>10, <2>11, <2>12 DEF HostFindsSender, HostNamesAuthors
<1>3. QED BY <1>1, <1>2 DEF ClientInput

LEMMA ClientConnectEventInv ==
  ASSUME IInv, NEW c \in Clients, ClientConnectEvent(c), UNCHANGED hostVars
  PROVE  IInv'
<1> USE DEF IInv, ClientConnectEvent, hostVars, clientVars
<1> DEFINE pkg == UsernamePackage(c)
<1>1. pkg \in UpPackages /\ pkg.type = "USERNAME" /\ pkg.username = c
  BY PackageTypes, PackageKinds DEF Names
<1> HIDE DEF pkg
<1>2. up[c] \in Seq(UpPackages)
  BY DEF TypeOK, TransportTypeOK
<1>3. /\ Append(up[c], pkg) \in Seq(UpPackages)
      /\ Range(Append(up[c], pkg)) = Range(up[c]) \cup {pkg}
  BY <1>1, <1>2, AppendRange
<1>4. /\ up' \in [Clients -> Seq(UpPackages)]
      /\ \A d \in Clients : \A k \in Range(up'[d]) :
           k \in Range(up[d]) \/ (d = c /\ k = pkg)
      /\ \A d \in Clients : d # c => up'[d] = up[d]
  BY <1>3 DEF pkg, TypeOK, TransportTypeOK
<1>5. TypeOK'
  BY <1>4 DEF TypeOK, TransportTypeOK, HostTypeOK, ClientTypeOK, LinkStates
<1>6. PeersOK' /\ RosterOK'
  BY PeersFrame, RosterFrame, ProtocolAssumption DEF TypeOK, TransportTypeOK
<1>7. FreshOK'
  BY <1>4 DEF FreshOK, Registered, TypeOK, TransportTypeOK
<1>8. AuthorsOK'
  BY <1>1, <1>4 DEF AuthorsOK
<1>9. IdentityOK'
  <2>1. ASSUME NEW d \in Clients, NEW a \in 1 .. MaxConn, Identity(d, a)
        PROVE  Identity(d, a)'
    BY <1>1, <1>4, <2>1 DEF Identity, Registered
  <2>2. QED BY <2>1 DEF IdentityOK
<1>10. ListedOK'
  BY <1>1, <1>4 DEF ListedOK, ListedByHost, Registered
<1>11. QED BY <1>5, <1>6, <1>7, <1>8, <1>9, <1>10 DEF HostFindsSender, HostNamesAuthors

\* What a client takes from its queue leaves every queue with what it had or
\* less, and the client is connected and has started.
LEMMA ClientConsumesRange ==
  ASSUME TypeOK, FreshOK, NEW c \in Clients, NEW type, ClientHas(c, type),
         ClientConsumes(c)
  PROVE  /\ down' \in DownQueues
         /\ \A d \in Clients : Range(down'[d]) \subseteq Range(down[d])
         /\ \A d \in Clients : link[d] # "connected" => down'[d] = down[d]
         /\ link' = link /\ link[c] = "connected"
<1> DEFINE rest == Tail(down[c])
<1>1. rest \in Seq(DownPackages) /\ Range(rest) \subseteq Range(down[c])
  BY ClientTakes
<1>2. down' = [down EXCEPT ![c] = rest] /\ link' = link /\ link[c] = "connected"
  BY DEF ClientConsumes, ClientHas
<1> HIDE DEF rest
<1>3. QED BY <1>1, <1>2 DEF TypeOK, TransportTypeOK, DownQueues

\* A fault while a package is handled.
LEMMA ClientCrashInv ==
  ASSUME IInv, NEW c \in Clients, NEW type, ClientHas(c, type), Crash(c),
         UNCHANGED <<hostVars, owner, peerState, up>>
  PROVE  IInv'
<1>1. clientState[c] # "prompt"
  BY DEF IInv, FreshOK, ClientHas
<1>2. QED BY <1>1, ClientEndsInv DEF Crash

\* A package is handled and changes the list of its client at most, but not
\* the client's own entry there.
LEMMA ClientListChangeInv ==
  ASSUME IInv, NEW c \in Clients, NEW type, ClientHas(c, type), ClientConsumes(c),
         TypeOK', UNCHANGED <<hostVars, clientState, owner, peerState, up>>,
         \A d \in Clients : d # c => users'[d] = users[d] /\ localUser'[d] = localUser[d],
         \A a \in 1 .. MaxConn : Identity(c, a) =>
           /\ users'[c][a] \in {NoUser, c}
           /\ Registered(c)' => localUser'[c] = a /\ users'[c][a] = c,
         Registered(c)' => Registered(c) \/ type = "USERNAME_ACK"
  PROVE  IInv'
<1> USE DEF IInv, hostVars
<1>1. /\ \A d \in Clients : Range(down'[d]) \subseteq Range(down[d])
      /\ \A d \in Clients : link[d] # "connected" => down'[d] = down[d]
      /\ link' = link /\ link[c] = "connected"
  BY ClientConsumesRange
<1>2. PeersOK' /\ RosterOK' /\ AuthorsOK'
  BY <1>1, PeersFrame, RosterFrame, AuthorsFrame
<1>3. FreshOK'
  BY <1>1 DEF FreshOK, Registered
<1>4. IdentityOK'
  <2>1. ASSUME NEW d \in Clients, NEW a \in 1 .. MaxConn, Identity(d, a)
        PROVE  Identity(d, a)'
    <3>1. /\ users'[d][a] \in {NoUser, d}
          /\ Registered(d)' => localUser'[d] = a /\ users'[d][a] = d
      BY <2>1 DEF Identity, Registered
    <3>2. QED BY <1>1, <2>1, <3>1 DEF Identity
  <2>2. QED BY <2>1 DEF IdentityOK
<1>5. ListedOK'
  <2>1. \A d \in Clients : ListedByHost(d) => ListedByHost(d)'
    BY DEF ListedByHost
  <2>2. type = "USERNAME_ACK" => ListedByHost(c)
    BY ClientTakes DEF ListedOK
  <2>3. QED BY <1>1, <2>1, <2>2 DEF ListedOK, Registered
<1>6. QED BY <1>2, <1>3, <1>4, <1>5 DEF HostFindsSender, HostNamesAuthors

LEMMA ClientReceivesAckInv ==
  ASSUME IInv, NEW c \in Clients, ClientReceivesAck(c), UNCHANGED hostVars
  PROVE  IInv'
<1> USE DEF IInv, hostVars
<1> DEFINE pkg == Head(down[c])
           listed == {u \in UserIDs : HasUser(pkg.users, u)}
<1>1. ClientHas(c, "USERNAME_ACK") /\ UNCHANGED <<owner, peerState, up>>
  BY DEF ClientReceivesAck
<1>2. CASE Crash(c)
  BY <1>1, <1>2, ClientCrashInv
<1>3. CASE /\ users' = [users EXCEPT ![c] = InsertAll(@, pkg.users)]
           /\ localUser' = [localUser EXCEPT ![c] =
                              IF pkg.assigned \in listed THEN pkg.assigned ELSE @]
           /\ ClientConsumes(c)
           /\ UNCHANGED <<clientState, screen, typed>>
  <2>1. /\ pkg \in Range(down[c]) /\ pkg.type = "USERNAME_ACK"
        /\ pkg.assigned \in UserIDs /\ pkg.users \in UserMap
    BY <1>1, ClientTakes, PackageFields
  <2>2. \A d \in Clients : users[d] \in UserMap /\ localUser[d] \in UserIDs \cup {NoUser, Wild}
    BY DEF TypeOK, ClientTypeOK
  <2>3. InsertAll(users[c], pkg.users) \in UserMap
    BY <2>1, <2>2, UserMapTypes
  <2>4. down' \in DownQueues /\ link' = link
    BY <1>1, <1>3, ClientConsumesRange
  <2>5. TypeOK'
    BY <1>1, <1>3, <2>1, <2>2, <2>3, <2>4
       DEF TypeOK, TransportTypeOK, HostTypeOK, ClientTypeOK, DownQueues
  <2>6. \A d \in Clients : d # c => users'[d] = users[d] /\ localUser'[d] = localUser[d]
    BY <1>3 DEF TypeOK, ClientTypeOK
  <2>7. /\ users'[c] = InsertAll(users[c], pkg.users)
        /\ localUser'[c] = IF pkg.assigned \in listed THEN pkg.assigned ELSE localUser[c]
    BY <1>3 DEF TypeOK, ClientTypeOK
  <2>8. ASSUME NEW a \in 1 .. MaxConn, Identity(c, a)
        PROVE  users'[c][a] = c /\ localUser'[c] = a
    <3>1. pkg.assigned = a /\ pkg.users[a] = c
      BY <2>1, <2>8 DEF Identity
    <3>2. a \in listed
      BY <2>1, <3>1, ProtocolAssumption DEF HasUser
    <3>3. users'[c][a] = c
      BY <2>1, <2>7, <2>8, <3>1 DEF InsertAll, Identity
    <3>4. QED BY <2>7, <3>1, <3>2, <3>3
  <2>9. QED BY <1>1, <1>3, <2>5, <2>6, <2>8, ClientListChangeInv
<1>4. QED BY <1>2, <1>3 DEF ClientReceivesAck

LEMMA ClientReceivesAddUserInv ==
  ASSUME IInv, NEW c \in Clients, ClientReceivesAddUser(c), UNCHANGED hostVars
  PROVE  IInv'
<1> USE DEF IInv, hostVars
<1> DEFINE pkg == Head(down[c])
<1>1. ClientHas(c, "STATE_ADD_USER") /\ UNCHANGED <<owner, peerState, up>>
  BY DEF ClientReceivesAddUser
<1>2. CASE Crash(c)
  BY <1>1, <1>2, ClientCrashInv
<1>3. CASE /\ users' = [users EXCEPT ![c] = Insert(@, pkg.user, pkg.name)]
           /\ ClientConsumes(c)
           /\ UNCHANGED <<clientState, localUser, screen, typed>>
  <2>1. /\ pkg \in Range(down[c]) /\ pkg.type = "STATE_ADD_USER"
        /\ pkg.user \in UserIDs /\ pkg.name \in Names
    BY <1>1, ClientTakes, PackageFields
  <2>2. \A d \in Clients : users[d] \in UserMap
    BY DEF TypeOK, ClientTypeOK
  <2>3. Insert(users[c], pkg.user, pkg.name) \in UserMap
    BY <2>1, <2>2, UserMapTypes
  <2>4. down' \in DownQueues /\ link' = link
    BY <1>1, <1>3, ClientConsumesRange
  <2>5. TypeOK'
    BY <1>1, <1>3, <2>2, <2>3, <2>4
       DEF TypeOK, TransportTypeOK, HostTypeOK, ClientTypeOK, DownQueues
  <2>6. \A d \in Clients : d # c => users'[d] = users[d]
    BY <1>3 DEF TypeOK, ClientTypeOK
  <2>7. users'[c] = Insert(users[c], pkg.user, pkg.name)
    BY <1>3 DEF TypeOK, ClientTypeOK
  <2>8. ASSUME NEW a \in 1 .. MaxConn, Identity(c, a)
        PROVE  /\ users'[c][a] \in {NoUser, c}
               /\ Registered(c)' => localUser'[c] = a /\ users'[c][a] = c
    <3>1. users[c][a] \in {NoUser, c} /\ (pkg.user = a => pkg.name = c)
      BY <2>1, <2>8 DEF Identity
    <3>2. users'[c][a] = users[c][a] \/ (users[c][a] = NoUser /\ users'[c][a] = c)
      BY <2>1, <2>2, <2>7, <3>1 DEF Insert, UserMap
    <3>3. Registered(c) => localUser[c] = a /\ users[c][a] = c
      BY <2>8 DEF Identity
    <3>4. QED BY <1>3, <3>1, <3>2, <3>3, ProtocolAssumption DEF Registered
  <2>9. QED BY <1>1, <1>3, <2>5, <2>6, <2>8, ClientListChangeInv DEF Registered
<1>4. QED BY <1>2, <1>3 DEF ClientReceivesAddUser

LEMMA ClientReceivesRemoveUserInv ==
  ASSUME IInv, NEW c \in Clients, ClientReceivesRemoveUser(c), UNCHANGED hostVars
  PROVE  IInv'
<1> USE DEF IInv, hostVars
<1> DEFINE u == Head(down[c]).user
<1>1. ClientHas(c, "STATE_REM_USER") /\ UNCHANGED <<owner, peerState, up>>
  BY DEF ClientReceivesRemoveUser
<1>2. CASE Crash(c)
  BY <1>1, <1>2, ClientCrashInv
<1>3. CASE /\ users' = [users EXCEPT ![c] = Erase(@, u)]
           /\ ClientConsumes(c)
           /\ UNCHANGED <<clientState, localUser, screen, typed>>
  <2>1. /\ Head(down[c]) \in Range(down[c]) /\ Head(down[c]).type = "STATE_REM_USER"
        /\ u \in UserIDs
    BY <1>1, ClientTakes, PackageFields
  <2>2. \A d \in Clients : users[d] \in UserMap
    BY DEF TypeOK, ClientTypeOK
  <2>3. Erase(users[c], u) \in UserMap
    BY <2>1, <2>2, UserMapTypes
  <2>4. down' \in DownQueues /\ link' = link
    BY <1>1, <1>3, ClientConsumesRange
  <2>5. TypeOK'
    BY <1>1, <1>3, <2>2, <2>3, <2>4
       DEF TypeOK, TransportTypeOK, HostTypeOK, ClientTypeOK, DownQueues
  <2>6. \A d \in Clients : d # c => users'[d] = users[d]
    BY <1>3 DEF TypeOK, ClientTypeOK
  <2>7. users'[c] = Erase(users[c], u)
    BY <1>3 DEF TypeOK, ClientTypeOK
  <2>8. ASSUME NEW a \in 1 .. MaxConn, Identity(c, a)
        PROVE  /\ users'[c][a] \in {NoUser, c}
               /\ Registered(c)' => localUser'[c] = a /\ users'[c][a] = c
    <3>1. u # a
      BY <2>1, <2>8 DEF Identity
    <3>2. users'[c][a] = users[c][a]
      BY <2>1, <2>2, <2>7, <3>1 DEF Erase, UserMap
    <3>3. QED BY <1>3, <2>8, <3>2 DEF Identity, Registered
  <2>9. QED BY <1>1, <1>3, <2>5, <2>6, <2>8, ClientListChangeInv DEF Registered
<1>4. QED BY <1>2, <1>3 DEF ClientReceivesRemoveUser

LEMMA ClientReceivesMessageInv ==
  ASSUME IInv, NEW c \in Clients, ClientReceivesMessage(c), UNCHANGED hostVars
  PROVE  IInv'
<1> USE DEF IInv, hostVars
<1> DEFINE pkg == Head(down[c])
           entry == [name |-> users[c][pkg.user], line |-> pkg.line]
<1>1. ClientHas(c, "MESSAGE") /\ UNCHANGED <<owner, peerState, up>>
  BY DEF ClientReceivesMessage
<1>2. CASE Crash(c)
  BY <1>1, <1>2, ClientCrashInv
<1>3. CASE /\ HasUser(users[c], pkg.user)
           /\ screen' = IF pkg.user = localUser[c] THEN screen
                        ELSE [screen EXCEPT ![c] = Append(@, entry)]
           /\ ClientConsumes(c)
           /\ UNCHANGED <<clientState, users, localUser, typed>>
  <2>1. pkg.user \in UserIDs /\ pkg.line \in Lines
    BY <1>1, ClientTakes, PackageFields
  <2>2. entry \in Entries
    BY <1>3, <2>1 DEF TypeOK, ClientTypeOK, HasUser, UserMap, Entries
  <2>3. Append(screen[c], entry) \in Seq(Entries)
    BY <2>2, AppendRange DEF TypeOK, ClientTypeOK
  <2>4. down' \in DownQueues /\ link' = link
    BY <1>1, <1>3, ClientConsumesRange
  <2>5. screen' \in [Clients -> Seq(Entries)]
    BY <1>3, <2>3 DEF TypeOK, ClientTypeOK
  <2>6. TypeOK'
    BY <1>1, <1>3, <2>4, <2>5
       DEF TypeOK, TransportTypeOK, HostTypeOK, ClientTypeOK, DownQueues
  <2>7. ASSUME NEW a \in 1 .. MaxConn, Identity(c, a)
        PROVE  /\ users'[c][a] \in {NoUser, c}
               /\ Registered(c)' => localUser'[c] = a /\ users'[c][a] = c
    BY <1>3, <2>7 DEF Identity, Registered
  <2>8. QED BY <1>1, <1>3, <2>6, <2>7, ClientListChangeInv DEF Registered
<1>4. QED BY <1>2, <1>3 DEF ClientReceivesMessage

-----------------------------------------------------------------------------
(* The network's step.                                                     *)

LEMMA LoseInv ==
  ASSUME IInv, NEW c \in Clients, Lose(c), UNCHANGED <<hostVars, clientVars>>
  PROVE  IInv'
<1> USE DEF IInv, hostVars, clientVars
<1>1. /\ up \in [Clients -> Seq(UpPackages)] /\ down \in [Clients -> Seq(DownPackages)]
      /\ UNCHANGED <<owner, peerState, link>>
  BY DEF TypeOK, TransportTypeOK, Lose
<1>2. /\ up' \in [Clients -> Seq(UpPackages)] /\ down' \in [Clients -> Seq(DownPackages)]
      /\ \A d \in Clients : Range(up'[d]) \subseteq Range(up[d])
      /\ \A d \in Clients : Range(down'[d]) \subseteq Range(down[d])
      /\ \A d \in Clients : /\ up[d] = <<>> => up'[d] = <<>>
                            /\ down[d] = <<>> => down'[d] = <<>>
  <2>1. CASE /\ \E i \in DOMAIN up[c] : up' = [up EXCEPT ![c] = RemoveAt(@, i)]
             /\ UNCHANGED down
    <3>1. PICK i \in DOMAIN up[c] : up' = [up EXCEPT ![c] = RemoveAt(up[c], i)]
      BY <2>1
    <3>2. /\ RemoveAt(up[c], i) \in Seq(UpPackages)
          /\ Range(RemoveAt(up[c], i)) \subseteq Range(up[c])
      BY <1>1, RemoveAtRange
    <3>3. up[c] # <<>>
      OBVIOUS
    <3>4. QED BY <1>1, <2>1, <3>1, <3>2, <3>3
  <2>2. CASE /\ \E i \in DOMAIN down[c] : down' = [down EXCEPT ![c] = RemoveAt(@, i)]
             /\ UNCHANGED up
    <3>1. PICK i \in DOMAIN down[c] : down' = [down EXCEPT ![c] = RemoveAt(down[c], i)]
      BY <2>2
    <3>2. /\ RemoveAt(down[c], i) \in Seq(DownPackages)
          /\ Range(RemoveAt(down[c], i)) \subseteq Range(down[c])
      BY <1>1, RemoveAtRange
    <3>3. down[c] # <<>>
      OBVIOUS
    <3>4. QED BY <1>1, <2>2, <3>1, <3>2, <3>3
  <2>3. QED BY <2>1, <2>2 DEF Lose
<1>3. TypeOK'
  BY <1>1, <1>2 DEF TypeOK, TransportTypeOK, HostTypeOK, ClientTypeOK
<1>4. PeersOK' /\ RosterOK' /\ AuthorsOK' /\ IdentityOK' /\ ListedOK'
  BY <1>1, <1>2, PeersFrame, RosterFrame, AuthorsFrame, IdentityFrame, ListedFrame
<1>5. FreshOK'
  BY <1>1, <1>2 DEF FreshOK, Registered
<1>6. QED BY <1>3, <1>4, <1>5 DEF HostFindsSender, HostNamesAuthors

-----------------------------------------------------------------------------
(* The invariant and what follows from it.                                 *)

LEMMA InitInv == Init => IInv
<1> SUFFICES ASSUME Init PROVE IInv
  OBVIOUS
<1> USE DEF Init, TransportInit, HostInit, ClientInit
<1>1. \A c \in Clients : localUser[c] \in {NoUser, Wild} /\ ~Registered(c)
  <2>1. NoUser \notin UserIDs /\ Wild \notin UserIDs
    BY ProtocolAssumption, ClientAssumption DEF UserIDs
  <2>2. \A c \in Clients : localUser[c] \in {NoUser, Wild}
    BY ClientAssumption
  <2>3. QED BY <2>1, <2>2 DEF Registered
<1>2. TypeOK
  BY <1>1, UserMapTypes, ProtocolAssumption
     DEF TypeOK, TransportTypeOK, HostTypeOK, ClientTypeOK, PeerStates, LinkStates,
         HostStates, ClientStates
<1>3. PeersOK /\ RosterOK
  BY DEF PeersOK, RosterOK
<1>4. FreshOK
  BY <1>1 DEF FreshOK
<1>5. \A c \in Clients : Range(up[c]) = {} /\ Range(down[c]) = {}
  <2>1. Range(<<>>) = {}
    BY DEF Range
  <2>2. QED BY <2>1
<1>6. AuthorsOK /\ ListedOK
  BY <1>1, <1>5 DEF AuthorsOK, ListedOK
<1>7. HostNamesAuthors
  BY DEF HostNamesAuthors, Range
<1>8. IdentityOK
  <2>1. 1 \in 1 .. MaxConn /\ 1 \in UserIDs
    BY FirstUserID
  <2>2. ASSUME NEW c \in Clients
        PROVE  Identity(c, 1)
    <3>1. users[c][1] = NoUser
      BY <2>1 DEF EmptyMap
    <3>2. \A p \in PeerIDs : owner[p] # c
      BY ProtocolAssumption
    <3>3. QED BY <1>1, <1>5, <3>1, <3>2 DEF Identity
  <2>3. QED BY <2>1, <2>2 DEF IdentityOK
<1>9. QED BY <1>2, <1>3, <1>4, <1>6, <1>7, <1>8 DEF IInv, HostFindsSender

LEMMA NextInv == IInv /\ [Next]_vars => IInv'
<1> SUFFICES ASSUME IInv, [Next]_vars PROVE IInv'
  OBVIOUS
<1>1. CASE HostStep
  <2>1. UNCHANGED clientVars
    BY <1>1 DEF HostStep
  <2>2. CASE HostUser
    BY <2>1, <2>2, HostBeginStateInv, HostInputInv, HostSendsInputInv, HostExitInv
       DEF HostUser
  <2>3. ASSUME NEW p \in PeerIDs, HostListener(p) PROVE IInv'
    BY <2>1, <2>3, HostConnectEventInv, HostReceivesUsernameInv,
       HostReceivesMessageInv, HostDisconnectEventInv, HostAbandonsInv
       DEF HostListener
  <2>4. ASSUME NEW p \in PeerIDs, NEW c \in Clients, HostAccepts(p, c) PROVE IInv'
    BY <2>1, <2>4, HostAcceptsInv
  <2>5. QED BY <1>1, <2>2, <2>3, <2>4 DEF HostStep
<1>2. CASE ClientStep
  <2>1. UNCHANGED hostVars
    BY <1>2 DEF ClientStep
  <2>2. ASSUME NEW c \in Clients, ClientUser(c) PROVE IInv'
    BY <2>1, <2>2, ClientBeginStateInv, ClientInputInv, ClientExitInv DEF ClientUser
  <2>3. ASSUME NEW c \in Clients, ClientListener(c) PROVE IInv'
    BY <2>1, <2>3, ClientConnectEventInv, ClientReceivesAckInv,
       ClientReceivesAddUserInv, ClientReceivesRemoveUserInv,
       ClientReceivesMessageInv, ClientDisconnectEventInv DEF ClientListener
  <2>4. QED BY <1>2, <2>2, <2>3 DEF ClientStep
<1>3. CASE NetworkStep
  BY <1>3, LoseInv DEF NetworkStep
<1>4. CASE UNCHANGED vars
  <2>1. TypeOK' /\ HostNamesAuthors'
    BY <1>4 DEF IInv, vars, transportVars, hostVars, clientVars, TypeOK,
                TransportTypeOK, HostTypeOK, ClientTypeOK, HostNamesAuthors
  <2>2. QED BY <1>4, <2>1, InvariantFrame DEF vars, hostVars, clientVars
<1>5. QED BY <1>1, <1>2, <1>3, <1>4 DEF Next

\* The invariant holds of every session.
THEOREM InvariantHolds == Spec => []IInv
<1>1. QED BY InitInv, NextInv, PTL DEF Spec

\* Every variable keeps its type: no package is built from ids or names that
\* are none, no user is listed under an id that is none.
THEOREM TypeCorrect == Spec => []TypeOK
<1>1. IInv => TypeOK
  BY DEF IInv
<1>2. QED BY <1>1, InvariantHolds, PTL

\* However many packages are lost and connections time out, the host's
\* handler of messages never looks up a user in vain.
THEOREM HostAlwaysFindsSender == Spec => []HostFindsSender
<1>1. IInv => HostFindsSender
  BY DEF IInv
<1>2. QED BY <1>1, InvariantHolds, PTL

\* The ids of peers are reused, and still the host lists under a user id
\* nobody but the client that is behind the peer now.
THEOREM RosterAlwaysMatchesPeers == Spec => []RosterMatchesPeers
<1>1. IInv => RosterMatchesPeers
  BY DEF IInv, RosterOK, RosterMatchesPeers
<1>2. QED BY <1>1, InvariantHolds, PTL

\* A client that knows its user id knows the one the host knows it by.
THEOREM LocalUserAlwaysMatchesPeer == Spec => []LocalUserMatchesPeer
<1>1. IInv => LocalUserMatchesPeer
  BY DEF IInv, IdentityOK, Identity, LocalUserMatchesPeer
<1>2. QED BY <1>1, InvariantHolds, PTL

\* The host never shows a line under the name of anyone but its author.
THEOREM HostAlwaysNamesAuthors == Spec => []HostNamesAuthors
<1>1. IInv => HostNamesAuthors
  BY DEF IInv
<1>2. QED BY <1>1, InvariantHolds, PTL

=============================================================================
