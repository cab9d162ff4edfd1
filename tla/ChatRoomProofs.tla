--------------------------- MODULE ChatRoomProofs ---------------------------
(***************************************************************************)
(* A proof that a session implements the room of ChatRoom, for any number  *)
(* of clients, peers and lines, whatever is lost and whatever times out.   *)
(***************************************************************************)
EXTENDS ChatSessionProofs

-----------------------------------------------------------------------------
(* Sequences of packages that bear rising numbers.                         *)

\* What is sent last is numbered highest.
LEMMA RisingAppend ==
  ASSUME NEW s \in Seq(UpPackages), NEW pkg \in UpPackages, Rising(s),
         pkg.type = "MESSAGE" =>
           \A k \in Range(s) : k.type = "MESSAGE" => k.line.n < pkg.line.n
  PROVE  Rising(Append(s, pkg))
<1> DEFINE t == Append(s, pkg)
<1>1. /\ Len(s) \in Nat /\ DOMAIN s = 1 .. Len(s)
      /\ DOMAIN t = 1 .. Len(s) + 1
      /\ \A i \in 1 .. Len(s) : t[i] = s[i] /\ s[i] \in Range(s)
      /\ t[Len(s) + 1] = pkg
  BY AppendProperties DEF Range
<1> HIDE DEF t
<1>2. ASSUME NEW i \in DOMAIN t, NEW j \in DOMAIN t, i < j,
             t[i].type = "MESSAGE", t[j].type = "MESSAGE"
      PROVE  t[i].line.n < t[j].line.n
  <2>1. i \in 1 .. Len(s)
    BY <1>1, <1>2
  <2>2. CASE j \in 1 .. Len(s)
    BY <1>1, <1>2, <2>1, <2>2 DEF Rising
  <2>3. CASE j = Len(s) + 1
    BY <1>1, <1>2, <2>1, <2>3
  <2>4. QED BY <1>1, <2>2, <2>3
<1>3. Rising(t)
  BY <1>2 DEF Rising
<1>4. QED BY <1>3 DEF t

\* When the first package is taken, what remains is numbered higher.
LEMMA RisingTail ==
  ASSUME NEW s \in Seq(UpPackages), s # <<>>, Rising(s)
  PROVE  /\ Rising(Tail(s))
         /\ Head(s).type = "MESSAGE" =>
              \A k \in Range(Tail(s)) :
                k.type = "MESSAGE" => Head(s).line.n < k.line.n
<1> DEFINE t == Tail(s)
<1>1. /\ Len(s) \in Nat \ {0} /\ DOMAIN s = 1 .. Len(s)
      /\ Head(s) = s[1]
  OBVIOUS
<1>2. /\ DOMAIN t = 1 .. Len(s) - 1
      /\ \A i \in 1 .. Len(s) - 1 : t[i] = s[i + 1]
  BY <1>1, HeadTailProperties
<1> HIDE DEF t
<1>3. \A i \in DOMAIN t : i + 1 \in DOMAIN s /\ 1 \in DOMAIN s /\ 1 < i + 1
  BY <1>1, <1>2
<1>4. \A i, j \in DOMAIN t : i < j => i + 1 < j + 1
  BY <1>1, <1>2
<1>5. Rising(t)
  BY <1>2, <1>3, <1>4 DEF Rising
<1>6. ASSUME NEW k \in Range(t), Head(s).type = "MESSAGE", k.type = "MESSAGE"
      PROVE  Head(s).line.n < k.line.n
  <2>1. PICK i \in DOMAIN t : k = t[i]
    BY <1>6 DEF Range
  <2>2. QED BY <1>1, <1>2, <1>3, <1>6, <2>1 DEF Rising
<1>7. QED BY <1>5, <1>6 DEF t

\* Nor does a lost package disturb the order of the others.
LEMMA RisingRemoveAt ==
  ASSUME NEW s \in Seq(UpPackages), NEW i \in DOMAIN s, Rising(s)
  PROVE  Rising(RemoveAt(s, i))
<1> DEFINE t == RemoveAt(s, i)
           place(k) == IF k < i THEN k ELSE k + 1
<1>1. i \in 1 .. Len(s) /\ Len(s) \in Nat /\ DOMAIN s = 1 .. Len(s)
  OBVIOUS
<1>2. /\ t \in Seq(UpPackages)
      /\ Len(t) = Len(s) - 1
      /\ \A k \in 1 .. Len(s) - 1 : t[k] = IF k < i THEN s[k] ELSE s[k + 1]
  BY RemoveAtRange
<1> HIDE DEF t, place
<1>3. /\ DOMAIN t = 1 .. Len(s) - 1
      /\ \A k \in 1 .. Len(s) - 1 : t[k] = s[place(k)]
  BY <1>2 DEF place
<1>4. \A k, m \in DOMAIN t : /\ place(k) \in DOMAIN s
                             /\ k < m => place(k) < place(m)
  BY <1>1, <1>3 DEF place
<1>5. Rising(t)
  BY <1>3, <1>4 DEF Rising
<1>6. QED BY <1>5 DEF t

-----------------------------------------------------------------------------
(* The numbers of lines.                                                   *)

\* Nothing is typed or printed, and no line is sent.
LEMMA NumbersFrame ==
  ASSUME NumbersOK, UNCHANGED <<hostScreen, hostTyped, typed>>,
         \A c \in Clients : \A k \in Range(up'[c]) :
           k \in Range(up[c]) \/ k.type # "MESSAGE",
         \A c \in Clients : Rising(up'[c])
  PROVE  NumbersOK'
BY DEF NumbersOK, Newer

\* What is in flight to the host is discarded.
LEMMA DiscardOK ==
  ASSUME TypeOK, NumbersOK, UNCHANGED <<hostScreen, hostTyped, typed>>,
         \A c \in Clients : up'[c] \in {up[c], <<>>}
  PROVE  NumbersOK'
<1>1. Range(<<>>) = {} /\ Rising(<<>>)
  BY DEF Range, Rising
<1>2. \A c \in Clients : Rising(up'[c])
  BY <1>1 DEF NumbersOK
<1>3. \A c \in Clients : \A k \in Range(up'[c]) : k \in Range(up[c])
  BY <1>1
<1>4. QED BY <1>2, <1>3, NumbersFrame

LEMMA ResetPeerNumbers ==
  ASSUME TypeOK, NumbersOK, UNCHANGED <<hostScreen, hostTyped, typed>>,
         NEW p \in PeerIDs, ResetPeer(p)
  PROVE  NumbersOK'
<1>1. \A c \in Clients : up'[c] \in {up[c], <<>>}
  BY DEF ResetPeer, TypeOK, TransportTypeOK
<1>2. QED BY <1>1, DiscardOK

LEMMA ResetAllPeersNumbers ==
  ASSUME TypeOK, NumbersOK, UNCHANGED <<hostScreen, hostTyped, typed>>, ResetAllPeers
  PROVE  NumbersOK'
<1>1. \A c \in Clients : up'[c] \in {up[c], <<>>}
  BY DEF ResetAllPeers
<1>2. QED BY <1>1, DiscardOK

\* A line printed by the host is the newest of its author.
LEMMA HostInputNumbers ==
  ASSUME IInv, NumbersOK, HostInput, UNCHANGED clientVars
  PROVE  NumbersOK'
<1> USE DEF IInv, transportVars, clientVars
<1> DEFINE line == [by |-> HostName, n |-> hostTyped + 1]
           entry == [name |-> hostUsers[0], line |-> line]
<1>1. hostUsers[0] = HostName /\ hostTyped \in 0 .. HostLines /\ HostLines \in Nat
  BY ProtocolAssumption DEF RosterOK, HostInput, TypeOK, HostTypeOK
<1>2. hostTyped < HostLines /\ hostTyped' = hostTyped + 1
  BY DEF HostInput
<1>3. hostTyped + 1 \in 1 .. HostLines
  BY <1>1, <1>2
<1>4. entry \in Entries
  BY <1>1, <1>3 DEF Entries, Names, Lines
<1>5. Range(hostScreen') = Range(hostScreen) \cup {entry}
  BY <1>4, AppendRange DEF HostInput, TypeOK, HostTypeOK
<1>6. HostName \notin Clients /\ entry.line.by = HostName /\ entry.line.n = hostTyped + 1
  BY ProtocolAssumption
<1> HIDE DEF entry, line
<1>7. \A e \in Range(hostScreen') : e.line.by = HostName => e.line.n <= hostTyped'
  <2>1. \A e \in Entries : e.line.n \in Nat
    BY ProtocolAssumption DEF Entries, Lines
  <2>2. \A e \in Range(hostScreen) : e.line.n \in Nat
    BY <2>1 DEF TypeOK, HostTypeOK, Range
  <2>3. QED BY <1>1, <1>2, <1>5, <1>6, <2>2 DEF NumbersOK
<1>8. \A c \in Clients : \A e \in Range(hostScreen') :
        e.line.by = c => e \in Range(hostScreen)
  BY <1>5, <1>6
<1>9. UNCHANGED <<up, typed>>
  BY DEF HostInput
<1>10. QED BY <1>7, <1>8, <1>9 DEF NumbersOK, Newer

\* The host prints the first line in the queue; those behind it are newer.
LEMMA HostReceivesMessageNumbers ==
  ASSUME IInv, NumbersOK, NEW p \in PeerIDs, HostReceivesMessage(p),
         UNCHANGED clientVars
  PROVE  NumbersOK'
<1> USE DEF IInv, clientVars
<1> DEFINE c == owner[p]
           pkg == Head(up[c])
           entry == [name |-> hostUsers[pkg.user], line |-> pkg.line]
<1>1. CASE ResetAllPeers /\ UNCHANGED <<hostScreen, hostTyped>>
  BY <1>1, ResetAllPeersNumbers
<1>2. CASE /\ HasUser(hostUsers, pkg.user)
           /\ hostScreen' = Append(hostScreen, entry)
           /\ HostConsumes(p)
           /\ UNCHANGED hostTyped
  <2>1. HostHas(p, "MESSAGE") /\ c \in Clients
    BY PeerHasClient DEF HostReceivesMessage, HostHas
  <2>2. /\ pkg \in UpPackages /\ pkg \in Range(up[c]) /\ pkg.type = "MESSAGE"
        /\ up[c] \in Seq(UpPackages) /\ up[c] # <<>>
    BY <2>1, HostTakes DEF HostHas, TypeOK, TransportTypeOK
  <2>3. entry \in Entries
    <3>1. hostUsers[pkg.user] \in Names
      BY <1>2, <2>2, PackageFields DEF HasUser, TypeOK, HostTypeOK, UserMap
    <3>2. QED BY <2>2, <3>1, PackageFields DEF Entries
  <2>4. Range(hostScreen') = Range(hostScreen) \cup {entry}
    BY <1>2, <2>3, AppendRange DEF TypeOK, HostTypeOK
  <2>5. pkg.line.by = c /\ entry.line = pkg.line /\ HostName \notin Clients
    BY <2>1, <2>2, ProtocolAssumption DEF AuthorsOK
  <2>6. pkg.line.n <= typed[c]
    BY <2>1, <2>2 DEF NumbersOK
  <2>7. /\ \A d \in Clients : Range(up'[d]) \subseteq Range(up[d])
        /\ \A d \in Clients : d # c => up'[d] = up[d]
    BY <1>2, <2>1, HostConsumesRange
  <2>8. up'[c] = Tail(up[c])
    BY <1>2, <2>1 DEF HostConsumes, TypeOK, TransportTypeOK
  <2>9. /\ Rising(up'[c])
        /\ \A k \in Range(up'[c]) : k.type = "MESSAGE" => pkg.line.n < k.line.n
    BY <2>1, <2>2, <2>8, RisingTail DEF NumbersOK
  <2> HIDE DEF pkg, entry
  <2>10. \A d \in Clients : Rising(up'[d])
    BY <2>7, <2>9 DEF NumbersOK
  <2>11. ASSUME NEW d \in Clients, NEW k \in Range(up'[d]), k.type = "MESSAGE"
         PROVE  k.line.n <= typed'[d] /\ Newer(k, d)'
    <3>1. k.line.n <= typed[d] /\ Newer(k, d)
      BY <2>7, <2>11 DEF NumbersOK
    <3>2. CASE d = c
      BY <2>4, <2>5, <2>9, <2>11, <3>1, <3>2 DEF Newer
    <3>3. CASE d # c
      BY <2>4, <2>5, <3>1, <3>3 DEF Newer
    <3>4. QED BY <3>2, <3>3
  <2>12. \A e \in Range(hostScreen') : e.line.by = HostName => e.line.n <= hostTyped'
    BY <1>2, <2>1, <2>4, <2>5 DEF NumbersOK
  <2>13. \A d \in Clients : \A e \in Range(hostScreen') :
           e.line.by = d => e.line.n <= typed'[d]
    BY <2>4, <2>5, <2>6 DEF NumbersOK
  <2>14. QED BY <2>10, <2>11, <2>12, <2>13 DEF NumbersOK
<1>3. QED BY <1>1, <1>2 DEF HostReceivesMessage

\* USERNAME is taken from the queue.
LEMMA HostReceivesUsernameNumbers ==
  ASSUME IInv, NumbersOK, NEW p \in PeerIDs, HostReceivesUsername(p),
         UNCHANGED clientVars
  PROVE  NumbersOK'
<1> USE DEF IInv, clientVars
<1>1. HostHas(p, "USERNAME") /\ HostConsumes(p) /\ owner[p] \in Clients
  BY PeerHasClient DEF HostReceivesUsername, HostHas
<1>2. /\ \A d \in Clients : Range(up'[d]) \subseteq Range(up[d])
      /\ \A d \in Clients : d # owner[p] => up'[d] = up[d]
  BY <1>1, HostConsumesRange
<1>3. /\ up[owner[p]] \in Seq(UpPackages) /\ up[owner[p]] # <<>>
      /\ up'[owner[p]] = Tail(up[owner[p]])
  BY <1>1 DEF HostHas, HostConsumes, TypeOK, TransportTypeOK
<1>4. \A d \in Clients : Rising(up'[d])
  BY <1>1, <1>2, <1>3, RisingTail DEF NumbersOK
<1>5. QED BY <1>2, <1>4, NumbersFrame DEF HostReceivesUsername

\* A client numbers its line higher than any it has sent.
LEMMA ClientInputNumbers ==
  ASSUME IInv, NumbersOK, NEW c \in Clients, ClientInput(c), UNCHANGED hostVars
  PROVE  NumbersOK'
<1> USE DEF IInv, hostVars
<1> DEFINE line == [by |-> c, n |-> typed[c] + 1]
           pkg == MessagePackage(localUser[c], line)
<1>1. CASE Crash(c) /\ UNCHANGED up
  <2>1. UNCHANGED typed
    BY <1>1 DEF Crash
  <2>2. QED BY <1>1, <2>1, NumbersFrame DEF NumbersOK
<1>2. CASE /\ Registered(c)
           /\ typed' = [typed EXCEPT ![c] = @ + 1]
           /\ SendUp(c, pkg)
  <2>1. typed \in [Clients -> 0 .. ClientLines] /\ ClientLines \in Nat
    BY ProtocolAssumption DEF TypeOK, ClientTypeOK
  <2>2. typed[c] < ClientLines
    BY DEF ClientInput
  <2>3. line \in Lines /\ typed[c] \in Nat /\ typed'[c] = typed[c] + 1
    BY <1>2, <2>1, <2>2 DEF Lines
  <2>4. \A d \in Clients : d # c => typed'[d] = typed[d]
    BY <1>2, <2>1
  <2>5. /\ pkg \in UpPackages
        /\ pkg.type = "MESSAGE" /\ pkg.line.n = typed[c] + 1
    BY <1>2, <2>3, PackageTypes, PackageKinds DEF Registered
  <2> HIDE DEF pkg, line
  <2>6. up[c] \in Seq(UpPackages)
    BY DEF TypeOK, TransportTypeOK
  <2>7. \A k \in Range(up[c]) : k.type = "MESSAGE" => k.line.n \in Nat
    <3>1. \A k \in UpPackages : k.type = "MESSAGE" => k.line \in Lines
      BY PackageFields
    <3>2. \A l \in Lines : l.n \in Nat
      BY ProtocolAssumption DEF Lines
    <3>3. QED BY <2>6, <3>1, <3>2 DEF Range
  <2>8. \A k \in Range(up[c]) : k.type = "MESSAGE" => k.line.n < pkg.line.n
    BY <2>3, <2>5, <2>7 DEF NumbersOK
  <2>9. /\ Rising(Append(up[c], pkg))
        /\ Range(Append(up[c], pkg)) = Range(up[c]) \cup {pkg}
    BY <2>5, <2>6, <2>8, RisingAppend, AppendRange DEF NumbersOK
  <2>10. /\ \A d \in Clients : d # c => up'[d] = up[d]
         /\ up'[c] \in {up[c], Append(up[c], pkg)}
    BY <1>2 DEF SendUp, TypeOK, TransportTypeOK
  <2>11. \A d \in Clients : Rising(up'[d])
    BY <2>9, <2>10 DEF NumbersOK
  <2>12. \A e \in Range(hostScreen) : e.line.by = c => e.line.n <= typed[c] /\ e.line.n \in Nat
    <3>1. \A e \in Entries : e.line.n \in Nat
      BY ProtocolAssumption DEF Entries, Lines
    <3>2. QED BY <3>1 DEF NumbersOK, TypeOK, HostTypeOK, Range
  <2>13. Newer(pkg, c)
    BY <2>3, <2>5, <2>12 DEF Newer
  <2>14. ASSUME NEW d \in Clients, NEW k \in Range(up'[d]), k.type = "MESSAGE"
         PROVE  k.line.n <= typed'[d] /\ Newer(k, d)'
    <3>1. CASE d # c
      BY <2>4, <2>10, <2>14, <3>1 DEF NumbersOK, Newer
    <3>2. CASE d = c /\ k \in Range(up[c])
      BY <2>3, <2>7, <2>14, <3>2 DEF NumbersOK, Newer
    <3>3. CASE d = c /\ k = pkg
      BY <2>3, <2>5, <2>13, <3>3 DEF Newer
    <3>4. QED BY <2>9, <2>10, <3>1, <3>2, <3>3
  <2>15. \A d \in Clients : \A e \in Range(hostScreen) :
           e.line.by = d => e.line.n <= typed'[d]
    BY <2>3, <2>4, <2>12 DEF NumbersOK
  <2>16. QED BY <2>11, <2>14, <2>15 DEF NumbersOK
<1>3. QED BY <1>1, <1>2 DEF ClientInput

\* USERNAME is no line.
LEMMA ClientConnectEventNumbers ==
  ASSUME IInv, NumbersOK, NEW c \in Clients, ClientConnectEvent(c), UNCHANGED hostVars
  PROVE  NumbersOK'
<1> USE DEF IInv, hostVars, clientVars
<1> DEFINE pkg == UsernamePackage(c)
<1>1. pkg \in UpPackages /\ pkg.type = "USERNAME"
  BY PackageTypes, PackageKinds DEF Names
<1> HIDE DEF pkg
<1>2. up[c] \in Seq(UpPackages)
  BY DEF TypeOK, TransportTypeOK
<1>3. /\ Rising(Append(up[c], pkg))
      /\ Range(Append(up[c], pkg)) = Range(up[c]) \cup {pkg}
  BY <1>1, <1>2, RisingAppend, AppendRange DEF NumbersOK
<1>4. /\ \A d \in Clients : d # c => up'[d] = up[d]
      /\ up'[c] = Append(up[c], pkg)
  BY DEF ClientConnectEvent, pkg, TypeOK, TransportTypeOK
<1>5. /\ \A d \in Clients : Rising(up'[d])
      /\ \A d \in Clients : \A k \in Range(up'[d]) :
           k \in Range(up[d]) \/ k.type # "MESSAGE"
  BY <1>1, <1>3, <1>4 DEF NumbersOK
<1>6. QED BY <1>5, NumbersFrame DEF ClientConnectEvent

LEMMA LoseNumbers ==
  ASSUME IInv, NumbersOK, NEW c \in Clients, Lose(c), UNCHANGED <<hostVars, clientVars>>
  PROVE  NumbersOK'
<1> USE DEF IInv, hostVars, clientVars
<1>1. CASE \E i \in DOMAIN up[c] : up' = [up EXCEPT ![c] = RemoveAt(@, i)]
  <2>1. PICK i \in DOMAIN up[c] : up' = [up EXCEPT ![c] = RemoveAt(up[c], i)]
    BY <1>1
  <2>2. up[c] \in Seq(UpPackages) /\ Rising(up[c])
    BY DEF TypeOK, TransportTypeOK, NumbersOK
  <2>3. /\ Range(RemoveAt(up[c], i)) \subseteq Range(up[c])
        /\ Rising(RemoveAt(up[c], i))
    BY <2>2, RemoveAtRange, RisingRemoveAt
  <2>4. \A d \in Clients : up'[d] = IF d = c THEN RemoveAt(up[c], i) ELSE up[d]
    BY <2>1 DEF TypeOK, TransportTypeOK
  <2>5. QED BY <2>3, <2>4, NumbersFrame DEF NumbersOK
<1>2. CASE UNCHANGED up
  BY <1>2, NumbersFrame DEF NumbersOK
<1>3. QED BY <1>1, <1>2 DEF Lose

-----------------------------------------------------------------------------
(* Every step.                                                             *)

LEMMA InitNumbers == Init => NumbersOK
<1> SUFFICES ASSUME Init PROVE NumbersOK
  OBVIOUS
<1>1. /\ hostScreen = <<>>
      /\ \A c \in Clients : up[c] = <<>>
  BY DEF Init, HostInit, TransportInit
<1>2. Range(<<>>) = {} /\ Rising(<<>>)
  BY DEF Range, Rising
<1>3. QED BY <1>1, <1>2 DEF NumbersOK

\* A step that sends no line and prints none.
LEMMA QuietNumbers ==
  ASSUME NumbersOK, UNCHANGED <<up, hostScreen, hostTyped, typed>>
  PROVE  NumbersOK'
BY NumbersFrame DEF NumbersOK

LEMMA NextNumbers == IInv /\ NumbersOK /\ [Next]_vars => NumbersOK'
<1> SUFFICES ASSUME IInv, NumbersOK, [Next]_vars PROVE NumbersOK'
  OBVIOUS
<1> USE DEF IInv
<1>1. CASE HostStep
  <2>1. UNCHANGED clientVars
    BY <1>1 DEF HostStep
  <2> USE DEF transportVars, hostVars, clientVars
  <2>2. CASE HostBeginState \/ HostSendsInput
    BY <2>1, <2>2, QuietNumbers DEF HostBeginState, HostSendsInput
  <2>3. CASE HostInput
    BY <2>1, <2>3, HostInputNumbers
  <2>4. CASE HostExit
    BY <2>1, <2>4, ResetAllPeersNumbers DEF HostExit
  <2>5. ASSUME NEW p \in PeerIDs, HostListener(p) PROVE NumbersOK'
    <3>1. CASE HostConnectEvent(p)
      BY <2>1, <3>1, QuietNumbers DEF HostConnectEvent
    <3>2. CASE HostDisconnectEvent(p) \/ HostAbandons(p)
      BY <2>1, <3>2, ResetPeerNumbers DEF HostDisconnectEvent, HostAbandons, Abandon
    <3>3. QED BY <2>1, <2>5, <3>1, <3>2, HostReceivesUsernameNumbers,
                 HostReceivesMessageNumbers DEF HostListener
  <2>6. ASSUME NEW p \in PeerIDs, NEW c \in Clients, HostAccepts(p, c) PROVE NumbersOK'
    BY <2>1, <2>6, QuietNumbers DEF HostAccepts, Accept
  <2>7. QED BY <1>1, <2>2, <2>3, <2>4, <2>5, <2>6 DEF HostStep, HostUser
<1>2. CASE ClientStep
  <2>1. UNCHANGED hostVars
    BY <1>2 DEF ClientStep
  <2> USE DEF hostVars
  <2>2. ASSUME NEW c \in Clients, ClientUser(c) PROVE NumbersOK'
    <3>1. CASE ClientBeginState(c) \/ ClientExit(c)
      BY <2>1, <3>1, QuietNumbers DEF ClientBeginState, ClientExit
    <3>2. QED BY <2>1, <2>2, <3>1, ClientInputNumbers DEF ClientUser
  <2>3. ASSUME NEW c \in Clients, ClientListener(c) PROVE NumbersOK'
    <3>1. CASE ClientConnectEvent(c)
      BY <2>1, <3>1, ClientConnectEventNumbers
    <3>2. CASE ~ClientConnectEvent(c)
      <4>1. UNCHANGED <<up, typed>>
        BY <2>3, <3>2 DEF ClientListener, ClientReceivesAck, ClientReceivesAddUser,
           ClientReceivesRemoveUser, ClientReceivesMessage, ClientDisconnectEvent, Crash
      <4>2. QED BY <2>1, <4>1, QuietNumbers
    <3>3. QED BY <3>1, <3>2
  <2>4. QED BY <1>2, <2>2, <2>3 DEF ClientStep
<1>3. CASE NetworkStep
  BY <1>3, LoseNumbers DEF NetworkStep
<1>4. CASE UNCHANGED vars
  BY <1>4, QuietNumbers DEF vars, transportVars, hostVars, clientVars
<1>5. QED BY <1>1, <1>2, <1>3, <1>4 DEF Next

\* The host has printed the lines of every user in the order in which they were
\* typed, and finds the rest in that order (ENetWrapper::send,
\* ChatState_Host::receiveMessageEvent).
THEOREM LinesKeepTheirNumbers == Spec => []NumbersOK
<1>1. IInv /\ IInv' /\ NumbersOK /\ [Next]_vars => NumbersOK'
  BY NextNumbers
<1>2. QED BY <1>1, InitNumbers, InvariantHolds, PTL DEF Spec

-----------------------------------------------------------------------------
(* The room.                                                               *)

\* What the room sees of a step that changes none of this is nothing.
LEMMA RoomStutters ==
  ASSUME UNCHANGED <<hostState, hostUsers, hostScreen>>
  PROVE  UNCHANGED Room!vars
BY DEF Room!vars, Listed

\* Nobody is listed twice: the client behind a peer is listed under the id of
\* that peer, if at all.
LEMMA ListedOnce ==
  ASSUME IInv, hostState = "hosting", NEW p \in PeerIDs, owner[p] \in Clients,
         NEW u \in UserIDs, hostUsers[u] = owner[p]
  PROVE  u = toUserID(p)
<1>1. u # 0
  BY ProtocolAssumption DEF IInv, RosterOK
<1>2. u - 1 \in PeerIDs /\ toUserID(u - 1) = u
  <2>1. MaxConn \in Nat /\ u \in 1 .. MaxConn
    BY <1>1, ProtocolAssumption DEF UserIDs
  <2>2. u - 1 \in PeerIDs
    BY <2>1 DEF PeerIDs
  <2>3. QED BY <2>1, <2>2, UserIDOfPeer
<1>3. owner[u - 1] = owner[p]
  BY <1>2, ProtocolAssumption DEF IInv, RosterOK
<1>4. u - 1 = p
  BY <1>2, <1>3, ProtocolAssumption DEF IInv, PeersOK
<1>5. QED BY <1>2, <1>4

\* The room opens with the host in it.
LEMMA HostBeginStateRoom ==
  ASSUME IInv, HostBeginState
  PROVE  Room!Open
<1>1. /\ hostState = "prompt" /\ hostState' = "hosting"
      /\ hostScreen' = hostScreen
      /\ hostUsers' = Insert(EmptyMap, 0, HostName)
  BY DEF IInv, RosterOK, HostBeginState
<1>2. 0 \in UserIDs
  BY ProtocolAssumption DEF UserIDs
<1>3. \A u \in UserIDs : hostUsers'[u] = IF u = 0 THEN HostName ELSE NoUser
  BY <1>1, <1>2 DEF Insert, EmptyMap
<1>4. HostName # NoUser
  BY ProtocolAssumption
<1>5. Listed' = {HostName}
  BY <1>2, <1>3, <1>4 DEF Listed
<1>6. QED BY <1>1, <1>5 DEF Room!Open

\* It closes when the host leaves.
LEMMA HostExitRoom ==
  ASSUME HostExit
  PROVE  Room!Close
BY DEF HostExit, Room!Close

\* A client joins when the host lists it.
LEMMA HostReceivesUsernameRoom ==
  ASSUME IInv, NEW p \in PeerIDs, HostReceivesUsername(p)
  PROVE  Room!Next \/ UNCHANGED Room!vars
<1> DEFINE c == owner[p]
           u == toUserID(p)
<1>1. HostHas(p, "USERNAME") /\ hostState = "hosting" /\ hostState' = "hosting"
      /\ UNCHANGED hostScreen
  BY DEF HostReceivesUsername
<1>2. c \in Clients
  BY <1>1, PeerHasClient DEF IInv, HostHas
<1>3. Head(up[c]).username = c
  BY <1>1, <1>2, HostTakes DEF IInv, AuthorsOK
<1>4. hostUsers' = Insert(hostUsers, u, c)
  BY <1>3 DEF HostReceivesUsername
<1>5. /\ hostUsers \in UserMap /\ u \in UserIDs
      /\ hostUsers[u] \in {NoUser, c}
      /\ c # NoUser /\ c \in Names
  BY <1>1, <1>2, UserIDOfPeer, ProtocolAssumption
     DEF IInv, TypeOK, HostTypeOK, RosterOK, Names
<1> HIDE DEF c, u
<1>6. CASE hostUsers[u] = c
  <2>1. hostUsers' = hostUsers
    BY <1>4, <1>5, <1>6 DEF Insert, UserMap
  <2>2. QED BY <1>1, <2>1, RoomStutters
<1>7. CASE hostUsers[u] = NoUser
  <2>1. \A v \in UserIDs : hostUsers'[v] = IF v = u THEN c ELSE hostUsers[v]
    BY <1>4, <1>5, <1>7 DEF Insert, UserMap
  <2>2. Listed' = Listed \cup {c}
    BY <1>5, <1>7, <2>1 DEF Listed
  <2>3. c \notin Listed
    BY <1>1, <1>2, <1>5, <1>7, ListedOnce DEF Listed, c, u
  <2>4. Room!Join(c)
    BY <1>1, <2>2, <2>3 DEF Room!Join
  <2>5. QED BY <1>5, <2>4 DEF Room!Next
<1>8. QED BY <1>5, <1>6, <1>7

\* It leaves when the host drops it.
LEMMA HostDisconnectEventRoom ==
  ASSUME IInv, NEW p \in PeerIDs, HostDisconnectEvent(p)
  PROVE  Room!Next \/ UNCHANGED Room!vars
<1> DEFINE c == owner[p]
           u == toUserID(p)
<1>1. /\ peerState[p] = "connected" /\ hostState = "hosting" /\ hostState' = "hosting"
      /\ UNCHANGED hostScreen
  BY DEF HostDisconnectEvent
<1>2. c \in Clients
  BY <1>1, PeerHasClient DEF IInv
<1>3. /\ hostUsers \in UserMap /\ u \in UserIDs
      /\ hostUsers[u] \in {NoUser, c}
      /\ c # NoUser /\ c \in Names /\ c # HostName
  BY <1>1, <1>2, UserIDOfPeer, ProtocolAssumption
     DEF IInv, TypeOK, HostTypeOK, RosterOK, Names
<1>4. CASE ~HasUser(hostUsers, u)
  BY <1>1, <1>4, RoomStutters DEF HostDisconnectEvent
<1>5. CASE HasUser(hostUsers, u)
  <2>1. hostUsers[u] = c /\ hostUsers' = Erase(hostUsers, u)
    BY <1>3, <1>5 DEF HasUser, HostDisconnectEvent
  <2>2. \A v \in UserIDs : hostUsers'[v] = IF v = u THEN NoUser ELSE hostUsers[v]
    BY <1>3, <2>1 DEF Erase, UserMap
  <2>3. \A v \in UserIDs : hostUsers[v] = c => v = u
    BY <1>1, <1>2, ListedOnce
  <2> HIDE DEF c, u
  <2>4. Listed' = Listed \ {c} /\ c \in Listed
    BY <1>3, <2>1, <2>2, <2>3 DEF Listed
  <2>5. Room!Leave(c)
    BY <1>1, <1>3, <2>4 DEF Room!Leave
  <2>6. QED BY <1>3, <2>5 DEF Room!Next
<1>6. QED BY <1>4, <1>5

\* A line of the host's user.
LEMMA HostInputRoom ==
  ASSUME IInv, NumbersOK, HostInput
  PROVE  Room!Next
<1> DEFINE n == hostTyped + 1
<1>1. /\ hostTyped \in 0 .. HostLines /\ hostTyped < HostLines
      /\ HostLines \in Nat /\ ClientLines \in Nat
  BY ProtocolAssumption DEF IInv, TypeOK, HostTypeOK, HostInput
<1>2. n \in 1 .. HostLines + ClientLines
  BY <1>1
<1>3. hostState = "hosting" /\ hostUsers[0] = HostName
  BY DEF HostInput, IInv, RosterOK
<1>4. HostName \in Listed
  <2>1. 0 \in UserIDs
    BY ProtocolAssumption DEF UserIDs
  <2>2. HostName # NoUser
    BY ProtocolAssumption
  <2>3. QED BY <1>3, <2>1, <2>2 DEF Listed
<1>5. \A i \in DOMAIN hostScreen :
        hostScreen[i].line.by = HostName => hostScreen[i].line.n < n
  <2>1. \A e \in Entries : e.line.n \in Nat
    BY ProtocolAssumption DEF Entries, Lines
  <2>2. \A i \in DOMAIN hostScreen : hostScreen[i] \in Entries
    BY DEF IInv, TypeOK, HostTypeOK
  <2>3. \A i \in DOMAIN hostScreen :
          hostScreen[i].line.by = HostName => hostScreen[i].line.n <= hostTyped
    BY DEF NumbersOK, Range
  <2>4. QED BY <1>1, <2>1, <2>2, <2>3
<1>6. /\ hostScreen' = Append(hostScreen,
                              [name |-> HostName, line |-> [by |-> HostName, n |-> n]])
      /\ UNCHANGED <<hostState, hostUsers>>
  BY <1>3 DEF HostInput
<1> HIDE DEF n
<1>7. Room!Post(HostName, n)
  BY <1>3, <1>4, <1>5, <1>6 DEF Room!Post, Listed
<1>8. QED BY <1>2, <1>7 DEF Room!Next, Names

\* A line of a client's user, printed by the host.
LEMMA HostReceivesMessageRoom ==
  ASSUME IInv, IInv', NumbersOK, NEW p \in PeerIDs, HostReceivesMessage(p)
  PROVE  Room!Next
<1> DEFINE c == owner[p]
           pkg == Head(up[c])
           n == pkg.line.n
<1>1. HostHas(p, "MESSAGE") /\ hostState = "hosting" /\ c \in Clients
  BY PeerHasClient DEF HostReceivesMessage, HostHas, IInv
<1>2. pkg \in UpPackages /\ pkg \in Range(up[c]) /\ pkg.type = "MESSAGE"
  BY <1>1, HostTakes DEF IInv
<1>3. pkg.user = toUserID(p) /\ pkg.line.by = c
  <2>1. PICK a \in 1 .. MaxConn : Identity(c, a)
    BY <1>1 DEF IInv, IdentityOK
  <2>2. QED BY <1>1, <1>2, <2>1 DEF Identity, IInv, AuthorsOK
<1>4. hostUsers[pkg.user] = c /\ pkg.user \in UserIDs /\ c # NoUser
  BY <1>1, <1>2, <1>3, UserIDOfPeer, ProtocolAssumption DEF IInv, ListedOK, ListedByHost
<1>5. pkg.line \in Lines
  BY <1>2, PackageFields
<1>6. pkg.line = [by |-> c, n |-> n] /\ n \in 1 .. HostLines + ClientLines
  BY <1>3, <1>5, ProtocolAssumption DEF Lines
<1>7. /\ hostScreen' = Append(hostScreen, [name |-> c, line |-> [by |-> c, n |-> n]])
      /\ UNCHANGED <<hostState, hostUsers>>
  BY <1>4, <1>6 DEF HostReceivesMessage, HasUser
<1>8. \A i \in DOMAIN hostScreen :
        hostScreen[i].line.by = c => hostScreen[i].line.n < n
  BY <1>1, <1>2 DEF NumbersOK, Newer, Range
<1>9. c \in Listed
  BY <1>4 DEF Listed
<1> HIDE DEF c, n, pkg
<1>10. Room!Post(c, n)
  BY <1>1, <1>7, <1>8, <1>9 DEF Room!Post, Listed
<1>11. QED BY <1>1, <1>6, <1>10 DEF Room!Next, Names

\* Every step of a session is an operation of the room, or none.
LEMMA RoomStep ==
  ASSUME IInv, IInv', NumbersOK, [Next]_vars
  PROVE  [Room!Next]_Room!vars
<1>1. CASE HostStep
  <2>1. CASE HostBeginState \/ HostExit
    BY <2>1, HostBeginStateRoom, HostExitRoom DEF Room!Next
  <2>2. CASE HostInput
    BY <2>2, HostInputRoom
  <2>3. CASE HostSendsInput
    BY <2>3, RoomStutters DEF HostSendsInput
  <2>4. ASSUME NEW p \in PeerIDs, HostListener(p) PROVE Room!Next \/ UNCHANGED Room!vars
    <3>1. CASE HostConnectEvent(p) \/ HostAbandons(p)
      BY <3>1, RoomStutters DEF HostConnectEvent, HostAbandons, hostVars
    <3>2. QED BY <2>4, <3>1, HostReceivesUsernameRoom, HostReceivesMessageRoom,
                 HostDisconnectEventRoom DEF HostListener
  <2>5. ASSUME NEW p \in PeerIDs, NEW c \in Clients, HostAccepts(p, c)
        PROVE  UNCHANGED Room!vars
    BY <2>5, RoomStutters DEF HostAccepts, hostVars
  <2>6. QED BY <1>1, <2>1, <2>2, <2>3, <2>4, <2>5 DEF HostStep, HostUser
<1>2. CASE ClientStep \/ NetworkStep \/ UNCHANGED vars
  BY <1>2, RoomStutters DEF ClientStep, NetworkStep, vars, hostVars
<1>3. QED BY <1>1, <1>2 DEF Next

\* The session implements the room: whoever the host lists has joined and not
\* left, and lines are printed once, under the name of their author, in the order
\* in which that author typed them (ChatState_Host).
THEOREM SessionImplementsRoom == Spec => ImplementsRoom
<1>1. Init => Room!Init
  BY DEF Init, HostInit, Room!Init
<1>2. IInv /\ IInv' /\ NumbersOK /\ [Next]_vars => [Room!Next]_Room!vars
  BY RoomStep
<1>3. QED BY <1>1, <1>2, InvariantHolds, LinesKeepTheirNumbers, PTL
             DEF Spec, ImplementsRoom, Room!Spec
=============================================================================
