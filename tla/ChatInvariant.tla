--------------------------- MODULE ChatInvariant ---------------------------
(***************************************************************************)
(* Inductive invariants of ChatSession. From IInv the host's safety and    *)
(* the identity of the clients follow. It holds whatever the network loses *)
(* and whatever times out. The invariants further down rest on it.         *)
(*                                                                         *)
(* The argument for IInv: a client uses one peer for as long as any        *)
(* package of its connection exists, so one user id belongs to it for good *)
(* (IdentityOK). The id reaches the client only after the host has listed  *)
(* it, and the host forgets it only together with the peer, which discards *)
(* what is in flight (ListedOK). So a message of a client always finds its *)
(* author in the host's list.                                              *)
(***************************************************************************)
EXTENDS ChatSession

\* Peers of the host have at most one client each and the other way round; a
\* peer is in use exactly while it is not disconnected; there are none
\* unless the host is up.
PeersOK ==
  /\ \A p, q \in PeerIDs : owner[p] = owner[q] /\ owner[p] # NoUser => p = q
  /\ \A p \in PeerIDs : owner[p] = NoUser <=> peerState[p] = "disconnected"
  /\ hostState # "hosting" => \A p \in PeerIDs : owner[p] = NoUser
  /\ \A p \in PeerIDs : peerState[p] = "connected" => link[owner[p]] # "connecting"
  /\ \A p \in PeerIDs : owner[p] # NoUser => link[owner[p]] # "none"

\* The host lists itself as user 0, and clients under the id of their peer
\* once it is connected.
RosterOK ==
  /\ hostState = "prompt" => hostUsers = EmptyMap
  /\ hostState = "hosting" =>
       /\ hostUsers[0] = HostName
       /\ \A p \in PeerIDs :
            /\ hostUsers[toUserID(p)] \in {NoUser, owner[p]}
            /\ peerState[p] # "connected" => hostUsers[toUserID(p)] = NoUser

\* Nothing is in flight and nothing is known before the connection is open.
FreshOK ==
  \A c \in Clients :
    /\ clientState[c] = "prompt" => link[c] = "none"
    /\ link[c] \in {"none", "connecting"} =>
         /\ up[c] = <<>>
         /\ down[c] = <<>>
         /\ users[c] = EmptyMap
         /\ ~Registered(c)

\* What a client sends speaks in its own name.
AuthorsOK ==
  \A c \in Clients : \A pkg \in Range(up[c]) :
    /\ pkg.type = "USERNAME" => pkg.username = c
    /\ pkg.type = "MESSAGE" => pkg.line.by = c

\* a is the user id of c, as far as anything in the session can tell.
Identity(c, a) ==
  /\ \A p \in PeerIDs : owner[p] = c => toUserID(p) = a
  /\ users[c][a] \in {NoUser, c}
  /\ Registered(c) => localUser[c] = a /\ users[c][a] = c
  /\ \A pkg \in Range(up[c]) : pkg.type = "MESSAGE" => pkg.user = a
  /\ \A pkg \in Range(down[c]) :
       /\ pkg.type = "USERNAME_ACK" => pkg.assigned = a /\ pkg.users[a] = c
       /\ pkg.type = "STATE_ADD_USER" /\ pkg.user = a => pkg.name = c
       /\ pkg.type = "STATE_REM_USER" => pkg.user # a

IdentityOK == \A c \in Clients : \E a \in 1 .. MaxConn : Identity(c, a)

\* The host lists the client behind each peer it uses.
ListedByHost(c) == \A p \in PeerIDs : owner[p] = c => hostUsers[toUserID(p)] = c

\* A client that knows its id, or is about to, or has used it, is listed.
ListedOK ==
  \A c \in Clients :
    \/ ListedByHost(c)
    \/ /\ ~Registered(c)
       /\ \A pkg \in Range(up[c]) : pkg.type # "MESSAGE"
       /\ \A pkg \in Range(down[c]) : pkg.type # "USERNAME_ACK"

IInv ==
  /\ TypeOK
  /\ PeersOK
  /\ RosterOK
  /\ FreshOK
  /\ AuthorsOK
  /\ IdentityOK
  /\ ListedOK
  /\ HostFindsSender
  /\ HostNamesAuthors

-----------------------------------------------------------------------------
(* Why the session implements the room: the lines of a user are numbered   *)
(* as they are typed, and the host finds them in that order.               *)

\* The messages among these packages bear rising numbers.
Rising(packages) ==
  \A i, j \in DOMAIN packages :
    i < j /\ packages[i].type = "MESSAGE" /\ packages[j].type = "MESSAGE" =>
      packages[i].line.n < packages[j].line.n

\* Lines numbered higher than any that the window shows by this user.
Newer(pkg, x) ==
  \A e \in Range(hostScreen) : e.line.by = x => e.line.n < pkg.line.n

\* What a client has sent and the host has not seen comes after what the host
\* has printed, in order; nothing is numbered higher than what was typed.
NumbersOK ==
  /\ \A e \in Range(hostScreen) : e.line.by = HostName => e.line.n <= hostTyped
  /\ \A c \in Clients :
       /\ \A e \in Range(hostScreen) : e.line.by = c => e.line.n <= typed[c]
       /\ Rising(up[c])
       /\ \A pkg \in Range(up[c]) :
            pkg.type = "MESSAGE" => pkg.line.n <= typed[c] /\ Newer(pkg, c)

-----------------------------------------------------------------------------
(* Why the lists of the clients follow the host's, when no packet is lost: *)
(* what a client knows, once it has handled the packages on their way to   *)
(* it, is what the host knew when it sent the last of them.                *)

Removes(pkg, u) == pkg.type = "STATE_REM_USER" /\ pkg.user = u

Adds(pkg, u, x) ==
  \/ pkg.type = "STATE_ADD_USER" /\ pkg.user = u /\ pkg.name = x
  \/ pkg.type = "USERNAME_ACK" /\ pkg.users[u] = x

\* Whoever starts with this list and handles the first k of these packages
\* has been told that u is x, and not since that u is gone.
Knows(list, packages, k, u, x) ==
  \E i \in 0 .. k :
    /\ IF i = 0 THEN list[u] = x ELSE Adds(packages[i], u, x)
    /\ \A j \in i + 1 .. k : ~Removes(packages[j], u)

\* He has got an acknowledgement, now or already before.
Told(already, packages, k) ==
  already \/ \E i \in 1 .. k : packages[i].type = "USERNAME_ACK"

\* The packages fit the list and one another: nobody is told two names of one
\* user, a message comes under the name of its author, and whoever got the
\* acknowledgement knows the users of which the packages speak.
QueueOK(list, packages, already) ==
  /\ \A k \in 0 .. Len(packages), u \in UserIDs, x \in Names :
       Knows(list, packages, k, u, x) =>
         \A y \in Names : Knows(list, packages, k, u, y) => x = y
  /\ \A k \in DOMAIN packages :
       LET pkg == packages[k]
           Known(x) == Knows(list, packages, k - 1, pkg.user, x)
       IN /\ pkg.type = "MESSAGE" => \A x \in Names : Known(x) => x = pkg.line.by
          /\ pkg.type \in {"MESSAGE", "STATE_REM_USER"} /\ Told(already, packages, k - 1)
               => \E x \in Names : Known(x)

\* In the end he knows nothing but what is in the host's list; and all of it,
\* if he got the acknowledgement.
EndsWith(list, packages, already, map) ==
  \A u \in UserIDs, x \in Names :
    /\ Knows(list, packages, Len(packages), u, x) => map[u] = x
    /\ map[u] = x /\ Told(already, packages, Len(packages)) =>
         Knows(list, packages, Len(packages), u, x)

\* So it is with every client that the host's broadcasts reach. One that they do
\* not reach yet knows nothing; one that has crashed never got that far.
ClientOK(c) ==
  /\ QueueOK(users[c], down[c], Registered(c))
  /\ Reachable(c) => EndsWith(users[c], down[c], Registered(c), hostUsers)
  /\ (\E p \in PeerIDs : owner[p] = c /\ peerState[p] = "acknowledging") =>
       users[c] = EmptyMap /\ down[c] = <<>>
  /\ clientState[c] = "crashed" => link[c] = "closed" /\ ~Registered(c)
  /\ \A e \in Range(screen[c]) : e.name = e.line.by

\* When no packet is lost, what every client is going to know once it has
\* handled its queue is what the host lists, and no handler of a client misses
\* the user it looks up (receiveUsernameAckEvent, receiveAddUserEvent,
\* receiveRemoveUserEvent).
ReplicaOK ==
  ~Lossy =>
    /\ \A c \in Clients : ClientOK(c)
    /\ hostSending # <<>> => Head(hostSending).by = HostName

-----------------------------------------------------------------------------
(* Why all windows agree on the order of lines: whoever gets a line at all *)
(* gets it once, and after all that the host has broadcast before.         *)

Says(packages, line) ==
  \E k \in DOMAIN packages : packages[k].type = "MESSAGE" /\ packages[k].line = line

\* A window with these lines and these packages on their way shows the line, or
\* is going to.
Heard(entries, packages, line) == Shown(entries, line) \/ Says(packages, line)

\* It shows l above m.
InOrder(entries, packages, l, m) ==
  \/ \E i, j \in DOMAIN entries : i < j /\ entries[i].line = l /\ entries[j].line = m
  \/ Shown(entries, l) /\ Says(packages, m)
  \/ \E i, j \in DOMAIN packages :
       /\ i < j
       /\ packages[i].type = "MESSAGE" /\ packages[i].line = l
       /\ packages[j].type = "MESSAGE" /\ packages[j].line = m

\* Of the lines of others, that is; nothing is on its way to the host's window
\* that the host broadcasts.
QueueOf(x) == IF x = HostName THEN <<>> ELSE down[x]

Hears(x, line) == line.by # x /\ Heard(ScreenOf(x), QueueOf(x), line)

Before(x, l, m) == l.by # x /\ m.by # x /\ InOrder(ScreenOf(x), QueueOf(x), l, m)

Printed == {e.line : e \in Range(hostScreen)}

\* No two windows disagree, nor does one with itself. What the clients hear the
\* host has printed; what it has yet to broadcast they do not hear.
HeardInOrder ==
  /\ \A l, m \in Printed : \A x \in Names :
       Before(x, l, m) => \A y \in Names : ~Before(y, m, l)
  /\ \A c \in Clients : \A l \in Lines : Hears(c, l) => l \in Printed
  /\ hostSending # <<>> =>
       LET l == Head(hostSending)
       IN /\ l.by = HostName /\ l \in Printed
          /\ \A c \in Clients : ~Hears(c, l)

\* The copy of its own line that comes back to a client bears its user id.
EchoOK ==
  \A c \in Clients : \A pkg \in Range(up[c]) \cup Range(down[c]) :
    pkg.type = "MESSAGE" /\ pkg.line.by = c =>
      Registered(c) /\ pkg.user = localUser[c]

\* Each window shows the lines of its own user as they were typed.
OwnLinesOK ==
  /\ \A x \in Names : \A i, j \in DOMAIN ScreenOf(x) :
       i < j /\ ScreenOf(x)[i].line.by = x /\ ScreenOf(x)[j].line.by = x =>
         ScreenOf(x)[i].line.n < ScreenOf(x)[j].line.n
  /\ \A c \in Clients : \A e \in Range(screen[c]) :
       e.line.by = c => e.line.n <= typed[c]

\* All windows, with what is on its way to them, have the lines of others in one
\* order, and the lines of their own user as typed (receiveMessageEvent and
\* handleInput of both States).
OrderOK == HeardInOrder /\ EchoOK /\ OwnLinesOK
=============================================================================
