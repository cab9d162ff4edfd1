---------------------------- MODULE ChatSession -----------------------------
(***************************************************************************)
(* A chat session: one host, the clients that join it, and the transport   *)
(* between them.                                                           *)
(***************************************************************************)
EXTENDS ChatHost, ChatClient

vars == <<transportVars, hostVars, clientVars>>

Init ==
  /\ TransportInit
  /\ HostInit
  /\ ClientInit

\* The handlers of the host's listener thread for one peer.
HostListener(p) ==
  \/ HostConnectEvent(p)
  \/ HostReceivesUsername(p)
  \/ HostReceivesMessage(p)
  \/ HostDisconnectEvent(p)
  \/ HostAbandons(p)

\* The handlers of a client's listener thread.
ClientListener(c) ==
  \/ ClientConnectEvent(c)
  \/ ClientReceivesAck(c)
  \/ ClientReceivesAddUser(c)
  \/ ClientReceivesRemoveUser(c)
  \/ ClientReceivesMessage(c)
  \/ ClientDisconnectEvent(c)

\* What the user of the host, and of a client, types.
HostUser == HostBeginState \/ HostInput \/ HostSendsInput \/ HostExit

ClientUser(c) == ClientBeginState(c) \/ ClientInput(c) \/ ClientExit(c)

HostStep ==
  /\ \/ HostUser
     \/ \E p \in PeerIDs : HostListener(p)
     \/ \E p \in PeerIDs, c \in Clients : HostAccepts(p, c)
  /\ UNCHANGED clientVars

ClientStep ==
  /\ \E c \in Clients : ClientUser(c) \/ ClientListener(c)
  /\ UNCHANGED hostVars

NetworkStep ==
  /\ \E c \in Clients : Lose(c)
  /\ UNCHANGED <<hostVars, clientVars>>

Next == HostStep \/ ClientStep \/ NetworkStep

Spec == Init /\ [][Next]_vars

(***************************************************************************)
(* Fairness. Every listener thread polls ENet each millisecond and ENet    *)
(* serves its peers in turn, so an event that stays available is handled.  *)
(* A connection whose other end is gone fails its pings and is reported;   *)
(* a timeout between two live processes is never promised. Nobody has to   *)
(* type anything, and nothing has to get lost.                             *)
(***************************************************************************)
HostListens(p) ==
  /\ \/ HostConnectEvent(p)
     \/ HostReceivesUsername(p)
     \/ HostReceivesMessage(p)
     \/ PeerGone(p) /\ HostDisconnectEvent(p)
     \/ HostAbandons(p)
  /\ UNCHANGED clientVars

ClientListens(c) ==
  /\ \/ ClientConnectEvent(c)
     \/ ClientReceivesAck(c)
     \/ ClientReceivesAddUser(c)
     \/ ClientReceivesRemoveUser(c)
     \/ ClientReceivesMessage(c)
     \/ ~HasPeer(c) /\ ClientDisconnectEvent(c)
  /\ UNCHANGED hostVars

Fairness ==
  /\ \A p \in PeerIDs : WF_vars(HostListens(p))
  /\ WF_vars(HostSendsInput /\ UNCHANGED clientVars)
  /\ \A c \in Clients : WF_vars(ClientListens(c))

FairSpec == Spec /\ Fairness

-----------------------------------------------------------------------------
(* The lists of users.                                                     *)

TypeOK ==
  /\ TransportTypeOK
  /\ HostTypeOK
  /\ ClientTypeOK

\* The host never handles a message from a user it does not list: its
\* handler would dereference null (ChatState_Host::receiveMessageEvent).
HostFindsSender == hostState # "crashed"

\* Peer ids are reused; whoever the host lists under a user id is the client
\* that is behind that peer now, and nobody is listed under a free one.
RosterMatchesPeers ==
  hostState = "hosting" =>
    /\ hostUsers[0] = HostName
    /\ \A p \in PeerIDs : hostUsers[toUserID(p)] \in {NoUser, owner[p]}

\* A client that took over an acknowledgement goes by the user id the host
\* knows it by, and lists itself under it.
LocalUserMatchesPeer ==
  \A c \in Clients : Registered(c) =>
    /\ users[c][localUser[c]] = c
    /\ \A p \in PeerIDs : owner[p] = c => localUser[c] = toUserID(p)

\* What one package does to the list of the client that handles it.
ApplyPackage(map, pkg) ==
  CASE pkg.type = "USERNAME_ACK"   -> InsertAll(map, pkg.users)
    [] pkg.type = "STATE_ADD_USER" -> Insert(map, pkg.user, pkg.name)
    [] pkg.type = "STATE_REM_USER" -> Erase(map, pkg.user)
    [] pkg.type = "MESSAGE"        -> map

\* When no packet is lost, the list of a registered client is the list of
\* the host but for the packages still on their way: once it has handled
\* them, the two are equal.
ReplicaCatchesUp ==
  ~Lossy => \A c \in Clients :
    Registered(c) /\ Reachable(c) =>
      FoldLeft(ApplyPackage, users[c], down[c]) = hostUsers

\* When no packet is lost, a client that took over the acknowledgement is
\* never told about a user it does not know.
RegisteredNeverFaults ==
  ~Lossy => \A c \in Clients : clientState[c] = "crashed" => ~Registered(c)

\* No client ever handles a package about a user it does not know.
ClientFindsUser == \A c \in Clients : clientState[c] # "crashed"

-----------------------------------------------------------------------------
(* The lines of chat.                                                      *)

Shown(entries, line) == \E i \in DOMAIN entries : entries[i].line = line

\* The host prints every line under the name of the user who typed it.
HostNamesAuthors == \A e \in Range(hostScreen) : e.name = e.line.by

\* So does every client.
ClientsNameAuthors ==
  \A c \in Clients : \A e \in Range(screen[c]) : e.name = e.line.by

\* What the window of the process with this nickname shows, and where it
\* shows the lines of the others.
ScreenOf(x) == IF x = HostName THEN hostScreen ELSE screen[x]

Others(x) == {i \in DOMAIN ScreenOf(x) : ScreenOf(x)[i].line.by # x}

\* Nobody sees a line twice: a client prints its own when it is typed and
\* ignores the copy the host sends back.
LinesShownOnce ==
  \A x \in Names : \A i, j \in DOMAIN ScreenOf(x) :
    ScreenOf(x)[i].line = ScreenOf(x)[j].line => i = j

\* Any two windows, the host's or a client's, show the lines that come from
\* others in the same order.
ScreensAgree ==
  \A x, y \in Names :
    \A i, j \in Others(x) : \A k, m \in Others(y) :
      /\ ScreenOf(x)[i].line = ScreenOf(y)[k].line
      /\ ScreenOf(x)[j].line = ScreenOf(y)[m].line
      => (i < j <=> k < m)

-----------------------------------------------------------------------------
(* The room the users share. Its members are the users the host lists and  *)
(* its transcript is the host's window.                                    *)

Listed == {hostUsers[u] : u \in UserIDs} \ {NoUser}

Room == INSTANCE ChatRoom WITH
  Users <- Names,
  Host <- HostName,
  Numbers <- 1 .. HostLines + ClientLines,
  open <- hostState = "hosting",
  members <- IF hostState = "hosting" THEN Listed ELSE {},
  transcript <- hostScreen

\* The session implements the room: every step of the host's handlers is an
\* operation of the room or changes nothing its users can see there.
ImplementsRoom == Room!Spec

-----------------------------------------------------------------------------
(* Progress.                                                               *)

Gone(c) == clientState[c] \in {"quit", "crashed"}

Hosting == hostState = "hosting"

\* A client that starts to connect gets its user id and the list, or gives
\* up: it is not left waiting for an answer.
JoinCompletes ==
  \A c \in Clients : clientState[c] = "client" ~> Registered(c) \/ Gone(c)

\* The host drops a client that is gone from its list.
GoneUsersDropped ==
  \A c \in Clients :
    Gone(c) ~> ~Hosting \/ \A u \in UserIDs : hostUsers[u] # c

\* So does every registered client, when no packet is lost.
GoneUsersDroppedByAll ==
  \A c, d \in Clients :
    Gone(c) ~> ~Hosting \/ Gone(d) \/ ~Registered(d)
                 \/ \A u \in UserIDs : users[d][u] # c

\* A line typed by c reaches the window of d if d takes part in the session
\* when c types it, and both stay.
LinesArrive ==
  \A c, d \in Clients : \A n \in 1 .. ClientLines :
    LET l == [by |-> c, n |-> n]
    IN (Shown(screen[c], l) /\ ~Shown(hostScreen, l) /\ Registered(d) /\ Reachable(d))
         ~> (Shown(screen[d], l) \/ Gone(c) \/ Gone(d) \/ ~Hosting)
=============================================================================
