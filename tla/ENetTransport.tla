--------------------------- MODULE ENetTransport ----------------------------
(***************************************************************************)
(* ENet as this program uses it: one ENetHost that accepts up to MaxConn   *)
(* peers, and one ENetHost with a single peer in every client. The library *)
(* is external; what is modelled of it is the connection state on both     *)
(* ends and the packets in flight, as ENetWrapper creates and uses them    *)
(* (Chat/network/enet_wrapper.h).                                          *)
(*                                                                         *)
(* enet_packet_create gets no flags, so a packet is unreliable and         *)
(* sequenced: it arrives once and in order, or not at all. A client        *)
(* process connects once in its life, so the packets of a connection are   *)
(* kept under the name of the client.                                      *)
(***************************************************************************)
EXTENDS ChatProtocol, SequencesExt

CONSTANTS
  Lossy,    \* may the network drop a packet?
  Timeouts  \* may a connection between two live processes time out?

ASSUME TransportAssumption == Lossy \in BOOLEAN /\ Timeouts \in BOOLEAN

VARIABLES
  owner,      \* the client behind each peer of the host, or NoUser
  peerState,  \* ENetPeerState of each peer of the host
  link,       \* state of the single peer of each client
  up,         \* packages in flight from each client to the host
  down        \* packages in flight from the host to each client

transportVars == <<owner, peerState, link, up, down>>

PeerStates == {"disconnected", "acknowledging", "connected"}
LinkStates == {"none", "connecting", "connected", "closed"}

TransportInit ==
  /\ owner = [p \in PeerIDs |-> NoUser]
  /\ peerState = [p \in PeerIDs |-> "disconnected"]
  /\ link = [c \in Clients |-> "none"]
  /\ up = [c \in Clients |-> <<>>]
  /\ down = [c \in Clients |-> <<>>]

TransportTypeOK ==
  /\ owner \in [PeerIDs -> Clients \cup {NoUser}]
  /\ peerState \in [PeerIDs -> PeerStates]
  /\ link \in [Clients -> LinkStates]
  /\ up \in [Clients -> Seq(UpPackages)]
  /\ down \in [Clients -> Seq(DownPackages)]

-----------------------------------------------------------------------------

\* The client has a peer of the host, in whatever state.
HasPeer(c) == \E p \in PeerIDs : owner[p] = c

\* A broadcast reaches it: the host's peer is connected. (A client that
\* closed its end no longer takes part; what is sent to it goes nowhere.)
Reachable(c) ==
  /\ link[c] = "connected"
  /\ \E p \in PeerIDs : owner[p] = c /\ peerState[p] = "connected"

\* Mistake: lines of chat are not sequenced with one another.
Broadcast_Unsequenced(queues, pkg) ==
  [c \in Clients |->
     IF ~Reachable(c) THEN queues[c]
     ELSE IF queues[c] # <<>> /\ pkg.type = "MESSAGE" /\ Last(queues[c]).type = "MESSAGE"
     THEN Front(queues[c]) \o <<pkg, Last(queues[c])>>
     ELSE Append(queues[c], pkg)]

\* enet_host_broadcast: one copy of the packet to every connected peer. The
\* queues are an argument because a handler may send before it broadcasts.
Broadcast(queues, pkg) ==
  [c \in Clients |-> IF Reachable(c) THEN Append(queues[c], pkg) ELSE queues[c]]

\* Mistake: packets to the host are not sequenced.
SendUp_Unsequenced(c, pkg) ==
  up' = [up EXCEPT ![c] = IF link[c] = "connected" /\ HasPeer(c)
                          THEN <<pkg>> \o @ ELSE @]

\* enet_peer_send from a client: ignored unless the connection is open. The
\* host ignores packets of a connection it no longer has.
SendUp(c, pkg) ==
  up' = [up EXCEPT ![c] = IF link[c] = "connected" /\ HasPeer(c)
                          THEN Append(@, pkg) ELSE @]

\* The next packet the host's listener dispatches from a connected peer, if
\* it is of this type; and its removal from the queue.
HostHas(p, type) ==
  /\ peerState[p] = "connected"
  /\ up[owner[p]] # <<>>
  /\ Head(up[owner[p]]).type = type

HostConsumes(p) == up' = [up EXCEPT ![owner[p]] = Tail(@)]

\* The same at a client.
ClientHas(c, type) ==
  /\ link[c] = "connected"
  /\ down[c] # <<>>
  /\ Head(down[c]).type = type

ClientConsumes(c) ==
  /\ down' = [down EXCEPT ![c] = Tail(@)]
  /\ UNCHANGED link

\* ENet resets a peer of the host: the slot is free and whatever was in
\* flight to the host is discarded.
ResetPeer(p) ==
  /\ owner' = [owner EXCEPT ![p] = NoUser]
  /\ peerState' = [peerState EXCEPT ![p] = "disconnected"]
  /\ up' = IF owner[p] = NoUser THEN up ELSE [up EXCEPT ![owner[p]] = <<>>]

\* The host's end of every connection goes away at once.
ResetAllPeers ==
  /\ owner' = [p \in PeerIDs |-> NoUser]
  /\ peerState' = [p \in PeerIDs |-> "disconnected"]
  /\ up' = [c \in Clients |-> <<>>]

\* The client's end of the connection goes away.
CloseLink(c) ==
  /\ link' = [link EXCEPT ![c] = "closed"]
  /\ down' = [down EXCEPT ![c] = <<>>]

-----------------------------------------------------------------------------
(* Steps of the library and of the network.                                *)

\* The host answers a connection request if it has a peer to spare.
Accept(p, c) ==
  /\ link[c] = "connecting"
  /\ ~HasPeer(c)
  /\ owner[p] = NoUser
  /\ owner' = [owner EXCEPT ![p] = c]
  /\ peerState' = [peerState EXCEPT ![p] = "acknowledging"]
  /\ UNCHANGED <<link, up, down>>

\* A connection that was never established is given up without an event.
Abandon(p) ==
  /\ peerState[p] = "acknowledging"
  /\ link[owner[p]] = "closed" \/ Timeouts
  /\ ResetPeer(p)
  /\ UNCHANGED <<link, down>>

\* A packet is lost on its way to the host or to a client.
Lose(c) ==
  /\ Lossy
  /\ \/ /\ \E i \in DOMAIN up[c] : up' = [up EXCEPT ![c] = RemoveAt(@, i)]
        /\ UNCHANGED down
     \/ /\ \E i \in DOMAIN down[c] : down' = [down EXCEPT ![c] = RemoveAt(@, i)]
        /\ UNCHANGED up
  /\ UNCHANGED <<owner, peerState, link>>
=============================================================================
