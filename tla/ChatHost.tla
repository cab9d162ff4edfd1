------------------------------ MODULE ChatHost ------------------------------
(***************************************************************************)
(* The process that chose "Host": ChatApp with ChatState_Host as its state *)
(* (Chat/chat/chat_app.cpp, Chat/chat/state/chat_state_host.h).            *)
(*                                                                         *)
(* The listener thread runs the event handlers one after the other, each   *)
(* as one step; the thread that polls for input prints a line in one step  *)
(* and broadcasts it in a second, so a handler may run in between.         *)
(***************************************************************************)
EXTENDS ENetTransport

VARIABLES
  hostState,   \* the State object behind m_state, or how the process ended
  hostUsers,   \* m_users
  hostPeers,   \* m_peers of the ENetWrapper: the peer ids it can send to
  hostScreen,  \* lines of chat printed in the window
  hostSending, \* printed by handleInput and not yet broadcast
  hostTyped    \* bound of the model: lines typed so far

hostVars ==
  <<hostState, hostUsers, hostPeers, hostScreen, hostSending, hostTyped>>

HostStates == {"prompt", "hosting", "quit", "crashed"}

HostInit ==
  /\ hostState = "prompt"
  /\ hostUsers = EmptyMap
  /\ hostPeers = {}
  /\ hostScreen = <<>>
  /\ hostSending = <<>>
  /\ hostTyped = 0

HostTypeOK ==
  /\ hostState \in HostStates
  /\ hostUsers \in UserMap
  /\ hostPeers \subseteq PeerIDs
  /\ hostScreen \in Seq(Entries)
  /\ hostSending \in {<<>>} \cup {<<l>> : l \in Lines}
  /\ hostTyped \in 0 .. HostLines

-----------------------------------------------------------------------------
(* The thread that polls for input.                                        *)

\* beginState: the host lists itself as user 0, then opens its port.
HostBeginState ==
  /\ hostState = "prompt"
  /\ hostState' = "hosting"
  /\ hostUsers' = Insert(hostUsers, 0, HostName)
  /\ UNCHANGED <<hostPeers, hostScreen, hostSending, hostTyped, transportVars>>

\* handleInput with a line of chat: print it under the host's own name ...
HostInput ==
  /\ hostState = "hosting"
  /\ hostSending = <<>>
  /\ hostTyped < HostLines
  /\ hostTyped' = hostTyped + 1
  /\ LET line == [by |-> HostName, n |-> hostTyped + 1]
     IN /\ hostScreen' = Append(hostScreen, [name |-> hostUsers[0], line |-> line])
        /\ hostSending' = <<line>>
  /\ UNCHANGED <<hostState, hostUsers, hostPeers, transportVars>>

\* ... then broadcast it as user 0.
HostSendsInput ==
  /\ hostState = "hosting"
  /\ hostSending # <<>>
  /\ down' = Broadcast(down, MessagePackage(0, Head(hostSending)))
  /\ hostSending' = <<>>
  /\ UNCHANGED <<hostState, hostUsers, hostPeers, hostScreen, hostTyped,
                 owner, peerState, link, up>>

\* handleInput with "/exit": QuitState disconnects every peer, its handlers
\* ignore all later events, and the process ends.
HostExit ==
  /\ hostState = "hosting"
  /\ hostSending = <<>>
  /\ hostState' = "quit"
  /\ ResetAllPeers
  /\ UNCHANGED <<hostUsers, hostPeers, hostScreen, hostSending, hostTyped, link, down>>

-----------------------------------------------------------------------------
(* The listener thread.                                                    *)

\* A request to connect finds the port open.
HostAccepts(p, c) ==
  /\ hostState = "hosting"
  /\ Accept(p, c)
  /\ UNCHANGED hostVars

\* CONNECT: the client has acknowledged. The handler of the state waits for
\* the name, so only the wrapper records the peer.
HostConnectEvent(p) ==
  /\ hostState = "hosting"
  /\ peerState[p] = "acknowledging"
  /\ link[owner[p]] # "connecting"
  /\ peerState' = [peerState EXCEPT ![p] = "connected"]
  /\ hostPeers' = hostPeers \cup {p}
  /\ UNCHANGED <<hostState, hostUsers, hostScreen, hostSending, hostTyped, owner, link, up, down>>

\* Mistake: the user id is used as a peer id.
SendDown_UserID(queues, user_id, pkg) ==
  IF user_id \in hostPeers /\ owner[user_id] # NoUser /\ Reachable(owner[user_id])
  THEN [queues EXCEPT ![owner[user_id]] = Append(@, pkg)]
  ELSE queues

\* Wrapper::send: only to a peer that it has recorded.
SendDown(queues, user_id, pkg) ==
  LET p == toPeerID(user_id)
  IN IF p \in hostPeers /\ owner[p] # NoUser /\ Reachable(owner[p])
     THEN [queues EXCEPT ![owner[p]] = Append(@, pkg)]
     ELSE queues

\* RECEIVE of a USERNAME: list the user, answer with the whole list, and
\* tell every connected peer (the new one too).
HostReceivesUsername(p) ==
  /\ hostState = "hosting"
  /\ HostHas(p, "USERNAME")
  /\ HostConsumes(p)
  /\ LET name == Head(up[owner[p]]).username
         u    == toUserID(p)
     IN /\ hostUsers' = Insert(hostUsers, u, name)
        /\ down' = Broadcast(SendDown(down, u, UsernameAckPackage(u, hostUsers')),
                             AddUserPackage(u, name))
  /\ UNCHANGED <<hostState, hostPeers, hostScreen, hostSending, hostTyped,
                 owner, peerState, link>>

\* Mistake: the line is printed and not passed on.
HostReceivesMessage_NotRelayed(p) ==
  /\ hostState = "hosting"
  /\ HostHas(p, "MESSAGE")
  /\ LET pkg == Head(up[owner[p]])
     IN hostScreen' = Append(hostScreen,
                        [name |-> hostUsers[pkg.user], line |-> pkg.line])
  /\ HostConsumes(p)
  /\ UNCHANGED <<hostState, hostUsers, hostPeers, hostSending, hostTyped,
                 owner, peerState, link, down>>

\* RECEIVE of a MESSAGE: print it under the name of the user it comes from
\* and pass it on to every connected peer (the sender too). The handler
\* dereferences the user it looked up, whether or not there is one.
HostReceivesMessage(p) ==
  /\ hostState = "hosting"
  /\ HostHas(p, "MESSAGE")
  /\ LET pkg == Head(up[owner[p]])
     IN IF HasUser(hostUsers, pkg.user)
        THEN /\ hostScreen' = Append(hostScreen,
                                [name |-> hostUsers[pkg.user], line |-> pkg.line])
             /\ down' = Broadcast(down, pkg)
             /\ HostConsumes(p)
             /\ UNCHANGED <<hostState, owner, peerState>>
        ELSE /\ hostState' = "crashed"
             /\ ResetAllPeers
             /\ UNCHANGED <<hostScreen, down>>
  /\ UNCHANGED <<hostUsers, hostPeers, hostSending, hostTyped, link>>

\* The other end of a connection is gone for good.
PeerGone(p) ==
  /\ peerState[p] = "connected"
  /\ link[owner[p]] = "closed"

\* To those that stay: the user is gone.
Farewell(p) ==
  [c \in Clients |-> IF c # owner[p] /\ Reachable(c)
                     THEN Append(down[c], RemoveUserPackage(toUserID(p)))
                     ELSE down[c]]

\* Mistakes: the others are not told; they are told of a user who never was.
HostDisconnectEvent_Silent(p) ==
  /\ hostState = "hosting"
  /\ peerState[p] = "connected"
  /\ PeerGone(p) \/ Timeouts
  /\ ResetPeer(p)
  /\ hostUsers' = Erase(hostUsers, toUserID(p))
  /\ hostPeers' = hostPeers \ {p}
  /\ UNCHANGED <<hostState, hostScreen, hostSending, hostTyped, link, down>>

HostDisconnectEvent_Unchecked(p) ==
  /\ hostState = "hosting"
  /\ peerState[p] = "connected"
  /\ PeerGone(p) \/ Timeouts
  /\ ResetPeer(p)
  /\ down' = Farewell(p)
  /\ hostUsers' = Erase(hostUsers, toUserID(p))
  /\ hostPeers' = hostPeers \ {p}
  /\ UNCHANGED <<hostState, hostScreen, hostSending, hostTyped, link>>

\* DISCONNECT: tell the peers that remain, then forget the user. A peer that
\* never gave its name is only reported. The wrapper forgets the peer last.
HostDisconnectEvent(p) ==
  /\ hostState = "hosting"
  /\ peerState[p] = "connected"
  /\ PeerGone(p) \/ Timeouts
  /\ ResetPeer(p)
  /\ IF HasUser(hostUsers, toUserID(p))
     THEN /\ down' = Farewell(p)
          /\ hostUsers' = Erase(hostUsers, toUserID(p))
     ELSE UNCHANGED <<down, hostUsers>>
  /\ hostPeers' = hostPeers \ {p}
  /\ UNCHANGED <<hostState, hostScreen, hostSending, hostTyped, link>>

\* A connection that was never established is given up.
HostAbandons(p) ==
  /\ Abandon(p)
  /\ UNCHANGED hostVars
=============================================================================
