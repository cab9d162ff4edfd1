----------------------------- MODULE ChatClient -----------------------------
(***************************************************************************)
(* The processes that chose "Join": ChatApp with ChatState_Client as its   *)
(* state (Chat/chat/chat_app.cpp, Chat/chat/state/chat_state_client.h).    *)
(*                                                                         *)
(* A handler that uses a UserInfo it did not find ends the process. So     *)
(* does one that goes through m_localuser_ptr before the acknowledgement   *)
(* has set it, when the build left something other than null there: the    *)
(* constructor of ChatApp does not initialise the member.                  *)
(***************************************************************************)
EXTENDS ENetTransport

CONSTANTS
  Wild,       \* an m_localuser_ptr that points nowhere
  StartPtrs   \* what the build may leave in m_localuser_ptr

ASSUME ClientAssumption ==
  /\ Wild \notin UserIDs \cup {NoUser}
  /\ StartPtrs \subseteq {NoUser, Wild}

VARIABLES
  clientState,  \* the State object behind m_state, or how the process ended
  users,        \* m_users of each client
  localUser,    \* user id m_localuser_ptr points to, NoUser for null
  screen,       \* lines of chat printed in the window
  typed         \* bound of the model: lines typed so far

clientVars == <<clientState, users, localUser, screen, typed>>

ClientStates == {"prompt", "client", "quit", "crashed"}

ClientInit ==
  /\ clientState = [c \in Clients |-> "prompt"]
  /\ users = [c \in Clients |-> EmptyMap]
  /\ localUser \in [Clients -> StartPtrs]
  /\ screen = [c \in Clients |-> <<>>]
  /\ typed = [c \in Clients |-> 0]

ClientTypeOK ==
  /\ clientState \in [Clients -> ClientStates]
  /\ users \in [Clients -> UserMap]
  /\ localUser \in [Clients -> UserIDs \cup {NoUser, Wild}]
  /\ screen \in [Clients -> Seq(Entries)]
  /\ typed \in [Clients -> 0 .. ClientLines]

\* The acknowledgement has arrived: the client knows its own user.
Registered(c) == localUser[c] \in UserIDs

-----------------------------------------------------------------------------
(* The process ends, by QuitState or by a fault. Either way its end of the *)
(* connection closes.                                                      *)

Quit(c) ==
  /\ clientState' = [clientState EXCEPT ![c] = "quit"]
  /\ CloseLink(c)

Crash(c) ==
  /\ clientState' = [clientState EXCEPT ![c] = "crashed"]
  /\ CloseLink(c)
  /\ UNCHANGED <<users, localUser, screen, typed>>

-----------------------------------------------------------------------------
(* The thread that polls for input.                                        *)

\* beginState: create the ENet host and start connecting.
ClientBeginState(c) ==
  /\ clientState[c] = "prompt"
  /\ clientState' = [clientState EXCEPT ![c] = "client"]
  /\ link' = [link EXCEPT ![c] = "connecting"]
  /\ UNCHANGED <<users, localUser, screen, typed, owner, peerState, up, down>>

\* handleInput with a line of chat. Without a local user the line is dropped
\* and nothing changes, which is no step of this model.
ClientInput(c) ==
  /\ clientState[c] = "client"
  /\ c \in Talkers /\ typed[c] < ClientLines
  /\ UNCHANGED <<owner, peerState>>
  /\ \/ /\ Registered(c)
        /\ typed' = [typed EXCEPT ![c] = @ + 1]
        /\ LET line == [by |-> c, n |-> typed[c] + 1]
           IN /\ screen' = [screen EXCEPT ![c] = Append(@,
                              [name |-> users[c][localUser[c]], line |-> line])]
              /\ SendUp(c, MessagePackage(localUser[c], line))
        /\ UNCHANGED <<clientState, users, localUser, link, down>>
     \/ /\ localUser[c] = Wild
        /\ Crash(c)
        /\ UNCHANGED up

\* handleInput with "/exit".
ClientExit(c) ==
  /\ c \in Leavers
  /\ clientState[c] = "client"
  /\ Quit(c)
  /\ UNCHANGED <<users, localUser, screen, typed, owner, peerState, up>>

-----------------------------------------------------------------------------
(* The listener thread.                                                    *)

\* CONNECT: the client gives its name at once.
ClientConnectEvent(c) ==
  /\ link[c] = "connecting"
  /\ HasPeer(c)
  /\ link' = [link EXCEPT ![c] = "connected"]
  /\ up' = [up EXCEPT ![c] = Append(@, UsernamePackage(c))]
  /\ UNCHANGED <<owner, peerState, down, clientVars>>

\* DISCONNECT: the host closed the connection, never answered, or ENet lost
\* touch with it. The handler quits the application.
ClientDisconnectEvent(c) ==
  /\ link[c] \in {"connecting", "connected"}
  /\ ~HasPeer(c) \/ Timeouts
  /\ Quit(c)
  /\ UNCHANGED <<users, localUser, screen, typed, owner, peerState, up>>

\* USERNAME_ACK: take over the list, in the order of the user ids; the entry
\* with the assigned id becomes the local user. Every addUser redraws the
\* list, which goes through m_localuser_ptr.
ClientReceivesAck(c) ==
  /\ ClientHas(c, "USERNAME_ACK")
  /\ LET pkg    == Head(down[c])
         listed == {u \in UserIDs : HasUser(pkg.users, u)}
     IN IF localUser[c] = Wild /\ \E u \in listed : u < pkg.assigned
        THEN Crash(c)
        ELSE /\ users' = [users EXCEPT ![c] = InsertAll(@, pkg.users)]
             /\ localUser' = [localUser EXCEPT ![c] =
                                IF pkg.assigned \in listed THEN pkg.assigned ELSE @]
             /\ ClientConsumes(c)
             /\ UNCHANGED <<clientState, screen, typed>>
  /\ UNCHANGED <<owner, peerState, up>>

\* STATE_ADD_USER: ignored when the id is taken.
ClientReceivesAddUser(c) ==
  /\ ClientHas(c, "STATE_ADD_USER")
  /\ LET pkg == Head(down[c])
     IN IF ~HasUser(users[c], pkg.user) /\ localUser[c] = Wild
        THEN Crash(c)
        ELSE /\ users' = [users EXCEPT ![c] = Insert(@, pkg.user, pkg.name)]
             /\ ClientConsumes(c)
             /\ UNCHANGED <<clientState, localUser, screen, typed>>
  /\ UNCHANGED <<owner, peerState, up>>

\* STATE_REM_USER: the handler dereferences the user it looked up, and the
\* list is redrawn after the erase: the entry must not be the local user's.
ClientReceivesRemoveUser(c) ==
  /\ ClientHas(c, "STATE_REM_USER")
  /\ LET u == Head(down[c]).user
     IN IF ~HasUser(users[c], u) \/ localUser[c] \in {Wild, u}
        THEN Crash(c)
        ELSE /\ users' = [users EXCEPT ![c] = Erase(@, u)]
             /\ ClientConsumes(c)
             /\ UNCHANGED <<clientState, localUser, screen, typed>>
  /\ UNCHANGED <<owner, peerState, up>>

\* Mistake: the copy of the local user's own line is printed as well.
ClientReceivesMessage_Echoes(c) ==
  /\ ClientHas(c, "MESSAGE")
  /\ HasUser(users[c], Head(down[c]).user)
  /\ screen' = [screen EXCEPT ![c] = Append(@,
                  [name |-> users[c][Head(down[c]).user], line |-> Head(down[c]).line])]
  /\ ClientConsumes(c)
  /\ UNCHANGED <<clientState, users, localUser, typed, owner, peerState, up>>

\* MESSAGE: printed under the name of the user it comes from, unless that is
\* the local user, whose line was printed when it was typed. A user that is
\* not found is not the local user, and is dereferenced.
ClientReceivesMessage(c) ==
  /\ ClientHas(c, "MESSAGE")
  /\ LET pkg == Head(down[c])
     IN IF ~HasUser(users[c], pkg.user) \/ localUser[c] = Wild
        THEN Crash(c)
        ELSE /\ screen' = IF pkg.user = localUser[c] THEN screen
                          ELSE [screen EXCEPT ![c] = Append(@,
                                  [name |-> users[c][pkg.user], line |-> pkg.line])]
             /\ ClientConsumes(c)
             /\ UNCHANGED <<clientState, users, localUser, typed>>
  /\ UNCHANGED <<owner, peerState, up>>
=============================================================================
