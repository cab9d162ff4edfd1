---------------------------- MODULE ChatProtocol ----------------------------
(***************************************************************************)
(* The vocabulary host and clients share: user and peer identifiers, the   *)
(* map of users each process keeps, and the five packages they exchange    *)
(* (Chat/network/protocol.h, Chat/chat/userinfo.h).                        *)
(*                                                                         *)
(* A nickname is abstracted to the process whose user entered it: the code *)
(* stores and displays names and never compares two of them.               *)
(*                                                                         *)
(* Here and in the modules that extend this one, an operator called        *)
(* X_Something is X with a mistake a programmer could make. No             *)
(* specification uses it; it is put in the place of X to see that the      *)
(* properties notice.                                                      *)
(***************************************************************************)
EXTENDS Naturals, Sequences

CONSTANTS
  Clients,      \* the runs of the program that choose "Join"
  HostName,     \* the nickname of the one run that chooses "Host"
  NoUser,       \* stands for "no such entry" and for a null UserInfo pointer
  MaxConn,      \* max_connections given to enet_host_create
  HostLines,    \* bound of the model: lines the host's user types
  Talkers,      \* bound of the model: the clients whose users type lines
  ClientLines,  \* bound of the model: lines each of them types
  Leavers       \* bound of the model: the clients whose users type "/exit"

\* ENet addresses at most ENET_PROTOCOL_MAXIMUM_PEER_ID (0xFFF) peers.
ASSUME ProtocolAssumption ==
  /\ MaxConn \in 1..4095
  /\ HostLines \in Nat /\ ClientLines \in Nat
  /\ Talkers \subseteq Clients /\ Leavers \subseteq Clients
  /\ HostName \notin Clients
  /\ NoUser \notin Clients \cup {HostName} \cup 0 .. MaxConn

-----------------------------------------------------------------------------
(* Identifiers. peer_id_t and user_id_t are both 16 bits wide.             *)

IDSpace == 65536

PeerIDs == 0 .. MaxConn - 1
UserIDs == 0 .. MaxConn

toUserID(peer_id) == (peer_id + 1) % IDSpace

toPeerID(user_id) == IF user_id = 0 THEN 0 ELSE user_id - 1

-----------------------------------------------------------------------------
(* UserMap, a std::map from user id to UserInfo.                           *)

Names == Clients \cup {HostName}

UserMap == [UserIDs -> Names \cup {NoUser}]

EmptyMap == [u \in UserIDs |-> NoUser]

\* containsUser
HasUser(map, u) == map[u] # NoUser

\* std::map::insert leaves an entry that exists as it is.
Insert(map, u, name) ==
  [map EXCEPT ![u] = IF @ = NoUser THEN name ELSE @]

\* Insert every entry of another map, one after the other.
InsertAll(map, other) ==
  [u \in UserIDs |-> IF map[u] = NoUser THEN other[u] ELSE map[u]]

\* Mistakes: the entry stays; the id of the peer is taken for that of the user.
Erase_Keeps(map, u) == map

Erase_PeerID(map, u) == [map EXCEPT ![toPeerID(u)] = NoUser]

Erase(map, u) == [map EXCEPT ![u] = NoUser]

-----------------------------------------------------------------------------
(* Packages. A line of chat carries who typed it and its number, so that   *)
(* two lines are never equal and a property can name the author of one.    *)

Lines ==
  [by : {HostName}, n : 1 .. HostLines] \cup [by : Clients, n : 1 .. ClientLines]

UsernamePackage(name) == [type |-> "USERNAME", username |-> name]

\* Mistakes: the id of the peer is sent; the id of the user is converted again.
UsernameAckPackage_PeerID(u, map) ==
  [type |-> "USERNAME_ACK", assigned |-> toPeerID(u), users |-> map]

UsernameAckPackage_Converted(u, map) ==
  [type |-> "USERNAME_ACK", assigned |-> toUserID(u), users |-> map]

UsernameAckPackage(u, map) ==
  [type |-> "USERNAME_ACK", assigned |-> u, users |-> map]

AddUserPackage(u, name) == [type |-> "STATE_ADD_USER", user |-> u, name |-> name]

RemoveUserPackage_PeerID(u) == [type |-> "STATE_REM_USER", user |-> toPeerID(u)]

RemoveUserPackage(u) == [type |-> "STATE_REM_USER", user |-> u]

MessagePackage_PeerID(u, line) ==
  [type |-> "MESSAGE", user |-> toPeerID(u), line |-> line]

MessagePackage(u, line) == [type |-> "MESSAGE", user |-> u, line |-> line]

\* [client -> server]
MessagePackages == [type : {"MESSAGE"}, user : UserIDs, line : Lines]

UpPackages == [type : {"USERNAME"}, username : Names] \cup MessagePackages

\* [server -> client]
DownPackages ==
       [type : {"USERNAME_ACK"}, assigned : UserIDs, users : UserMap]
  \cup [type : {"STATE_ADD_USER"}, user : UserIDs, name : Names]
  \cup [type : {"STATE_REM_USER"}, user : UserIDs]
  \cup MessagePackages

\* What one call of ChatWindow::print(username, msg) puts in the window.
Entries == [name : Names, line : Lines]
=============================================================================
