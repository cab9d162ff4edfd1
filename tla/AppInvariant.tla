---------------------------- MODULE AppInvariant -----------------------------
(***************************************************************************)
(* Why the threads of a process get along as far as they do: an inductive  *)
(* invariant of AppThreads, from which its safety properties are proved in *)
(* AppThreadsProofs.                                                       *)
(***************************************************************************)
EXTENDS AppThreads

\* Labels within goToState at which the State it was given is yet to come.
Leaving == {"end", "clearing", "delete", "assign"}

\* Labels at which a thread talks to ENet, or is about to.
Sending == {"say", "looking", "found", "send"}

\* Each thread keeps to its own part of the program, and asks for its own
\* States.
MainLabels ==
  {"start", "end", "assign", "begin", "menu", "join_ui", "stop", "join_listener",
   "destroy", "delete_state", "delete_window", "ended"}

UILabels == Leaving \cup Sending \cup
  {"poll", "input", "handle", "done", "begin", "prompt", "welcome", "open",
   "set_enet", "dial", "disconnecting", "quit_flag", "farewell"}

ListenerLabels == Leaving \cup
  {"none", "service", "serving", "insert", "dispatch", "handler", "reply", "remove",
   "pause", "erase", "done", "begin", "disconnecting", "quit_flag", "farewell"}

KeepToTheirPart ==
  /\ pc["main"] \in MainLabels
  /\ pc["ui"] \in UILabels
  /\ pc["listener"] \in ListenerLabels
  /\ next["main"] \in {"null", "conn"}
  /\ next["ui"] \in {"null", "name", "chat", "quit_ui"}
  /\ next["listener"] \in {"null", "quit_listener"}

\* Until main has begun the menu nothing can be typed and nobody else does
\* anything; from then on m_state points to a State.
Starting == pc["main"] \in {"start", "end", "assign", "begin"}

MenuComesFirst ==
  /\ Starting => /\ pc["ui"] \in {"poll", "input"} /\ pc["listener"] = "none"
                 /\ ~inputBox /\ ~quitApp /\ enetHost = "none"
                 /\ next["ui"] = "null" /\ next["listener"] = "null"
  /\ pc["main"] \in {"start", "end"} => m_state \in {"null", "wild"}
  /\ pc["main"] = "begin" => m_state = "conn"
  /\ pc["main"] # "start" => next["main"] = "conn"
  /\ ~Starting => m_state \in States

\* The thread that polls goes from the menu to the name and from there to the
\* chat, or quits. It meets the State it assigned, unless the listener has put
\* a QuitState in its place.
UIGoesForward ==
  /\ pc["ui"] \in Leaving =>
       \/ next["ui"] = "name" /\ m_state = "conn"
       \/ next["ui"] = "chat" /\ m_state = "name"
       \/ next["ui"] = "quit_ui"
  /\ pc["ui"] = "begin" =>
       \/ m_state = next["ui"] /\ m_state # "conn"
       \/ m_state \in QuitStates /\ pc["listener"] # "none"
  /\ pc["ui"] \in {"welcome", "open", "set_enet", "dial"} =>
       \/ m_state = "chat"
       \/ m_state \in QuitStates /\ pc["listener"] # "none"
  /\ pc["ui"] \in {"welcome", "open"} => m_state = "chat"

\* The listener starts with the chat, when its State is in place, and leaves it
\* only for a QuitState.
ListenerComesLast ==
  /\ m_state \in {"null", "wild", "conn", "name"} => pc["listener"] = "none"
  /\ pc["ui"] \in {"welcome", "open"} => pc["listener"] = "none"
  /\ pc["ui"] = "begin" /\ m_state = "chat" => pc["listener"] = "none"
  /\ pc["listener"] \in Leaving => next["listener"] = "quit_listener"
  /\ pc["listener"] = "begin" => m_state \in QuitStates

\* ENet's host exists when anybody is about to use it; main destroys it when
\* the others have ended.
HostInPlace ==
  /\ pc["listener"] # "none" => enetHost # "none"
  /\ m_enet => enetHost # "none"
  /\ pc["main"] \in {"stop", "join_listener", "destroy"} => m_enet
  /\ enetHost # "none" => m_enet \/ pc["ui"] = "set_enet"
  /\ enetHost # "none" =>
       \/ m_state = "chat" /\ pc["ui"] \notin {"begin", "welcome", "open"}
       \/ m_state \in QuitStates
  /\ m_state = "chat" => enetHost # "none" \/ pc["ui"] \in {"begin", "welcome", "open"}
  /\ pc["ui"] \in Sending \cup {"set_enet", "dial", "disconnecting"} => enetHost # "none"
  /\ pc["listener"] = "disconnecting" => enetHost # "none"
  /\ pc["main"] \in {"stop", "join_listener", "destroy", "delete_state",
                     "delete_window", "ended"} => pc["ui"] = "done"
  /\ pc["main"] \in {"destroy", "delete_state", "delete_window", "ended"} =>
       pc["listener"] \in {"none", "done"}
  /\ pc["main"] \in {"delete_state", "delete_window", "ended"} => enetHost # "alive"
  /\ enetHost = "destroyed" => pc["main"] \in {"delete_state", "delete_window", "ended"}

\* Only the listener keeps the mutex from one step to the next.
MutexOK == mutex = IF pc["listener"] = "serving" THEN "listener" ELSE "free"

\* Two threads never both replace a State: what is replaced has been deleted
\* by the one that does, and the other finds it so. So a State that goToState
\* was given is current, or has been deleted.
NoStateIsLost ==
  /\ \A t \in Threads : pc[t] = "assign" => m_state \in deleted \cup {"null"}
  /\ \A t \in Threads : pc[t] \notin Leaving => next[t] \in deleted \cup {m_state, "null"}
  /\ \A t, u \in Threads : pc[t] = "assign" /\ pc[u] = "assign" => t = u
  /\ m_state = "null" => pc["main"] \in {"start", "end", "assign"}
  /\ pc["main"] \in {"delete_window", "ended"} => m_state \in deleted

NobodyQuits == \A t \in Threads : next[t] \notin QuitStates

\* Once somebody quits this remains so.
QuitIsFinal ==
  /\ next["ui"] = "quit_ui" => pc["ui"] \in Leaving \/ m_state \in QuitStates
  /\ m_state \in QuitStates => ~NobodyQuits
  /\ quitApp => m_state \in QuitStates
  /\ \A t \in {"ui", "listener"} :
       pc[t] \in {"disconnecting", "quit_flag", "farewell"} => m_state \in QuitStates
  /\ pc["ui"] = "done" => quitApp

\* Before, a State is deleted by the thread that polls, which then replaces it,
\* and nobody goes through any but the current one.
Gone == IF pc["ui"] = "assign" THEN {m_state} ELSE {}

CalmOK ==
  /\ NobodyQuits =>
       /\ Starting => deleted = {}
       /\ m_state = "conn" => deleted \subseteq Gone
       /\ m_state = "name" => deleted \subseteq {"conn"} \cup Gone
       /\ m_state = "chat" => deleted \subseteq {"conn", "name"}
  /\ pc["ui"] \in {"welcome", "say"} => this["ui"] = "chat"
  /\ pc["listener"] \in {"handler", "reply", "remove", "pause"} => this["listener"] = "chat"

\* A client's entry for its host: its life ends with the handler that quits.
PeerOK ==
  /\ pc["ui"] \in {"looking", "found"} => ~asHost
  /\ pc["ui"] \in Sending /\ ~asHost => localUser
  /\ ~asHost =>
       /\ localUser => m_peers # "none"
       /\ pc["listener"] = "insert" => m_peers = "none"
       /\ pc["listener"] \in {"dispatch", "handler"} /\ event = "traffic" => m_peers = "known"
       /\ pc["listener"] = "reply" => event = "connect"
       /\ pc["listener"] # "remove"
       /\ pc["listener"] = "erase" \/ m_peers = "gone" => ~NobodyQuits

\* A client serves events only when its wrapper is in place.
EventsFindENet ==
  ~asHost /\ pc["listener"] \in {"insert", "dispatch", "handler", "reply"} => m_enet

\* The inductive invariant: what each thread is doing agrees with the State, the
\* ENetHost and the peers it finds (ChatApp::goToState, ENetWrapper).
ThreadsInv ==
  /\ TypeOK
  /\ KeepToTheirPart
  /\ MenuComesFirst
  /\ UIGoesForward
  /\ ListenerComesLast
  /\ HostInPlace
  /\ MutexOK
  /\ NoStateIsLost
  /\ QuitIsFinal
  /\ CalmOK
  /\ PeerOK
  /\ EventsFindENet
  /\ CalmUntilQuit /\ PeersCalmUntilQuit /\ HostOutlivesItsUse /\ ClientFindsENet
=============================================================================
