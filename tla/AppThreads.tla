----------------------------- MODULE AppThreads ------------------------------
(***************************************************************************)
(* The three threads of one process, and what they share: the State object *)
(* behind m_state, the ENetWrapper behind m_enet, and the two quit flags   *)
(* (Chat/chat/chat_app.cpp, Chat/network/enet_wrapper.h, Chat/chat/state). *)
(*                                                                         *)
(* "main" runs ChatApp::run and then the destructors, "ui" polls for input *)
(* and "listener" runs ENetWrapper::listen. Between any two accesses of    *)
(* what they share the others may run. A thread that goes on in a State    *)
(* which another has deleted may do anything: the model stops there.       *)
(*                                                                         *)
(* What the handlers do with users and packages is the matter of ChatHost  *)
(* and ChatClient; here they use their State object and, possibly, ENet.   *)
(***************************************************************************)
EXTENDS FiniteSets, Naturals

CONSTANT StartStates  \* what the build may leave in m_state: "null", "wild"

ASSUME ThreadsAssumption == StartStates \subseteq {"null", "wild"}

VARIABLES
  pc,        \* where each thread is
  this,      \* the State object whose member function it runs
  next,      \* the argument of its latest call of goToState
  m_state,   \* the current State
  deleted,   \* the State objects that have been deleted
  inputBox,  \* is there a window to type into?
  asHost,    \* ChatConfig::conn_as_host
  m_enet,    \* is m_enet set?
  enetHost,  \* the ENetHost of the wrapper
  mutex,     \* the thread that holds the wrapper's mutex, or "free"
  event,     \* what enet_host_service gave the listener
  m_peers,   \* the entry of a client's wrapper for its host: "none" yet,
             \* "known", or "gone" (only the listener uses those of a host)
  localUser, \* is m_localuser_ptr set?
  quitApp,   \* ChatApp::m_quit
  quitEnet,  \* ENetWrapper::m_quit
  fault      \* "none", or how the process came to grief

vars == <<pc, this, next, m_state, deleted, inputBox, asHost, m_enet,
          enetHost, mutex, event, m_peers, localUser, quitApp, quitEnet, fault>>

\* What the threads share besides pc, this and next.
stateVars == <<m_state, deleted, inputBox, asHost>>
peerVars  == <<m_peers, localUser>>
enetVars  == <<m_enet, enetHost, mutex, event, peerVars, quitEnet>>

Threads == {"main", "ui", "listener"}

\* Every State the process creates: one of each kind, and a QuitState by each
\* of the two threads that may quit.
QuitStates == {"quit_ui", "quit_listener"}
States == {"conn", "name", "chat"} \cup QuitStates

\* Labels at which a thread is about to go through this, or through m_state.
UsesThis ==
  {"menu", "welcome", "farewell", "say", "handler", "reply", "remove", "pause"}
UsesState == {"end", "delete", "begin", "handle", "dispatch", "delete_state"}

Labels == UsesThis \cup UsesState \cup
  {"start", "clearing", "assign", "prompt", "open", "set_enet", "dial",
   "disconnecting", "quit_flag",
   "join_ui", "stop", "join_listener", "destroy", "delete_window", "ended",
   "poll", "input", "looking", "found", "send", "done",
   "none", "service", "serving", "insert", "erase"}

Init ==
  /\ pc = [main |-> "start", ui |-> "poll", listener |-> "none"]
  /\ this = [t \in Threads |-> "null"]
  /\ next = [t \in Threads |-> "null"]
  /\ m_state \in StartStates
  /\ deleted = {}
  /\ inputBox = FALSE
  /\ asHost = FALSE
  /\ m_enet = FALSE
  /\ enetHost = "none"
  /\ mutex = "free"
  /\ event = "none"
  /\ m_peers = "none"
  /\ localUser = FALSE
  /\ quitApp = FALSE
  /\ quitEnet = FALSE
  /\ fault = "none"

-----------------------------------------------------------------------------
(* Locations, and how a thread leaves one.                                 *)

\* What a thread at t is about to go through has been deleted.
Dangling(t) ==
  \/ pc[t] \in UsesThis /\ this[t] \in deleted
  \/ pc[t] \in UsesState /\ m_state \in deleted

At(t, label) == fault = "none" /\ pc[t] = label /\ ~Dangling(t)

Goto(t, label) == pc' = [pc EXCEPT ![t] = label]

\* Where a thread goes on after goToState returns. The listener calls it only
\* to handle a disconnect.
Resume(t) == CASE t = "main" -> "join_ui" [] t = "ui" -> "poll" [] t = "listener" -> "erase"

Stop(why) ==
  /\ fault' = why
  /\ UNCHANGED <<pc, this, next, stateVars, enetVars, quitApp>>

\* A member function of a deleted State goes on, or a pointer to one is used.
UseDeleted(t) == fault = "none" /\ Dangling(t) /\ Stop("deleted")

\* ENet is entered only while its host exists.
ENetAlive == enetHost = "alive"

-----------------------------------------------------------------------------
(* ChatApp::goToState, by any thread.                                      *)

CallGoToState(t, state) ==
  /\ next' = [next EXCEPT ![t] = state]
  /\ Goto(t, "end")

\* Mistake: it is not checked whether there is a current State.
EndState_Unchecked(t) ==
  /\ At(t, "end")
  /\ Goto(t, "clearing")
  /\ UNCHANGED <<this, next, stateVars, enetVars, quitApp, fault>>

\* endState of the current State, if there is one. A wild pointer leads
\* nowhere.
EndState(t) ==
  /\ At(t, "end")
  /\ IF m_state = "null" THEN Goto(t, "assign") /\ UNCHANGED fault
     ELSE IF m_state = "wild" THEN fault' = "wild" /\ UNCHANGED pc
     ELSE Goto(t, "clearing") /\ UNCHANGED fault
  /\ UNCHANGED <<this, next, stateVars, enetVars, quitApp>>

\* It clears the windows, which creates the box to type into.
ClearAll(t) ==
  /\ At(t, "clearing")
  /\ inputBox' = TRUE
  /\ Goto(t, "delete")
  /\ UNCHANGED <<this, next, m_state, deleted, asHost, enetVars, quitApp, fault>>

DeleteState(t) ==
  /\ At(t, "delete")
  /\ deleted' = deleted \cup {m_state}
  /\ Goto(t, "assign")
  /\ UNCHANGED <<this, next, m_state, inputBox, asHost, enetVars, quitApp, fault>>

AssignState(t) ==
  /\ At(t, "assign")
  /\ m_state' = next[t]
  /\ Goto(t, "begin")
  /\ UNCHANGED <<this, next, deleted, inputBox, asHost, enetVars, quitApp, fault>>

\* beginState of what m_state points to now. The menu clears the windows
\* first and prints then; QuitState disconnects all peers if there are any.
BeginState(t) ==
  /\ At(t, "begin")
  /\ this' = [this EXCEPT ![t] = m_state]
  /\ inputBox' = (inputBox \/ m_state = "conn")
  /\ Goto(t, CASE m_state = "conn" -> "menu"
               [] m_state = "name" -> "prompt"
               [] m_state = "chat" -> "welcome"
               [] m_state \in QuitStates -> IF m_enet THEN "disconnecting" ELSE "quit_flag")
  /\ UNCHANGED <<next, m_state, deleted, asHost, enetVars, quitApp, fault>>

\* PromptState_Conn::beginState prints the menu, PromptState_Name::beginState
\* asks for a name ...
PrintPrompt(t) ==
  /\ At(t, "menu") \/ At(t, "prompt")
  /\ Goto(t, Resume(t))
  /\ UNCHANGED <<this, next, stateVars, enetVars, quitApp, fault>>

\* ... and that of a State that chats logs what it is about to do. A host
\* lists itself.
Welcome(t) ==
  /\ At(t, "welcome")
  /\ Goto(t, "open")
  /\ localUser' = (localUser \/ asHost)
  /\ UNCHANGED <<this, next, stateVars, m_enet, enetHost, mutex, event, m_peers,
                 quitApp, quitEnet, fault>>

\* ChatApp::host or ChatApp::connect: the constructor of the wrapper creates
\* the ENetHost and starts the listener. When ENet has none to give (the port
\* is taken), it throws, and nobody catches.
OpenENet(t) ==
  /\ At(t, "open")
  /\ \/ /\ enetHost' = "alive"
        /\ pc' = [pc EXCEPT ![t] = "set_enet", !["listener"] = "service"]
        /\ UNCHANGED fault
     \/ fault' = "threw" /\ UNCHANGED <<pc, enetHost>>
  /\ UNCHANGED <<this, next, stateVars, m_enet, mutex, event, peerVars, quitApp, quitEnet>>

\* ... only then is m_enet assigned ...
SetENet(t) ==
  /\ At(t, "set_enet")
  /\ m_enet' = TRUE
  /\ Goto(t, IF asHost THEN Resume(t) ELSE "dial")
  /\ UNCHANGED <<this, next, stateVars, enetHost, mutex, event, peerVars, quitApp, quitEnet, fault>>

\* ... and a client starts to connect, whichever overload of connect it calls.
Dial(t) ==
  /\ At(t, "dial")
  /\ mutex = "free"
  /\ Goto(t, Resume(t))
  /\ UNCHANGED <<this, next, stateVars, enetVars, quitApp, fault>>

\* ChatApp::quit in QuitState::beginState: disconnectAll takes no lock ...
DisconnectAll(t) ==
  /\ At(t, "disconnecting")
  /\ IF ENetAlive THEN Goto(t, "quit_flag") /\ UNCHANGED fault
                  ELSE fault' = "destroyed" /\ UNCHANGED pc
  /\ UNCHANGED <<this, next, stateVars, enetVars, quitApp>>

SetQuit(t) ==
  /\ At(t, "quit_flag")
  /\ quitApp' = TRUE
  /\ Goto(t, "farewell")
  /\ UNCHANGED <<this, next, stateVars, enetVars, fault>>

\* ... and "Press Enter to close window..." is printed.
PrintFarewell(t) ==
  /\ At(t, "farewell")
  /\ Goto(t, Resume(t))
  /\ UNCHANGED <<this, next, stateVars, enetVars, quitApp, fault>>

-----------------------------------------------------------------------------
(* The main thread: ChatApp::run, then ~ChatApp as main returns.           *)

Run ==
  /\ At("main", "start")
  /\ CallGoToState("main", "conn")
  /\ UNCHANGED <<this, stateVars, enetVars, quitApp, fault>>

\* m_thread.join(), the end of run(), and the start of ~ChatApp.
JoinUI ==
  /\ At("main", "join_ui")
  /\ pc["ui"] = "done"
  /\ Goto("main", IF m_enet THEN "stop" ELSE "delete_state")
  /\ UNCHANGED <<this, next, stateVars, enetVars, quitApp, fault>>

\* ~ENetWrapper: terminate() stops the listener and joins it. Mistake: the
\* mutex is taken first.
Terminate_Locks ==
  /\ At("main", "stop")
  /\ mutex = "free"
  /\ mutex' = "main"
  /\ quitEnet' = TRUE
  /\ Goto("main", "join_listener")
  /\ UNCHANGED <<this, next, stateVars, m_enet, enetHost, event, peerVars, quitApp, fault>>

Terminate ==
  /\ At("main", "stop")
  /\ quitEnet' = TRUE
  /\ Goto("main", "join_listener")
  /\ UNCHANGED <<this, next, stateVars, m_enet, enetHost, mutex, event, peerVars, quitApp, fault>>

\* Mistake: the listener is told to stop and not waited for.
JoinListener_Not ==
  /\ At("main", "join_listener")
  /\ Goto("main", "destroy")
  /\ UNCHANGED <<this, next, stateVars, enetVars, quitApp, fault>>

JoinListener ==
  /\ At("main", "join_listener")
  /\ pc["listener"] = "done"
  /\ Goto("main", "destroy")
  /\ UNCHANGED <<this, next, stateVars, enetVars, quitApp, fault>>

\* With the mutex held, a last service, then every peer is disconnected and
\* the host is destroyed.
DestroyHost ==
  /\ At("main", "destroy")
  /\ mutex = "free"
  /\ enetHost' = "destroyed"
  /\ Goto("main", "delete_state")
  /\ UNCHANGED <<this, next, stateVars, m_enet, mutex, event, peerVars, quitApp, quitEnet, fault>>

DeleteLastState ==
  /\ At("main", "delete_state")
  /\ deleted' = deleted \cup {m_state}
  /\ Goto("main", "delete_window")
  /\ UNCHANGED <<this, next, m_state, inputBox, asHost, enetVars, quitApp, fault>>

DeleteWindow ==
  /\ At("main", "delete_window")
  /\ Goto("main", "ended")
  /\ UNCHANGED <<this, next, stateVars, enetVars, quitApp, fault>>

-----------------------------------------------------------------------------
(* The thread that polls for input: ChatApp::pollForInput.                 *)

Poll ==
  /\ At("ui", "poll")
  /\ Goto("ui", IF quitApp THEN "done" ELSE "input")
  /\ UNCHANGED <<this, next, stateVars, enetVars, quitApp, fault>>

\* Without a window, or for an empty line, nothing is handled.
EmptyInput ==
  /\ At("ui", "input")
  /\ Goto("ui", "poll")
  /\ UNCHANGED <<this, next, stateVars, enetVars, quitApp, fault>>

\* Mistake: there is something to type into from the start.
Enter_Early ==
  /\ At("ui", "input")
  /\ m_state # "null"
  /\ Goto("ui", "handle")
  /\ UNCHANGED <<this, next, stateVars, enetVars, quitApp, fault>>

Enter ==
  /\ At("ui", "input")
  /\ inputBox
  /\ m_state # "null"
  /\ Goto("ui", "handle")
  /\ UNCHANGED <<this, next, stateVars, enetVars, quitApp, fault>>

\* A line no State has a use for: no option of the menu, a line before the
\* client knows its user, anything once the application quits.
HandleNothing ==
  /\ At("ui", "handle")
  /\ \/ m_state \in {"conn"} \cup QuitStates
     \/ m_state = "chat" /\ ~localUser
  /\ Goto("ui", "poll")
  /\ UNCHANGED <<this, next, stateVars, enetVars, quitApp, fault>>

\* "1", "2" and "3" in the menu.
ChooseHost ==
  /\ At("ui", "handle")
  /\ m_state = "conn"
  /\ asHost' = TRUE
  /\ CallGoToState("ui", "name")
  /\ UNCHANGED <<this, m_state, deleted, inputBox, enetVars, quitApp, fault>>

ChooseJoin ==
  /\ At("ui", "handle")
  /\ m_state = "conn"
  /\ CallGoToState("ui", "name")
  /\ UNCHANGED <<this, stateVars, enetVars, quitApp, fault>>

\* "3" in the menu, "/exit" anywhere else.
ChooseExit ==
  /\ At("ui", "handle")
  /\ m_state \in {"conn", "name", "chat"}
  /\ CallGoToState("ui", "quit_ui")
  /\ UNCHANGED <<this, stateVars, enetVars, quitApp, fault>>

\* Mistake: the connection is opened before the State that serves it exists.
EnterName_Opens ==
  /\ At("ui", "handle")
  /\ m_state = "name"
  /\ next' = [next EXCEPT !["ui"] = "chat"]
  /\ pc' = [pc EXCEPT !["ui"] = "end", !["listener"] = "service"]
  /\ enetHost' = "alive"
  /\ UNCHANGED <<this, stateVars, m_enet, mutex, event, peerVars, quitApp, quitEnet, fault>>

EnterName ==
  /\ At("ui", "handle")
  /\ m_state = "name"
  /\ CallGoToState("ui", "chat")
  /\ UNCHANGED <<this, stateVars, enetVars, quitApp, fault>>

\* A line of chat, once the user is known.
EnterLine ==
  /\ At("ui", "handle")
  /\ m_state = "chat" /\ localUser
  /\ this' = [this EXCEPT !["ui"] = m_state]
  /\ Goto("ui", "say")
  /\ UNCHANGED <<next, stateVars, enetVars, quitApp, fault>>

\* It is printed. A host then broadcasts; a client sends to its only peer ...
PrintLine ==
  /\ At("ui", "say")
  /\ Goto("ui", IF asHost THEN "send" ELSE "looking")
  /\ UNCHANGED <<this, next, stateVars, enetVars, quitApp, fault>>

\* ... which getPeerPtr finds in m_peers, without a lock: anything may happen
\* while the listener changes that map ...
LookUp ==
  /\ At("ui", "looking")
  /\ \/ /\ Goto("ui", IF m_peers = "known" THEN "found" ELSE "poll")
        /\ UNCHANGED fault
     \/ /\ pc["listener"] \in {"insert", "erase"}
        /\ fault' = "peers"
        /\ UNCHANGED pc
  /\ UNCHANGED <<this, next, stateVars, enetVars, quitApp>>

\* ... and takes from the entry it found, which must still be there.
TakePeer ==
  /\ At("ui", "found")
  /\ IF m_peers = "known" THEN Goto("ui", "send") /\ UNCHANGED fault
                           ELSE fault' = "peers" /\ UNCHANGED pc
  /\ UNCHANGED <<this, next, stateVars, enetVars, quitApp>>

\* The packet is handed to ENet under the mutex.
SendLine ==
  /\ At("ui", "send")
  /\ mutex = "free"
  /\ IF ENetAlive THEN Goto("ui", "poll") /\ UNCHANGED fault
                  ELSE fault' = "destroyed" /\ UNCHANGED pc
  /\ UNCHANGED <<this, next, stateVars, enetVars, quitApp>>

-----------------------------------------------------------------------------
(* The listener: ENetWrapper::listen.                                      *)

\* One round: unless it is told to stop, it enters ENet under the mutex ...
Listen ==
  /\ At("listener", "service")
  /\ \/ /\ quitEnet
        /\ Goto("listener", "done")
        /\ UNCHANGED <<mutex, event>>
     \/ /\ ~quitEnet
        /\ mutex = "free"
        /\ mutex' = "listener"
        /\ event' = "none"
        /\ Goto("listener", "serving")
  /\ UNCHANGED <<this, next, stateVars, m_enet, enetHost, peerVars, quitApp, quitEnet, fault>>

\* ... and leaves it with an event or without. A client that has not started
\* to connect gets none. Mistake: the constructor connects.
Connectable_Always == TRUE

Connectable == asHost \/ pc["ui"] \notin {"set_enet", "dial"}

\* Many peers connect to a host. A client connects once, if at all, receives
\* while it is connected, and is disconnected once.
Events ==
  IF asHost THEN {"connect", "traffic", "disconnect"}
  ELSE CASE m_peers = "none"  -> {"connect", "disconnect"}
         [] m_peers = "known" -> {"traffic", "disconnect"}
         [] m_peers = "gone"  -> {}

Serve ==
  /\ At("listener", "serving")
  /\ IF ENetAlive
     THEN /\ mutex' = "free"
          /\ \/ Goto("listener", "service") /\ UNCHANGED event
             \/ /\ Connectable
                /\ event' \in Events
                /\ Goto("listener", IF event' = "connect" THEN "insert" ELSE "dispatch")
          /\ UNCHANGED fault
     ELSE fault' = "destroyed" /\ UNCHANGED <<pc, mutex, event>>
  /\ UNCHANGED <<this, next, stateVars, m_enet, enetHost, peerVars, quitApp, quitEnet>>

\* A peer that connects is recorded before anybody hears of it ...
InsertPeer ==
  /\ At("listener", "insert")
  /\ m_peers' = IF asHost THEN m_peers ELSE "known"
  /\ Goto("listener", "dispatch")
  /\ UNCHANGED <<this, next, stateVars, m_enet, enetHost, mutex, event, localUser,
                 quitApp, quitEnet, fault>>

\* ... and one that disconnects is erased when its handler has returned.
AfterHandler == IF event = "disconnect" THEN "erase" ELSE "service"

ErasePeer ==
  /\ At("listener", "erase")
  /\ m_peers' = IF asHost THEN m_peers ELSE "gone"
  /\ Goto("listener", "service")
  /\ UNCHANGED <<this, next, stateVars, m_enet, enetHost, mutex, event, localUser,
                 quitApp, quitEnet, fault>>

\* Mistake: a peer that disconnects is erased before its handler is called.
Dispatch_ErasesFirst ==
  /\ At("listener", "dispatch")
  /\ IF event = "disconnect" /\ m_peers = "known"
     THEN Goto("listener", "erase") /\ UNCHANGED this
     ELSE /\ this' = [this EXCEPT !["listener"] = m_state]
          /\ Goto("listener", "handler")
  /\ UNCHANGED <<next, stateVars, enetVars, quitApp, fault>>

\* The event goes to the handler of the current State. Those that do not
\* chat ignore it.
Dispatch ==
  /\ At("listener", "dispatch")
  /\ IF m_state = "chat"
     THEN /\ this' = [this EXCEPT !["listener"] = m_state]
          /\ Goto("listener", "handler")
     ELSE /\ Goto("listener", AfterHandler)
          /\ UNCHANGED this
  /\ UNCHANGED <<next, stateVars, enetVars, quitApp, fault>>

\* A handler prints. A host answers a package, and tells the others of a
\* disconnect if it knows who left. A client answers that it is connected;
\* the handler of an acknowledgement sets its local user; when its connection
\* is gone it pauses for three seconds.
Handle ==
  /\ At("listener", "handler")
  /\ \/ asHost /\ event = "connect" /\ Goto("listener", "service")
     \/ asHost /\ event \in {"traffic", "disconnect"} /\ Goto("listener", "reply")
     \/ asHost /\ event = "disconnect" /\ Goto("listener", "erase")
     \/ ~asHost /\ event = "connect" /\ Goto("listener", "reply")
     \/ ~asHost /\ event = "traffic" /\ Goto("listener", "service")
     \/ ~asHost /\ event = "disconnect" /\ Goto("listener", "pause")
  /\ \/ UNCHANGED localUser
     \/ event = "traffic" /\ ~asHost /\ localUser' = TRUE
  /\ UNCHANGED <<this, next, stateVars, m_enet, enetHost, mutex, event, m_peers,
                 quitApp, quitEnet, fault>>

\* It goes through m_enet, whether or not it has been assigned.
Reply ==
  /\ At("listener", "reply")
  /\ \/ /\ ~m_enet
        /\ fault' = "no_enet"
        /\ UNCHANGED pc
     \/ /\ m_enet
        /\ mutex = "free"
        /\ IF ENetAlive
           THEN /\ Goto("listener", IF event = "disconnect" THEN "remove" ELSE "service")
                /\ UNCHANGED fault
           ELSE fault' = "destroyed" /\ UNCHANGED pc
  /\ UNCHANGED <<this, next, stateVars, enetVars, quitApp>>

\* A host then removes the user who left from its list.
RemoveLeaver ==
  /\ At("listener", "remove")
  /\ Goto("listener", "erase")
  /\ UNCHANGED <<this, next, stateVars, enetVars, quitApp, fault>>

\* After the pause the client quits.
QuitAfterPause ==
  /\ At("listener", "pause")
  /\ CallGoToState("listener", "quit_listener")
  /\ UNCHANGED <<this, stateVars, enetVars, quitApp, fault>>

-----------------------------------------------------------------------------

GoToState(t) ==
  \/ EndState(t) \/ ClearAll(t) \/ DeleteState(t) \/ AssignState(t) \/ BeginState(t)
  \/ PrintPrompt(t) \/ Welcome(t) \/ OpenENet(t) \/ SetENet(t) \/ Dial(t)
  \/ DisconnectAll(t) \/ SetQuit(t) \/ PrintFarewell(t)
  \/ UseDeleted(t)

MainStep ==
  \/ Run \/ JoinUI \/ Terminate \/ JoinListener \/ DestroyHost
  \/ DeleteLastState \/ DeleteWindow
  \/ GoToState("main")

UIStep ==
  \/ Poll \/ EmptyInput \/ Enter \/ HandleNothing
  \/ ChooseHost \/ ChooseJoin \/ ChooseExit \/ EnterName
  \/ EnterLine \/ PrintLine \/ LookUp \/ TakePeer \/ SendLine
  \/ GoToState("ui")

ListenerStep ==
  \/ Listen \/ Serve \/ InsertPeer \/ ErasePeer
  \/ Dispatch \/ Handle \/ Reply \/ RemoveLeaver \/ QuitAfterPause
  \/ GoToState("listener")

Next == MainStep \/ UIStep \/ ListenerStep

Spec == Init /\ [][Next]_vars

-----------------------------------------------------------------------------

Pointers == States \cup {"null", "wild"}

TypeOK ==
  /\ pc \in [Threads -> Labels]
  /\ this \in [Threads -> States \cup {"null"}]
  /\ next \in [Threads -> States \cup {"null"}]
  /\ m_state \in Pointers
  /\ deleted \subseteq States
  /\ {inputBox, asHost, m_enet, quitApp, quitEnet} \subseteq BOOLEAN
  /\ enetHost \in {"none", "alive", "destroyed"}
  /\ mutex \in Threads \cup {"free"}
  /\ event \in {"none", "connect", "traffic", "disconnect"}
  /\ m_peers \in {"none", "known", "gone"} /\ localUser \in BOOLEAN
  /\ fault \in {"none", "deleted", "wild", "no_enet", "destroyed", "peers", "threw"}

\* Until somebody quits, no thread is about to go through a State that has been
\* deleted, or has gone through one, but main while it prints the menu: a line
\* can be typed before that is done, and "1" deletes the PromptState_Conn which
\* prints it. The first State that takes events is in place before the listener
\* runs (ChatApp::goToState, PromptState_Conn::beginState, ChatState::beginState).
CalmUntilQuit ==
  (\A t \in Threads : next[t] \notin QuitStates) =>
    /\ \A t \in Threads : Dangling(t) => t = "main" /\ pc[t] = "menu"
    /\ fault = "deleted" => Dangling("main")

\* Until somebody quits, a client that looks its peer up in m_peers does not
\* find the listener changing that map, nor an entry that goes away: it sends
\* nothing before it knows its user, and the entry outlives the handler of
\* the disconnect (ENetWrapper::getPeerPtr, ENetWrapper::listen).
PeersCalmUntilQuit ==
  (\A t \in Threads : next[t] \notin QuitStates) => fault # "peers"

\* The thread that polls never calls a State through what the constructor
\* left in m_state: there is nothing to type into before main has replaced it
\* (ChatApp::run, ChatApp::pollForInput).
InputWaitsForMenu == m_state = "wild" => pc["ui"] # "handle"

\* No thread is in ENet when, or after, the wrapper destroys its host: main
\* has waited for both others (ChatApp::run, ENetWrapper::terminate).
HostOutlivesItsUse == fault # "destroyed"

\* Only a host's handler can find m_enet unassigned: a client gets no event
\* before it connects, which it does through m_enet (ChatApp::connect).
ClientFindsENet == fault = "no_enet" => asHost

\* When main returns nothing runs and nothing is left: the other threads have
\* ended, the host is destroyed, and every State that goToState was given
\* last has been deleted (~ChatApp, ~ENetWrapper).
LeavesNothingBehind ==
  pc["main"] = "ended" =>
    /\ pc["ui"] = "done" /\ pc["listener"] \in {"none", "done"}
    /\ enetHost # "alive" /\ mutex = "free"
    /\ \A t \in Threads : next[t] \in deleted \cup {"null"}

\* Once the application quits, and unless it fails, the process ends: nobody
\* waits for a thread that waits for him (ChatApp::quit, ~ChatApp).
ShutdownCompletes == quitApp ~> pc["main"] = "ended" \/ fault # "none"

\* Once the menu is there, no thread ever goes through a State that has been
\* deleted (ChatApp::goToState).
StatesOutliveTheirUse == pc["main"] = "join_ui" => fault # "deleted"

\* While the listener is in ENet no other thread is (ENetWrapper::m_mutex).
ENetEnteredByOne ==
  pc["listener"] = "serving" => \A t \in {"main", "ui"} : pc[t] # "disconnecting"
=============================================================================
