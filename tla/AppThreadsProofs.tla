-------------------------- MODULE AppThreadsProofs ---------------------------
(***************************************************************************)
(* Proofs that the threads of a process, whether it hosts or joins and     *)
(* however they interleave, keep the inductive invariant of AppInvariant,  *)
(* and the safety properties that follow from it.                          *)
(***************************************************************************)
EXTENDS AppInvariant, TLAPS

\* The invariant holds at the start.
LEMMA InitOK == ASSUME Init PROVE ThreadsInv
  <1>1. [main |-> "start", ui |-> "poll", listener |-> "none"] \in [Threads -> Labels]
    BY SMT DEF Threads, Labels, UsesThis, UsesState
  <1>2. pc \in [Threads -> Labels]
    BY <1>1 DEF Init
  <1>3. m_state \in Pointers
    BY ThreadsAssumption DEF Init, Pointers
  <1>4. {inputBox, asHost, m_enet, quitApp, quitEnet} \subseteq BOOLEAN /\ localUser \in BOOLEAN
    BY Zenon DEF Init
  <1>5. this \in [Threads -> States \cup {"null"}] /\ next \in [Threads -> States \cup {"null"}]
    BY DEF Init
  <1>6. TypeOK
    BY <1>2, <1>3, <1>4, <1>5 DEF Init, TypeOK
  <1> USE DEF ThreadsInv, TypeOK, KeepToTheirPart, MenuComesFirst, UIGoesForward,
        ListenerComesLast, HostInPlace, MutexOK, NoStateIsLost, QuitIsFinal, CalmOK,
        PeerOK, EventsFindENet, CalmUntilQuit, PeersCalmUntilQuit, HostOutlivesItsUse,
        ClientFindsENet, NobodyQuits, Gone, Starting, Leaving, Sending
  <1> USE DEF Threads, States, QuitStates, Pointers, Labels, UsesThis, UsesState,
        MainLabels, UILabels, ListenerLabels, stateVars, peerVars, enetVars,
        At, Goto, Dangling
  <1> QED BY <1>6, ThreadsAssumption, SMTT(30) DEF Init

\* goToState, in any thread, and what beginState of the new State does, keep
\* the invariant; so does the use of a State that has been deleted.
LEMMA GoToStateOK ==
  ASSUME ThreadsInv, NEW t \in Threads, GoToState(t)
  PROVE  ThreadsInv'
  <1> USE DEF ThreadsInv, TypeOK, KeepToTheirPart, MenuComesFirst, UIGoesForward,
        ListenerComesLast, HostInPlace, MutexOK, NoStateIsLost, QuitIsFinal, CalmOK,
        PeerOK, EventsFindENet, CalmUntilQuit, PeersCalmUntilQuit, HostOutlivesItsUse,
        ClientFindsENet, NobodyQuits, Gone, Starting, Leaving, Sending
  <1> USE DEF Threads, States, QuitStates, Pointers, Labels, UsesThis, UsesState,
        MainLabels, UILabels, ListenerLabels, stateVars, peerVars, enetVars,
        At, Goto, Dangling
  <1>1. CASE EndState(t)
    BY <1>1, SMTT(30) DEF EndState
  <1>2. CASE ClearAll(t)
    BY <1>2, SMTT(30) DEF ClearAll
  <1>3. CASE DeleteState(t)
    BY <1>3, SMTT(30) DEF DeleteState
  <1>4. CASE AssignState(t)
    BY <1>4, SMTT(30) DEF AssignState
  <1>5. CASE BeginState(t)
    BY <1>5, SMTT(30) DEF BeginState
  <1>6. CASE PrintPrompt(t)
    BY <1>6, SMTT(30) DEF PrintPrompt, Resume
  <1>7. CASE Welcome(t)
    BY <1>7, SMTT(30) DEF Welcome
  <1>8. CASE OpenENet(t)
    BY <1>8, SMTT(30) DEF OpenENet
  <1>9. CASE SetENet(t)
    BY <1>9, SMTT(30) DEF SetENet, Resume
  <1>10. CASE Dial(t)
    BY <1>10, SMTT(30) DEF Dial, Resume
  <1>11. CASE DisconnectAll(t)
    BY <1>11, SMTT(30) DEF DisconnectAll, ENetAlive
  <1>12. CASE SetQuit(t)
    BY <1>12, SMTT(30) DEF SetQuit
  <1>13. CASE PrintFarewell(t)
    BY <1>13, SMTT(30) DEF PrintFarewell, Resume
  <1>14. CASE UseDeleted(t)
    BY <1>14, SMTT(30) DEF UseDeleted, Stop
  <1> QED BY <1>1, <1>2, <1>3, <1>4, <1>5, <1>6, <1>7, <1>8, <1>9, <1>10, <1>11, <1>12, <1>13, <1>14 DEF GoToState

\* ChatApp::run and the destructors keep it.
LEMMA MainStepOK == ASSUME ThreadsInv, MainStep PROVE ThreadsInv'
  <1> USE DEF ThreadsInv, TypeOK, KeepToTheirPart, MenuComesFirst, UIGoesForward,
        ListenerComesLast, HostInPlace, MutexOK, NoStateIsLost, QuitIsFinal, CalmOK,
        PeerOK, EventsFindENet, CalmUntilQuit, PeersCalmUntilQuit, HostOutlivesItsUse,
        ClientFindsENet, NobodyQuits, Gone, Starting, Leaving, Sending
  <1> USE DEF Threads, States, QuitStates, Pointers, Labels, UsesThis, UsesState,
        MainLabels, UILabels, ListenerLabels, stateVars, peerVars, enetVars,
        At, Goto, Dangling
  <1>1. CASE Run
    BY <1>1, SMTT(30) DEF Run, CallGoToState
  <1>2. CASE JoinUI
    BY <1>2, SMTT(30) DEF JoinUI
  <1>3. CASE Terminate
    BY <1>3, SMTT(30) DEF Terminate
  <1>4. CASE JoinListener
    BY <1>4, SMTT(30) DEF JoinListener
  <1>5. CASE DestroyHost
    BY <1>5, SMTT(30) DEF DestroyHost
  <1>6. CASE DeleteLastState
    BY <1>6, SMTT(30) DEF DeleteLastState
  <1>7. CASE DeleteWindow
    BY <1>7, SMTT(30) DEF DeleteWindow
  <1>8. CASE GoToState("main")
    <2>1. "main" \in Threads
      OBVIOUS
    <2> HIDE DEF ThreadsInv
    <2> QED BY <1>8, <2>1, GoToStateOK
  <1> HIDE DEF ThreadsInv
  <1> QED BY <1>1, <1>2, <1>3, <1>4, <1>5, <1>6, <1>7, <1>8 DEF MainStep

\* pollForInput and the handlers of input keep it.
LEMMA UIStepOK == ASSUME ThreadsInv, UIStep PROVE ThreadsInv'
  <1> USE DEF ThreadsInv, TypeOK, KeepToTheirPart, MenuComesFirst, UIGoesForward,
        ListenerComesLast, HostInPlace, MutexOK, NoStateIsLost, QuitIsFinal, CalmOK,
        PeerOK, EventsFindENet, CalmUntilQuit, PeersCalmUntilQuit, HostOutlivesItsUse,
        ClientFindsENet, NobodyQuits, Gone, Starting, Leaving, Sending
  <1> USE DEF Threads, States, QuitStates, Pointers, Labels, UsesThis, UsesState,
        MainLabels, UILabels, ListenerLabels, stateVars, peerVars, enetVars,
        At, Goto, Dangling
  <1>1. CASE Poll
    BY <1>1, SMTT(30) DEF Poll
  <1>2. CASE EmptyInput
    BY <1>2, SMTT(30) DEF EmptyInput
  <1>3. CASE Enter
    BY <1>3, SMTT(30) DEF Enter
  <1>4. CASE HandleNothing
    BY <1>4, SMTT(30) DEF HandleNothing
  <1>5. CASE ChooseHost
    BY <1>5, SMTT(30) DEF ChooseHost, CallGoToState
  <1>6. CASE ChooseJoin
    BY <1>6, SMTT(30) DEF ChooseJoin, CallGoToState
  <1>7. CASE ChooseExit
    BY <1>7, SMTT(30) DEF ChooseExit, CallGoToState
  <1>8. CASE EnterName
    BY <1>8, SMTT(30) DEF EnterName, CallGoToState
  <1>9. CASE EnterLine
    BY <1>9, SMTT(30) DEF EnterLine
  <1>10. CASE PrintLine
    BY <1>10, SMTT(30) DEF PrintLine
  <1>11. CASE LookUp
    BY <1>11, SMTT(30) DEF LookUp
  <1>12. CASE TakePeer
    BY <1>12, SMTT(30) DEF TakePeer
  <1>13. CASE SendLine
    BY <1>13, SMTT(30) DEF SendLine, ENetAlive
  <1>14. CASE GoToState("ui")
    <2>1. "ui" \in Threads
      OBVIOUS
    <2> HIDE DEF ThreadsInv
    <2> QED BY <1>14, <2>1, GoToStateOK
  <1> HIDE DEF ThreadsInv
  <1> QED BY <1>1, <1>2, <1>3, <1>4, <1>5, <1>6, <1>7, <1>8, <1>9, <1>10, <1>11, <1>12, <1>13, <1>14 DEF UIStep

\* A handler may set the local user, and never takes it away.
LEMMA HandleSetsLocalUser == ASSUME TypeOK, Handle PROVE localUser' \in BOOLEAN
  <1>1. localUser \in BOOLEAN
    BY DEF TypeOK
  <1>2. localUser' = localUser \/ localUser' = TRUE
    BY DEF Handle
  <1> QED BY <1>1, <1>2

\* ENetWrapper::listen and the handlers of events keep it.
LEMMA ListenerStepOK == ASSUME ThreadsInv, ListenerStep PROVE ThreadsInv'
  <1> USE DEF ThreadsInv, TypeOK, KeepToTheirPart, MenuComesFirst, UIGoesForward,
        ListenerComesLast, HostInPlace, MutexOK, NoStateIsLost, QuitIsFinal, CalmOK,
        PeerOK, EventsFindENet, CalmUntilQuit, PeersCalmUntilQuit, HostOutlivesItsUse,
        ClientFindsENet, NobodyQuits, Gone, Starting, Leaving, Sending
  <1> USE DEF Threads, States, QuitStates, Pointers, Labels, UsesThis, UsesState,
        MainLabels, UILabels, ListenerLabels, stateVars, peerVars, enetVars,
        At, Goto, Dangling
  <1>1. CASE Listen
    BY <1>1, SMTT(30) DEF Listen
  <1>2. CASE Serve
    BY <1>2, SMTT(30) DEF Serve, ENetAlive, Events, Connectable
  <1>3. CASE InsertPeer
    BY <1>3, SMTT(30) DEF InsertPeer
  <1>4. CASE ErasePeer
    BY <1>4, SMTT(30) DEF ErasePeer
  <1>5. CASE Dispatch
    BY <1>5, SMTT(30) DEF Dispatch, AfterHandler
  <1>6. CASE Handle
    <2>1. localUser' \in BOOLEAN
      BY <1>6, HandleSetsLocalUser
    <2>2. pc' \in [Threads -> Labels]
      BY <1>6, SMT DEF Handle
    <2>3. TypeOK'
      BY <1>6, <2>1, <2>2, SMT DEF Handle
    <2> QED BY <1>6, <2>3, SMTT(30) DEF Handle
  <1>7. CASE Reply
    BY <1>7, SMTT(30) DEF Reply, ENetAlive
  <1>8. CASE RemoveLeaver
    BY <1>8, SMTT(30) DEF RemoveLeaver
  <1>9. CASE QuitAfterPause
    BY <1>9, SMTT(30) DEF QuitAfterPause, CallGoToState
  <1>10. CASE GoToState("listener")
    <2>1. "listener" \in Threads
      OBVIOUS
    <2> HIDE DEF ThreadsInv
    <2> QED BY <1>10, <2>1, GoToStateOK
  <1> HIDE DEF ThreadsInv
  <1> QED BY <1>1, <1>2, <1>3, <1>4, <1>5, <1>6, <1>7, <1>8, <1>9, <1>10 DEF ListenerStep

-----------------------------------------------------------------------------

\* The inductive invariant holds in every reachable state, whatever m_state is
\* to begin with (ChatApp, ENetWrapper).
THEOREM ThreadsInvariantHolds == Spec => []ThreadsInv
  <1>1. Init => ThreadsInv
    BY InitOK
  <1>2. ThreadsInv /\ [Next]_vars => ThreadsInv'
    <2>1. ASSUME ThreadsInv, UNCHANGED vars PROVE ThreadsInv'
      BY <2>1 DEF vars, ThreadsInv, TypeOK, KeepToTheirPart, MenuComesFirst,
           UIGoesForward, ListenerComesLast, HostInPlace, MutexOK, NoStateIsLost,
           QuitIsFinal, CalmOK, PeerOK, EventsFindENet, CalmUntilQuit,
           PeersCalmUntilQuit, HostOutlivesItsUse, ClientFindsENet, NobodyQuits,
           Gone, Starting, Dangling
    <2> QED BY <2>1, MainStepOK, UIStepOK, ListenerStepOK DEF Next
  <1> QED BY <1>1, <1>2, PTL DEF Spec

\* Every variable keeps its type: in particular goToState is never left without
\* a State to begin (ChatApp::goToState).
THEOREM ThreadsTypeCorrect == Spec => []TypeOK
  <1>1. ThreadsInv => TypeOK
    BY DEF ThreadsInv
  <1> QED BY <1>1, ThreadsInvariantHolds, PTL

\* Until somebody quits no thread but main, and main only while it prints the menu,
\* uses a State that has been deleted (ChatApp::goToState, ENetWrapper::listen,
\* PromptState_Conn::beginState).
THEOREM OnlyMenuDanglesUntilQuit == Spec => []CalmUntilQuit
  <1>1. ThreadsInv => CalmUntilQuit
    BY DEF ThreadsInv
  <1> QED BY <1>1, ThreadsInvariantHolds, PTL

\* Until somebody quits a client's look-up of its peer never meets the listener's
\* changes to m_peers (ENetWrapper::getPeerPtr).
THEOREM PeersCalmUntilSomebodyQuits == Spec => []PeersCalmUntilQuit
  <1>1. ThreadsInv => PeersCalmUntilQuit
    BY DEF ThreadsInv
  <1> QED BY <1>1, ThreadsInvariantHolds, PTL

\* No thread is in ENet when its host is destroyed, or enters it later
\* (~ENetWrapper, ENetWrapper::terminate).
THEOREM HostAlwaysOutlivesItsUse == Spec => []HostOutlivesItsUse
  <1>1. ThreadsInv => HostOutlivesItsUse
    BY DEF ThreadsInv
  <1> QED BY <1>1, ThreadsInvariantHolds, PTL

\* A client never answers through an m_enet that is not assigned yet
\* (ChatApp::connect).
THEOREM ClientAlwaysFindsENet == Spec => []ClientFindsENet
  <1>1. ThreadsInv => ClientFindsENet
    BY DEF ThreadsInv
  <1> QED BY <1>1, ThreadsInvariantHolds, PTL

\* The thread that polls never calls a State through an m_state that points
\* nowhere (ChatApp::pollForInput).
THEOREM InputAlwaysWaitsForMenu == Spec => []InputWaitsForMenu
  <1>1. ThreadsInv => InputWaitsForMenu
    BY DEF ThreadsInv, MenuComesFirst, Starting, States, QuitStates, InputWaitsForMenu
  <1> QED BY <1>1, ThreadsInvariantHolds, PTL

\* Whoever returns from main leaves no thread, no host, no mutex and no State
\* behind (~ChatApp, ~ENetWrapper).
THEOREM NothingIsLeftBehind == Spec => []LeavesNothingBehind
  <1>1. ASSUME ThreadsInv PROVE LeavesNothingBehind
    BY <1>1, SMT DEF ThreadsInv, TypeOK, HostInPlace, MutexOK, NoStateIsLost, Leaving,
         Threads, LeavesNothingBehind
  <1> QED BY <1>1, ThreadsInvariantHolds, PTL
=============================================================================
