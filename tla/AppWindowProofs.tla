--------------------------- MODULE AppWindowProofs ---------------------------
(***************************************************************************)
(* Proofs that the threads which draw are the threads of AppThreads, so    *)
(* that what is proved of those holds for a process with its window, and   *)
(* that what they draw is what the chat has: the lines are drawn row by    *)
(* row and the panel shows the users.                                      *)
(***************************************************************************)
EXTENDS AppWindow, AppThreadsProofs, FiniteSetTheorems

\* What a thread draws between two of its steps changes nothing that it shares
\* with the others but the window (AppThreads, ChatWindow).
THEOREM ThreadsThatDrawAreThreads == WSpec => Spec
  <1>1. WInit => Init
    BY DEF WInit
  <1>2. [WNext]_allVars => [Next]_vars
    <2>1. ASSUME NEW t, Paint(t) PROVE UNCHANGED vars
      BY <2>1 DEF Paint
    <2>2. ASSUME NEW t, NEW step, Move(t, step) PROVE step
      BY <2>2 DEF Move
    <2>3. CASE WMainStep
      BY <2>1, <2>3 DEF WMainStep, Move, Next
    <2>4. CASE WUIStep
      BY <2>1, <2>4 DEF WUIStep, Move, Next
    <2>5. CASE WListenerStep
      BY <2>1, <2>5 DEF WListenerStep, Move, Next
    <2>6. CASE UNCHANGED allVars
      BY <2>6 DEF allVars
    <2> QED BY <2>3, <2>4, <2>5, <2>6 DEF WNext
  <1> QED BY <1>1, <1>2, PTL DEF WSpec, Spec

\* So a process with its window is safe in every way its threads are
\* (ChatApp::goToState, ENetWrapper).
THEOREM ThreadsThatDrawAreSafe ==
  WSpec => [](/\ CalmUntilQuit /\ PeersCalmUntilQuit /\ InputWaitsForMenu
              /\ HostOutlivesItsUse /\ ClientFindsENet /\ LeavesNothingBehind)
  BY ThreadsThatDrawAreThreads, OnlyMenuDanglesUntilQuit, PeersCalmUntilSomebodyQuits,
     InputAlwaysWaitsForMenu, HostAlwaysOutlivesItsUse, ClientAlwaysFindsENet,
     NothingIsLeftBehind, PTL

-----------------------------------------------------------------------------
(* Who may draw when.                                                      *)

\* All that can be drawn.
Bits == Strokes \cup {<<"initscr">>, <<"endwin">>}

\* Only opening opens, and only closing closes.
LEMMA StrokesAreQuiet ==
  /\ \A b \in Strokes : b[1] \notin {"initscr", "endwin"}
  /\ Strokes \subseteq Bits
  /\ init \in Seq(Bits) /\ init # <<>> /\ Head(init)[1] = "initscr" /\ Tail(init) = <<>>
  /\ destroy \in Seq(Bits) /\ destroy # <<>> /\ Head(destroy)[1] = "endwin" /\ Tail(destroy) = <<>>
  <1>1. \A b \in Strokes : b[1] \notin {"initscr", "endwin"}
    BY DEF Strokes
  <1>2. Strokes \subseteq Bits
    BY DEF Bits
  <1>3. init \in Seq(Bits) /\ init # <<>> /\ Head(init)[1] = "initscr" /\ Tail(init) = <<>>
    BY DEF init, Bits
  <1>4. destroy \in Seq(Bits) /\ destroy # <<>> /\ Head(destroy)[1] = "endwin" /\ Tail(destroy) = <<>>
    BY DEF destroy, Bits
  <1> QED BY <1>1, <1>2, <1>3, <1>4

\* Whatever else a thread draws leaves the window open.
LEMMA TextsAreQuiet ==
  ASSUME NEW label, label \notin {"start", "delete_window"}, NEW drawing \in Texts(label)
  PROVE  drawing \in Seq(Strokes)
  <1>1. \A a, b \in Seq(Strokes) : a \o b \in Seq(Strokes)
    OBVIOUS
  <1>2. /\ <<>> \in Seq(Strokes)
        /\ print \in Seq(Strokes) /\ log \in Seq(Strokes) /\ error \in Seq(Strokes)
        /\ clearMessages \in Seq(Strokes) /\ clearUserList \in Seq(Strokes)
    BY DEF print, log, error, Post, clearMessages, clearUserList, Strokes
  <1>3. \A u \in {Own, Other} : addUser(u) \in Seq(Strokes) /\ removeUser(u) \in Seq(Strokes)
    BY DEF addUser, removeUser, Strokes
  <1> HIDE DEF print, log, error, clearMessages, clearUserList, addUser, removeUser, Strokes
  <1>4. clearAll \in Seq(Strokes)
    BY <1>1, <1>2 DEF clearAll
  <1>5. Menu \in Seq(Strokes)
    BY <1>1, <1>2, <1>4 DEF Menu
  <1>6. WelcomeText \in Seq(Strokes)
    BY <1>1, <1>2, <1>3 DEF WelcomeText
  <1>7. CASE label = "handler" /\ asHost
    <2>1. addUser(Other) \o log \in Seq(Strokes)
      BY <1>1, <1>2, <1>3
    <2>2. drawing \in HostHandler
      BY <1>7 DEF Texts
    <2>3. QED BY <1>2, <2>1, <2>2 DEF HostHandler
  <1>8. CASE label = "handler" /\ ~asHost
    <2>1. /\ log \o (IF Other \in m_users THEN removeUser(Other) ELSE addUser(Other)) \in Seq(Strokes)
          /\ addUser(Own) \o addUser(Other) \in Seq(Strokes)
      BY <1>1, <1>2, <1>3
    <2>2. drawing \in ClientHandler
      BY <1>8 DEF Texts
    <2>3. QED BY <1>2, <2>1, <2>2 DEF ClientHandler
  <1>9. CASE label # "handler"
    BY <1>2, <1>3, <1>4, <1>5, <1>6, <1>9 DEF Texts
  <1> QED BY <1>7, <1>8, <1>9

\* Where a thread has nothing to draw.
LEMMA NothingToDraw ==
  \A label \in {"none", "done", "ended", "poll", "input"} : Texts(label) = {<<>>}
  BY DEF Texts

\* A thread moves no other one, but for the listener, which another starts;
\* nothing leads back to the start, and main closes the window last.
LEMMA MainMoves ==
  ASSUME TypeOK, MenuComesFirst, MainStep
  PROVE  /\ pc'["ui"] = pc["ui"]
         /\ pc'["listener"] \in {pc["listener"], "service"}
         /\ pc'["main"] = "start" => pc["main"] = "start"
         /\ pc["main"] = "ended" => pc'["main"] = "ended"
         /\ pc["main"] = "delete_window" => pc'["main"] \in {"delete_window", "ended"}
         /\ pc'["main"] = "ended" => pc["main"] \in {"delete_window", "ended"}
  <1> USE DEF TypeOK, At, Goto, Threads
  <1>1. CASE Run \/ JoinUI \/ Terminate \/ JoinListener \/ DestroyHost
             \/ DeleteLastState \/ DeleteWindow
    BY <1>1 DEF Run, JoinUI, Terminate, JoinListener, DestroyHost, DeleteLastState,
                DeleteWindow, CallGoToState
  <1>2. CASE EndState("main") \/ ClearAll("main") \/ DeleteState("main")
             \/ AssignState("main") \/ UseDeleted("main")
    BY <1>2 DEF EndState, ClearAll, DeleteState, AssignState, UseDeleted, Stop,
                Dangling, UsesThis, UsesState
  <1>3. CASE BeginState("main")
    BY <1>3 DEF BeginState, MenuComesFirst
  <1>4. CASE PrintPrompt("main") \/ Welcome("main") \/ OpenENet("main") \/ SetENet("main")
             \/ Dial("main") \/ DisconnectAll("main") \/ SetQuit("main") \/ PrintFarewell("main")
    BY <1>4 DEF PrintPrompt, Welcome, OpenENet, SetENet, Dial, DisconnectAll, SetQuit,
                PrintFarewell, Resume, Stop
  <1> QED BY <1>1, <1>2, <1>3, <1>4 DEF MainStep, GoToState

LEMMA UIMoves ==
  ASSUME TypeOK, UIStep
  PROVE  /\ pc'["main"] = pc["main"]
         /\ pc'["listener"] \in {pc["listener"], "service"}
  <1> USE DEF TypeOK, At, Goto, Threads
  <1>1. CASE Poll \/ EmptyInput \/ Enter \/ HandleNothing \/ ChooseHost \/ ChooseJoin
             \/ ChooseExit \/ EnterName
    BY <1>1 DEF Poll, EmptyInput, Enter, HandleNothing, ChooseHost, ChooseJoin, ChooseExit,
                EnterName, CallGoToState
  <1>2. CASE EnterLine \/ PrintLine \/ LookUp \/ TakePeer \/ SendLine
    BY <1>2 DEF EnterLine, PrintLine, LookUp, TakePeer, SendLine, Stop
  <1>3. CASE EndState("ui") \/ ClearAll("ui") \/ DeleteState("ui")
             \/ AssignState("ui") \/ BeginState("ui") \/ UseDeleted("ui")
    BY <1>3 DEF EndState, ClearAll, DeleteState, AssignState, BeginState, UseDeleted, Stop
  <1>4. CASE PrintPrompt("ui") \/ Welcome("ui") \/ OpenENet("ui") \/ SetENet("ui")
             \/ Dial("ui") \/ DisconnectAll("ui") \/ SetQuit("ui") \/ PrintFarewell("ui")
    BY <1>4 DEF PrintPrompt, Welcome, OpenENet, SetENet, Dial, DisconnectAll, SetQuit,
                PrintFarewell, Resume, Stop
  <1> QED BY <1>1, <1>2, <1>3, <1>4 DEF UIStep, GoToState

LEMMA ListenerMoves ==
  ASSUME TypeOK, ListenerStep
  PROVE  pc'["main"] = pc["main"] /\ pc'["ui"] = pc["ui"]
  <1> USE DEF TypeOK, At, Goto, Threads
  <1>1. CASE Listen \/ Serve \/ InsertPeer \/ ErasePeer \/ Dispatch
    BY <1>1 DEF Listen, Serve, InsertPeer, ErasePeer, Dispatch, Stop
  <1>2. CASE Handle \/ Reply \/ RemoveLeaver \/ QuitAfterPause
    BY <1>2 DEF Handle, Reply, RemoveLeaver, QuitAfterPause, CallGoToState, Stop
  <1>3. CASE EndState("listener") \/ ClearAll("listener") \/ DeleteState("listener")
             \/ AssignState("listener") \/ BeginState("listener") \/ UseDeleted("listener")
    BY <1>3 DEF EndState, ClearAll, DeleteState, AssignState, BeginState, UseDeleted, Stop
  <1>4. CASE PrintPrompt("listener") \/ Welcome("listener") \/ OpenENet("listener")
             \/ SetENet("listener") \/ Dial("listener") \/ DisconnectAll("listener")
             \/ SetQuit("listener") \/ PrintFarewell("listener")
    BY <1>4 DEF PrintPrompt, Welcome, OpenENet, SetENet, Dial, DisconnectAll, SetQuit,
                PrintFarewell, Resume, Stop
  <1> QED BY <1>1, <1>2, <1>3, <1>4 DEF ListenerStep, GoToState

\* A thread that draws does the first thing of what it has yet to draw, and
\* only opening and closing changes whether there is a window.
LEMMA DrawTakesTheFirst ==
  ASSUME NEW t \in Threads, todo = [u \in Threads |-> todo[u]], todo[t] \in Seq(Bits), Draw(t)
  PROVE  /\ todo[t] # <<>>
         /\ todo' = [todo EXCEPT ![t] = Tail(todo[t])]
         /\ window' = IF Head(todo[t])[1] = "initscr" THEN "open"
                      ELSE IF Head(todo[t])[1] = "endwin" THEN "closed" ELSE window
  <1>1. PICK op \in {"initscr", "endwin", "mvprintw", "next_row", "clear", "first_row", "newwin",
                     "insert", "erase", "list"} :
          /\ Does(t, op) /\ Then(t, <<>>)
          /\ window' = IF op = "initscr" THEN "open"
                       ELSE IF op = "endwin" THEN "closed" ELSE window
    <2>1. CASE OpenWindow(t) \/ CloseWindow(t)
      BY <2>1 DEF OpenWindow, CloseWindow
    <2>2. CASE PrintText(t) \/ NextRow(t) \/ ClearText(t) \/ ResetRow(t)
      BY <2>2 DEF PrintText, NextRow, ClearText, ResetRow
    <2>3. CASE NewPanel(t) \/ ChangeUsers(t) \/ ListUsers(t)
      BY <2>3 DEF NewPanel, ChangeUsers, ListUsers
    <2> QED BY <2>1, <2>2, <2>3 DEF Draw
  <1>2. todo[t] # <<>> /\ Head(todo[t])[1] = op
    BY <1>1 DEF Does
  <1>3. <<>> \o Tail(todo[t]) = Tail(todo[t])
    BY <1>2
  <1>4. todo' = [todo EXCEPT ![t] = Tail(todo[t])]
    BY <1>1, <1>3 DEF Then
  <1> QED BY <1>1, <1>2, <1>4

\* Drawing keeps to what WindowInv says of the window.
LEMMA PaintKeepsWindowInv ==
  ASSUME WindowInv, NEW t \in Threads, Paint(t)
  PROVE  WindowInv'
  <1> DEFINE Alone == pc["main"] \in {"start", "delete_window", "ended"}
  <1>1. pc' = pc /\ Draw(t)
    BY DEF Paint, vars
  <1>2. todo[t] \in Seq(Bits)
    <2>1. \A q \in Seq(Strokes) : q \in Seq(Bits)
      BY StrokesAreQuiet
    <2>2. <<>> \in Seq(Bits)
      OBVIOUS
    <2> QED BY <2>1, <2>2, StrokesAreQuiet DEF WindowInv, Threads
  <1>3. todo = [u \in Threads |-> todo[u]]
    BY DEF WindowInv
  <1>4. /\ todo[t] # <<>>
        /\ todo' = [todo EXCEPT ![t] = Tail(todo[t])]
        /\ window' = IF Head(todo[t])[1] = "initscr" THEN "open"
                     ELSE IF Head(todo[t])[1] = "endwin" THEN "closed" ELSE window
    BY <1>1, <1>2, <1>3, DrawTakesTheFirst
  <1>5. ASSUME todo[t] \in Seq(Strokes)
        PROVE  window' = window /\ Tail(todo[t]) \in Seq(Strokes)
    <2>1. Head(todo[t]) \in Strokes /\ Tail(todo[t]) \in Seq(Strokes)
      BY <1>4, <1>5
    <2> QED BY <2>1, <1>4, StrokesAreQuiet
  <1>6. CASE t = "main"
    <2>1. todo'["ui"] = todo["ui"] /\ todo'["listener"] = todo["listener"]
      BY <1>3, <1>4, <1>6 DEF Threads
    <2>2. todo'["main"] = Tail(todo["main"]) /\ todo' = [u \in Threads |-> todo'[u]]
      BY <1>3, <1>4, <1>6
    <2>3. CASE pc["main"] = "start"
      BY <2>1, <2>2, <2>3, <1>1, <1>4, <1>6, StrokesAreQuiet DEF WindowInv
    <2>4. CASE pc["main"] = "delete_window"
      BY <2>1, <2>2, <2>4, <1>1, <1>4, <1>6, StrokesAreQuiet DEF WindowInv
    <2>5. CASE ~Alone
      <3>1. window' = window /\ Tail(todo["main"]) \in Seq(Strokes)
        BY <1>5, <1>6, <2>5 DEF WindowInv
      <3> QED BY <2>1, <2>2, <2>5, <3>1, <1>1 DEF WindowInv
    <2> QED BY <2>3, <2>4, <2>5, <1>4, <1>6 DEF WindowInv
  <1>7. CASE t # "main"
    <2>1. t \in {"ui", "listener"}
      BY <1>7 DEF Threads
    <2>2. ~Alone /\ window' = window /\ Tail(todo[t]) \in Seq(Strokes)
      BY <2>1, <1>4, <1>5 DEF WindowInv
    <2>3. todo' = [u \in Threads |-> IF u = t THEN Tail(todo[t]) ELSE todo[u]]
      BY <1>3, <1>4
    <2>4. pc[t] \notin {"none", "done"}
      BY <2>1, <1>4 DEF WindowInv
    <2> QED BY <2>1, <2>2, <2>3, <2>4, <1>1 DEF WindowInv, Threads
  <1> QED BY <1>6, <1>7

\* So does a thread that moves on: it goes on to something else to draw, and
\* only main, which is alone then, to opening or closing.
LEMMA MoveKeepsWindowInv ==
  ASSUME WindowInv, ThreadsInv, ThreadsInv', NEW t \in Threads,
         \/ t = "main" /\ Move(t, MainStep)
         \/ t = "ui" /\ Move(t, UIStep)
         \/ t = "listener" /\ Move(t, ListenerStep /\ HandlerAgrees)
  PROVE  WindowInv'
  <1> DEFINE Alone == pc["main"] \in {"start", "delete_window", "ended"}
  <1>1. /\ TypeOK /\ MenuComesFirst /\ HostInPlace /\ KeepToTheirPart
        /\ MenuComesFirst' /\ HostInPlace' /\ KeepToTheirPart'
    BY DEF ThreadsInv
  <1>2. PICK drawing : /\ todo' = [u \in Threads |-> IF u = t THEN drawing ELSE todo[u]]
                       /\ \/ pc'[t] = pc[t] /\ drawing = todo[t]
                          \/ pc'[t] # pc[t] /\ drawing \in Texts(pc'[t])
    BY DEF WindowInv, Move
  <1>3. window' = window /\ (todo[t] = <<>> \/ Dangling(t))
    BY DEF Move
  <1>4. /\ todo' = [u \in Threads |-> todo'[u]]
        /\ todo'[t] = drawing
        /\ \A u \in Threads \ {t} : todo'[u] = todo[u]
    BY <1>2
  <1>5. \A label : label \in {"none", "done", "ended", "poll", "input"} => Texts(label) = {<<>>}
    BY NothingToDraw
  <1>6. CASE t = "main"
    <2>1. /\ pc'["ui"] = pc["ui"]
          /\ pc'["listener"] \in {pc["listener"], "service"}
          /\ pc'["main"] = "start" => pc["main"] = "start"
          /\ pc["main"] = "ended" => pc'["main"] = "ended"
          /\ pc["main"] = "delete_window" => pc'["main"] \in {"delete_window", "ended"}
          /\ pc'["main"] = "ended" => pc["main"] \in {"delete_window", "ended"}
      BY <1>1, <1>6, MainMoves DEF Move
    <2>2. todo'["ui"] = todo["ui"] /\ todo'["listener"] = todo["listener"]
      BY <1>4, <1>6 DEF Threads
    <2>3. /\ \A u \in {"ui", "listener"} : todo'[u] \in Seq(Strokes)
          /\ \A u \in {"ui", "listener"} : pc'[u] \in {"none", "done"} => todo'[u] = <<>>
      BY <2>1, <2>2 DEF WindowInv
    <2>4. CASE pc'["main"] = pc["main"]
      BY <2>1, <2>2, <2>3, <2>4, <1>2, <1>3, <1>4, <1>6 DEF WindowInv
    <2>5. CASE pc'["main"] # pc["main"]
      <3>1. pc["main"] \in {"start", "delete_window"} => todo["main"] = <<>>
        BY <1>3, <1>6 DEF Dangling, UsesThis, UsesState
      <3>2. pc["main"] # "delete_window" => window = "open"
        BY <3>1, <2>1, <2>5, StrokesAreQuiet DEF WindowInv
      <3>3. CASE pc'["main"] = "delete_window"
        <4>1. pc'["ui"] = "done" /\ pc'["listener"] \in {"none", "done"}
          BY <1>1, <3>3 DEF HostInPlace
        <4>2. todo'["main"] = destroy
          BY <1>2, <1>4, <1>6, <2>5, <3>3 DEF Texts
        <4> QED BY <4>1, <4>2, <2>3, <2>5, <3>2, <3>3, <1>3, <1>4 DEF WindowInv
      <3>4. CASE pc'["main"] = "ended"
        <4>1. pc'["ui"] = "done" /\ pc'["listener"] \in {"none", "done"}
          BY <1>1, <3>4 DEF HostInPlace
        <4>2. todo'["main"] = <<>>
          BY <1>2, <1>4, <1>5, <1>6, <2>5, <3>4
        <4> QED BY <4>1, <4>2, <2>3, <3>4, <1>3, <1>4 DEF WindowInv
      <3>5. CASE pc'["main"] \notin {"delete_window", "ended"}
        <4>1. pc'["main"] # "start" /\ window' = "open"
          BY <2>1, <2>5, <3>2, <3>5, <1>3
        <4>2. drawing \in Texts(pc'["main"])
          BY <1>2, <1>6, <2>5
        <4>3. drawing \in Seq(Strokes)
          BY <4>1, <4>2, <3>5, TextsAreQuiet
        <4> QED BY <4>1, <4>3, <2>3, <3>5, <1>4, <1>6 DEF WindowInv
      <3> QED BY <3>3, <3>4, <3>5
    <2> QED BY <2>4, <2>5
  <1>7. CASE t # "main"
    <2>1. /\ t \in {"ui", "listener"} /\ pc'["main"] = pc["main"]
          /\ \A u \in {"ui", "listener"} \ {t} : pc'[u] \in {pc[u], "service"}
      <3>1. CASE t = "ui"
        BY <3>1, <1>1, UIMoves DEF Move
      <3>2. CASE t = "listener"
        BY <3>2, <1>1, ListenerMoves DEF Move
      <3> QED BY <3>1, <3>2, <1>7 DEF Threads
    <2>2. \A u \in {"ui", "listener", "main"} \ {t} : todo'[u] = todo[u]
      BY <1>4 DEF Threads
    <2>3. drawing \in Seq(Strokes)
      <3>1. CASE pc'[t] = pc[t]
        BY <3>1, <2>1, <1>2 DEF WindowInv
      <3>2. CASE pc'[t] # pc[t]
        <4>1. pc'[t] \notin {"start", "delete_window"}
          BY <1>1, <2>1 DEF KeepToTheirPart, UILabels, ListenerLabels, Leaving, Sending
        <4> QED BY <4>1, <3>2, <1>2, TextsAreQuiet
      <3> QED BY <3>1, <3>2
    <2>4. pc'[t] \in {"none", "done"} => drawing = <<>>
      BY <2>1, <1>2, <1>5 DEF WindowInv
    <2>5. Alone => drawing = <<>>
      <3>1. CASE Alone
        <4>1. pc'[t] \in {"none", "done", "poll", "input"}
          BY <3>1, <2>1, <1>1 DEF MenuComesFirst, Starting, HostInPlace
        <4> QED BY <4>1, <3>1, <2>1, <1>2, <1>5 DEF WindowInv
      <3> QED BY <3>1
    <2>6. \A u \in {"ui", "listener"} :
            /\ todo'[u] \in Seq(Strokes)
            /\ pc'[u] \in {"none", "done"} => todo'[u] = <<>>
            /\ pc'["main"] \in {"start", "delete_window", "ended"} => todo'[u] = <<>>
      BY <2>1, <2>2, <2>3, <2>4, <2>5, <1>4 DEF WindowInv
    <2> QED BY <2>1, <2>2, <2>6, <1>3, <1>4, <1>7 DEF WindowInv
  <1> QED BY <1>6, <1>7

\* In every interleaving, who may open, draw in and close the window is as
\* WindowInv says (ChatApp::run, ~ChatApp, ENetWrapper::terminate).
THEOREM WindowInvariantHolds == WSpec => []WindowInv
  <1>1. WInit => WindowInv
    <2>1. ASSUME WInit PROVE WindowInv
      <3>1. pc["main"] = "start" /\ window = "new"
        BY <2>1 DEF WInit, Init, WindowInit
      <3>2. todo = [t \in Threads |-> IF t = "main" THEN init ELSE <<>>]
        BY <2>1 DEF WInit
      <3>3. /\ todo = [t \in Threads |-> todo[t]] /\ todo["main"] = init
            /\ todo["ui"] = <<>> /\ todo["listener"] = <<>>
        BY <3>2 DEF Threads
      <3>4. <<>> \in Seq(Strokes)
        OBVIOUS
      <3> QED BY <3>1, <3>3, <3>4 DEF WindowInv
    <2> QED BY <2>1
  <1>2. WindowInv /\ ThreadsInv /\ ThreadsInv' /\ [WNext]_allVars => WindowInv'
    <2>1. ASSUME WindowInv, ThreadsInv, ThreadsInv', WNext PROVE WindowInv'
      <3>1. "main" \in Threads /\ "ui" \in Threads /\ "listener" \in Threads
        BY DEF Threads
      <3> QED BY <2>1, <3>1, PaintKeepsWindowInv, MoveKeepsWindowInv
              DEF WNext, WMainStep, WUIStep, WListenerStep
    <2>2. ASSUME WindowInv, UNCHANGED allVars PROVE WindowInv'
      BY <2>2 DEF WindowInv, allVars, vars, windowVars
    <2> QED BY <2>1, <2>2
  <1>3. WSpec => []ThreadsInv
    BY ThreadsThatDrawAreThreads, ThreadsInvariantHolds, PTL
  <1> QED BY <1>1, <1>2, <1>3, PTL DEF WSpec

\* So nothing is ever drawn before the window is opened or after it is closed
\* (ChatWindow::init, ChatWindow::destroy).
THEOREM DrawnOnlyWhileOpen == WSpec => []DrawnWhileOpen
  <1>1. WindowInv => DrawnWhileOpen
    <2> SUFFICES ASSUME WindowInv, NEW t \in Threads, todo[t] # <<>>
                 PROVE  window = IF Does(t, "initscr") THEN "new" ELSE "open"
      BY DEF DrawnWhileOpen
    <2>1. CASE todo[t] \in Seq(Strokes)
      <3>1. Head(todo[t]) \in Strokes
        BY <2>1
      <3>2. ~Does(t, "initscr")
        BY <3>1, StrokesAreQuiet DEF Does
      <3> QED BY <2>1, <3>2, StrokesAreQuiet DEF WindowInv, Threads, Does
    <2>2. CASE todo[t] \notin Seq(Strokes)
      <3>1. t = "main" /\ pc["main"] \in {"start", "delete_window"}
        BY <2>2 DEF WindowInv, Threads
      <3> QED BY <3>1, StrokesAreQuiet DEF WindowInv, Does
    <2> QED BY <2>1, <2>2
  <1> QED BY <1>1, WindowInvariantHolds, PTL

-----------------------------------------------------------------------------
(* Methods are drawn one after the other.                                  *)

\* What begins with the start of a method.
Whole(label, s) == s \in Seq(Bits) /\ Drawable(label, s) /\ ~Within(s)

\* One whole method after another.
LEMMA MethodAfterMethod ==
  ASSUME NEW label, NEW a, NEW b, Whole(label, a), Whole(label, b)
  PROVE  Whole(label, a \o b)
  <1> DEFINE s == a \o b
  <1>1. a \in Seq(Bits) /\ b \in Seq(Bits)
    BY DEF Whole
  <1>2. /\ s \in Seq(Bits) /\ Len(s) = Len(a) + Len(b) /\ DOMAIN s = 1 .. Len(s)
        /\ \A i \in DOMAIN s : s[i] = IF i <= Len(a) THEN a[i] ELSE b[i - Len(a)]
        /\ DOMAIN a = 1 .. Len(a) /\ DOMAIN b = 1 .. Len(b)
        /\ Len(a) \in Nat /\ Len(b) \in Nat
    BY <1>1
  <1>3. Len(b) > 0 => b[1][1] \notin Seconds
    BY <1>1 DEF Whole, Within
  <1>4. ~Within(s)
    <2>1. Len(a) > 0 => a[1][1] \notin Seconds
      BY <1>1 DEF Whole, Within
    <2>2. CASE Len(a) > 0
      BY <2>1, <2>2, <1>2 DEF Within
    <2>3. CASE Len(a) = 0
      BY <2>3, <1>2, <1>3 DEF Within
    <2> QED BY <2>2, <2>3, <1>2
  <1> HIDE DEF s
  <1>5. ASSUME NEW i \in DOMAIN s
        PROVE  /\ Second(s[i][1]) # "none" => i < Len(s) /\ s[i + 1][1] = Second(s[i][1])
               /\ i > 1 /\ s[i][1] \in Seconds => Second(s[i - 1][1]) = s[i][1]
               /\ s[i][1] \in {"insert", "erase", "list"} => label \in {"welcome", "handler", "remove"}
               /\ s[i][1] = "newwin" => label \in {"clearing", "menu"}
    <2>1. CASE i <= Len(a)
      <3>1. i \in DOMAIN a /\ s[i] = a[i] /\ (i < Len(a) => s[i + 1] = a[i + 1])
            /\ (i > 1 => s[i - 1] = a[i - 1])
        BY <2>1, <1>2
      <3> QED BY <3>1, <2>1, <1>2 DEF Whole, Drawable
    <2>2. CASE i > Len(a)
      <3> DEFINE j == i - Len(a)
      <3>1. j \in DOMAIN b /\ s[i] = b[j] /\ (j < Len(b) => i < Len(s) /\ s[i + 1] = b[j + 1])
            /\ (j > 1 => s[i - 1] = b[j - 1])
        <4>1. /\ i \in Nat /\ j \in DOMAIN b /\ s[i] = b[j]
              /\ j < Len(b) => i + 1 \in DOMAIN s /\ ~(i + 1 <= Len(a)) /\ i < Len(s)
              /\ j > 1 => i - 1 \in DOMAIN s /\ ~(i - 1 <= Len(a))
              /\ (i + 1) - Len(a) = j + 1 /\ (i - 1) - Len(a) = j - 1
          <5>1. s[i] = b[j]
            BY <2>2, <1>2
          <5>2. i \in 1 .. Len(a) + Len(b) /\ Len(a) \in Nat /\ Len(b) \in Nat
            BY <1>2
          <5>3. /\ i \in Nat /\ j \in 1 .. Len(b)
                /\ j < Len(b) => i + 1 \in 1 .. Len(a) + Len(b) /\ ~(i + 1 <= Len(a))
                                  /\ i < Len(a) + Len(b)
                /\ j > 1 => i - 1 \in 1 .. Len(a) + Len(b) /\ ~(i - 1 <= Len(a))
                /\ (i + 1) - Len(a) = j + 1 /\ (i - 1) - Len(a) = j - 1
            BY <5>2, <2>2
          <5> HIDE DEF j
          <5> QED BY <5>1, <5>3, <1>2
        <4>2. /\ j < Len(b) => s[i + 1] = b[(i + 1) - Len(a)]
              /\ j > 1 => s[i - 1] = b[(i - 1) - Len(a)]
          BY <4>1, <1>2
        <4> QED BY <4>1, <4>2
      <3>2. /\ Second(b[j][1]) # "none" => j < Len(b) /\ b[j + 1][1] = Second(b[j][1])
            /\ j > 1 /\ b[j][1] \in Seconds => Second(b[j - 1][1]) = b[j][1]
            /\ b[j][1] \in {"insert", "erase", "list"} => label \in {"welcome", "handler", "remove"}
            /\ b[j][1] = "newwin" => label \in {"clearing", "menu"}
        BY <3>1 DEF Whole, Drawable
      <3>3. j = 1 => s[i][1] \notin Seconds
        BY <3>1, <1>2, <1>3
      <3>4. j \in Nat /\ (j = 1 \/ j > 1)
        BY <3>1, <1>2
      <3> QED BY <3>1, <3>2, <3>3, <3>4
    <2> QED BY <2>1, <2>2, <1>2
  <1>6. Drawable(label, s)
    BY <1>5 DEF Drawable
  <1> QED BY <1>2, <1>4, <1>6 DEF Whole, s

\* Every method by itself is whole.
LEMMA MethodsAreWhole ==
  ASSUME NEW label
  PROVE  /\ Whole(label, <<>>) /\ Whole(label, init) /\ Whole(label, destroy)
         /\ Whole(label, print) /\ Whole(label, log) /\ Whole(label, error)
         /\ Whole(label, clearMessages)
         /\ label \in {"clearing", "menu"} => Whole(label, clearUserList)
         /\ label \in {"welcome", "handler", "remove"} =>
              \A u \in {Own, Other} : Whole(label, addUser(u)) /\ Whole(label, removeUser(u))
  <1> USE DEF Whole, Drawable, Within, Second, Seconds
  <1>1. Whole(label, <<>>) /\ Whole(label, init) /\ Whole(label, destroy)
    BY DEF init, destroy, Bits
  <1>2. Post \in Seq(Bits) /\ clearMessages \in Seq(Bits) /\ clearUserList \in Seq(Bits)
    BY DEF Post, clearMessages, clearUserList, Bits, Strokes
  <1>3. Whole(label, print) /\ Whole(label, log) /\ Whole(label, error)
    <2>1. /\ Post # <<>> /\ Len(Post) = 2 /\ DOMAIN Post = {1, 2}
          /\ Head(Post)[1] = "mvprintw" /\ Post[1][1] = "mvprintw" /\ Post[2][1] = "next_row"
      BY DEF Post
    <2>2. Whole(label, Post)
      BY <1>2, <2>1
    <2> QED BY <2>2 DEF print, log, error
  <1>4. Whole(label, clearMessages)
    BY <1>2 DEF clearMessages
  <1>5. label \in {"clearing", "menu"} => Whole(label, clearUserList)
    BY <1>2 DEF clearUserList
  <1>6. ASSUME label \in {"welcome", "handler", "remove"}, NEW u \in {Own, Other}
        PROVE  Whole(label, addUser(u)) /\ Whole(label, removeUser(u))
    <2>1. addUser(u) \in Seq(Bits) /\ removeUser(u) \in Seq(Bits)
      BY <1>6 DEF addUser, removeUser, Bits, Strokes
    <2>2. Whole(label, addUser(u))
      BY <1>6, <2>1 DEF addUser
    <2>3. Whole(label, removeUser(u))
      BY <1>6, <2>1 DEF removeUser
    <2> QED BY <2>2, <2>3
  <1> QED BY <1>1, <1>3, <1>4, <1>5, <1>6

\* So is all that is drawn at a label.
LEMMA TextsAreWhole ==
  ASSUME NEW label, NEW drawing \in Texts(label)
  PROVE  Whole(label, drawing)
  <1>1. \A a, b : Whole(label, a) /\ Whole(label, b) => Whole(label, a \o b)
    BY MethodAfterMethod
  <1>2. /\ Whole(label, <<>>) /\ Whole(label, init) /\ Whole(label, destroy)
        /\ Whole(label, print) /\ Whole(label, log) /\ Whole(label, error)
        /\ Whole(label, clearMessages)
        /\ label \in {"clearing", "menu"} => Whole(label, clearUserList)
        /\ label \in {"welcome", "handler", "remove"} =>
             \A u \in {Own, Other} : Whole(label, addUser(u)) /\ Whole(label, removeUser(u))
    BY MethodsAreWhole
  <1> HIDE DEF print, log, error, clearMessages, clearUserList, addUser, removeUser, init,
               destroy, Whole
  <1>3. label \in {"clearing", "menu"} => Whole(label, clearAll)
    BY <1>1, <1>2 DEF clearAll
  <1>4. label = "menu" => Whole(label, Menu)
    <2> SUFFICES ASSUME label = "menu" PROVE Whole(label, Menu)
      OBVIOUS
    <2>1. Whole(label, clearAll \o print)
      BY <1>1, <1>2, <1>3
    <2>2. Whole(label, clearAll \o print \o print)
      BY <1>1, <1>2, <2>1
    <2>3. Whole(label, clearAll \o print \o print \o print)
      BY <1>1, <1>2, <2>2
    <2> QED BY <1>1, <1>2, <2>3 DEF Menu
  <1>5. label = "welcome" => Whole(label, WelcomeText)
    BY <1>1, <1>2 DEF WelcomeText
  <1>6. CASE label = "handler" /\ asHost
    <2>1. Whole(label, addUser(Other) \o log)
      <3>1. Whole(label, addUser(Other)) /\ Whole(label, log)
        BY <1>2, <1>6
      <3> QED BY <3>1, <1>1
    <2>2. drawing \in HostHandler
      BY <1>6 DEF Texts
    <2> QED BY <1>2, <2>1, <2>2 DEF HostHandler
  <1>7. CASE label = "handler" /\ ~asHost
    <2>1. /\ Whole(label, log \o IF Other \in m_users THEN removeUser(Other) ELSE addUser(Other))
          /\ Whole(label, addUser(Own) \o addUser(Other))
      <3>1. /\ Whole(label, addUser(Other)) /\ Whole(label, removeUser(Other))
            /\ Whole(label, addUser(Own)) /\ Whole(label, log)
        BY <1>2, <1>7
      <3> QED BY <3>1, <1>1
    <2>2. drawing \in ClientHandler
      BY <1>7 DEF Texts
    <2> QED BY <1>2, <2>1, <2>2 DEF ClientHandler
  <1>8. CASE label # "handler"
    BY <1>2, <1>3, <1>4, <1>5, <1>8 DEF Texts
  <1> QED BY <1>6, <1>7, <1>8

\* What is left when the first of it is drawn.
LEMMA RestIsDrawable ==
  ASSUME NEW label, NEW s \in Seq(Bits), s # <<>>, Drawable(label, s)
  PROVE  /\ Drawable(label, Tail(s)) /\ Tail(s) \in Seq(Bits)
         /\ Second(Head(s)[1]) # "none" =>
              Tail(s) # <<>> /\ Head(Tail(s))[1] = Second(Head(s)[1])
         /\ Within(Tail(s)) => Head(Tail(s))[1] = Second(Head(s)[1])
  <1> DEFINE r == Tail(s)
  <1>1. /\ r \in Seq(Bits) /\ Len(s) \in Nat /\ Len(s) > 0
        /\ DOMAIN s = 1 .. Len(s) /\ DOMAIN r = 1 .. Len(r) /\ Len(s) = Len(r) + 1
        /\ \A i \in DOMAIN r : r[i] = s[i + 1]
        /\ Head(s) = s[1] /\ (r # <<>> => Len(r) > 0 /\ Head(r) = s[2])
        /\ Len(r) \in Nat
    OBVIOUS
  <1> HIDE DEF r
  <1>2. ASSUME NEW i \in DOMAIN r
        PROVE  /\ Second(r[i][1]) # "none" => i < Len(r) /\ r[i + 1][1] = Second(r[i][1])
               /\ i > 1 /\ r[i][1] \in Seconds => Second(r[i - 1][1]) = r[i][1]
               /\ r[i][1] \in {"insert", "erase", "list"} => label \in {"welcome", "handler", "remove"}
               /\ r[i][1] = "newwin" => label \in {"clearing", "menu"}
    <2>1. i + 1 \in DOMAIN s /\ r[i] = s[i + 1] /\ (i < Len(r) => r[i + 1] = s[i + 2])
          /\ (i > 1 => r[i - 1] = s[i])
      BY <1>1
    <2>2. (i + 1) + 1 = i + 2 /\ (i + 1) - 1 = i /\ (i + 1 < Len(s) <=> i < Len(r))
      BY <1>1
    <2>3. /\ Second(s[i + 1][1]) # "none" =>
               i + 1 < Len(s) /\ s[i + 2][1] = Second(s[i + 1][1])
          /\ i + 1 > 1 /\ s[i + 1][1] \in Seconds => Second(s[i][1]) = s[i + 1][1]
          /\ s[i + 1][1] \in {"insert", "erase", "list"} => label \in {"welcome", "handler", "remove"}
          /\ s[i + 1][1] = "newwin" => label \in {"clearing", "menu"}
      BY <2>1, <2>2 DEF Drawable
    <2> QED BY <1>1, <2>1, <2>2, <2>3
  <1>3. 1 \in DOMAIN s /\ (r # <<>> => 2 \in DOMAIN s)
    BY <1>1
  <1>4. Second(Head(s)[1]) # "none" => r # <<>> /\ Head(r)[1] = Second(Head(s)[1])
    <2>1. Second(s[1][1]) # "none" => 1 < Len(s) /\ s[2][1] = Second(s[1][1])
      BY <1>3 DEF Drawable
    <2>2. r = <<>> => Len(r) = 0
      OBVIOUS
    <2> QED BY <2>1, <2>2, <1>1
  <1>5. Within(r) => Head(r)[1] = Second(Head(s)[1])
    <2>1. r # <<>> /\ s[2][1] \in Seconds => Second(s[1][1]) = s[2][1]
      BY <1>3 DEF Drawable
    <2> QED BY <2>1, <1>1 DEF Within
  <1>6. Drawable(label, r)
    BY <1>2 DEF Drawable
  <1> QED BY <1>1, <1>4, <1>5, <1>6 DEF r

-----------------------------------------------------------------------------
(* What a stroke changes.                                                  *)

Op(t) == Head(todo[t])[1]

\* One stroke of t: it may be within a method afterwards, and nobody else is
\* unless he was.
LEMMA PaintStep ==
  ASSUME WindowInv, StrokesInv, NEW t \in Threads, Paint(t)
  PROVE  /\ UNCHANGED vars /\ Draw(t)
         /\ todo[t] \in Seq(Bits) /\ todo[t] # <<>> /\ Head(todo[t]) \in Bits
         /\ todo' = [u \in Threads |-> IF u = t THEN Tail(todo[t]) ELSE todo[u]]
         /\ Drawable(pc[t], Tail(todo[t]))
         /\ painting' = IF Tail(todo[t]) = <<>> THEN painting \ {t} ELSE painting \cup {t}
         /\ Second(Op(t)) # "none" => Tail(todo[t]) # <<>> /\ Head(Tail(todo[t]))[1] = Second(Op(t))
         /\ Within(Tail(todo[t])) => Head(Tail(todo[t]))[1] = Second(Op(t))
  <1>1. UNCHANGED vars /\ Draw(t)
    BY DEF Paint
  <1>2. todo[t] \in Seq(Bits)
    <2>1. \A q \in Seq(Strokes) : q \in Seq(Bits)
      BY StrokesAreQuiet
    <2>2. <<>> \in Seq(Bits)
      OBVIOUS
    <2> QED BY <2>1, <2>2, StrokesAreQuiet DEF WindowInv, Threads
  <1>3. todo = [u \in Threads |-> todo[u]]
    BY DEF WindowInv
  <1>4. /\ todo[t] # <<>>
        /\ todo' = [todo EXCEPT ![t] = Tail(todo[t])]
    BY <1>1, <1>2, <1>3, DrawTakesTheFirst
  <1>5. todo' = [u \in Threads |-> IF u = t THEN Tail(todo[t]) ELSE todo[u]]
    BY <1>3, <1>4
  <1>6. Drawable(pc[t], todo[t])
    BY DEF StrokesInv
  <1>7. /\ Drawable(pc[t], Tail(todo[t]))
        /\ Second(Op(t)) # "none" => Tail(todo[t]) # <<>> /\ Head(Tail(todo[t]))[1] = Second(Op(t))
        /\ Within(Tail(todo[t])) => Head(Tail(todo[t]))[1] = Second(Op(t))
    BY <1>2, <1>4, <1>6, RestIsDrawable DEF Op
  <1>8. Then(t, <<>>)
    <2>1. CASE OpenWindow(t) \/ CloseWindow(t) \/ PrintText(t) \/ NextRow(t)
      BY <2>1 DEF OpenWindow, CloseWindow, PrintText, NextRow
    <2>2. CASE ClearText(t) \/ ResetRow(t) \/ NewPanel(t) \/ ChangeUsers(t) \/ ListUsers(t)
      BY <2>2 DEF ClearText, ResetRow, NewPanel, ChangeUsers, ListUsers
    <2> QED BY <2>1, <2>2, <1>1 DEF Draw
  <1>9. painting' = IF Tail(todo[t]) = <<>> THEN painting \ {t} ELSE painting \cup {t}
    BY <1>5, <1>8 DEF Then
  <1>10. Head(todo[t]) \in Bits
    BY <1>2, <1>4
  <1> QED BY <1>1, <1>2, <1>4, <1>5, <1>7, <1>9, <1>10

\* Who is within a method after a stroke of t.
LEMMA WhoIsWithin ==
  ASSUME WindowInv, StrokesInv, NEW t \in Threads, Paint(t)
  PROVE  /\ \A u \in Threads \ {t} : todo'[u] = todo[u]
         /\ \A x \in Seconds : Does(t, x)' <=> Second(Op(t)) = x
         /\ \A u \in Threads \ {t} : \A x \in Seconds : Does(u, x)' <=> Does(u, x)
         /\ \A x : Does(t, x) <=> Op(t) = x
  <1>1. /\ todo[t] # <<>>
        /\ todo' = [u \in Threads |-> IF u = t THEN Tail(todo[t]) ELSE todo[u]]
        /\ Second(Op(t)) # "none" => Tail(todo[t]) # <<>> /\ Head(Tail(todo[t]))[1] = Second(Op(t))
        /\ Within(Tail(todo[t])) => Head(Tail(todo[t]))[1] = Second(Op(t))
    BY PaintStep
  <1>2. /\ todo'[t] = Tail(todo[t])
        /\ \A u \in Threads \ {t} : todo'[u] = todo[u]
    BY <1>1
  <1>3. ASSUME NEW x \in Seconds PROVE Does(t, x)' <=> Second(Op(t)) = x
    BY <1>1, <1>2 DEF Does, Within, Seconds
  <1>4. \A u \in Threads \ {t} : \A x \in Seconds : Does(u, x)' <=> Does(u, x)
    BY <1>2 DEF Does
  <1> QED BY <1>1, <1>2, <1>3, <1>4 DEF Does, Op

LEMMA PaintKeepsStrokesInv ==
  ASSUME WindowInv, StrokesInv, painting \subseteq {u \in Threads : todo[u] # <<>>},
         NEW t \in Threads, Paint(t)
  PROVE  StrokesInv' /\ painting' \subseteq {u \in Threads : todo'[u] # <<>>}
  <1>1. /\ UNCHANGED vars
        /\ todo' = [u \in Threads |-> IF u = t THEN Tail(todo[t]) ELSE todo[u]]
        /\ Drawable(pc[t], Tail(todo[t]))
        /\ painting' = IF Tail(todo[t]) = <<>> THEN painting \ {t} ELSE painting \cup {t}
    BY PaintStep
  <1>2. /\ todo'[t] = Tail(todo[t]) /\ pc' = pc
        /\ \A u \in Threads \ {t} : todo'[u] = todo[u]
    BY <1>1 DEF vars
  <1>3. ASSUME NEW u \in Threads
        PROVE  Drawable(pc'[u], todo'[u]) /\ (Within(todo'[u]) => u \in painting')
    <2>1. CASE u = t
      BY <2>1, <1>1, <1>2 DEF Within
    <2>2. CASE u # t
      <3>1. Drawable(pc[u], todo[u]) /\ (Within(todo[u]) => u \in painting)
        BY DEF StrokesInv
      <3> QED BY <2>2, <3>1, <1>1, <1>2
    <2> QED BY <2>1, <2>2
  <1> QED BY <1>1, <1>2, <1>3 DEF StrokesInv

\* What is listed is one of the two users.
LEMMA ListedUsers ==
  ASSUME NEW bit \in Bits, bit[1] \in {"insert", "erase"}
  PROVE  bit[2] \in Users
  <1>1. \A b \in {"insert", "erase"} \X {Own, Other} : b[2] \in {Own, Other}
    OBVIOUS
  <1>2. bit \in {"insert", "erase"} \X {Own, Other}
    BY DEF Bits, Strokes
  <1> QED BY <1>1, <1>2, PaintersAssumption

\* The panel has a row for every user, and one more.
LEMMA RowsOfPanel ==
  /\ Cardinality(Users) \in Nat
  /\ \A S \in SUBSET Users : IsFiniteSet(S) /\ Cardinality(S) \in Nat
  /\ \A p \in [PanelRows -> SUBSET Users] : Len(p) = Cardinality(Users) + 1
  <1>1. Cardinality(Users) \in Nat
    BY WindowAssumption, FS_CardinalityType
  <1>2. \A S \in SUBSET Users : IsFiniteSet(S) /\ Cardinality(S) \in Nat
    BY WindowAssumption, FS_Subset, FS_CardinalityType
  <1>3. ASSUME NEW p \in [PanelRows -> SUBSET Users] PROVE Len(p) = Cardinality(Users) + 1
    <2> DEFINE n == Cardinality(Users) + 1
    <2>1. n \in Nat /\ p \in [1 .. n -> SUBSET Users]
      BY <1>1 DEF PanelRows
    <2> HIDE DEF n
    <2>2. Len(p) = n
      BY <2>1
    <2> QED BY <2>2 DEF n
  <1> QED BY <1>1, <1>2, <1>3

TextType ==
  {Blurred} \cup
    [m_msg_win_y : 1 .. Rows + 1, places : [Places -> Marks]]

\* A part of the text is set to a value of its type.
LEMMA SetTextKeepsType ==
  ASSUME NEW t, NEW part, NEW value, text \in TextType, SetText(t, part, value),
         text # Blurred =>
           \/ part = "places" /\ value \in [Places -> Marks]
           \/ part = "m_msg_win_y" /\ value \in 1 .. Rows + 1
  PROVE  /\ text' \in TextType
         /\ text' # Blurred =>
              /\ text # Blurred /\ painting \ {t} = {}
              /\ text'.places = (IF part = "places" THEN value ELSE text.places)
              /\ text'.m_msg_win_y = (IF part = "places" THEN text.m_msg_win_y ELSE value)
  <1>1. CASE text = Blurred \/ painting \ {t} # {}
    BY <1>1 DEF SetText, TextType
  <1>2. CASE text # Blurred /\ painting \ {t} = {}
    <2>1. text \in [m_msg_win_y : 1 .. Rows + 1, places : [Places -> Marks]]
      BY <1>2 DEF TextType
    <2>2. text' = [text EXCEPT ![part] = value]
      BY <1>2 DEF SetText
    <2>3. CASE part = "places" /\ value \in [Places -> Marks]
      BY <1>2, <2>1, <2>2, <2>3 DEF TextType
    <2>4. CASE part = "m_msg_win_y" /\ value \in 1 .. Rows + 1
      BY <1>2, <2>1, <2>2, <2>4 DEF TextType
    <2> QED BY <1>2, <2>3, <2>4
  <1> QED BY <1>1, <1>2

\* What is printed is marked as a line, the rest of one, or over one.
LEMMA PrintedType ==
  ASSUME NEW places \in [Places -> Marks], NEW first, NEW length
  PROVE  Printed(places, first, length) \in [Places -> Marks]
  <1>1. \A begins, mark : mark \in Marks => Over(begins, mark) \in Marks
    BY DEF Over, Marks
  <1> HIDE DEF Marks, Over
  <1> QED BY <1>1 DEF Printed

\* What the strokes that set the text make of it.
LEMMA StrokesOfText ==
  ASSUME NEW t, text \in TextType, PrintText(t) \/ NextRow(t) \/ ClearText(t) \/ ResetRow(t)
  PROVE  /\ text' \in TextType
         /\ text' # Blurred =>
              /\ painting \ {t} = {}
              /\ ~ClearText(t) => text # Blurred
              /\ PrintText(t) =>
                   /\ text'.m_msg_win_y = text.m_msg_win_y
                   /\ \E length \in Lengths :
                        text'.places = Printed(text.places, Middle(text.m_msg_win_y), length)
              /\ NextRow(t) => text'.places = text.places /\ text'.m_msg_win_y = Below(text.m_msg_win_y)
              /\ ClearText(t) => text'.places = BlankText.places
              /\ ResetRow(t) => text'.places = text.places /\ text'.m_msg_win_y = 1
  <1>1. Rows \in Nat
    BY WindowAssumption
  <1>2. text # Blurred => /\ text.m_msg_win_y \in 1 .. Rows + 1
                          /\ text.places \in [Places -> Marks]
    BY DEF TextType
  <1>3. BlankText \in TextType /\ BlankText.places \in [Places -> Marks]
    BY <1>1 DEF BlankText, TextType, Marks
  <1>5. CASE PrintText(t)
    <2> DEFINE value(length) == Printed(text.places, Middle(text.m_msg_win_y), length)
    <2>1. PICK length \in Lengths : SetText(t, "places", value(length))
      BY <1>5 DEF PrintText
    <2>2. text # Blurred => value(length) \in [Places -> Marks]
      BY <1>2, PrintedType
    <2>3. Op(t) = "mvprintw"
      BY <1>5 DEF PrintText, Does, Op
    <2>4. ~NextRow(t) /\ ~ClearText(t) /\ ~ResetRow(t)
      BY <2>3 DEF NextRow, ClearText, ResetRow, Does, Op
    <2> HIDE DEF value
    <2>5. /\ text' \in TextType
          /\ text' # Blurred =>
              /\ text # Blurred /\ painting \ {t} = {}
              /\ text'.places = value(length)
              /\ text'.m_msg_win_y = text.m_msg_win_y
      BY <2>1, <2>2, SetTextKeepsType
    <2> QED BY <2>4, <2>5 DEF value
  <1>6. CASE NextRow(t)
    <2>1. SetText(t, "m_msg_win_y", Below(text.m_msg_win_y))
      BY <1>6 DEF NextRow
    <2>2. text # Blurred => Below(text.m_msg_win_y) \in 1 .. Rows + 1
      BY <1>1, <1>2 DEF Below
    <2>3. Op(t) = "next_row"
      BY <1>6 DEF NextRow, Does, Op
    <2>4. ~PrintText(t) /\ ~ClearText(t) /\ ~ResetRow(t)
      BY <2>3 DEF PrintText, ClearText, ResetRow, Does, Op
    <2>5. /\ text' \in TextType
          /\ text' # Blurred =>
              /\ text # Blurred /\ painting \ {t} = {}
              /\ text'.places = text.places
              /\ text'.m_msg_win_y = Below(text.m_msg_win_y)
      BY <2>1, <2>2, SetTextKeepsType
    <2> QED BY <2>4, <2>5
  <1>7. CASE ResetRow(t)
    <2>1. SetText(t, "m_msg_win_y", 1)
      BY <1>7 DEF ResetRow
    <2>3. Op(t) = "first_row"
      BY <1>7 DEF ResetRow, Does, Op
    <2>4. ~PrintText(t) /\ ~ClearText(t) /\ ~NextRow(t)
      BY <2>3 DEF PrintText, ClearText, NextRow, Does, Op
    <2>2. 1 \in 1 .. Rows + 1
      BY <1>1
    <2>5. /\ text' \in TextType
          /\ text' # Blurred =>
              /\ text # Blurred /\ painting \ {t} = {}
              /\ text'.places = text.places
              /\ text'.m_msg_win_y = 1
      BY <2>1, <2>2, SetTextKeepsType
    <2> QED BY <2>4, <2>5
  <1>8. CASE ClearText(t)
    <2>1. text' = IF painting \ {t} # {} THEN Blurred
                  ELSE IF text = Blurred THEN BlankText
                  ELSE [text EXCEPT !.places = BlankText.places]
      BY <1>8 DEF ClearText
    <2>2. Op(t) = "clear"
      BY <1>8 DEF ClearText, Does, Op
    <2>3. ~PrintText(t) /\ ~ResetRow(t) /\ ~NextRow(t)
      BY <2>2 DEF PrintText, ResetRow, NextRow, Does, Op
    <2>4. text # Blurred =>
            /\ [text EXCEPT !.places = BlankText.places] \in TextType
            /\ [text EXCEPT !.places = BlankText.places].places = BlankText.places
      BY <1>3 DEF TextType
    <2>5. Blurred \in TextType
      BY DEF TextType
    <2>6. text' \in TextType /\ (text' # Blurred => painting \ {t} = {} /\ text'.places = BlankText.places)
      BY <2>1, <2>4, <2>5, <1>3
    <2> QED BY <2>3, <2>6, <1>8
  <1> QED BY <1>5, <1>6, <1>7, <1>8

LEMMA PaintKeepsWindowType ==
  ASSUME WindowInv, WindowInv', DrawingInv, NEW t \in Threads, Paint(t)
  PROVE  WindowTypeOK'
  <1>1. /\ Draw(t) /\ todo[t] # <<>> /\ Head(todo[t]) \in Bits
    BY PaintStep DEF DrawingInv
  <1>2. StrokesInv' /\ painting' \subseteq {u \in Threads : todo'[u] # <<>>}
    BY PaintKeepsStrokesInv, PaintersAssumption DEF DrawingInv, WindowTypeOK
  <1>3. DOMAIN todo' = Painters
    BY PaintersAssumption DEF WindowInv
  <1>4. /\ window \in {"new", "open", "closed"}
        /\ text \in TextType
        /\ m_user_win_y \in 1 .. Len(panel) + 1
        /\ panel \in [PanelRows -> SUBSET Users]
        /\ m_users \subseteq Users
        /\ m_mutex \in Painters \cup {"free"}
    BY DEF DrawingInv, WindowTypeOK, TextType
  <1>5. /\ Cardinality(Users) \in Nat
        /\ \A S \in SUBSET Users : Cardinality(S) \in Nat
        /\ \A p \in [PanelRows -> SUBSET Users] : Len(p) = Cardinality(Users) + 1
    BY RowsOfPanel
  <1>6. BlankPanel \in [PanelRows -> SUBSET Users]
    BY DEF BlankPanel
  <1>7. /\ window' \in {"new", "open", "closed"}
        /\ text' \in TextType
        /\ m_user_win_y' \in 1 .. Len(panel') + 1
        /\ panel' \in [PanelRows -> SUBSET Users]
        /\ m_users' \subseteq Users
        /\ m_mutex' \in Painters \cup {"free"}
    <2>1. CASE OpenWindow(t) \/ CloseWindow(t)
      BY <2>1, <1>4 DEF OpenWindow, CloseWindow, panelVars, userVars
    <2>2. CASE PrintText(t) \/ NextRow(t) \/ ClearText(t) \/ ResetRow(t)
      <3>1. text' \in TextType
        BY <2>2, <1>4, StrokesOfText
      <3> QED BY <2>2, <3>1, <1>4 DEF PrintText, NextRow, ClearText, ResetRow, panelVars, userVars
    <2>3. CASE NewPanel(t)
      BY <2>3, <1>4, <1>5, <1>6 DEF NewPanel, FreshPanel, userVars
    <2>4. CASE ChangeUsers(t)
      <3>1. Argument(t) \in Users
        BY <2>4, <1>1, ListedUsers DEF ChangeUsers, Does, Argument
      <3>2. m_users' \subseteq Users
        BY <2>4, <3>1, <1>4 DEF ChangeUsers
      <3>3. m_mutex' \in Painters \cup {"free"}
        BY <2>4, PaintersAssumption DEF ChangeUsers
      <3> QED BY <2>4, <3>2, <3>3, <1>4, <1>5, <1>6 DEF ChangeUsers, FreshPanel
    <2>5. CASE ListUsers(t)
      <3>1. \A n : User(m_users, n) \in SUBSET Users
        BY <1>4 DEF User
      <3>2. panel' \in [PanelRows -> SUBSET Users]
        BY <2>5, <3>1, <1>4 DEF ListUsers
      <3>3. Len(panel) = Cardinality(Users) + 1 /\ Len(panel') = Cardinality(Users) + 1
        BY <3>2, <1>4, <1>5
      <3>4. Cardinality(m_users) \in Nat
        BY <1>4, <1>5
      <3>5. m_user_win_y' = IF m_user_win_y + Cardinality(m_users) > Len(panel) THEN Len(panel) + 1
                            ELSE m_user_win_y + Cardinality(m_users)
        BY <2>5 DEF ListUsers
      <3>6. m_user_win_y' \in 1 .. Len(panel') + 1
        BY <3>3, <3>4, <3>5, <1>4, <1>5
      <3> QED BY <2>5, <3>2, <3>6, <1>4 DEF ListUsers
    <2> QED BY <2>1, <2>2, <2>3, <2>4, <2>5, <1>1 DEF Draw
  <1> QED BY <1>2, <1>3, <1>7, PaintersAssumption DEF WindowTypeOK, TextType

\* One more line is begun where no line began, whatever its length, and below the
\* last row none is.
LEMMA LinesGrow ==
  ASSUME NEW places \in [Places -> Marks], NEW n \in 1 .. Rows + 1, NEW length \in Nat \ {0},
         Lines(places, n)
  PROVE  Lines(Printed(places, Middle(n), length), n + 1)
  <1> DEFINE first == Middle(n)
             after == Printed(places, first, length)
  <1>1. Rows \in Nat /\ first \in Nat /\ first >= 1
    BY WindowAssumption DEF Middle
  <1>2. Begun(n + 1) = Begun(n) \cup {first}
    BY <1>1 DEF Begun
  <1>3. \A p \in Begun(n) : p < first
    BY <1>1 DEF Begun, Middle
  <1>4. \A p \in Places : p \in Int
    BY DEF Places
  <1> HIDE DEF first
  <1>5. SUFFICES ASSUME NEW p \in Places
                 PROVE  /\ after[p] \in IF p \in Begun(n + 1) THEN {"line", "over"}
                                                               ELSE {"blank", "rest"}
                        /\ after[p] \in {"rest", "over"} => p > 1 /\ after[p - 1] # "blank"
    BY DEF Lines, first
  <1>6. /\ places[p] \in IF p \in Begun(n) THEN {"line", "over"} ELSE {"blank", "rest"}
        /\ places[p] \in {"rest", "over"} => p > 1 /\ places[p - 1] # "blank"
    BY DEF Lines
  <1>7. \A q \in Places :
          after[q] = IF q \in first .. first + length - 1 THEN Over(q = first, places[q])
                                                          ELSE places[q]
    BY DEF Printed
  <1>8. \A q \in Places : places[q] # "blank" => after[q] # "blank"
    BY <1>7 DEF Over
  <1>9. \A q \in Places : q \in first .. first + length - 1 => after[q] # "blank"
    BY <1>7 DEF Over
  <1>10. p > 1 => p - 1 \in Places
    BY <1>1 DEF Places
  <1> HIDE DEF after
  <1>11. CASE p = first
    <2>1. p \notin Begun(n) /\ p \in Begun(n + 1)
      BY <1>1, <1>2, <1>3, <1>11
    <2>2. p \in first .. first + length - 1
      BY <1>1, <1>11
    <2>3. CASE places[p] = "blank"
      <3>1. after[p] = "line"
        BY <2>2, <2>3, <1>7, <1>11 DEF Over
      <3> QED BY <2>1, <3>1
    <2>4. CASE places[p] = "rest"
      <3>1. after[p] = "over"
        BY <2>2, <2>4, <1>7, <1>11 DEF Over
      <3> QED BY <2>1, <2>4, <3>1, <1>6, <1>8, <1>10
    <2> QED BY <2>1, <2>3, <2>4, <1>6
  <1>12. CASE p # first /\ p \in first .. first + length - 1
    <2>1. p \notin Begun(n) /\ p \notin Begun(n + 1)
      BY <1>1, <1>2, <1>3, <1>4, <1>12
    <2>2. after[p] = "rest"
      BY <2>1, <1>6, <1>7, <1>12 DEF Over
    <2>3. p > 1 /\ p - 1 \in first .. first + length - 1
      BY <1>1, <1>4, <1>12 DEF Places
    <2> QED BY <2>1, <2>2, <2>3, <1>9, <1>10
  <1>13. CASE p \notin first .. first + length - 1
    <2>1. p # first /\ after[p] = places[p]
      BY <1>1, <1>7, <1>13
    <2> QED BY <2>1, <1>2, <1>6, <1>8, <1>10
  <1> QED BY <1>11, <1>12, <1>13

\* Below the last row there is no row to begin a line in.
LEMMA LinesStayBelow ==
  ASSUME NEW places, NEW n \in 1 .. Rows + 1, Lines(places, n + 1)
  PROVE  Lines(places, Below(n))
  <1>1. Rows \in Nat
    BY WindowAssumption
  <1>2. CASE n \in 1 .. Rows
    BY <1>1, <1>2 DEF Below
  <1>3. CASE n = Rows + 1
    <2>1. Below(n) = n
      BY <1>1, <1>3 DEF Below
    <2>2. \A p \in Places : p \in Begun(n + 1) <=> p \in Begun(n)
      BY <1>1, <1>3 DEF Begun, Middle, Places
    <2> HIDE DEF Begun
    <2> QED BY <2>1, <2>2 DEF Lines
  <1> QED BY <1>1, <1>2, <1>3

\* When the window has been cleared no line begins anywhere.
LEMMA NoLinesYet == Lines(BlankText.places, 1)
  <1>1. Begun(1) = {}
    BY DEF Begun
  <1>2. \A p \in Places : BlankText.places[p] = "blank"
    BY DEF BlankText
  <1> QED BY <1>1, <1>2 DEF Lines

\* A thread that draws alone leaves the text as TextInv says; if it is not alone
\* the text is blurred.
LEMMA PaintKeepsTextInv ==
  ASSUME WindowInv, DrawingInv, NEW t \in Threads, Paint(t), text' # Blurred
  PROVE  TextInv'
  <1> DEFINE Prints(u) == Does(u, "next_row")
             Clears(u) == Does(u, "first_row")
  <1>1. Rows \in Nat
    BY WindowAssumption
  <1>2. /\ \A u \in Threads \ {t} : todo'[u] = todo[u]
        /\ \A x \in Seconds : Does(t, x)' <=> Second(Op(t)) = x
        /\ \A u \in Threads \ {t} : \A x \in Seconds : Does(u, x)' <=> Does(u, x)
        /\ \A x : Does(t, x) <=> Op(t) = x
    BY WhoIsWithin DEF DrawingInv
  <1>3. /\ Prints(t)' <=> Op(t) = "mvprintw"
        /\ Clears(t)' <=> Op(t) = "clear"
        /\ \A u \in Threads \ {t} : (Prints(u)' <=> Prints(u)) /\ (Clears(u)' <=> Clears(u))
    BY <1>2 DEF Second, Seconds
  <1>4. text \in TextType
    BY DEF DrawingInv, WindowTypeOK, TextType
  <1>5. text # Blurred => TextInv
    BY DEF DrawingInv
  <1>6. \A u \in Threads : Prints(u) \/ Clears(u) => u \in painting
    BY DEF DrawingInv, StrokesInv, Within, Does, Seconds
  <1>7. Draw(t)
    BY DEF Paint
  <1>8. CASE OpenWindow(t) \/ CloseWindow(t) \/ NewPanel(t) \/ ChangeUsers(t) \/ ListUsers(t)
    <2>1. text' = text
      BY <1>8 DEF OpenWindow, CloseWindow, NewPanel, ChangeUsers, ListUsers
    <2>2. Op(t) \in {"initscr", "endwin", "newwin", "insert", "erase", "list"}
      BY <1>8 DEF OpenWindow, CloseWindow, NewPanel, ChangeUsers, ListUsers, Does, Op
    <2>3. \A u \in Threads : (Prints(u)' <=> Prints(u)) /\ (Clears(u)' <=> Clears(u))
      BY <2>2, <1>2, <1>3
    <2> HIDE DEF Prints, Clears
    <2>4. TextInv
      BY <2>1, <1>5
    <2> QED BY <2>1, <2>3, <2>4 DEF TextInv, Prints, Clears
  <1>9. CASE PrintText(t) \/ NextRow(t) \/ ClearText(t) \/ ResetRow(t)
    <2>1. /\ painting \ {t} = {}
          /\ ~ClearText(t) => text # Blurred
          /\ PrintText(t) =>
               /\ text'.m_msg_win_y = text.m_msg_win_y
               /\ \E length \in Lengths :
                    text'.places = Printed(text.places, Middle(text.m_msg_win_y), length)
          /\ NextRow(t) => text'.places = text.places /\ text'.m_msg_win_y = Below(text.m_msg_win_y)
          /\ ClearText(t) => text'.places = BlankText.places
          /\ ResetRow(t) => text'.places = text.places /\ text'.m_msg_win_y = 1
      BY <1>4, <1>9, StrokesOfText
    <2>2. \A u \in Threads \ {t} : ~Prints(u) /\ ~Clears(u) /\ ~Prints(u)' /\ ~Clears(u)'
      BY <2>1, <1>3, <1>6
    <2>3. \A u, v \in Threads : (Prints(u)' \/ Clears(u)') /\ (Prints(v)' \/ Clears(v)') => u = v
      BY <2>2
    <2>4. text # Blurred => text.m_msg_win_y \in 1 .. Rows + 1 /\ text.places \in [Places -> Marks]
      BY <1>4 DEF TextType
    <2>5. CASE PrintText(t)
      <3>1. Op(t) = "mvprintw" /\ text # Blurred
        BY <2>5, <2>1, <1>2 DEF PrintText, ClearText
      <3>2. \A u \in Threads : ~Prints(u) /\ ~Clears(u)
        BY <2>2, <3>1, <1>2
      <3>3. Lines(text.places, text.m_msg_win_y)
        BY <3>1, <3>2, <1>5 DEF TextInv
      <3>4. Lines(text'.places, text'.m_msg_win_y + 1)
        <4>1. PICK length \in Lengths :
                text'.places = Printed(text.places, Middle(text.m_msg_win_y), length)
          BY <2>1, <2>5
        <4>2. length \in Nat \ {0}
          BY WindowAssumption
        <4>3. text.m_msg_win_y \in 1 .. Rows + 1 /\ text.places \in [Places -> Marks]
          BY <2>4, <3>1
        <4>4. text'.m_msg_win_y = text.m_msg_win_y
          BY <2>1, <2>5
        <4> QED BY <3>3, <4>1, <4>2, <4>3, <4>4, LinesGrow
      <3>5. Prints(t)' /\ ~Clears(t)'
        BY <3>1, <1>3
      <3> HIDE DEF Prints, Clears
      <3> QED BY <3>4, <3>5, <2>2, <2>3 DEF TextInv, Prints, Clears
    <2>6. CASE NextRow(t)
      <3>1. Op(t) = "next_row" /\ text # Blurred
        BY <2>6, <2>1, <1>2 DEF NextRow, ClearText
      <3>2. Prints(t)
        BY <3>1, <1>2
      <3>3. Lines(text.places, text.m_msg_win_y + 1)
        BY <3>1, <3>2, <1>5 DEF TextInv
      <3>4. Lines(text'.places, text'.m_msg_win_y)
        <4>1. text'.places = text.places /\ text'.m_msg_win_y = Below(text.m_msg_win_y)
          BY <2>1, <2>6
        <4>2. Lines(text.places, Below(text.m_msg_win_y))
          BY <3>1, <3>3, <2>4, LinesStayBelow
        <4> QED BY <4>1, <4>2
      <3>5. ~Prints(t)' /\ ~Clears(t)'
        BY <3>1, <1>3
      <3> HIDE DEF Prints, Clears
      <3> QED BY <3>4, <3>5, <2>2, <2>3 DEF TextInv, Prints, Clears
    <2>7. CASE ClearText(t)
      <3>1. Op(t) = "clear"
        BY <2>7, <1>2 DEF ClearText
      <3>2. ~Prints(t)' /\ Clears(t)'
        BY <3>1, <1>3
      <3>3. text'.places = BlankText.places
        BY <2>1, <2>7
      <3>4. BlankText' = BlankText
        BY DEF BlankText
      <3> HIDE DEF Prints, Clears
      <3> QED BY <3>2, <3>3, <3>4, <2>2, <2>3 DEF TextInv, Prints, Clears
    <2>8. CASE ResetRow(t)
      <3>1. Op(t) = "first_row" /\ text # Blurred
        BY <2>8, <2>1, <1>2 DEF ResetRow, ClearText
      <3>2. Clears(t)
        BY <3>1, <1>2
      <3>3. text.places = BlankText.places
        BY <3>1, <3>2, <1>5 DEF TextInv
      <3>4. Lines(BlankText.places, 1)
        BY NoLinesYet
      <3>5. Lines(text'.places, text'.m_msg_win_y)
        BY <3>3, <3>4, <2>1, <2>8
      <3>6. ~Prints(t)' /\ ~Clears(t)'
        BY <3>1, <1>3
      <3> HIDE DEF Prints, Clears
      <3> QED BY <3>5, <3>6, <2>2, <2>3 DEF TextInv, Prints, Clears
    <2> QED BY <2>5, <2>6, <2>7, <2>8, <1>9
  <1> QED BY <1>7, <1>8, <1>9 DEF Draw

\* Nobody is listed beyond the last user.
LEMMA NoUserBeyond ==
  ASSUME NEW users \in SUBSET Users, NEW n \in Nat, n > Cardinality(users)
  PROVE  User(users, n) = {}
  <1>1. SUFFICES ASSUME NEW u \in users, Cardinality({v \in users : v < u}) + 1 = n
                 PROVE  FALSE
    BY DEF User
  <1> DEFINE before == {v \in users : v < u}
  <1>2. IsFiniteSet(users) /\ Cardinality(users) \in Nat
    BY RowsOfPanel
  <1>3. u \in Nat
    BY WindowAssumption
  <1>4. before \subseteq users /\ before # users
    BY <1>3
  <1>5. Cardinality(before) \in Nat /\ Cardinality(before) < Cardinality(users)
    BY <1>2, <1>4, FS_Subset, FS_CardinalityType
  <1> QED BY <1>1, <1>2, <1>5

LEMMA PanelOfNobody == PanelOf({}) = BlankPanel
  <1>1. \A y : User({}, y) = {}
    BY DEF User
  <1> QED BY <1>1 DEF PanelOf, BlankPanel

\* Before a State that chats nobody touches the list, and later only the listener
\* and the thread that begins the State.
LEMMA WhoListsUsers ==
  ASSUME ThreadsInv, StrokesInv, NEW t \in Threads, todo[t] \in Seq(Bits), todo[t] # <<>>
  PROVE  /\ Op(t) \in {"insert", "erase", "list"} => m_state \notin {"null", "wild", "conn", "name"}
         /\ Op(t) = "newwin" /\ pc["main"] = "join_ui" /\ NobodyQuits => m_state \in {"conn", "name"}
  <1>1. Drawable(pc[t], todo[t])
    BY DEF StrokesInv
  <1>2. 1 \in DOMAIN todo[t] /\ todo[t][1] = Head(todo[t])
    OBVIOUS
  <1>3. /\ Op(t) \in {"insert", "erase", "list"} => pc[t] \in {"welcome", "handler", "remove"}
        /\ Op(t) = "newwin" => pc[t] \in {"clearing", "menu"}
    BY <1>1, <1>2 DEF Drawable, Op
  <1>4. KeepToTheirPart /\ UIGoesForward /\ ListenerComesLast
    BY DEF ThreadsInv
  <1>5. /\ t = "main" => pc[t] \in MainLabels
        /\ t = "ui" => pc[t] \in UILabels
        /\ t = "listener" => pc[t] \in ListenerLabels
    BY <1>4 DEF KeepToTheirPart
  <1>6. CASE pc[t] \in {"welcome", "handler", "remove"}
    <2>1. /\ t = "ui" => pc[t] = "welcome" /\ m_state = "chat"
          /\ t # "main"
          /\ t = "listener" => m_state \notin {"null", "wild", "conn", "name"}
      BY <1>4, <1>5, <1>6 DEF MainLabels, UILabels, Leaving, Sending, UIGoesForward, ListenerComesLast
    <2> QED BY <2>1, <1>3, <1>6 DEF Threads
  <1>7. CASE pc[t] \in {"clearing", "menu"}
    <2>1. SUFFICES ASSUME pc["main"] = "join_ui", NobodyQuits PROVE m_state \in {"conn", "name"}
      BY <1>3, <1>7
    <2>2. \A u \in Threads : next[u] \notin QuitStates
      BY <2>1 DEF NobodyQuits
    <2>3. t # "main" /\ pc[t] = "clearing"
      BY <2>1, <1>5, <1>7 DEF UILabels, ListenerLabels, Leaving, Sending, Threads
    <2>4. pc[t] \in Leaving
      BY <2>3 DEF Leaving
    <2>5. t = "ui"
      BY <2>2, <2>3, <2>4, <1>4 DEF ListenerComesLast, QuitStates, Threads
    <2> QED BY <2>2, <2>4, <2>5, <1>4 DEF UIGoesForward, QuitStates, Threads
  <1> QED BY <1>3, <1>6, <1>7

LEMMA PaintKeepsPanelInv ==
  ASSUME WindowInv, DrawingInv, ThreadsInv, NEW t \in Threads, Paint(t)
  PROVE  PanelInv'
  <1>1. /\ UNCHANGED vars /\ Draw(t) /\ todo[t] \in Seq(Bits) /\ todo[t] # <<>>
    BY PaintStep DEF DrawingInv
  <1>2. /\ \A x \in Seconds : Does(t, x)' <=> Second(Op(t)) = x
        /\ \A u \in Threads \ {t} : \A x \in Seconds : Does(u, x)' <=> Does(u, x)
        /\ \A x : Does(t, x) <=> Op(t) = x
    BY WhoIsWithin DEF DrawingInv
  <1>3. /\ Does(t, "list")' <=> Op(t) \in {"insert", "erase"}
        /\ \A u \in Threads \ {t} : Does(u, "list")' <=> Does(u, "list")
    BY <1>2 DEF Second, Seconds
  <1>4. /\ \A u \in Threads : Does(u, "list") <=> m_mutex = u
        /\ m_mutex # "free" => panel = BlankPanel /\ m_user_win_y = 1
        /\ m_state \in {"null", "wild", "conn", "name"} =>
             m_users = {} /\ m_mutex = "free" /\ panel = BlankPanel
        /\ pc["main"] = "menu" => this["main"] = "conn"
        /\ pc["main"] = "join_ui" /\ NobodyQuits /\ m_mutex = "free" /\ fault = "none" =>
             panel = PanelOf(m_users)
    BY DEF DrawingInv, PanelInv
  <1>5. /\ pc' = pc /\ this' = this /\ m_state' = m_state /\ fault' = fault
        /\ NobodyQuits' <=> NobodyQuits
    BY <1>1 DEF vars, NobodyQuits
  <1>6. /\ Op(t) \in {"insert", "erase", "list"} => m_state \notin {"null", "wild", "conn", "name"}
        /\ Op(t) = "newwin" /\ pc["main"] = "join_ui" /\ NobodyQuits => m_state \in {"conn", "name"}
    BY <1>1, WhoListsUsers DEF DrawingInv
  <1>8. BlankPanel' = BlankPanel /\ PanelOf(m_users)' = PanelOf(m_users')
    BY DEF PanelOf, BlankPanel, PanelRows, User
  <1>9. "free" \notin Threads
    BY DEF Threads
  <1>10. CASE OpenWindow(t) \/ CloseWindow(t) \/ PrintText(t) \/ NextRow(t) \/ ClearText(t) \/ ResetRow(t)
    <2>1. UNCHANGED <<panelVars, userVars>>
      BY <1>10 DEF OpenWindow, CloseWindow, PrintText, NextRow, ClearText, ResetRow
    <2>2. Op(t) \notin {"list", "insert", "erase"}
      BY <1>10 DEF OpenWindow, CloseWindow, PrintText, NextRow, ClearText, ResetRow, Does, Op
    <2>3. \A u \in Threads : Does(u, "list")' <=> Does(u, "list")
      BY <2>2, <1>2, <1>3
    <2> QED BY <2>1, <2>3, <1>4, <1>5, <1>8 DEF PanelInv, panelVars, userVars
  <1>11. CASE NewPanel(t)
    <2>1. panel' = BlankPanel /\ m_user_win_y' = 1 /\ m_users' = m_users /\ m_mutex' = m_mutex
      BY <1>11 DEF NewPanel, FreshPanel, userVars
    <2>2. Op(t) = "newwin"
      BY <1>11 DEF NewPanel, Does, Op
    <2>3. \A u \in Threads : Does(u, "list")' <=> Does(u, "list")
      BY <2>2, <1>2, <1>3
    <2>4. pc["main"] = "join_ui" /\ NobodyQuits => panel' = PanelOf(m_users')
      BY <2>1, <2>2, <1>4, <1>6, PanelOfNobody
    <2> QED BY <2>1, <2>3, <2>4, <1>4, <1>5, <1>8 DEF PanelInv
  <1>12. CASE ChangeUsers(t)
    <2>1. /\ panel' = BlankPanel /\ m_user_win_y' = 1 /\ m_mutex = "free" /\ m_mutex' = t
          /\ Op(t) \in {"insert", "erase"}
      BY <1>12 DEF ChangeUsers, FreshPanel, Does, Op
    <2>2. \A u \in Threads : Does(u, "list")' <=> m_mutex' = u
      BY <2>1, <1>3, <1>4, <1>9
    <2>3. m_state \notin {"null", "wild", "conn", "name"}
      BY <2>1, <1>6
    <2> QED BY <2>1, <2>2, <2>3, <1>4, <1>5, <1>8, <1>9 DEF PanelInv
  <1>13. CASE ListUsers(t)
    <2>1. Op(t) = "list" /\ m_mutex = t /\ m_mutex' = "free" /\ m_users' = m_users
      BY <1>13, <1>4 DEF ListUsers, Does, Op
    <2>2. panel = BlankPanel /\ m_user_win_y = 1
      BY <2>1, <1>4, <1>9
    <2>3. \A u \in Threads : Does(u, "list")' <=> m_mutex' = u
      BY <2>1, <1>3, <1>4, <1>9
    <2>4. m_state \notin {"null", "wild", "conn", "name"}
      BY <2>1, <1>6
    <2>5. panel' = PanelOf(m_users)
      <3>1. m_users \in SUBSET Users
        BY DEF DrawingInv, WindowTypeOK
      <3>2. Cardinality(m_users) \in Nat /\ Cardinality(Users) \in Nat
        BY <3>1, RowsOfPanel
      <3>3. panel' = [y \in PanelRows |->
                        IF y >= 1 /\ y < 1 + Cardinality(m_users)
                        THEN User(m_users, y - 1 + 1) ELSE BlankPanel[y]]
        BY <2>2, <1>13 DEF ListUsers
      <3>4. ASSUME NEW y \in PanelRows
            PROVE  User(m_users, y) = IF y >= 1 /\ y < 1 + Cardinality(m_users)
                                      THEN User(m_users, y - 1 + 1) ELSE BlankPanel[y]
        <4>1. y \in Nat /\ y >= 1 /\ y - 1 + 1 = y
          BY <3>2 DEF PanelRows
        <4>2. CASE y < 1 + Cardinality(m_users)
          BY <4>1, <4>2
        <4>3. CASE ~(y < 1 + Cardinality(m_users))
          <5>1. y > Cardinality(m_users)
            BY <4>1, <4>3, <3>2
          <5>2. User(m_users, y) = {}
            BY <5>1, <4>1, <3>1, NoUserBeyond
          <5>3. BlankPanel[y] = {}
            BY DEF BlankPanel
          <5> QED BY <5>2, <5>3, <4>3
        <4> QED BY <4>2, <4>3
      <3> QED BY <3>3, <3>4 DEF PanelOf
    <2> QED BY <2>1, <2>3, <2>4, <2>5, <1>4, <1>5, <1>8 DEF PanelInv
  <1> QED BY <1>1, <1>10, <1>11, <1>12, <1>13 DEF Draw

-----------------------------------------------------------------------------
(* What a thread that moves on changes.                                    *)

NoChatYet == {"null", "wild", "conn", "name"}

\* What a step of t means for what is drawn: t goes on only where its State is
\* there, no other thread is moved but the listener, which is started; the
\* States go forward; and main comes from its menu to where it waits.
Moves(t) ==
  /\ pc'[t] # pc[t] => ~Dangling(t)
  /\ \A u \in Threads \ {t} : pc'[u] # pc[u] => u = "listener" /\ pc[u] = "none"
  /\ fault' = "none" => fault = "none"
  /\ NobodyQuits' => NobodyQuits
  /\ m_state' \in NoChatYet => m_state \in NoChatYet
  /\ pc'["main"] = "menu" =>
       this'["main"] = "conn" \/ (pc["main"] = "menu" /\ this'["main"] = this["main"])
  /\ pc'["main"] = "join_ui" =>
       pc["main"] = "join_ui" \/ (pc["main"] = "menu" /\ ~Dangling("main"))

LEMMA MainMovesOn ==
  ASSUME ThreadsInv, MainStep
  PROVE  Moves("main")
  <1> USE DEF At, Goto, Moves, NobodyQuits, stateVars
  <1>a. /\ pc \in [Threads -> Labels] /\ next \in [Threads -> States \cup {"null"}]
        /\ this \in [Threads -> States \cup {"null"}]
        /\ Threads = {"main", "ui", "listener"}
    BY DEF ThreadsInv, TypeOK, Threads
  <1>b. /\ KeepToTheirPart /\ MenuComesFirst /\ UIGoesForward /\ ListenerComesLast
        /\ NoStateIsLost /\ QuitIsFinal /\ CalmOK
    BY DEF ThreadsInv
  <1>1. CASE Run \/ JoinUI \/ Terminate \/ JoinListener \/ DestroyHost
             \/ DeleteLastState \/ DeleteWindow
    <2>1. CASE Run
      <3>1. next["main"] \notin QuitStates
        BY <1>b DEF KeepToTheirPart, QuitStates
      <3> QED BY <2>1, <3>1, <1>a DEF Run, CallGoToState
    <2>2. CASE JoinUI \/ Terminate \/ JoinListener \/ DestroyHost \/ DeleteLastState \/ DeleteWindow
      BY <2>2, <1>a DEF JoinUI, Terminate, JoinListener, DestroyHost, DeleteLastState, DeleteWindow
    <2> QED BY <1>1, <2>1, <2>2
  <1>2. CASE EndState("main") \/ ClearAll("main") \/ DeleteState("main")
    BY <1>2, <1>a DEF EndState, ClearAll, DeleteState
  <1>3. CASE UseDeleted("main")
    BY <1>3, <1>a DEF UseDeleted, Stop
  <1>4. CASE AssignState("main")
    <2>1. pc["main"] = "assign" /\ Starting
      BY <1>4, <1>a DEF AssignState, Starting
    <2>2. next["main"] = "conn" /\ next["ui"] = "null" /\ next["listener"] = "null"
      BY <2>1, <1>a, <1>b DEF MenuComesFirst
    <2>3. deleted = {}
      BY <2>1, <2>2, <1>a, <1>b DEF CalmOK, QuitStates
    <2>4. m_state = "null"
      BY <2>1, <2>3, <1>a, <1>b DEF NoStateIsLost
    <2> QED BY <1>4, <1>a, <2>1, <2>4 DEF AssignState, NoChatYet
  <1>5. CASE BeginState("main")
    BY <1>5, <1>a, <1>b DEF BeginState, MenuComesFirst
  <1>6. CASE PrintPrompt("main")
    BY <1>6, <1>a, <1>b DEF PrintPrompt, Resume, KeepToTheirPart, MainLabels
  <1>7. CASE Welcome("main") \/ OpenENet("main") \/ SetENet("main")
             \/ Dial("main") \/ DisconnectAll("main") \/ SetQuit("main") \/ PrintFarewell("main")
    <2>1. pc["main"] \in {"welcome", "open", "set_enet", "dial", "disconnecting", "quit_flag", "farewell"}
      BY <1>7, <1>a DEF Welcome, OpenENet, SetENet, Dial, DisconnectAll, SetQuit, PrintFarewell
    <2> QED BY <2>1, <1>a, <1>b DEF KeepToTheirPart, MainLabels
  <1> QED BY <1>1, <1>2, <1>3, <1>4, <1>5, <1>6, <1>7 DEF MainStep, GoToState

LEMMA UIMovesOn ==
  ASSUME ThreadsInv, UIStep
  PROVE  Moves("ui")
  <1> USE DEF At, Goto, Moves, NobodyQuits, stateVars
  <1>a. /\ pc \in [Threads -> Labels] /\ next \in [Threads -> States \cup {"null"}]
        /\ this \in [Threads -> States \cup {"null"}]
        /\ Threads = {"main", "ui", "listener"}
    BY DEF ThreadsInv, TypeOK, Threads
  <1>b. /\ KeepToTheirPart /\ MenuComesFirst /\ UIGoesForward /\ ListenerComesLast
        /\ NoStateIsLost /\ QuitIsFinal /\ CalmOK
    BY DEF ThreadsInv
  <1>1. CASE Poll \/ EmptyInput \/ Enter \/ HandleNothing
    BY <1>1, <1>a DEF Poll, EmptyInput, Enter, HandleNothing
  <1>2. CASE ChooseHost \/ ChooseJoin \/ ChooseExit \/ EnterName
    <2>1. pc["ui"] = "handle" /\ m_state \in {"conn", "name", "chat"}
      BY <1>2, <1>a DEF ChooseHost, ChooseJoin, ChooseExit, EnterName
    <2>2. next["ui"] # "quit_ui"
      BY <2>1, <1>a, <1>b DEF QuitIsFinal, Leaving, QuitStates
    <2>3. next["ui"] \notin QuitStates
      BY <2>2, <1>a, <1>b DEF KeepToTheirPart, QuitStates
    <2>4. m_state' = m_state /\ fault' = fault /\ this' = this
          /\ pc' = [pc EXCEPT !["ui"] = "end"] /\ \A u \in Threads \ {"ui"} : next'[u] = next[u]
      BY <1>2, <1>a DEF ChooseHost, ChooseJoin, ChooseExit, EnterName, CallGoToState
    <2>5. ~Dangling("ui")
      BY <1>2, <1>a DEF ChooseHost, ChooseJoin, ChooseExit, EnterName
    <2> QED BY <2>3, <2>4, <2>5, <1>a
  <1>3. CASE EnterLine \/ PrintLine \/ LookUp \/ TakePeer \/ SendLine
    BY <1>3, <1>a DEF EnterLine, PrintLine, LookUp, TakePeer, SendLine
  <1>4. CASE EndState("ui") \/ ClearAll("ui") \/ DeleteState("ui")
    BY <1>4, <1>a DEF EndState, ClearAll, DeleteState
  <1>5. CASE UseDeleted("ui")
    BY <1>5, <1>a DEF UseDeleted, Stop
  <1>6. CASE AssignState("ui")
    <2>1. pc["ui"] \in Leaving
      BY <1>6, <1>a DEF AssignState, Leaving
    <2>2. m_state' \in NoChatYet => m_state \in NoChatYet
      BY <1>6, <1>a, <1>b, <2>1 DEF AssignState, UIGoesForward, NoChatYet
    <2> QED BY <1>6, <1>a, <2>2 DEF AssignState
  <1>7. CASE BeginState("ui")
    BY <1>7, <1>a DEF BeginState
  <1>8. CASE OpenENet("ui")
    <2>1. pc["listener"] = "none"
      BY <1>8, <1>a, <1>b DEF OpenENet, ListenerComesLast
    <2> QED BY <1>8, <1>a, <2>1 DEF OpenENet
  <1>9. CASE PrintPrompt("ui") \/ Welcome("ui") \/ SetENet("ui")
             \/ Dial("ui") \/ DisconnectAll("ui") \/ SetQuit("ui") \/ PrintFarewell("ui")
    BY <1>9, <1>a DEF PrintPrompt, Welcome, SetENet, Dial, DisconnectAll, SetQuit,
                PrintFarewell, Resume
  <1> QED BY <1>1, <1>2, <1>3, <1>4, <1>5, <1>6, <1>7, <1>8, <1>9 DEF UIStep, GoToState

LEMMA ListenerMovesOn ==
  ASSUME ThreadsInv, ListenerStep
  PROVE  Moves("listener")
  <1> USE DEF At, Goto, Moves, NobodyQuits, stateVars
  <1>a. /\ pc \in [Threads -> Labels] /\ next \in [Threads -> States \cup {"null"}]
        /\ this \in [Threads -> States \cup {"null"}]
        /\ Threads = {"main", "ui", "listener"}
    BY DEF ThreadsInv, TypeOK, Threads
  <1>b. /\ KeepToTheirPart /\ MenuComesFirst /\ UIGoesForward /\ ListenerComesLast
        /\ NoStateIsLost /\ QuitIsFinal /\ CalmOK
    BY DEF ThreadsInv
  <1>1. CASE Listen \/ Serve \/ InsertPeer \/ ErasePeer \/ Dispatch
    BY <1>1, <1>a DEF Listen, Serve, InsertPeer, ErasePeer, Dispatch
  <1>2. CASE Handle \/ Reply \/ RemoveLeaver
    BY <1>2, <1>a DEF Handle, Reply, RemoveLeaver
  <1>3. CASE QuitAfterPause
    BY <1>3, <1>a DEF QuitAfterPause, CallGoToState, QuitStates
  <1>4. CASE EndState("listener") \/ ClearAll("listener") \/ DeleteState("listener")
    BY <1>4, <1>a DEF EndState, ClearAll, DeleteState
  <1>5. CASE UseDeleted("listener")
    BY <1>5, <1>a DEF UseDeleted, Stop
  <1>6. CASE AssignState("listener")
    <2>1. next["listener"] = "quit_listener"
      BY <1>6, <1>a, <1>b DEF AssignState, Leaving, ListenerComesLast
    <2> QED BY <1>6, <1>a, <2>1 DEF AssignState, NoChatYet
  <1>7. CASE BeginState("listener")
    BY <1>7, <1>a DEF BeginState
  <1>8. CASE PrintPrompt("listener") \/ Welcome("listener") \/ OpenENet("listener")
             \/ SetENet("listener") \/ Dial("listener")
    <2>1. pc["listener"] \in {"menu", "prompt", "welcome", "open", "set_enet", "dial"}
      BY <1>8, <1>a DEF PrintPrompt, Welcome, OpenENet, SetENet, Dial
    <2> QED BY <2>1, <1>a, <1>b DEF KeepToTheirPart, ListenerLabels, Leaving
  <1>9. CASE DisconnectAll("listener") \/ SetQuit("listener") \/ PrintFarewell("listener")
    BY <1>9, <1>a DEF DisconnectAll, SetQuit, PrintFarewell, Resume
  <1> QED BY <1>1, <1>2, <1>3, <1>4, <1>5, <1>6, <1>7, <1>8, <1>9 DEF ListenerStep, GoToState

\* Moving on draws nothing: a thread goes on to whole methods, and main leaves
\* its menu only while nobody is listed.
LEMMA MoveKeepsDrawingInv ==
  ASSUME WindowInv, WindowInv', DrawingInv, ThreadsInv, NEW t \in Threads, NEW step,
         Move(t, step), Moves(t)
  PROVE  DrawingInv'
  <1>1. PICK drawing : /\ todo' = [u \in Threads |-> IF u = t THEN drawing ELSE todo[u]]
                       /\ \/ pc'[t] = pc[t] /\ drawing = todo[t]
                          \/ pc'[t] # pc[t] /\ drawing \in Texts(pc'[t])
    BY DEF WindowInv, Move
  <1>2. /\ UNCHANGED <<window, text, panelVars, userVars, painting>>
        /\ todo[t] = <<>> \/ Dangling(t)
    BY DEF Move
  <1>3. /\ todo'[t] = drawing
        /\ \A u \in Threads \ {t} : todo'[u] = todo[u]
    BY <1>1
  <1>4. pc'[t] # pc[t] => todo[t] = <<>> /\ Whole(pc'[t], drawing)
    BY <1>1, <1>2, TextsAreWhole DEF Moves
  <1>5. \A u \in Threads : pc'[u] # pc[u] => todo[u] = <<>>
    <2>1. pc["listener"] = "none" => todo["listener"] = <<>>
      BY DEF WindowInv
    <2> QED BY <2>1, <1>4 DEF Moves
  <1>6. \A u \in Threads : todo'[u] = todo[u] \/ (todo[u] = <<>> /\ ~Within(todo'[u]))
    BY <1>1, <1>3, <1>4 DEF Whole
  <1>7. \A u \in Threads : \A x \in Seconds : Does(u, x)' <=> Does(u, x)
    BY <1>6 DEF Does, Within
  <1>8. WindowTypeOK'
    <2>1. DOMAIN todo' = Painters
      BY PaintersAssumption DEF WindowInv
    <2>2. painting \subseteq {u \in Painters : todo[u] # <<>>}
      BY DEF DrawingInv, WindowTypeOK
    <2>3. \A u \in Threads : todo[u] # <<>> => todo'[u] # <<>>
      BY <1>6
    <2>4. painting' \subseteq {u \in Painters : todo'[u] # <<>>}
      BY <2>2, <2>3, <1>2, PaintersAssumption
    <2> QED BY <2>1, <2>4, <1>2 DEF DrawingInv, WindowTypeOK, panelVars, userVars
  <1>9. StrokesInv'
    <2>1. ASSUME NEW u \in Threads
          PROVE  Drawable(pc'[u], todo'[u]) /\ (Within(todo'[u]) => u \in painting')
      <3>1. Drawable(pc[u], todo[u]) /\ (Within(todo[u]) => u \in painting)
        BY DEF DrawingInv, StrokesInv
      <3>2. painting' = painting
        BY <1>2
      <3>3. \A label : Drawable(label, <<>>)
        BY DEF Drawable
      <3>4. CASE pc'[u] = pc[u]
        <4>1. todo'[u] = todo[u]
          BY <3>4, <1>1, <1>3
        <4> QED BY <4>1, <3>1, <3>2, <3>4
      <3>5. CASE pc'[u] # pc[u] /\ u = t
        BY <3>5, <1>3, <1>4 DEF Whole
      <3>6. CASE pc'[u] # pc[u] /\ u # t
        <4>1. todo'[u] = <<>>
          BY <3>6, <1>3, <1>5
        <4> QED BY <4>1, <3>3 DEF Within
      <3> QED BY <3>4, <3>5, <3>6
    <2> QED BY <2>1 DEF StrokesInv
  <1>10. text' # Blurred => TextInv'
    <2> SUFFICES ASSUME text' # Blurred PROVE TextInv'
      OBVIOUS
    <2>1. text' = text /\ TextInv
      BY <1>2 DEF DrawingInv, Blurred
    <2>2. \A u \in Threads : (Does(u, "next_row")' <=> Does(u, "next_row"))
                             /\ (Does(u, "first_row")' <=> Does(u, "first_row"))
      BY <1>7 DEF Seconds
    <2> HIDE DEF Does
    <2> QED BY <2>1, <2>2 DEF TextInv
  <1>11. PanelInv'
    <2>1. /\ \A u \in Threads : Does(u, "list") <=> m_mutex = u
          /\ m_mutex # "free" => panel = BlankPanel /\ m_user_win_y = 1
          /\ m_state \in NoChatYet => m_users = {} /\ m_mutex = "free" /\ panel = BlankPanel
          /\ pc["main"] = "menu" => this["main"] = "conn"
          /\ pc["main"] = "join_ui" /\ NobodyQuits /\ m_mutex = "free" /\ fault = "none" =>
               panel = PanelOf(m_users)
      BY DEF DrawingInv, PanelInv, NoChatYet
    <2>2. /\ panel' = panel /\ m_user_win_y' = m_user_win_y /\ m_users' = m_users /\ m_mutex' = m_mutex
      BY <1>2 DEF panelVars, userVars
    <2>3. \A u \in Threads : Does(u, "list")' <=> Does(u, "list")
      BY <1>7 DEF Seconds
    <2>4. BlankPanel' = BlankPanel /\ PanelOf(m_users)' = PanelOf(m_users')
      BY DEF PanelOf, BlankPanel, PanelRows, User
    <2>5. ASSUME pc'["main"] = "join_ui", NobodyQuits', m_mutex' = "free", fault' = "none"
          PROVE  panel' = PanelOf(m_users')
      <3>1. NobodyQuits /\ m_mutex = "free" /\ fault = "none"
        BY <2>2, <2>5 DEF Moves
      <3>2. CASE pc["main"] = "join_ui"
        BY <3>1, <3>2, <2>1, <2>2
      <3>3. CASE pc["main"] = "menu" /\ ~Dangling("main")
        <4>1. "conn" \notin deleted
          BY <3>3, <2>1 DEF Dangling, UsesThis
        <4>2. next["main"] = "conn"
          BY <3>3 DEF ThreadsInv, MenuComesFirst
        <4>3. m_state = "conn"
          BY <4>1, <4>2, <3>3 DEF ThreadsInv, NoStateIsLost, Leaving, Threads
        <4> QED BY <4>3, <2>1, <2>2, PanelOfNobody DEF NoChatYet
      <3> QED BY <3>2, <3>3, <2>5 DEF Moves
    <2>6. m_state' \in NoChatYet => m_users' = {} /\ m_mutex' = "free" /\ panel' = BlankPanel
      BY <2>1, <2>2 DEF Moves
    <2>7. pc'["main"] = "menu" => this'["main"] = "conn"
      BY <2>1 DEF Moves
    <2> QED BY <2>1, <2>2, <2>3, <2>4, <2>5, <2>6, <2>7 DEF PanelInv, NoChatYet
  <1> QED BY <1>8, <1>9, <1>10, <1>11 DEF DrawingInv

-----------------------------------------------------------------------------
(* The text and the panel.                                                 *)

LEMMA NothingDrawnYet == ASSUME WInit PROVE DrawingInv
  <1>1. /\ pc["main"] = "start" /\ this["main"] = "null" /\ m_state \in {"null", "wild"}
        /\ WindowInit
    BY ThreadsAssumption DEF WInit, Init, Threads
  <1>2. todo = [t \in Threads |-> IF t = "main" THEN init ELSE <<>>]
    BY DEF WInit
  <1>3. Rows \in Nat
    BY WindowAssumption
  <1>4. WindowTypeOK
    <2>1. BlankText \in TextType
      BY <1>3 DEF BlankText, TextType, Marks
    <2>2. BlankPanel \in [PanelRows -> SUBSET Users]
      BY DEF BlankPanel
    <2>3. 1 \in 1 .. Len(BlankPanel) + 1
      BY <2>2, RowsOfPanel
    <2>4. DOMAIN todo = Painters
      BY <1>2, PaintersAssumption
    <2> QED BY <1>1, <2>1, <2>2, <2>3, <2>4 DEF WindowInit, WindowTypeOK, TextType
  <1>5. ASSUME NEW t \in Threads PROVE Drawable(pc[t], todo[t]) /\ ~Within(todo[t])
    <2>1. Whole(pc[t], <<>>) /\ Whole(pc[t], init)
      BY MethodsAreWhole
    <2>2. todo[t] \in {<<>>, init}
      BY <1>2
    <2> QED BY <2>1, <2>2 DEF Whole
  <1>6. StrokesInv
    BY <1>5 DEF StrokesInv
  <1>7. \A t \in Threads : \A x \in Seconds : ~Does(t, x)
    BY <1>5 DEF Within, Does
  <1>8. TextInv
    <2>1. text.m_msg_win_y = 1 /\ Lines(text.places, 1)
      BY <1>1, NoLinesYet DEF WindowInit, BlankText
    <2> QED BY <2>1, <1>7 DEF TextInv, Seconds
  <1>9. PanelInv
    <2>1. m_mutex = "free" /\ m_users = {} /\ panel = BlankPanel /\ m_user_win_y = 1
      BY <1>1 DEF WindowInit
    <2>2. \A t \in Threads : ~Does(t, "list") /\ t # "free"
      BY <1>7 DEF Seconds, Threads
    <2> QED BY <1>1, <2>1, <2>2 DEF PanelInv
  <1> QED BY <1>4, <1>6, <1>8, <1>9 DEF DrawingInv

\* In every interleaving of the threads and of what they draw, DrawingInv holds
\* (ChatWindow, ChatApp::refreshUserList).
THEOREM DrawingInvariantHolds == WSpec => []DrawingInv
  <1>1. WInit => DrawingInv
    BY NothingDrawnYet
  <1>2. DrawingInv /\ WindowInv /\ WindowInv' /\ ThreadsInv /\ [WNext]_allVars => DrawingInv'
    <2>1. ASSUME DrawingInv, WindowInv, WindowInv', ThreadsInv, NEW t \in Threads, Paint(t)
          PROVE  DrawingInv'
      <3>1. WindowTypeOK'
        BY <2>1, PaintKeepsWindowType
      <3>2. StrokesInv'
        BY <2>1, PaintKeepsStrokesInv, PaintersAssumption DEF DrawingInv, WindowTypeOK
      <3>3. text' # Blurred => TextInv'
        BY <2>1, PaintKeepsTextInv
      <3>4. PanelInv'
        BY <2>1, PaintKeepsPanelInv
      <3> QED BY <3>1, <3>2, <3>3, <3>4 DEF DrawingInv, Blurred
    <2>2. ASSUME DrawingInv, WindowInv, WindowInv', ThreadsInv, WMainStep PROVE DrawingInv'
      <3>1. CASE Move("main", MainStep)
        <4>1. "main" \in Threads /\ Moves("main")
          BY <2>2, <3>1, MainMovesOn DEF Move, Threads
        <4> QED BY <2>2, <3>1, <4>1, MoveKeepsDrawingInv
      <3> QED BY <2>1, <2>2, <3>1 DEF WMainStep, Threads
    <2>3. ASSUME DrawingInv, WindowInv, WindowInv', ThreadsInv, WUIStep PROVE DrawingInv'
      <3>1. CASE Move("ui", UIStep)
        <4>1. "ui" \in Threads /\ Moves("ui")
          BY <2>3, <3>1, UIMovesOn DEF Move, Threads
        <4> QED BY <2>3, <3>1, <4>1, MoveKeepsDrawingInv
      <3> QED BY <2>1, <2>3, <3>1 DEF WUIStep, Threads
    <2>4. ASSUME DrawingInv, WindowInv, WindowInv', ThreadsInv, WListenerStep PROVE DrawingInv'
      <3>1. CASE Move("listener", ListenerStep /\ HandlerAgrees)
        <4>1. "listener" \in Threads /\ Moves("listener")
          BY <2>4, <3>1, ListenerMovesOn DEF Move, Threads
        <4> QED BY <2>4, <3>1, <4>1, MoveKeepsDrawingInv
      <3> QED BY <2>1, <2>4, <3>1 DEF WListenerStep, Threads
    <2>5. ASSUME DrawingInv, UNCHANGED allVars PROVE DrawingInv'
      BY <2>5 DEF DrawingInv, WindowTypeOK, StrokesInv, TextInv, PanelInv, Does, Within, Drawable,
                  NobodyQuits, allVars, vars, windowVars, panelVars, userVars
    <2> QED BY <2>2, <2>3, <2>4, <2>5 DEF WNext
  <1>3. WSpec => []ThreadsInv
    BY ThreadsThatDrawAreThreads, ThreadsInvariantHolds, PTL
  <1> QED BY <1>1, <1>2, <1>3, WindowInvariantHolds, PTL DEF WSpec

\* So every variable of a process keeps its type (ChatApp, ChatWindow).
THEOREM ProcessTypeCorrect == WSpec => []WTypeOK
  <1>1. DrawingInv /\ TypeOK => WTypeOK
    BY DEF DrawingInv, WTypeOK
  <1>2. WSpec => []TypeOK
    BY ThreadsThatDrawAreThreads, ThreadsTypeCorrect, PTL
  <1> QED BY <1>1, <1>2, DrawingInvariantHolds, PTL

\* Lines that nobody races for begin in a row of their own and keep their
\* beginning, however long they are and however high the terminal is
\* (ChatWindow::print, log, error, clearMessages).
THEOREM LinesAlwaysHaveTheirRow == WSpec => []LinesHaveTheirRow
  <1>1. ASSUME DrawingInv, painting = {}, text # Blurred
        PROVE  Lines(text.places, text.m_msg_win_y)
    <2>1. \A t \in Threads : ~Within(todo[t])
      BY <1>1 DEF DrawingInv, StrokesInv
    <2>2. \A t \in Threads : ~Does(t, "next_row") /\ ~Does(t, "first_row")
      BY <2>1 DEF Within, Does, Seconds
    <2> QED BY <1>1, <2>2 DEF DrawingInv, TextInv
  <1>2. DrawingInv => LinesHaveTheirRow
    BY <1>1 DEF LinesHaveTheirRow
  <1> QED BY <1>2, DrawingInvariantHolds, PTL

\* Once the menu is printed and until somebody quits the panel agrees with the map
\* of the users
\* (ChatApp::addUser, ChatApp::removeUser).
THEOREM PanelAlwaysShowsUsers == WSpec => []PanelShowsUsers
  <1>1. DrawingInv => PanelShowsUsers
    BY DEF DrawingInv, PanelInv, PanelShowsUsers
  <1> QED BY <1>1, DrawingInvariantHolds, PTL
=============================================================================
