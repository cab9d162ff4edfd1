------------------------------ MODULE AppWindow ------------------------------
(***************************************************************************)
(* The three threads of a process and the window they draw in: every label *)
(* of AppThreads at which the code prints, clears or lists users comes     *)
(* with the methods of ChatWindow that the code calls there. A thread      *)
(* leaves the label when it has drawn all of it; the others may run, and   *)
(* draw, in between.                                                       *)
(*                                                                         *)
(* Of the users there are two: this process's own (in a client, the        *)
(* host's) and one other.                                                  *)
(***************************************************************************)
EXTENDS AppInvariant, ChatWindow

Own   == 0
Other == 1

ASSUME PaintersAssumption == Painters = Threads /\ Users = {Own, Other}

allVars == <<vars, windowVars>>

-----------------------------------------------------------------------------
(* What is drawn at each label.                                            *)

Menu == clearAll \o print \o print \o print \o print

\* ChatState_Host::beginState and ChatState_Client::beginState
WelcomeText == IF asHost THEN log \o addUser(Own) ELSE log

\* The handlers of a host: USERNAME lists the user and logs it, MESSAGE is
\* printed, a disconnect is logged or, when the user is not listed, an error.
HostHandler ==
  CASE event = "traffic"    -> {addUser(Other) \o log, print}
    [] event = "disconnect" -> {IF Other \in m_users THEN log ELSE error}
    [] OTHER                -> {<<>>}

\* Those of a client: USERNAME_ACK, which comes once, lists its users,
\* STATE_ADD_USER and STATE_REM_USER log and list a new one or remove one,
\* MESSAGE is printed unless it is the client's own.
ClientHandler ==
  CASE event = "traffic"    -> {print, <<>>,
                                log \o IF Other \in m_users THEN removeUser(Other)
                                                            ELSE addUser(Other)}
                               \cup IF localUser THEN {} ELSE {addUser(Own) \o addUser(Other)}
    [] event = "disconnect" -> {log}
    [] OTHER                -> {<<>>}

Texts(label) ==
  CASE label = "start"         -> {init}
    [] label = "clearing"      -> {clearAll}
    [] label = "menu"          -> {Menu}
    [] label = "prompt"        -> {print}
    [] label = "welcome"       -> {WelcomeText}
    [] label = "farewell"      -> {print}
    [] label = "say"           -> {print}
    [] label = "handler"       -> IF asHost THEN HostHandler ELSE ClientHandler
    [] label = "remove"        -> {removeUser(Other)}
    [] label = "delete_window" -> {destroy}
    [] OTHER                   -> {<<>>}

-----------------------------------------------------------------------------

WInit ==
  /\ Init
  /\ WindowInit
  /\ todo = [t \in Threads |-> IF t = "main" THEN init ELSE <<>>]

\* t draws the next bit of what belongs to where it is.
Paint(t) == fault = "none" /\ Draw(t) /\ UNCHANGED vars

\* t moves on, once nothing is left to draw, to what it draws next.
Move(t, step) ==
  /\ todo[t] = <<>> \/ Dangling(t)
  /\ step
  /\ IF pc'[t] = pc[t] THEN UNCHANGED todo
     ELSE \E drawing \in Texts(pc'[t]) : todo' = [todo EXCEPT ![t] = drawing]
  /\ UNCHANGED <<window, text, panelVars, userVars, painting>>

\* What a handler does agrees with what it has drawn: a host tells the others
\* of a disconnect if it knew the user, and a client knows its own user once
\* it has listed those of USERNAME_ACK.
HandlerAgrees ==
  pc["listener"] = "handler" /\ fault' = "none" =>
    IF asHost
    THEN event = "disconnect" => (pc'["listener"] = "reply" <=> Other \in m_users)
    ELSE localUser' = (Own \in m_users)

WMainStep == Move("main", MainStep) \/ Paint("main")

WUIStep == Move("ui", UIStep) \/ Paint("ui")

WListenerStep == Move("listener", ListenerStep /\ HandlerAgrees) \/ Paint("listener")

WNext == WMainStep \/ WUIStep \/ WListenerStep

WSpec == WInit /\ [][WNext]_allVars

(***************************************************************************)
(* Fairness: the operating system runs every thread that can run. The      *)
(* listener releases the mutex and sleeps in every round, so a thread that *)
(* waits for it gets it in the end: strong fairness for the one that polls *)
(* for input. For the user it means that Enter is pressed in the end, as   *)
(* the program asks for when it quits.                                     *)
(***************************************************************************)
WFairSpec ==
  /\ WSpec
  /\ WF_allVars(WMainStep)
  /\ SF_allVars(WUIStep)
  /\ WF_allVars(WListenerStep)

-----------------------------------------------------------------------------

\* The window exists whenever somebody draws: main opens it before anything
\* can be typed, and closes it when the others have ended (ChatApp::run,
\* ~ChatApp).
DrawnWhileOpen ==
  \A t \in Threads :
    todo[t] # <<>> => window = IF Does(t, "initscr") THEN "new" ELSE "open"

\* What is drawn other than by opening and closing the window.
Strokes ==
  {<<op>> : op \in {"mvprintw", "next_row", "clear", "first_row", "newwin", "list"}}
    \cup ({"insert", "erase"} \X {Own, Other})

\* Why: before main has opened the window, and when it comes to close it, it
\* alone has something to draw, and nobody has after that (ChatApp::run,
\* ~ChatApp, ENetWrapper::terminate).
WindowInv ==
  /\ todo = [t \in Threads |-> todo[t]]
  /\ pc["main"] = "start" =>
       \/ window = "new" /\ todo["main"] = init
       \/ window = "open" /\ todo["main"] = <<>>
  /\ pc["main"] = "delete_window" =>
       \/ window = "open" /\ todo["main"] = destroy
       \/ window = "closed" /\ todo["main"] = <<>>
  /\ pc["main"] = "ended" => todo["main"] = <<>>
  /\ pc["main"] \notin {"start", "delete_window", "ended"} =>
       window = "open" /\ todo["main"] \in Seq(Strokes)
  /\ \A t \in {"ui", "listener"} :
       /\ todo[t] \in Seq(Strokes)
       /\ pc[t] \in {"none", "done"} => todo[t] = <<>>
       /\ pc["main"] \in {"start", "delete_window", "ended"} => todo[t] = <<>>

\* The calls of a method come one right after the other: the counter moves on
\* when a line is printed, it is reset when the text is cleared, and the users are
\* listed when the map has changed.
Second(op) ==
  CASE op = "mvprintw"            -> "next_row"
    [] op = "clear"               -> "first_row"
    [] op \in {"insert", "erase"} -> "list"
    [] OTHER                      -> "none"

Seconds == {"next_row", "first_row", "list"}

\* What is yet to be drawn begins in the middle of a method.
Within(s) == s # <<>> /\ Head(s)[1] \in Seconds

\* Whole methods, but for the first one, which may have begun. The list of users
\* changes only where a State that chats begins and in the handlers; its panel
\* is made anew only by goToState and by the menu.
Drawable(label, s) ==
  \A i \in DOMAIN s :
    /\ Second(s[i][1]) # "none" => i < Len(s) /\ s[i + 1][1] = Second(s[i][1])
    /\ i > 1 /\ s[i][1] \in Seconds => Second(s[i - 1][1]) = s[i][1]
    /\ s[i][1] \in {"insert", "erase", "list"} => label \in {"welcome", "handler", "remove"}
    /\ s[i][1] = "newwin" => label \in {"clearing", "menu"}

\* Where the lines above row n begin.
Begun(n) == {Middle(y) : y \in 1 .. n - 1}

\* There, and nowhere else, lines begin, and nothing is printed over their
\* beginnings. The rest of a line follows on it without a gap, and only where there
\* is such a rest does a line begin over another one.
Lines(places, n) ==
  \A p \in Places :
    /\ places[p] \in IF p \in Begun(n) THEN {"line", "over"} ELSE {"blank", "rest"}
    /\ places[p] \in {"rest", "over"} => p > 1 /\ places[p - 1] # "blank"

\* Nobody is within a method but who has drawn a part of it.
StrokesInv ==
  \A t \in Threads : Drawable(pc[t], todo[t]) /\ (Within(todo[t]) => t \in painting)

\* Where a thread that printed or cleared alone has got to.
TextInv ==
  LET Prints(t) == Does(t, "next_row")
      Clears(t) == Does(t, "first_row")
  IN /\ \A t, u \in Threads : (Prints(t) \/ Clears(t)) /\ (Prints(u) \/ Clears(u)) => t = u
     /\ (\E t \in Threads : Prints(t)) => Lines(text.places, text.m_msg_win_y + 1)
     /\ (\E t \in Threads : Clears(t)) => text.places = BlankText.places
     /\ (\A t \in Threads : ~Prints(t) /\ ~Clears(t)) => Lines(text.places, text.m_msg_win_y)

\* The panel with these users.
PanelOf(users) == [y \in PanelRows |-> User(users, y)]

\* The thread that holds m_mutex is about to fill a panel that is empty. There
\* are no users before a State that chats, and the menu is printed before.
PanelInv ==
  /\ \A t \in Threads : Does(t, "list") <=> m_mutex = t
  /\ m_mutex # "free" => panel = BlankPanel /\ m_user_win_y = 1
  /\ m_state \in {"null", "wild", "conn", "name"} =>
       m_users = {} /\ m_mutex = "free" /\ panel = BlankPanel
  /\ pc["main"] = "menu" => this["main"] = "conn"
  /\ pc["main"] = "join_ui" /\ NobodyQuits /\ m_mutex = "free" /\ fault = "none" =>
       panel = PanelOf(m_users)

\* Why lines have their row and the panel shows the users, in every moment of a
\* method and of every interleaving (ChatWindow, ChatApp::refreshUserList).
DrawingInv ==
  /\ WindowTypeOK
  /\ StrokesInv
  /\ text # Blurred => TextInv
  /\ PanelInv

\* Unless two threads draw at a time, one line begins in every row above the next
\* one and none below it, as far as the window has rows, and no beginning of a
\* line is ever printed over. Lines may be printed over the rest of others, but
\* only of lines that did not fit in their row: the row counter moves on by one
\* whatever the length (ChatWindow::print, log, error, clearMessages).
LinesHaveTheirRow ==
  painting = {} /\ text # Blurred => Lines(text.places, text.m_msg_win_y)

\* Once the menu is printed, and until somebody quits, the panel lists the users
\* and nobody else, from the top and in order, whenever no thread is busy with the
\* list: nothing else draws in it (ChatApp::addUser, ChatApp::removeUser).
PanelShowsUsers ==
  pc["main"] = "join_ui" /\ NobodyQuits /\ m_mutex = "free" /\ fault = "none" =>
    panel = PanelOf(m_users)

\* Every variable of the threads and of the window keeps its type; nobody is left
\* painting with nothing to draw (ChatApp, ChatWindow).
WTypeOK == TypeOK /\ WindowTypeOK
=============================================================================
