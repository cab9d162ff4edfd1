----------------------------- MODULE ChatWindow ------------------------------
(***************************************************************************)
(* The window: lines of text and the panel that lists the users            *)
(* (Chat/chat/chat_win.cpp, Chat/chat/chat_win.h), and the list of users   *)
(* behind the panel (ChatApp::addUser, ChatApp::removeUser).               *)
(*                                                                         *)
(* A method is the sequence of what it does to the state of PDCurses and   *)
(* to the row counters. Any thread may draw at any time, and between two   *)
(* elements of its sequence the others may. Calls that only copy to the    *)
(* terminal what has been drawn (refresh, box) are left out, and so is the *)
(* box to type into, of which AppThreads knows whether it exists.          *)
(*                                                                         *)
(* When two threads draw at a time, they race for the row and for the      *)
(* screen, and anything may come of it: the text is Blurred until the      *)
(* window is cleared.                                                      *)
(*                                                                         *)
(* The text is what PDCurses holds in stdscr, whose rows are seen in       *)
(* halves: a line begins in the middle of a row, at column 40, and what    *)
(* does not fit there goes on in the next row from the left edge. The      *)
(* panel is whose name begins in each row of m_userwin. That the three     *)
(* windows overlap on the terminal, colours, and names so long that they   *)
(* go on in the next row of the panel are left out.                        *)
(***************************************************************************)
EXTENDS Naturals, FiniteSets, Sequences

CONSTANTS
  Painters,  \* the threads
  Rows,      \* the number of rows below row 0 that the terminal has
  Lengths,   \* the half rows that the lines take
  Users      \* user ids

ASSUME WindowAssumption ==
  /\ Rows \in Nat
  /\ Lengths \subseteq Nat \ {0}
  /\ Users \subseteq Nat /\ IsFiniteSet(Users)

VARIABLES
  window,       \* "new", "open" (between initscr and endwin) or "closed"
  text,         \* the text and how it goes on, or Blurred: m_msg_win_y
                \* and what is in each half row
  m_user_win_y, \* row of the next user in the panel
  panel,        \* whom each row of the panel shows
  m_users,      \* ChatApp::m_users
  m_mutex,      \* the thread that holds ChatApp::m_mutex, or "free"
  todo,         \* what each thread has yet to draw
  painting      \* the threads that have drawn a part of it

panelVars  == <<m_user_win_y, panel>>
userVars   == <<m_users, m_mutex>>
windowVars == <<window, text, panelVars, userVars, todo, painting>>

Blurred == <<>>

\* The halves of the rows, from the middle of row 1 to the end of the last row.
Places == 1 .. 2 * Rows - 1

Middle(y) == 2 * y - 1

\* A half row is blank, or a line begins there, or it holds the rest of one. A line
\* that is printed may begin over the rest of another one, and, if all goes
\* wrong, over the beginning of another one, which is lost.
Marks == {"blank", "line", "rest", "over", "lost"}

BlankText == [m_msg_win_y |-> 1, places |-> [p \in Places |-> "blank"]]

\* A line begins, or goes on, where this is.
Over(begins, mark) ==
  CASE mark = "blank" -> IF begins THEN "line" ELSE "rest"
    [] mark = "rest"  -> IF begins THEN "over" ELSE "rest"
    [] OTHER          -> "lost"

\* The text after a line was printed that takes length places from first on, or
\* as many as there are: nothing scrolls.
Printed(places, first, length) ==
  [p \in Places |-> IF p \in first .. first + length - 1 THEN Over(p = first, places[p])
                                                       ELSE places[p]]

PanelRows == 1 .. Cardinality(Users) + 1

BlankPanel == [y \in PanelRows |-> {}]

\* The counter goes on below the last row. All rows there are alike: nothing
\* is shown.
Below(y) == IF y > Rows THEN y ELSE y + 1

WindowInit ==
  /\ window = "new"
  /\ text = BlankText
  /\ m_user_win_y = 1
  /\ panel = BlankPanel
  /\ m_users = {}
  /\ m_mutex = "free"
  /\ painting = {}

-----------------------------------------------------------------------------
(* The methods.                                                            *)

\* A line begins in row m_msg_win_y, and the next one in the row after it, however
\* long the line is. print, with or without a name, log and error differ in the
\* colour only. Mistake: the next line takes the same row.
Post_SameRow == <<<<"mvprintw">>>>

Post == <<<<"mvprintw">>, <<"next_row">>>>

print == Post
log   == Post
error == Post

clearMessages == <<<<"clear">>, <<"first_row">>>>

clearUserList == <<<<"newwin">>>>

clearAll == clearMessages \o clearUserList

\* ChatApp::addUser and ChatApp::removeUser: both lock m_mutex, change the
\* map and draw the panel anew.
addUser(user)    == <<<<"insert", user>>, <<"list">>>>
removeUser(user) == <<<<"erase", user>>, <<"list">>>>

init    == <<<<"initscr">>>>
destroy == <<<<"endwin">>>>

-----------------------------------------------------------------------------
(* One element of a method, by thread t.                                   *)

Does(t, op) == todo[t] # <<>> /\ Head(todo[t])[1] = op

Argument(t) == Head(todo[t])[2]

\* t goes on with these before the rest.
Then(t, first) ==
  /\ todo' = [todo EXCEPT ![t] = first \o Tail(@)]
  /\ painting' = IF todo'[t] = <<>> THEN painting \ {t} ELSE painting \cup {t}

\* t sets one part of the text.
SetText(t, part, value) ==
  text' = IF text = Blurred \/ painting \ {t} # {} THEN Blurred
          ELSE [text EXCEPT ![part] = value]

OpenWindow(t) ==
  /\ Does(t, "initscr")
  /\ window' = "open"
  /\ Then(t, <<>>)
  /\ UNCHANGED <<text, panelVars, userVars>>

CloseWindow(t) ==
  /\ Does(t, "endwin")
  /\ window' = "closed"
  /\ Then(t, <<>>)
  /\ UNCHANGED <<text, panelVars, userVars>>

PrintText(t) ==
  /\ Does(t, "mvprintw")
  /\ \E length \in Lengths :
       SetText(t, "places", Printed(text.places, Middle(text.m_msg_win_y), length))
  /\ Then(t, <<>>)
  /\ UNCHANGED <<window, panelVars, userVars>>

NextRow(t) ==
  /\ Does(t, "next_row")
  /\ SetText(t, "m_msg_win_y", Below(text.m_msg_win_y))
  /\ Then(t, <<>>)
  /\ UNCHANGED <<window, panelVars, userVars>>

\* What the row was does not matter any more: it is set before the next line.
ClearText(t) ==
  /\ Does(t, "clear")
  /\ text' = IF painting \ {t} # {} THEN Blurred
             ELSE IF text = Blurred THEN BlankText
             ELSE [text EXCEPT !.places = BlankText.places]
  /\ Then(t, <<>>)
  /\ UNCHANGED <<window, panelVars, userVars>>

ResetRow(t) ==
  /\ Does(t, "first_row")
  /\ SetText(t, "m_msg_win_y", 1)
  /\ Then(t, <<>>)
  /\ UNCHANGED <<window, panelVars, userVars>>

\* The old panel is cleared and forgotten, never deleted, and a new one is
\* there. Mistake: it is filled from where the old one ended.
FreshPanel_KeepsRow ==
  /\ panel' = BlankPanel
  /\ UNCHANGED m_user_win_y

FreshPanel ==
  /\ panel' = BlankPanel
  /\ m_user_win_y' = 1

NewPanel(t) ==
  /\ Does(t, "newwin")
  /\ FreshPanel
  /\ Then(t, <<>>)
  /\ UNCHANGED <<window, text, userVars>>

\* The map changes with m_mutex held, and refreshUserList clears the list ...
ChangeUsers(t) ==
  /\ Does(t, "insert") \/ Does(t, "erase")
  /\ m_mutex = "free"
  /\ m_mutex' = t
  /\ m_users' = IF Does(t, "insert") THEN m_users \cup {Argument(t)}
                ELSE m_users \ {Argument(t)}
  /\ FreshPanel
  /\ Then(t, <<>>)
  /\ UNCHANGED <<window, text>>

\* The n-th user in the order of the map, if there are so many.
User(users, n) == {u \in users : Cardinality({v \in users : v < u}) + 1 = n}

\* ... and prints the users in that order, one below the other.
ListUsers(t) ==
  /\ Does(t, "list")
  /\ panel' = [y \in PanelRows |->
                 IF y >= m_user_win_y /\ y < m_user_win_y + Cardinality(m_users)
                 THEN User(m_users, y - m_user_win_y + 1) ELSE panel[y]]
  /\ m_user_win_y' = IF m_user_win_y + Cardinality(m_users) > Len(panel) THEN Len(panel) + 1
                     ELSE m_user_win_y + Cardinality(m_users)
  /\ m_mutex' = "free"
  /\ Then(t, <<>>)
  /\ UNCHANGED <<window, text, m_users>>

Draw(t) ==
  \/ OpenWindow(t) \/ CloseWindow(t)
  \/ PrintText(t) \/ NextRow(t)
  \/ ClearText(t) \/ ResetRow(t)
  \/ NewPanel(t) \/ ChangeUsers(t) \/ ListUsers(t)

WindowTypeOK ==
  /\ window \in {"new", "open", "closed"}
  /\ text \in {Blurred} \cup
       [m_msg_win_y : 1 .. Rows + 1, places : [Places -> Marks]]
  /\ m_user_win_y \in 1 .. Len(panel) + 1
  /\ panel \in [PanelRows -> SUBSET Users]
  /\ m_users \subseteq Users
  /\ m_mutex \in Painters \cup {"free"}
  /\ DOMAIN todo = Painters
  /\ painting \subseteq {t \in Painters : todo[t] # <<>>}
=============================================================================
