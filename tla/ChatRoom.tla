------------------------------ MODULE ChatRoom ------------------------------
(***************************************************************************)
(* What a session promises, as its host shows it: a room that is open      *)
(* while the host is there, the users who are in it, and one transcript to *)
(* which users who are in the room add their lines, each under the name of *)
(* the user who typed it and in the order in which that user typed them.   *)
(* A line may never make it to the transcript; the network can lose it.    *)
(***************************************************************************)
EXTENDS Integers, Sequences

CONSTANTS
  Users,    \* everyone who may be in the room
  Host,     \* the user who opens it, one of them
  Numbers   \* bound of the model: the numbers of the lines of one user

VARIABLES
  open,       \* has the host opened the room and not closed it?
  members,    \* the users in the room
  transcript  \* the lines, each with the name it is shown under

vars == <<open, members, transcript>>

TypeOK ==
  /\ open \in BOOLEAN
  /\ members \subseteq Users
  /\ transcript \in Seq([name : Users, line : [by : Users, n : Numbers]])

Init ==
  /\ open = FALSE
  /\ members = {}
  /\ transcript = <<>>

Open ==
  /\ ~open
  /\ open' = TRUE
  /\ members' = {Host}
  /\ UNCHANGED transcript

Join(x) ==
  /\ open
  /\ x \notin members
  /\ members' = members \cup {x}
  /\ UNCHANGED <<open, transcript>>

Leave(x) ==
  /\ open
  /\ x \in members \ {Host}
  /\ members' = members \ {x}
  /\ UNCHANGED <<open, transcript>>

\* The number is higher than that of any line of x so far: no line is
\* repeated and none is overtaken by a later one of the same user.
Post(x, n) ==
  /\ open
  /\ x \in members
  /\ \A i \in DOMAIN transcript :
       transcript[i].line.by = x => transcript[i].line.n < n
  /\ transcript' = Append(transcript, [name |-> x, line |-> [by |-> x, n |-> n]])
  /\ UNCHANGED <<open, members>>

Close ==
  /\ open
  /\ open' = FALSE
  /\ members' = {}
  /\ UNCHANGED transcript

Next ==
  \/ Open
  \/ Close
  \/ \E x \in Users : Join(x) \/ Leave(x) \/ \E n \in Numbers : Post(x, n)

Spec == Init /\ [][Next]_vars
=============================================================================
