--------------------------- MODULE ChatOrderProofs ---------------------------
(***************************************************************************)
(* A proof that the windows of a session agree on the order of lines and   *)
(* show none twice, for any number of clients, peers and lines, whatever   *)
(* is lost and whatever times out.                                         *)
(***************************************************************************)
EXTENDS ChatRoomProofs

-----------------------------------------------------------------------------
(* Windows and queues.                                                     *)

\* Whoever waits for the packages t instead of s hears nothing more, and nothing
\* in another order.
Fewer(t, s) ==
  \A e, l, m :
    /\ Heard(e, t, l) => Heard(e, s, l)
    /\ InOrder(e, t, l, m) => InOrder(e, s, l, m)

\* t is a selection of s.
LEMMA SelectionFewer ==
  ASSUME NEW s, NEW t, NEW f,
         \A k \in DOMAIN t : f[k] \in DOMAIN s /\ t[k] = s[f[k]],
         \A j, k \in DOMAIN t : j < k => f[j] < f[k]
  PROVE  Fewer(t, s)
<1>1. \A l : Says(t, l) => Says(s, l)
  BY DEF Says
<1>2. ASSUME NEW e, NEW l, NEW m, InOrder(e, t, l, m)
      PROVE  InOrder(e, s, l, m)
  <2>1. CASE \/ \E i, j \in DOMAIN e : i < j /\ e[i].line = l /\ e[j].line = m
             \/ Shown(e, l) /\ Says(t, m)
    BY <1>1, <2>1 DEF InOrder
  <2>2. ASSUME NEW i \in DOMAIN t, NEW j \in DOMAIN t, i < j,
               t[i].type = "MESSAGE", t[i].line = l, t[j].type = "MESSAGE", t[j].line = m
        PROVE  InOrder(e, s, l, m)
    BY <2>2 DEF InOrder
  <2>3. QED BY <1>2, <2>1, <2>2 DEF InOrder
<1>3. QED BY <1>1, <1>2 DEF Fewer, Heard

LEMMA EmptyFewer == \A s : Fewer(<<>>, s)
<1> SUFFICES ASSUME NEW s PROVE Fewer(<<>>, s)
  OBVIOUS
<1>1. DOMAIN <<>> = {}
  OBVIOUS
<1>2. QED BY <1>1, SelectionFewer

LEMMA SameFewer == \A s : Fewer(s, s)
BY DEF Fewer

LEMMA TailFewer ==
  ASSUME NEW s \in Seq(DownPackages), s # <<>>
  PROVE  Fewer(Tail(s), s)
<1> DEFINE f == [k \in 1 .. Len(s) - 1 |-> k + 1]
<1>1. /\ Len(s) \in Nat /\ DOMAIN s = 1 .. Len(s)
      /\ DOMAIN Tail(s) = 1 .. Len(s) - 1
      /\ \A k \in 1 .. Len(s) - 1 : Tail(s)[k] = s[k + 1]
  BY HeadTailProperties
<1>2. /\ \A k \in DOMAIN Tail(s) : f[k] \in DOMAIN s /\ Tail(s)[k] = s[f[k]]
      /\ \A j, k \in DOMAIN Tail(s) : j < k => f[j] < f[k]
  BY <1>1
<1> HIDE DEF f
<1>3. QED BY <1>2, SelectionFewer

LEMMA RemoveAtFewer ==
  ASSUME NEW s \in Seq(DownPackages), NEW i \in DOMAIN s
  PROVE  Fewer(RemoveAt(s, i), s)
<1> DEFINE t == RemoveAt(s, i)
           f == [k \in 1 .. Len(s) - 1 |-> IF k < i THEN k ELSE k + 1]
<1>1. i \in 1 .. Len(s) /\ Len(s) \in Nat /\ DOMAIN s = 1 .. Len(s)
  OBVIOUS
<1>2. /\ t \in Seq(DownPackages)
      /\ Len(t) = Len(s) - 1
      /\ \A k \in 1 .. Len(s) - 1 : t[k] = IF k < i THEN s[k] ELSE s[k + 1]
  BY RemoveAtRange
<1> HIDE DEF t
<1>3. DOMAIN t = 1 .. Len(s) - 1
  BY <1>2
<1>4. /\ \A k \in DOMAIN t : f[k] \in DOMAIN s /\ t[k] = s[f[k]]
      /\ \A j, k \in DOMAIN t : j < k => f[j] < f[k]
  BY <1>1, <1>2, <1>3
<1> HIDE DEF f
<1>5. QED BY <1>4, SelectionFewer DEF t

\* A line that is sent is heard last.
LEMMA AppendHeard ==
  ASSUME NEW q \in Seq(DownPackages), NEW pkg \in DownPackages, NEW e, NEW l, NEW m
  PROVE  /\ Heard(e, Append(q, pkg), l) =>
              Heard(e, q, l) \/ (pkg.type = "MESSAGE" /\ pkg.line = l)
         /\ InOrder(e, Append(q, pkg), l, m) =>
              \/ InOrder(e, q, l, m)
              \/ Heard(e, q, l) /\ pkg.type = "MESSAGE" /\ pkg.line = m
<1> DEFINE t == Append(q, pkg)
           n == Len(q) + 1
<1>1. /\ Len(q) \in Nat /\ DOMAIN q = 1 .. Len(q)
      /\ DOMAIN t = 1 .. n
      /\ \A i \in 1 .. Len(q) : t[i] = q[i]
      /\ t[n] = pkg
  BY AppendProperties
<1> HIDE DEF t
<1>2. \A i \in DOMAIN t : i = n \/ i \in DOMAIN q
  BY <1>1
<1>3. ASSUME NEW x, Says(t, x)
      PROVE  Says(q, x) \/ (pkg.type = "MESSAGE" /\ pkg.line = x)
  BY <1>1, <1>2, <1>3 DEF Says
<1>4. ASSUME InOrder(e, t, l, m)
      PROVE  \/ InOrder(e, q, l, m)
             \/ Heard(e, q, l) /\ pkg.type = "MESSAGE" /\ pkg.line = m
  <2>1. CASE \/ \E i, j \in DOMAIN e : i < j /\ e[i].line = l /\ e[j].line = m
             \/ Shown(e, l) /\ Says(t, m)
    BY <1>3, <2>1 DEF InOrder, Heard
  <2>2. ASSUME NEW i \in DOMAIN t, NEW j \in DOMAIN t, i < j,
               t[i].type = "MESSAGE", t[i].line = l, t[j].type = "MESSAGE", t[j].line = m
        PROVE  \/ InOrder(e, q, l, m)
               \/ Heard(e, q, l) /\ pkg.type = "MESSAGE" /\ pkg.line = m
    <3>1. i \in DOMAIN q /\ t[i] = q[i]
      BY <1>1, <2>2
    <3>2. CASE j = n
      BY <1>1, <2>2, <3>1, <3>2 DEF Heard, Says
    <3>3. CASE j \in DOMAIN q
      BY <1>1, <2>2, <3>1, <3>3 DEF InOrder
    <3>4. QED BY <1>2, <3>2, <3>3
  <2>3. QED BY <1>4, <2>1, <2>2 DEF InOrder
<1>5. QED BY <1>3, <1>4 DEF Heard, t

\* Another package is not heard.
LEMMA AppendFewer ==
  ASSUME NEW q \in Seq(DownPackages), NEW pkg \in DownPackages, pkg.type # "MESSAGE"
  PROVE  Fewer(Append(q, pkg), q)
BY AppendHeard DEF Fewer

\* What a line that is printed changes.
LEMMA PrintHeard ==
  ASSUME NEW e \in Seq(Entries), NEW entry \in Entries, NEW q, NEW l, NEW m
  PROVE  /\ Heard(Append(e, entry), q, l) => Heard(e, q, l) \/ entry.line = l
         /\ InOrder(Append(e, entry), q, l, m) =>
              \/ InOrder(e, q, l, m)
              \/ Shown(e, l) /\ entry.line = m
              \/ entry.line = l /\ Says(q, m)
<1> DEFINE s == Append(e, entry)
           n == Len(e) + 1
<1>1. /\ Len(e) \in Nat /\ DOMAIN e = 1 .. Len(e)
      /\ DOMAIN s = 1 .. n
      /\ \A i \in 1 .. Len(e) : s[i] = e[i]
      /\ s[n] = entry
  BY AppendProperties
<1> HIDE DEF s
<1>2. \A i \in DOMAIN s : i = n \/ i \in DOMAIN e
  BY <1>1
<1>3. \A x : Shown(s, x) => Shown(e, x) \/ entry.line = x
  BY <1>1, <1>2 DEF Shown
<1>4. ASSUME InOrder(s, q, l, m)
      PROVE  \/ InOrder(e, q, l, m)
             \/ Shown(e, l) /\ entry.line = m
             \/ entry.line = l /\ Says(q, m)
  <2>1. ASSUME NEW i \in DOMAIN s, NEW j \in DOMAIN s, i < j, s[i].line = l, s[j].line = m
        PROVE  InOrder(e, q, l, m) \/ (Shown(e, l) /\ entry.line = m)
    <3>1. i \in DOMAIN e /\ s[i] = e[i]
      BY <1>1, <2>1
    <3>2. CASE j = n
      BY <1>1, <2>1, <3>1, <3>2 DEF Shown
    <3>3. CASE j \in DOMAIN e
      BY <1>1, <2>1, <3>1, <3>3 DEF InOrder
    <3>4. QED BY <1>2, <3>2, <3>3
  <2>2. CASE Shown(s, l) /\ Says(q, m)
    BY <1>3, <2>2 DEF InOrder
  <2>3. CASE \E i, j \in DOMAIN q :
               /\ i < j
               /\ q[i].type = "MESSAGE" /\ q[i].line = l
               /\ q[j].type = "MESSAGE" /\ q[j].line = m
    BY <2>3 DEF InOrder
  <2>4. QED BY <1>4, <2>1, <2>2, <2>3 DEF InOrder
<1>5. QED BY <1>3, <1>4 DEF Heard, s

\* The first line in the queue is printed: it is heard as before.
LEMMA TailPrinted ==
  ASSUME NEW e \in Seq(Entries), NEW entry \in Entries, NEW q \in Seq(DownPackages),
         q # <<>>, Head(q).type = "MESSAGE", entry.line = Head(q).line, NEW l, NEW m
  PROVE  /\ Heard(Append(e, entry), Tail(q), l) => Heard(e, q, l)
         /\ InOrder(Append(e, entry), Tail(q), l, m) => InOrder(e, q, l, m)
<1>1. /\ Len(q) \in Nat /\ DOMAIN q = 1 .. Len(q) /\ 1 \in DOMAIN q /\ Head(q) = q[1]
      /\ DOMAIN Tail(q) = 1 .. Len(q) - 1
      /\ \A k \in 1 .. Len(q) - 1 : Tail(q)[k] = q[k + 1]
  BY HeadTailProperties
<1>2. Says(q, entry.line)
  BY <1>1 DEF Says
<1>3. ASSUME entry.line = l, Says(Tail(q), m)
      PROVE  InOrder(e, q, l, m)
  <2>1. PICK k \in DOMAIN Tail(q) : Tail(q)[k].type = "MESSAGE" /\ Tail(q)[k].line = m
    BY <1>3 DEF Says
  <2>2. k + 1 \in DOMAIN q /\ 1 < k + 1 /\ Tail(q)[k] = q[k + 1]
    BY <1>1, <2>1
  <2>3. QED BY <1>1, <1>3, <2>1, <2>2 DEF InOrder
<1>4. Fewer(Tail(q), q)
  BY TailFewer
<1>5. Heard(Append(e, entry), Tail(q), l) => Heard(e, q, l)
  <2>1. Heard(e, Tail(q), l) => Heard(e, q, l)
    BY <1>4 DEF Fewer
  <2>2. QED BY <1>2, <2>1, PrintHeard DEF Heard
<1>6. InOrder(Append(e, entry), Tail(q), l, m) => InOrder(e, q, l, m)
  <2>1. InOrder(e, Tail(q), l, m) => InOrder(e, q, l, m)
    BY <1>4 DEF Fewer
  <2>2. Shown(e, l) /\ entry.line = m => InOrder(e, q, l, m)
    BY <1>2 DEF InOrder
  <2>3. QED BY <1>3, <2>1, <2>2, PrintHeard
<1>7. QED BY <1>5, <1>6

\* Of two lines in order both are heard.
LEMMA OrderedHeard ==
  \A e, q, l, m : InOrder(e, q, l, m) => Heard(e, q, l) /\ Heard(e, q, m)
BY DEF InOrder, Heard, Shown, Says

-----------------------------------------------------------------------------
(* What is heard.                                                          *)

LEMMA Views ==
  /\ ScreenOf(HostName) = hostScreen /\ QueueOf(HostName) = <<>>
  /\ \A c \in Clients : ScreenOf(c) = screen[c] /\ QueueOf(c) = down[c]
BY ProtocolAssumption DEF ScreenOf, QueueOf

\* The same after a step.
LEMMA ViewsNext ==
  /\ ScreenOf(HostName)' = hostScreen' /\ QueueOf(HostName)' = <<>>
  /\ \A c \in Clients : ScreenOf(c)' = screen'[c] /\ QueueOf(c)' = down'[c]
BY ProtocolAssumption DEF ScreenOf, QueueOf

LEMMA BeforeHears == \A x, l, m : Before(x, l, m) => Hears(x, l) /\ Hears(x, m)
BY OrderedHeard DEF Before, Hears

\* What the host prints is a line.
LEMMA PrintedLines ==
  ASSUME NEW s \in Seq(Entries)
  PROVE  {e.line : e \in Range(s)} \subseteq Lines
<1>1. \A e \in Range(s) : e \in Entries
  BY DEF Range
<1>2. QED BY <1>1 DEF Entries

\* Whatever is heard the host has printed ...
LEMMA HeardPrinted ==
  ASSUME HeardInOrder, NEW x \in Names, NEW l \in Lines, Hears(x, l)
  PROVE  l \in Printed
<1>1. CASE x = HostName
  <2>1. DOMAIN <<>> = {}
    OBVIOUS
  <2>2. Shown(hostScreen, l)
    BY <1>1, <2>1, Views DEF Hears, Heard, Says
  <2>3. QED BY <2>2 DEF Shown, Printed, Range
<1>2. CASE x \in Clients
  BY <1>2 DEF HeardInOrder
<1>3. QED BY <1>1, <1>2 DEF Names

\* ... so no two windows disagree about it.
LEMMA Agreement ==
  ASSUME HeardInOrder, NEW x \in Names, NEW y \in Names, NEW l \in Lines, NEW m \in Lines
  PROVE  ~(Before(x, l, m) /\ Before(y, m, l))
<1>1. Before(x, l, m) => l \in Printed /\ m \in Printed
  BY HeardPrinted, BeforeHears
<1>2. QED BY <1>1 DEF HeardInOrder

\* A step after which lines are heard that nobody heard before, after all that
\* was: those it broadcasts, all printed by the host.
LEMMA HeardStep ==
  ASSUME HeardInOrder, TypeOK', Printed \subseteq Printed', NEW new \in SUBSET Lines,
         \A n \in new : n \in Printed' /\ \A x \in Names : ~Hears(x, n),
         \A x \in Names, l \in Lines : Hears(x, l)' => Hears(x, l) \/ l \in new,
         \A x \in Names, l \in Lines, m \in Lines :
           Before(x, l, m)' => Before(x, l, m) \/ (Hears(x, l) /\ m \in new),
         hostSending' # <<>> =>
           LET l == Head(hostSending')
           IN /\ l \in Lines \ new
              /\ \/ hostSending' = hostSending
                 \/ l.by = HostName /\ l \in Printed' /\ \A c \in Clients : ~Hears(c, l)
  PROVE  HeardInOrder'
<1>1. Clients \subseteq Names
  BY DEF Names
<1>2. Printed' \subseteq Lines
  BY PrintedLines DEF Printed, TypeOK, HostTypeOK
<1>3. ASSUME NEW l \in Lines, NEW m \in Lines, NEW x \in Names, NEW y \in Names,
             Before(x, l, m)', Before(y, m, l)'
      PROVE  FALSE
  <2>1. /\ Before(x, l, m) \/ (Hears(x, l) /\ m \in new)
        /\ Before(y, m, l) \/ (Hears(y, m) /\ l \in new)
    BY <1>3
  <2>2. Hears(x, l) /\ Hears(y, m)
    BY <2>1, BeforeHears
  <2>3. l \notin new /\ m \notin new
    BY <2>2
  <2>4. QED BY <2>1, <2>3, Agreement
<1>4. ASSUME NEW c \in Clients, NEW l \in Lines, Hears(c, l)'
      PROVE  l \in Printed'
  <2>1. Hears(c, l) \/ l \in new
    BY <1>1, <1>4
  <2>2. QED BY <1>4, <2>1 DEF HeardInOrder
<1>5. ASSUME NEW l, hostSending' # <<>>, l = Head(hostSending')
      PROVE  l.by = HostName /\ l \in Printed' /\ \A c \in Clients : ~Hears(c, l)'
  <2>1. l \in Lines /\ l \notin new
    BY <1>5
  <2>2. l.by = HostName /\ l \in Printed' /\ \A c \in Clients : ~Hears(c, l)
    BY <1>5 DEF HeardInOrder
  <2>3. QED BY <1>1, <2>1, <2>2
<1>6. \A l, m \in Printed' : \A x \in Names :
        Before(x, l, m)' => \A y \in Names : ~Before(y, m, l)'
  BY <1>2, <1>3
<1>7. hostSending' # <<>> =>
        LET l == Head(hostSending')
        IN /\ l.by = HostName /\ l \in Printed'
           /\ \A c \in Clients : ~Hears(c, Head(hostSending))'
  BY <1>5 DEF Hears
<1>8. QED BY <1>4, <1>6, <1>7 DEF HeardInOrder

\* A step that prints nothing and sends no line.
LEMMA QuietOrder ==
  ASSUME TypeOK, TypeOK', OrderOK, UNCHANGED <<hostScreen, screen, hostSending, typed>>,
         \A c \in Clients : Fewer(down'[c], down[c]),
         \A c \in Clients : \A pkg \in Range(up'[c]) :
           pkg \in Range(up[c]) \/ pkg.type # "MESSAGE",
         \A c \in Clients : \A pkg \in Range(down'[c]) :
           pkg \in Range(down[c]) \/ pkg.type # "MESSAGE",
         \A c \in Clients : Registered(c) => localUser'[c] = localUser[c]
  PROVE  OrderOK'
<1> USE DEF OrderOK
<1>1. ASSUME NEW x \in Names
      PROVE  /\ \A l : Hears(x, l)' => Hears(x, l)
             /\ \A l, m : Before(x, l, m)' => Before(x, l, m)
  <2>1. CASE x = HostName
    BY <2>1, Views, ViewsNext DEF Hears, Before
  <2>2. CASE x \in Clients
    BY <2>2, Views, ViewsNext DEF Hears, Before, Fewer
  <2>3. QED BY <2>1, <2>2 DEF Names
<1>2. hostSending' # <<>> => Head(hostSending') \in Lines
  BY DEF TypeOK, HostTypeOK
<1>3. Printed' = Printed
  BY DEF Printed
<1>4. HeardInOrder'
  BY <1>1, <1>2, <1>3, HeardStep
<1>5. EchoOK'
  BY DEF EchoOK, Registered
<1>6. \A x \in Names : ScreenOf(x)' = ScreenOf(x)
  BY DEF ScreenOf
<1>7. OwnLinesOK'
  BY <1>6 DEF OwnLinesOK
<1>8. QED BY <1>4, <1>5, <1>7

-----------------------------------------------------------------------------
(* Steps that print or send a line.                                        *)

\* The lines of x among these rise.
OwnRising(e, x) ==
  \A i, j \in DOMAIN e :
    i < j /\ e[i].line.by = x /\ e[j].line.by = x => e[i].line.n < e[j].line.n

LEMMA OwnAppend ==
  ASSUME NEW e \in Seq(Entries), NEW entry \in Entries, NEW x, OwnRising(e, x),
         entry.line.by = x =>
           \A k \in Range(e) : k.line.by = x => k.line.n < entry.line.n
  PROVE  OwnRising(Append(e, entry), x)
<1> DEFINE s == Append(e, entry)
           n == Len(e) + 1
<1>1. /\ Len(e) \in Nat /\ DOMAIN e = 1 .. Len(e)
      /\ DOMAIN s = 1 .. n
      /\ \A i \in 1 .. Len(e) : s[i] = e[i] /\ e[i] \in Range(e)
      /\ s[n] = entry
  BY AppendProperties DEF Range
<1> HIDE DEF s
<1>2. ASSUME NEW i \in DOMAIN s, NEW j \in DOMAIN s, i < j,
             s[i].line.by = x, s[j].line.by = x
      PROVE  s[i].line.n < s[j].line.n
  <2>1. i \in DOMAIN e
    BY <1>1, <1>2
  <2>2. CASE j \in DOMAIN e
    BY <1>1, <1>2, <2>1, <2>2 DEF OwnRising
  <2>3. CASE j = n
    BY <1>1, <1>2, <2>1, <2>3
  <2>4. QED BY <1>1, <2>2, <2>3
<1>3. QED BY <1>2 DEF OwnRising, s

\* What the host prints more is printed.
LEMMA PrintedAppend ==
  ASSUME TypeOK, NEW entry \in Entries, hostScreen' = Append(hostScreen, entry)
  PROVE  Printed' = Printed \cup {entry.line}
<1>1. Range(hostScreen') = Range(hostScreen) \cup {entry}
  BY AppendRange DEF TypeOK, HostTypeOK
<1>2. QED BY <1>1 DEF Printed

\* The host prints a line of its own user. Nobody hears it yet.
LEMMA HostInputOrder ==
  ASSUME IInv, IInv', NumbersOK, OrderOK, HostInput, UNCHANGED clientVars
  PROVE  OrderOK'
<1> USE DEF IInv, OrderOK, transportVars, clientVars
<1> DEFINE line == [by |-> HostName, n |-> hostTyped + 1]
           entry == [name |-> hostUsers[0], line |-> line]
<1>1. hostUsers[0] = HostName /\ hostTyped \in 0 .. HostLines /\ HostLines \in Nat
      /\ hostTyped < HostLines
  BY ProtocolAssumption DEF RosterOK, HostInput, TypeOK, HostTypeOK
<1>2. hostTyped + 1 \in 1 .. HostLines
  BY <1>1
<1>3. /\ line \in Lines /\ line.by = HostName /\ line.n = hostTyped + 1
      /\ entry \in Entries /\ entry.line = line
      /\ HostName \notin Clients
  BY <1>1, <1>2, ProtocolAssumption DEF Entries, Names, Lines
<1>4. /\ hostScreen' = Append(hostScreen, entry)
      /\ hostSending' = <<line>> /\ Head(hostSending') = line
      /\ UNCHANGED <<screen, up, down, localUser, typed>>
  BY DEF HostInput
<1> HIDE DEF line, entry
<1>5. Printed' = Printed \cup {line}
  BY <1>3, <1>4, PrintedAppend
<1>6. hostScreen \in Seq(Entries) /\ \A e \in Range(hostScreen) : e.line.n \in Nat
  <2>1. \A e \in Entries : e.line.n \in Nat
    BY ProtocolAssumption DEF Entries, Lines
  <2>2. QED BY <2>1 DEF TypeOK, HostTypeOK, Range
<1>7. \A e \in Range(hostScreen) : e.line.by = HostName => e.line.n < line.n
  BY <1>1, <1>3, <1>6 DEF NumbersOK
<1>8. \A c \in Clients : ~Hears(c, line)
  <2>1. line \notin Printed
    BY <1>3, <1>6, <1>7 DEF Printed
  <2>2. QED BY <1>3, <2>1 DEF HeardInOrder
<1>9. ASSUME NEW x \in Names
      PROVE  /\ \A l : Hears(x, l)' => Hears(x, l)
             /\ \A l, m : Before(x, l, m)' => Before(x, l, m)
  <2>1. CASE x = HostName
    <3>1. DOMAIN <<>> = {}
      OBVIOUS
    <3>2. QED BY <1>3, <1>4, <1>6, <2>1, <3>1, Views, ViewsNext, PrintHeard
              DEF Hears, Before, Says
  <2>2. CASE x \in Clients
    BY <1>4, <2>2, Views, ViewsNext DEF Hears, Before
  <2>3. QED BY <2>1, <2>2 DEF Names
<1>10. HeardInOrder'
  <2> DEFINE new == {}
  <2>1. /\ new \in SUBSET Lines
        /\ \A n \in new : n \in Printed' /\ \A x \in Names : ~Hears(x, n)
        /\ \A l \in Lines : l \notin new
    OBVIOUS
  <2>2. /\ \A x \in Names, l \in Lines : Hears(x, l)' => Hears(x, l) \/ l \in new
        /\ \A x \in Names, l \in Lines, m \in Lines :
             Before(x, l, m)' => Before(x, l, m) \/ (Hears(x, l) /\ m \in new)
    BY <1>9
  <2>3. LET l == Head(hostSending')
        IN /\ l \in Lines \ new
           /\ l.by = HostName /\ l \in Printed' /\ \A c \in Clients : ~Hears(c, l)
    BY <1>3, <1>4, <1>5, <1>8, <2>1
  <2> HIDE DEF new
  <2>4. QED BY <1>5, <2>1, <2>2, <2>3, HeardStep
<1>11. EchoOK'
  BY <1>4 DEF EchoOK, Registered
<1>12. OwnLinesOK'
  <2>1. \A x \in Names : OwnRising(ScreenOf(x), x)
    BY DEF OwnLinesOK, OwnRising
  <2>2. OwnRising(hostScreen, HostName)
    BY <2>1, Views DEF Names
  <2>3. OwnRising(hostScreen', HostName)
    BY <1>3, <1>4, <1>6, <1>7, <2>2, OwnAppend
  <2>4. \A c \in Clients : ScreenOf(c)' = ScreenOf(c)
    BY <1>4, Views, ViewsNext
  <2>5. \A x \in Names : OwnRising(ScreenOf(x)', x)
    BY <2>1, <2>3, <2>4, ViewsNext DEF Names
  <2>6. QED BY <1>4, <2>5 DEF OwnLinesOK, OwnRising
<1>13. QED BY <1>10, <1>11, <1>12

\* Whoever the line that is broadcast reaches hears it last.
LEMMA BroadcastHeard ==
  ASSUME TypeOK, NEW pkg \in DownPackages, pkg.type = "MESSAGE",
         down' = Broadcast(down, pkg), UNCHANGED screen,
         NEW c \in Clients, NEW l, NEW m
  PROVE  /\ Hears(c, l)' => Hears(c, l) \/ l = pkg.line
         /\ Before(c, l, m)' => Before(c, l, m) \/ (Hears(c, l) /\ m = pkg.line)
<1>1. down'[c] \in {down[c], Append(down[c], pkg)} /\ down[c] \in Seq(DownPackages)
  BY DEF Broadcast, TypeOK, TransportTypeOK
<1>2. /\ ScreenOf(c) = screen[c] /\ ScreenOf(c)' = screen[c]
      /\ QueueOf(c) = down[c] /\ QueueOf(c)' = down'[c]
  BY Views, ViewsNext
<1>3. /\ Heard(screen[c], Append(down[c], pkg), l) =>
           Heard(screen[c], down[c], l) \/ l = pkg.line
      /\ InOrder(screen[c], Append(down[c], pkg), l, m) =>
           InOrder(screen[c], down[c], l, m) \/ (Heard(screen[c], down[c], l) /\ m = pkg.line)
  BY <1>1, AppendHeard
<1>4. CASE down'[c] = down[c]
  BY <1>2, <1>4 DEF Hears, Before
<1>5. CASE down'[c] = Append(down[c], pkg)
  BY <1>2, <1>3, <1>5 DEF Hears, Before
<1>6. QED BY <1>1, <1>4, <1>5

\* The host broadcasts what it has printed. It is new to all.
LEMMA HostSendsInputOrder ==
  ASSUME IInv, IInv', OrderOK, HostSendsInput, UNCHANGED clientVars
  PROVE  OrderOK'
<1> USE DEF IInv, OrderOK, clientVars
<1> DEFINE line == Head(hostSending)
           pkg == MessagePackage(0, line)
<1>1. line \in Lines /\ 0 \in UserIDs
  <2>1. hostSending \in {<<>>} \cup {<<l>> : l \in Lines} /\ hostSending # <<>>
    BY DEF HostSendsInput, TypeOK, HostTypeOK
  <2>2. PICK l \in Lines : hostSending = <<l>>
    BY <2>1
  <2>3. Head(<<l>>) = l
    OBVIOUS
  <2>4. 0 \in UserIDs
    BY ProtocolAssumption DEF UserIDs
  <2>5. QED BY <2>2, <2>3, <2>4
<1>2. pkg \in DownPackages /\ pkg.type = "MESSAGE" /\ pkg.line = line
  BY <1>1, PackageTypes, PackageKinds
<1>3. /\ down' = Broadcast(down, pkg)
      /\ hostSending' = <<>>
      /\ UNCHANGED <<hostScreen, screen, up, localUser, typed>>
  BY DEF HostSendsInput
<1>4. /\ line.by = HostName /\ line \in Printed
      /\ \A c \in Clients : ~Hears(c, line)
  BY DEF HostSendsInput, HeardInOrder
<1> HIDE DEF pkg, line
<1>5. \A x \in Names : ~Hears(x, line)
  BY <1>4 DEF Hears, Names
<1>6. ASSUME NEW x \in Names
      PROVE  /\ \A l : Hears(x, l)' => Hears(x, l) \/ l = line
             /\ \A l, m : Before(x, l, m)' => Before(x, l, m) \/ (Hears(x, l) /\ m = line)
  <2>1. CASE x = HostName
    BY <1>3, <2>1, Views, ViewsNext DEF Hears, Before
  <2>2. CASE x \in Clients
    BY <1>2, <1>3, <2>2, BroadcastHeard
  <2>3. QED BY <2>1, <2>2 DEF Names
<1>7. Printed' = Printed
  BY <1>3 DEF Printed
<1>8. HeardInOrder'
  <2> DEFINE new == {line}
  <2>1. new \in SUBSET Lines /\ \A n \in new : n \in Printed' /\ \A x \in Names : ~Hears(x, n)
    BY <1>1, <1>4, <1>5, <1>7
  <2>2. /\ \A x \in Names, l \in Lines : Hears(x, l)' => Hears(x, l) \/ l \in new
        /\ \A x \in Names, l \in Lines, m \in Lines :
             Before(x, l, m)' => Before(x, l, m) \/ (Hears(x, l) /\ m \in new)
    BY <1>6
  <2> HIDE DEF new
  <2>3. QED BY <1>3, <1>7, <2>1, <2>2, HeardStep
<1>9. EchoOK'
  <2>1. down \in DownQueues
    BY DEF TypeOK, TransportTypeOK, DownQueues
  <2>2. \A c \in Clients : Range(down'[c]) \subseteq Range(down[c]) \cup {pkg}
    BY <1>2, <1>3, <2>1, BroadcastRange
  <2>3. pkg.line.by \notin Clients
    BY <1>2, <1>4, ProtocolAssumption
  <2>4. QED BY <1>3, <2>2, <2>3 DEF EchoOK, Registered
<1>10. \A x \in Names : ScreenOf(x)' = ScreenOf(x)
  BY <1>3 DEF ScreenOf
<1>11. OwnLinesOK'
  BY <1>3, <1>10 DEF OwnLinesOK
<1>12. QED BY <1>8, <1>9, <1>11

\* The host prints a line of a client and passes it on. It is new to all.
LEMMA HostReceivesMessageOrder ==
  ASSUME IInv, IInv', NumbersOK, OrderOK, NEW p \in PeerIDs, HostReceivesMessage(p),
         UNCHANGED clientVars
  PROVE  OrderOK'
<1> USE DEF IInv, OrderOK, clientVars
<1> DEFINE c == owner[p]
           pkg == Head(up[c])
           line == pkg.line
           entry == [name |-> hostUsers[pkg.user], line |-> line]
<1>1. HostHas(p, "MESSAGE")
  BY DEF HostReceivesMessage
<1>2. /\ c \in Clients /\ c # HostName /\ c # NoUser
      /\ pkg \in UpPackages /\ pkg \in Range(up[c]) /\ pkg.type = "MESSAGE"
      /\ line.by = c /\ hostUsers[pkg.user] = c
  BY <1>1, HostKnowsSender, ProtocolAssumption
<1>3. pkg \in DownPackages /\ line \in Lines /\ entry \in Entries /\ entry.line = line
  BY <1>2, PackageFields DEF DownPackages, Entries, Names
<1>4. /\ hostScreen' = Append(hostScreen, entry)
      /\ down' = Broadcast(down, pkg)
      /\ HostConsumes(p)
      /\ UNCHANGED <<screen, hostSending, localUser, typed>>
  BY <1>2 DEF HostReceivesMessage, HasUser
<1>5. \A d \in Clients : Range(up'[d]) \subseteq Range(up[d])
  BY <1>1, <1>2, <1>4, HostConsumesRange
<1>6. Newer(pkg, c) /\ pkg.user = localUser[c] /\ Registered(c)
  BY <1>2 DEF NumbersOK, EchoOK
<1> HIDE DEF pkg, line, entry
<1>7. Printed' = Printed \cup {line}
  BY <1>3, <1>4, PrintedAppend
<1>8. hostScreen \in Seq(Entries) /\ \A e \in Range(hostScreen) : e.line.n \in Nat
  <2>1. \A e \in Entries : e.line.n \in Nat
    BY ProtocolAssumption DEF Entries, Lines
  <2>2. QED BY <2>1 DEF TypeOK, HostTypeOK, Range
<1>9. \A e \in Range(hostScreen) : e.line # line
  BY <1>2, <1>6, <1>8 DEF Newer, line
<1>10. line \notin Printed
  BY <1>9 DEF Printed
<1>11. \A x \in Names : ~Hears(x, line)
  BY <1>3, <1>10, HeardPrinted
<1>12. ASSUME NEW x \in Names
       PROVE  /\ \A l : Hears(x, l)' => Hears(x, l) \/ l = line
              /\ \A l, m : Before(x, l, m)' => Before(x, l, m) \/ (Hears(x, l) /\ m = line)
  <2>1. CASE x = HostName
    <3>1. DOMAIN <<>> = {}
      OBVIOUS
    <3>2. ASSUME NEW l, NEW m
          PROVE  /\ Heard(hostScreen', <<>>, l) => Heard(hostScreen, <<>>, l) \/ l = line
                 /\ InOrder(hostScreen', <<>>, l, m) =>
                      InOrder(hostScreen, <<>>, l, m) \/ (Heard(hostScreen, <<>>, l) /\ m = line)
      BY <1>3, <1>4, <1>8, <3>1, PrintHeard DEF Says, Heard
    <3>3. QED BY <2>1, <3>2, Views, ViewsNext DEF Hears, Before
  <2>2. CASE x \in Clients
    BY <1>2, <1>3, <1>4, <2>2, BroadcastHeard DEF line
  <2>3. QED BY <2>1, <2>2 DEF Names
<1>13. HeardInOrder'
  <2> DEFINE new == {line}
  <2>1. new \in SUBSET Lines /\ \A n \in new : n \in Printed' /\ \A x \in Names : ~Hears(x, n)
    BY <1>3, <1>7, <1>11
  <2>2. /\ \A x \in Names, l \in Lines : Hears(x, l)' => Hears(x, l) \/ l \in new
        /\ \A x \in Names, l \in Lines, m \in Lines :
             Before(x, l, m)' => Before(x, l, m) \/ (Hears(x, l) /\ m \in new)
    BY <1>12
  <2>3. hostSending' # <<>> => Head(hostSending') \in Lines \ new
    <3>1. hostSending' # <<>> => Head(hostSending').by = HostName
      BY <1>4 DEF HeardInOrder
    <3>2. QED BY <1>2, <3>1 DEF TypeOK, HostTypeOK, line
  <2> HIDE DEF new
  <2>4. QED BY <1>4, <1>7, <2>1, <2>2, <2>3, HeardStep
<1>14. EchoOK'
  <2>1. down \in DownQueues
    BY DEF TypeOK, TransportTypeOK, DownQueues
  <2>2. \A d \in Clients : Range(down'[d]) \subseteq Range(down[d]) \cup {pkg}
    BY <1>3, <1>4, <2>1, BroadcastRange
  <2>3. \A d \in Clients : pkg.line.by = d => Registered(d) /\ pkg.user = localUser[d]
    BY <1>2, <1>6 DEF line
  <2>4. QED BY <1>4, <1>5, <2>2, <2>3 DEF EchoOK, Registered
<1>15. OwnLinesOK'
  <2>1. \A x \in Names : OwnRising(ScreenOf(x), x)
    BY DEF OwnLinesOK, OwnRising
  <2>2. OwnRising(hostScreen, HostName)
    BY <2>1, Views DEF Names
  <2>3. OwnRising(hostScreen', HostName)
    BY <1>2, <1>3, <1>4, <1>8, <2>2, OwnAppend
  <2>4. \A d \in Clients : ScreenOf(d)' = ScreenOf(d)
    BY <1>4, Views, ViewsNext
  <2>5. \A x \in Names : OwnRising(ScreenOf(x)', x)
    BY <2>1, <2>3, <2>4, ViewsNext DEF Names
  <2>6. QED BY <1>4, <2>5 DEF OwnLinesOK, OwnRising
<1>16. QED BY <1>13, <1>14, <1>15

-----------------------------------------------------------------------------
(* The host's other steps.                                                 *)

\* A step of the host that prints nothing and broadcasts no line.
LEMMA QuietHostOrder ==
  ASSUME TypeOK, TypeOK', OrderOK, UNCHANGED <<hostScreen, hostSending, clientVars>>,
         \A c \in Clients : Range(up'[c]) \subseteq Range(up[c]),
         \A c \in Clients : Fewer(down'[c], down[c]),
         \A c \in Clients : \A pkg \in Range(down'[c]) :
           pkg \in Range(down[c]) \/ pkg.type # "MESSAGE"
  PROVE  OrderOK'
BY QuietOrder DEF clientVars

\* So does one that sends nothing.
LEMMA SilentHostOrder ==
  ASSUME TypeOK, TypeOK', OrderOK, UNCHANGED <<hostScreen, hostSending, down, clientVars>>,
         \A c \in Clients : Range(up'[c]) \subseteq Range(up[c])
  PROVE  OrderOK'
BY SameFewer, QuietHostOrder

LEMMA ResetPeerDiscards ==
  ASSUME TypeOK, NEW p \in PeerIDs, ResetPeer(p)
  PROVE  \A c \in Clients : Range(up'[c]) \subseteq Range(up[c])
<1>1. Range(<<>>) = {}
  BY DEF Range
<1>2. \A c \in Clients : up'[c] \in {up[c], <<>>}
  BY DEF ResetPeer, TypeOK, TransportTypeOK
<1>3. QED BY <1>1, <1>2

LEMMA HostExitOrder ==
  ASSUME IInv, IInv', OrderOK, HostExit, UNCHANGED clientVars
  PROVE  OrderOK'
<1>1. Range(<<>>) = {}
  BY DEF Range
<1>2. \A c \in Clients : Range(up'[c]) \subseteq Range(up[c])
  BY <1>1 DEF HostExit, ResetAllPeers
<1>3. QED BY <1>2, SilentHostOrder DEF HostExit, IInv

LEMMA HostAbandonsOrder ==
  ASSUME IInv, IInv', OrderOK, NEW p \in PeerIDs, HostAbandons(p), UNCHANGED clientVars
  PROVE  OrderOK'
BY ResetPeerDiscards, SilentHostOrder DEF HostAbandons, Abandon, IInv, hostVars

\* Those that stay are told that a user is gone.
LEMMA HostDisconnectEventOrder ==
  ASSUME IInv, IInv', OrderOK, NEW p \in PeerIDs, HostDisconnectEvent(p),
         UNCHANGED clientVars
  PROVE  OrderOK'
<1> USE DEF IInv
<1> DEFINE pkg == RemoveUserPackage(toUserID(p))
<1>1. pkg \in DownPackages /\ pkg.type # "MESSAGE"
  BY UserIDOfPeer, PackageTypes, PackageKinds
<1>2. \A c \in Clients : Range(up'[c]) \subseteq Range(up[c])
  BY ResetPeerDiscards DEF HostDisconnectEvent
<1>3. UNCHANGED <<hostScreen, hostSending>>
  BY DEF HostDisconnectEvent
<1>4. CASE UNCHANGED down
  BY <1>2, <1>3, <1>4, SilentHostOrder
<1>5. CASE down' = Farewell(p)
  <2>1. \A c \in Clients : \A k \in Range(down'[c]) : k \in Range(down[c]) \/ k = pkg
    BY <1>5, FarewellRange
  <2>2. \A c \in Clients : down'[c] \in {down[c], Append(down[c], pkg)}
    BY <1>5 DEF Farewell
  <2> HIDE DEF pkg
  <2>3. ASSUME NEW c \in Clients
        PROVE  Fewer(down'[c], down[c])
    <3>1. down[c] \in Seq(DownPackages)
      BY DEF TypeOK, TransportTypeOK
    <3>2. Fewer(Append(down[c], pkg), down[c])
      BY <1>1, <3>1, AppendFewer
    <3>3. QED BY <2>2, <3>2, SameFewer
  <2>4. QED BY <1>1, <1>2, <1>3, <2>1, <2>3, QuietHostOrder
<1>6. QED BY <1>4, <1>5 DEF HostDisconnectEvent

\* A new user gets the list, and all are told of him.
LEMMA HostReceivesUsernameOrder ==
  ASSUME IInv, IInv', OrderOK, NEW p \in PeerIDs, HostReceivesUsername(p),
         UNCHANGED clientVars
  PROVE  OrderOK'
<1> USE DEF IInv
<1> DEFINE name == Head(up[owner[p]]).username
           ack == UsernameAckPackage(toUserID(p), hostUsers')
           add == AddUserPackage(toUserID(p), name)
           sent == SendDown(down, toUserID(p), ack)
<1>1. HostHas(p, "USERNAME") /\ HostConsumes(p) /\ owner[p] \in Clients
  BY PeerHasClient DEF HostReceivesUsername, HostHas
<1>2. \A c \in Clients : Range(up'[c]) \subseteq Range(up[c])
  BY <1>1, HostConsumesRange
<1>3. /\ ack \in DownPackages /\ ack.type # "MESSAGE"
      /\ add \in DownPackages /\ add.type # "MESSAGE"
  <2>1. Head(up[owner[p]]) \in UpPackages /\ Head(up[owner[p]]).type = "USERNAME"
    BY <1>1, HostTakes
  <2>2. name \in Names
    BY <2>1, PackageFields
  <2>3. hostUsers' \in UserMap
    BY DEF TypeOK, HostTypeOK
  <2>4. QED BY <2>2, <2>3, UserIDOfPeer, PackageTypes, PackageKinds
<1>4. down \in DownQueues
  BY DEF TypeOK, TransportTypeOK, DownQueues
<1>5. /\ sent \in DownQueues
      /\ \A c \in Clients : Range(sent[c]) \subseteq Range(down[c]) \cup {ack}
  BY <1>3, <1>4, SendDownRange
<1>6. /\ Broadcast(sent, add) \in DownQueues
      /\ \A c \in Clients : Range(Broadcast(sent, add)[c]) \subseteq Range(sent[c]) \cup {add}
  BY <1>3, <1>5, BroadcastRange
<1>7. down' = Broadcast(sent, add) /\ UNCHANGED <<hostScreen, hostSending>>
  BY DEF HostReceivesUsername
<1>8. \A c \in Clients : sent[c] \in {down[c], Append(down[c], ack)}
  BY <1>4 DEF SendDown, DownQueues
<1>9. \A c \in Clients : down'[c] \in {sent[c], Append(sent[c], add)}
  BY <1>7 DEF Broadcast
<1> HIDE DEF ack, add, sent
<1>10. ASSUME NEW c \in Clients
       PROVE  Fewer(down'[c], down[c])
  <2>1. down[c] \in Seq(DownPackages) /\ sent[c] \in Seq(DownPackages)
    BY <1>4, <1>5 DEF DownQueues
  <2>2. Fewer(sent[c], down[c])
    <3>1. Fewer(Append(down[c], ack), down[c])
      BY <1>3, <2>1, AppendFewer
    <3>2. QED BY <1>8, <3>1, SameFewer
  <2>3. Fewer(down'[c], sent[c])
    <3>1. Fewer(Append(sent[c], add), sent[c])
      BY <1>3, <2>1, AppendFewer
    <3>2. QED BY <1>9, <3>1, SameFewer
  <2>4. QED BY <2>2, <2>3 DEF Fewer
<1>11. QED BY <1>2, <1>3, <1>5, <1>6, <1>7, <1>10, QuietHostOrder

-----------------------------------------------------------------------------
(* The clients' steps.                                                     *)

\* A step of a client that prints nothing and sends no line.
LEMMA QuietClientOrder ==
  ASSUME TypeOK, TypeOK', OrderOK, UNCHANGED <<hostVars, screen, typed>>,
         NEW c \in Clients, NEW q, down' = [down EXCEPT ![c] = q],
         Fewer(q, down[c]), Range(q) \subseteq Range(down[c]),
         \A d \in Clients : \A pkg \in Range(up'[d]) :
           pkg \in Range(up[d]) \/ pkg.type # "MESSAGE",
         \A d \in Clients : Registered(d) => localUser'[d] = localUser[d]
  PROVE  OrderOK'
<1>1. \A d \in Clients : down'[d] = IF d = c THEN q ELSE down[d]
  BY DEF TypeOK, TransportTypeOK
<1>2. /\ \A d \in Clients : Fewer(down'[d], down[d])
      /\ \A d \in Clients : Range(down'[d]) \subseteq Range(down[d])
  BY <1>1, SameFewer
<1>3. QED BY <1>2, QuietOrder DEF hostVars

\* The process ends.
LEMMA ClientEndsOrder ==
  ASSUME IInv, IInv', OrderOK, NEW c \in Clients, CloseLink(c),
         UNCHANGED <<hostVars, localUser, screen, typed, up>>
  PROVE  OrderOK'
<1>1. Range(<<>>) = {} /\ Fewer(<<>>, down[c])
  BY EmptyFewer DEF Range
<1>2. down' = [down EXCEPT ![c] = <<>>]
  BY DEF CloseLink
<1>3. QED BY <1>1, <1>2, QuietClientOrder DEF IInv

\* The listener takes a package and prints nothing.
LEMMA ClientHandlesOrder ==
  ASSUME IInv, IInv', OrderOK, NEW c \in Clients, NEW type, ClientHas(c, type),
         ClientConsumes(c), UNCHANGED <<hostVars, up, screen, typed>>,
         \A d \in Clients : Registered(d) => localUser'[d] = localUser[d]
  PROVE  OrderOK'
<1> USE DEF IInv
<1> DEFINE rest == Tail(down[c])
<1>1. /\ Range(rest) \subseteq Range(down[c])
      /\ down[c] \in Seq(DownPackages) /\ down[c] # <<>>
  BY ClientTakes DEF ClientHas, TypeOK, TransportTypeOK
<1>2. Fewer(rest, down[c])
  BY <1>1, TailFewer
<1>3. down' = [down EXCEPT ![c] = rest]
  BY DEF ClientConsumes
<1> HIDE DEF rest
<1>4. QED BY <1>1, <1>2, <1>3, QuietClientOrder

\* A client is acknowledged again, if at all, under the id it has.
LEMMA ClientReceivesAckOrder ==
  ASSUME IInv, IInv', OrderOK, NEW c \in Clients, ClientReceivesAck(c),
         UNCHANGED hostVars
  PROVE  OrderOK'
<1> USE DEF IInv
<1>1. ClientHas(c, "USERNAME_ACK") /\ UNCHANGED up
  BY DEF ClientReceivesAck
<1>2. CASE Crash(c)
  BY <1>1, <1>2, ClientEndsOrder DEF Crash
<1>3. CASE ~Crash(c)
  <2> DEFINE pkg == Head(down[c])
  <2>1. pkg \in Range(down[c]) /\ pkg.type = "USERNAME_ACK"
    BY <1>1, ClientTakes
  <2>2. /\ ClientConsumes(c) /\ UNCHANGED <<screen, typed>>
        /\ \A d \in Clients : d # c => localUser'[d] = localUser[d]
        /\ localUser'[c] \in {pkg.assigned, localUser[c]}
    BY <1>3 DEF ClientReceivesAck, TypeOK, ClientTypeOK
  <2>3. Registered(c) => localUser[c] = pkg.assigned
    BY <2>1 DEF IdentityOK, Identity
  <2>4. \A d \in Clients : Registered(d) => localUser'[d] = localUser[d]
    BY <2>2, <2>3
  <2>5. QED BY <1>1, <2>2, <2>4, ClientHandlesOrder
<1>4. QED BY <1>2, <1>3

LEMMA ClientReceivesUserOrder ==
  ASSUME IInv, IInv', OrderOK, NEW c \in Clients,
         ClientReceivesAddUser(c) \/ ClientReceivesRemoveUser(c), UNCHANGED hostVars
  PROVE  OrderOK'
<1>1. UNCHANGED <<localUser, screen, typed, up>>
  BY DEF ClientReceivesAddUser, ClientReceivesRemoveUser, Crash
<1>2. CASE Crash(c)
  BY <1>1, <1>2, ClientEndsOrder DEF Crash
<1>3. CASE ~Crash(c)
  <2>1. /\ ClientConsumes(c)
        /\ ClientHas(c, "STATE_ADD_USER") \/ ClientHas(c, "STATE_REM_USER")
    BY <1>3 DEF ClientReceivesAddUser, ClientReceivesRemoveUser
  <2>2. QED BY <1>1, <2>1, ClientHandlesOrder
<1>4. QED BY <1>2, <1>3

\* A client prints a line: its own that was just typed, or one of another that
\* it has heard.
LEMMA ClientPrintsOrder ==
  ASSUME TypeOK, TypeOK', OrderOK, EchoOK', NEW c \in Clients, NEW entry \in Entries,
         screen' = [screen EXCEPT ![c] = Append(@, entry)],
         UNCHANGED <<hostScreen, hostSending>>,
         \A d \in Clients : d # c => down'[d] = down[d],
         \A l, m : l.by # c /\ m.by # c =>
           /\ Heard(screen'[c], down'[c], l) => Heard(screen[c], down[c], l)
           /\ InOrder(screen'[c], down'[c], l, m) => InOrder(screen[c], down[c], l, m),
         \A d \in Clients : typed[d] <= typed'[d],
         entry.line.by = c => typed[c] < entry.line.n /\ entry.line.n <= typed'[c]
  PROVE  OrderOK'
<1> USE DEF OrderOK
<1>1. /\ screen'[c] = Append(screen[c], entry) /\ screen[c] \in Seq(Entries)
      /\ \A d \in Clients : d # c => screen'[d] = screen[d]
  BY DEF TypeOK, ClientTypeOK
<1>2. ASSUME NEW x \in Names
      PROVE  /\ \A l : Hears(x, l)' => Hears(x, l)
             /\ \A l, m : Before(x, l, m)' => Before(x, l, m)
  <2>1. CASE x = HostName
    BY <2>1, Views, ViewsNext DEF Hears, Before
  <2>2. CASE x \in Clients /\ x # c
    BY <1>1, <2>2, Views, ViewsNext DEF Hears, Before
  <2>3. CASE x = c
    BY <2>3, Views, ViewsNext DEF Hears, Before
  <2>4. QED BY <2>1, <2>2, <2>3 DEF Names
<1>3. HeardInOrder'
  <2> DEFINE new == {}
  <2>1. /\ new \in SUBSET Lines
        /\ \A n \in new : n \in Printed' /\ \A x \in Names : ~Hears(x, n)
    OBVIOUS
  <2>2. /\ \A x \in Names, l \in Lines : Hears(x, l)' => Hears(x, l) \/ l \in new
        /\ \A x \in Names, l \in Lines, m \in Lines :
             Before(x, l, m)' => Before(x, l, m) \/ (Hears(x, l) /\ m \in new)
    BY <1>2
  <2>3. hostSending' # <<>> => Head(hostSending') \in Lines \ new
    BY DEF TypeOK, HostTypeOK
  <2>4. Printed' = Printed
    BY DEF Printed
  <2> HIDE DEF new
  <2>5. QED BY <2>1, <2>2, <2>3, <2>4, HeardStep
<1>4. Range(screen'[c]) = Range(screen[c]) \cup {entry}
  BY <1>1, AppendRange
<1>5. \A d \in Clients : typed[d] \in Nat /\ typed'[d] \in Nat
  BY ProtocolAssumption DEF TypeOK, ClientTypeOK
<1>6. \A d \in Clients : \A e \in Range(screen[d]) : e.line.n \in Nat
  <2>1. \A e \in Entries : e.line.n \in Nat
    BY ProtocolAssumption DEF Entries, Lines
  <2>2. QED BY <2>1 DEF TypeOK, ClientTypeOK, Range
<1>7. entry.line.n \in Nat
  BY ProtocolAssumption DEF Entries, Lines
<1>8. \A d \in Clients : \A e \in Range(screen'[d]) : e.line.by = d => e.line.n <= typed'[d]
  <2>1. ASSUME NEW d \in Clients, NEW e \in Range(screen[d]), e.line.by = d
        PROVE  e.line.n <= typed'[d]
    BY <1>5, <1>6, <2>1 DEF OwnLinesOK
  <2>2. QED BY <1>1, <1>4, <2>1
<1>9. \A x \in Names : OwnRising(ScreenOf(x)', x)
  <2>1. \A x \in Names : OwnRising(ScreenOf(x), x)
    BY DEF OwnLinesOK, OwnRising
  <2>2. \A e \in Range(screen[c]) : e.line.by = c /\ entry.line.by = c =>
          e.line.n < entry.line.n
    BY <1>5, <1>6, <1>7 DEF OwnLinesOK
  <2>3. OwnRising(screen[c], c)
    BY <2>1, Views DEF Names
  <2>4. OwnRising(screen'[c], c)
    BY <1>1, <2>2, <2>3, OwnAppend
  <2>5. ASSUME NEW x \in Names, x # c
        PROVE  ScreenOf(x)' = ScreenOf(x)
    BY <1>1, <2>5, Views, ViewsNext DEF Names
  <2>6. QED BY <2>1, <2>4, <2>5, ViewsNext
<1>10. OwnLinesOK'
  BY <1>8, <1>9 DEF OwnLinesOK, OwnRising
<1>11. QED BY <1>3, <1>10

\* A client prints its own line when it is typed, and sends it under its id.
LEMMA ClientInputOrder ==
  ASSUME IInv, IInv', OrderOK, NEW c \in Clients, ClientInput(c), UNCHANGED hostVars
  PROVE  OrderOK'
<1> USE DEF IInv, hostVars
<1> DEFINE line == [by |-> c, n |-> typed[c] + 1]
           pkg == MessagePackage(localUser[c], line)
           entry == [name |-> users[c][localUser[c]], line |-> line]
<1>1. CASE Crash(c) /\ UNCHANGED up
  BY <1>1, ClientEndsOrder DEF Crash
<1>2. CASE /\ Registered(c)
           /\ typed' = [typed EXCEPT ![c] = @ + 1]
           /\ screen' = [screen EXCEPT ![c] = Append(@, entry)]
           /\ SendUp(c, pkg)
           /\ UNCHANGED <<localUser, down>>
  <2>1. typed \in [Clients -> 0 .. ClientLines] /\ ClientLines \in Nat
    BY ProtocolAssumption DEF TypeOK, ClientTypeOK
  <2>2. typed[c] < ClientLines
    BY DEF ClientInput
  <2>3. /\ line \in Lines /\ line.by = c /\ line.n = typed[c] + 1 /\ typed[c] \in Nat
        /\ typed'[c] = typed[c] + 1
        /\ \A d \in Clients : d # c => typed'[d] = typed[d]
    BY <1>2, <2>1, <2>2 DEF Lines
  <2>4. users[c][localUser[c]] = c
    BY <1>2 DEF IdentityOK, Identity
  <2>5. entry \in Entries /\ entry.line = line
    BY <2>3, <2>4 DEF Entries, Names
  <2>6. pkg.type = "MESSAGE" /\ pkg.line = line /\ pkg.user = localUser[c] /\ pkg \in UpPackages
    BY <1>2, <2>3, PackageTypes, PackageKinds DEF Registered, MessagePackage
  <2> HIDE DEF line, pkg, entry
  <2>7. /\ \A d \in Clients : d # c => up'[d] = up[d]
        /\ up'[c] \in {up[c], Append(up[c], pkg)} /\ up[c] \in Seq(UpPackages)
    BY <1>2 DEF SendUp, TypeOK, TransportTypeOK
  <2>8. Range(Append(up[c], pkg)) = Range(up[c]) \cup {pkg}
    BY <2>6, <2>7, AppendRange
  <2>9. EchoOK'
    <3>1. ASSUME NEW d \in Clients, NEW k \in Range(up'[d]) \cup Range(down'[d])
          PROVE  k \in Range(up[d]) \cup Range(down[d]) \/ (d = c /\ k = pkg)
      <4>1. CASE d # c
        BY <1>2, <2>7, <3>1, <4>1
      <4>2. CASE d = c
        BY <1>2, <2>7, <2>8, <3>1, <4>2
      <4>3. QED BY <4>1, <4>2
    <3>2. QED BY <1>2, <2>3, <2>6, <3>1 DEF OrderOK, EchoOK, Registered
  <2>10. screen'[c] = Append(screen[c], entry) /\ screen[c] \in Seq(Entries)
    BY <1>2 DEF TypeOK, ClientTypeOK
  <2>11. ASSUME NEW l, NEW m, l.by # c, m.by # c
         PROVE  /\ Heard(screen'[c], down'[c], l) => Heard(screen[c], down[c], l)
                /\ InOrder(screen'[c], down'[c], l, m) => InOrder(screen[c], down[c], l, m)
    <3>1. entry.line # l /\ entry.line # m
      BY <2>3, <2>5, <2>11
    <3>2. /\ Heard(Append(screen[c], entry), down[c], l) =>
               Heard(screen[c], down[c], l) \/ entry.line = l
          /\ InOrder(Append(screen[c], entry), down[c], l, m) =>
               \/ InOrder(screen[c], down[c], l, m)
               \/ Shown(screen[c], l) /\ entry.line = m
               \/ entry.line = l /\ Says(down[c], m)
      BY <2>5, <2>10, PrintHeard
    <3>3. QED BY <1>2, <2>10, <3>1, <3>2
  <2>12. \A d \in Clients : typed[d] <= typed'[d]
    BY <2>1, <2>3
  <2>13. typed[c] < entry.line.n /\ entry.line.n <= typed'[c]
    BY <2>3, <2>5
  <2>14. QED BY <1>2, <2>5, <2>9, <2>11, <2>12, <2>13, ClientPrintsOrder
<1>3. QED BY <1>1, <1>2 DEF ClientInput

\* A client prints the line of another, and not the copy of its own.
LEMMA ClientReceivesMessageOrder ==
  ASSUME IInv, IInv', OrderOK, NEW c \in Clients, ClientReceivesMessage(c),
         UNCHANGED hostVars
  PROVE  OrderOK'
<1> USE DEF IInv, hostVars
<1> DEFINE pkg == Head(down[c])
           entry == [name |-> users[c][pkg.user], line |-> pkg.line]
<1>1. ClientHas(c, "MESSAGE") /\ UNCHANGED up
  BY DEF ClientReceivesMessage
<1>2. CASE Crash(c)
  BY <1>1, <1>2, ClientEndsOrder DEF Crash
<1>3. CASE /\ HasUser(users[c], pkg.user)
           /\ screen' = IF pkg.user = localUser[c] THEN screen
                        ELSE [screen EXCEPT ![c] = Append(@, entry)]
           /\ ClientConsumes(c)
           /\ UNCHANGED <<localUser, typed>>
  <2>1. CASE UNCHANGED screen
    BY <1>1, <1>3, <2>1, ClientHandlesOrder
  <2>2. CASE pkg.user # localUser[c]
    <3>1. /\ pkg \in DownPackages /\ pkg \in Range(down[c]) /\ pkg.type = "MESSAGE"
          /\ down[c] \in Seq(DownPackages) /\ down[c] # <<>>
      BY <1>1, ClientTakes DEF ClientHas, TypeOK, TransportTypeOK
    <3>2. users[c][pkg.user] \in Names /\ pkg.line \in Lines
      BY <1>3, <3>1, PackageFields DEF HasUser, TypeOK, ClientTypeOK, UserMap
    <3>3. entry \in Entries /\ entry.line = pkg.line
      BY <3>2 DEF Entries
    <3>4. pkg.line.by # c
      BY <2>2, <3>1 DEF OrderOK, EchoOK
    <3>5. screen' = [screen EXCEPT ![c] = Append(@, entry)]
      BY <1>3, <2>2
    <3>6. screen'[c] = Append(screen[c], entry) /\ screen[c] \in Seq(Entries)
      BY <3>5 DEF TypeOK, ClientTypeOK
    <3>7. /\ down'[c] = Tail(down[c])
          /\ \A d \in Clients : d # c => down'[d] = down[d]
      BY <1>3 DEF ClientConsumes, TypeOK, TransportTypeOK
    <3>8. \A d \in Clients : Range(down'[d]) \subseteq Range(down[d])
      BY <1>1, <1>3, ClientConsumesRange
    <3>9. EchoOK'
      BY <1>1, <1>3, <3>8 DEF OrderOK, EchoOK, Registered
    <3> HIDE DEF entry
    <3>10. ASSUME NEW l, NEW m
           PROVE  /\ Heard(screen'[c], down'[c], l) => Heard(screen[c], down[c], l)
                  /\ InOrder(screen'[c], down'[c], l, m) => InOrder(screen[c], down[c], l, m)
      BY <3>1, <3>3, <3>6, <3>7, TailPrinted
    <3>11. \A d \in Clients : typed[d] <= typed'[d]
      BY <1>3, ProtocolAssumption DEF TypeOK, ClientTypeOK
    <3>12. QED BY <3>3, <3>4, <3>5, <3>7, <3>9, <3>10, <3>11, ClientPrintsOrder
  <2>3. QED BY <1>3, <2>1, <2>2
<1>4. QED BY <1>2, <1>3 DEF ClientReceivesMessage

\* USERNAME is no line.
LEMMA ClientConnectEventOrder ==
  ASSUME IInv, IInv', OrderOK, NEW c \in Clients, ClientConnectEvent(c),
         UNCHANGED hostVars
  PROVE  OrderOK'
<1> USE DEF IInv, hostVars, clientVars
<1> DEFINE pkg == UsernamePackage(c)
<1>1. pkg \in UpPackages /\ pkg.type # "MESSAGE"
  BY PackageTypes, PackageKinds DEF Names
<1> HIDE DEF pkg
<1>2. up[c] \in Seq(UpPackages)
  BY DEF TypeOK, TransportTypeOK
<1>3. Range(Append(up[c], pkg)) = Range(up[c]) \cup {pkg}
  BY <1>1, <1>2, AppendRange
<1>4. /\ \A d \in Clients : d # c => up'[d] = up[d]
      /\ up'[c] = Append(up[c], pkg)
      /\ UNCHANGED down
  BY DEF ClientConnectEvent, pkg, TypeOK, TransportTypeOK
<1>5. \A d \in Clients : \A k \in Range(up'[d]) : k \in Range(up[d]) \/ k.type # "MESSAGE"
  <2>1. ASSUME NEW d \in Clients, d # c
        PROVE  up'[d] = up[d]
    BY <1>4, <2>1
  <2>2. \A k \in Range(up'[c]) : k \in Range(up[c]) \/ k.type # "MESSAGE"
    BY <1>1, <1>3, <1>4
  <2>3. QED BY <2>1, <2>2
<1>6. QED BY <1>4, <1>5, SameFewer, QuietOrder DEF ClientConnectEvent

\* Whatever is lost is not heard.
LEMMA LoseOrder ==
  ASSUME IInv, IInv', OrderOK, NEW c \in Clients, Lose(c),
         UNCHANGED <<hostVars, clientVars>>
  PROVE  OrderOK'
<1> USE DEF IInv, hostVars, clientVars
<1>1. CASE /\ \E i \in DOMAIN up[c] : up' = [up EXCEPT ![c] = RemoveAt(@, i)]
           /\ UNCHANGED down
  <2>1. PICK i \in DOMAIN up[c] : up' = [up EXCEPT ![c] = RemoveAt(up[c], i)]
    BY <1>1
  <2>2. up[c] \in Seq(UpPackages)
    BY DEF TypeOK, TransportTypeOK
  <2>3. Range(RemoveAt(up[c], i)) \subseteq Range(up[c])
    BY <2>2, RemoveAtRange
  <2>4. \A d \in Clients : Range(up'[d]) \subseteq Range(up[d])
    BY <2>1, <2>3 DEF TypeOK, TransportTypeOK
  <2>5. QED BY <1>1, <2>4, SameFewer, QuietOrder
<1>2. CASE /\ \E i \in DOMAIN down[c] : down' = [down EXCEPT ![c] = RemoveAt(@, i)]
           /\ UNCHANGED up
  <2>1. PICK i \in DOMAIN down[c] : down' = [down EXCEPT ![c] = RemoveAt(down[c], i)]
    BY <1>2
  <2> DEFINE q == RemoveAt(down[c], i)
  <2>2. down[c] \in Seq(DownPackages)
    BY DEF TypeOK, TransportTypeOK
  <2>3. Fewer(q, down[c]) /\ Range(q) \subseteq Range(down[c])
    BY <2>2, RemoveAtFewer, RemoveAtRange
  <2>4. down' = [down EXCEPT ![c] = q]
    BY <2>1
  <2> HIDE DEF q
  <2>5. QED BY <1>2, <2>3, <2>4, QuietClientOrder
<1>3. QED BY <1>1, <1>2 DEF Lose

-----------------------------------------------------------------------------
(* Every step.                                                             *)

LEMMA InitOrder == Init => OrderOK
<1> SUFFICES ASSUME Init PROVE OrderOK
  OBVIOUS
<1>1. /\ hostScreen = <<>> /\ hostSending = <<>>
      /\ \A c \in Clients : screen[c] = <<>> /\ up[c] = <<>> /\ down[c] = <<>>
  BY DEF Init, HostInit, ClientInit, TransportInit
<1>2. Range(<<>>) = {} /\ DOMAIN <<>> = {}
  BY DEF Range
<1>3. \A x \in Names : ScreenOf(x) = <<>> /\ QueueOf(x) = <<>>
  BY <1>1 DEF Names, ScreenOf, QueueOf
<1>4. \A x \in Names : \A l : ~Hears(x, l)
  BY <1>2, <1>3 DEF Hears, Heard, Shown, Says
<1>5. HeardInOrder
  BY <1>1, <1>4, BeforeHears DEF HeardInOrder, Names
<1>6. EchoOK /\ OwnLinesOK
  BY <1>1, <1>2, <1>3 DEF EchoOK, OwnLinesOK
<1>7. QED BY <1>5, <1>6 DEF OrderOK

LEMMA NextOrder == IInv /\ IInv' /\ NumbersOK /\ OrderOK /\ [Next]_vars => OrderOK'
<1> SUFFICES ASSUME IInv, IInv', NumbersOK, OrderOK, [Next]_vars PROVE OrderOK'
  OBVIOUS
<1>1. TypeOK /\ TypeOK'
  BY DEF IInv
<1>2. CASE HostStep
  <2>1. UNCHANGED clientVars
    BY <1>2 DEF HostStep
  <2>2. CASE HostInput \/ HostSendsInput \/ HostExit
    BY <2>1, <2>2, HostInputOrder, HostSendsInputOrder, HostExitOrder
  <2>3. CASE HostBeginState
    BY <1>1, <2>1, <2>3, SilentHostOrder DEF HostBeginState, transportVars
  <2>4. ASSUME NEW p \in PeerIDs, HostListener(p) PROVE OrderOK'
    <3>1. CASE HostConnectEvent(p)
      BY <1>1, <2>1, <3>1, SilentHostOrder DEF HostConnectEvent
    <3>2. QED BY <2>1, <2>4, <3>1, HostReceivesUsernameOrder, HostReceivesMessageOrder,
                 HostDisconnectEventOrder, HostAbandonsOrder DEF HostListener
  <2>5. ASSUME NEW p \in PeerIDs, NEW c \in Clients, HostAccepts(p, c) PROVE OrderOK'
    BY <1>1, <2>1, <2>5, SilentHostOrder DEF HostAccepts, Accept, hostVars
  <2>6. QED BY <1>2, <2>2, <2>3, <2>4, <2>5 DEF HostStep, HostUser
<1>3. CASE ClientStep
  <2>1. UNCHANGED hostVars
    BY <1>3 DEF ClientStep
  <2>2. ASSUME NEW c \in Clients, ClientUser(c) PROVE OrderOK'
    <3>1. CASE ClientBeginState(c)
      BY <1>1, <2>1, <3>1, SameFewer, QuietOrder DEF ClientBeginState, hostVars
    <3>2. CASE ClientExit(c)
      BY <2>1, <3>2, ClientEndsOrder DEF ClientExit, Quit
    <3>3. QED BY <2>1, <2>2, <3>1, <3>2, ClientInputOrder DEF ClientUser
  <2>3. ASSUME NEW c \in Clients, ClientListener(c) PROVE OrderOK'
    <3>1. CASE ClientDisconnectEvent(c)
      BY <2>1, <3>1, ClientEndsOrder DEF ClientDisconnectEvent, Quit
    <3>2. QED BY <2>1, <2>3, <3>1, ClientConnectEventOrder, ClientReceivesAckOrder,
                 ClientReceivesUserOrder, ClientReceivesMessageOrder DEF ClientListener
  <2>4. QED BY <1>3, <2>2, <2>3 DEF ClientStep
<1>4. CASE NetworkStep
  BY <1>4, LoseOrder DEF NetworkStep
<1>5. CASE UNCHANGED vars
  BY <1>1, <1>5, SameFewer, QuietOrder DEF vars, transportVars, hostVars, clientVars
<1>6. QED BY <1>2, <1>3, <1>4, <1>5 DEF Next

\* What the windows show, and are going to show, of the lines of others is in one
\* order, that in which the host printed them: a line reaches nobody before it
\* and everybody it reaches by one broadcast (ChatState_Host::receiveMessageEvent,
\* handleInput), and the sender recognises the copy of its own by the user id it
\* sent it under (ChatState_Client::receiveMessageEvent).
THEOREM WindowsStayInOrder == Spec => []OrderOK
<1>1. IInv /\ IInv' /\ NumbersOK /\ OrderOK /\ [Next]_vars => OrderOK'
  BY NextOrder
<1>2. QED BY <1>1, InitOrder, InvariantHolds, LinesKeepTheirNumbers, PTL DEF Spec

\* Lines of others are ordered by their places in a window.
LEMMA PlacesOrder ==
  ASSUME NEW x, NEW i \in Others(x), NEW j \in Others(x), i < j
  PROVE  Before(x, ScreenOf(x)[i].line, ScreenOf(x)[j].line)
BY DEF Others, Before, InOrder

LEMMA ShownLines ==
  ASSUME TypeOK, NEW x \in Names
  PROVE  \A i \in DOMAIN ScreenOf(x) : i \in Nat /\ ScreenOf(x)[i].line \in Lines
<1>1. ScreenOf(x) \in Seq(Entries)
  BY Views DEF Names, TypeOK, HostTypeOK, ClientTypeOK
<1>2. \A e \in Entries : e.line \in Lines
  BY DEF Entries
<1>3. QED BY <1>1, <1>2

LEMMA OrderShowsOnce == TypeOK /\ OrderOK => LinesShownOnce
<1> SUFFICES ASSUME TypeOK, OrderOK, NEW x \in Names,
                    NEW i \in DOMAIN ScreenOf(x), NEW j \in DOMAIN ScreenOf(x),
                    ScreenOf(x)[i].line = ScreenOf(x)[j].line, i < j
             PROVE  FALSE
  BY ShownLines DEF LinesShownOnce
<1> DEFINE l == ScreenOf(x)[i].line
<1>1. l \in Lines /\ l.n \in Nat
  BY ShownLines, ProtocolAssumption DEF Lines
<1>2. CASE l.by = x
  BY <1>1, <1>2 DEF OrderOK, OwnLinesOK
<1>3. CASE l.by # x
  <2>1. i \in Others(x) /\ j \in Others(x)
    BY <1>3 DEF Others
  <2>2. Before(x, l, l)
    BY <2>1, PlacesOrder
  <2>3. QED BY <1>1, <2>2, Agreement DEF OrderOK
<1>4. QED BY <1>2, <1>3

\* A line that stands above another in one window does so in every window that
\* shows both.
LEMMA SameOrder ==
  ASSUME TypeOK, OrderOK, NEW x \in Names, NEW y \in Names,
         NEW i \in Others(x), NEW j \in Others(x), NEW k \in Others(y), NEW m \in Others(y),
         ScreenOf(x)[i].line = ScreenOf(y)[k].line,
         ScreenOf(x)[j].line = ScreenOf(y)[m].line, i < j
  PROVE  k < m
<1> DEFINE l == ScreenOf(x)[i].line
           n == ScreenOf(x)[j].line
<1>1. /\ i \in DOMAIN ScreenOf(x) /\ j \in DOMAIN ScreenOf(x)
      /\ k \in DOMAIN ScreenOf(y) /\ m \in DOMAIN ScreenOf(y)
  BY DEF Others
<1>2. l \in Lines /\ n \in Lines /\ k \in Nat /\ m \in Nat
  BY <1>1, ShownLines
<1>3. Before(x, l, n)
  BY PlacesOrder
<1>4. CASE k = m
  BY <1>2, <1>3, <1>4, Agreement DEF OrderOK
<1>5. CASE m < k
  <2>1. Before(y, n, l)
    BY <1>5, PlacesOrder
  <2>2. QED BY <1>2, <1>3, <2>1, Agreement DEF OrderOK
<1>6. QED BY <1>2, <1>4, <1>5

\* Nobody sees a line twice: not the host, nor a client, which has printed its own
\* when it was typed (ChatState_Client::handleInput, receiveMessageEvent).
THEOREM LinesAlwaysShownOnce == Spec => []LinesShownOnce
<1>1. IInv => TypeOK
  BY DEF IInv
<1>2. QED BY <1>1, OrderShowsOnce, InvariantHolds, WindowsStayInOrder, PTL

\* Any two windows show the lines of others in the same order, whichever of them
\* were lost (ChatState_Host::receiveMessageEvent, broadcastPackage).
THEOREM ScreensAlwaysAgree == Spec => []ScreensAgree
<1>1. IInv => TypeOK
  BY DEF IInv
<1>2. TypeOK /\ OrderOK => ScreensAgree
  BY SameOrder DEF ScreensAgree
<1>3. QED BY <1>1, <1>2, InvariantHolds, WindowsStayInOrder, PTL
=============================================================================
