# ENetChat in TLA+

Models of ENetChat (`src/Chat`): one process hosts a chat, up to 16 others join
it as clients, and every line goes through the host. TLC checks the models on
small instances, TLAPS proves theorems about them for every instance.

* `PROJECT.json` lists components, runs, mutants, the source lines behind every
  definition, findings, hazards and theorems.
* Line numbers below are those of `src/Chat`.

## The system

| Component | State | Operations | Interacts with |
|---|---|---|---|
| Identifiers, users, packages (`chat_app.h:62-70`, `userinfo.h`, `protocol.h`) | `m_users`, `m_localuser_ptr` | `toUserID`, `toPeerID`, `addUser`, `removeUser`, `containsUser`, `getUserInfoPtr`, five packages | used by host and client |
| Host (`chat_state_host.h`, `chat_app.cpp`) | user map, window | `beginState`, `handleInput`, handlers of CONNECT, DISCONNECT, USERNAME, MESSAGE | all clients, by packages |
| Client (`chat_state_client.h`, `chat_app.cpp`) | copy of the user map, local user, window | `beginState`, `handleInput`, handlers of CONNECT, DISCONNECT, USERNAME_ACK, STATE_ADD_USER, STATE_REM_USER, MESSAGE | the host, by packages |
| ENetWrapper (`enet_wrapper.h`) and ENet | `m_peers`, `ENetHost`, packets in flight | connect, send, broadcast, disconnectAll, listen | calls the handlers from its own thread |
| Application and states (`chat_app.*`, `state/*.h`) | `m_state`, `m_enet`, `m_quit` | `run`, `goToState`, `quit`, `pollForInput`, destructors | three threads share it |
| ByteStream (`byte_stream.*`) | buffer, capacity, length, offset | write, resize, read, peek, copies | serializes every package |
| ChatWindow (`chat_win.*`) and the list behind its panel (`ChatApp::addUser`, `removeUser`) | PDCurses windows, `m_msg_win_y`, `m_user_win_y`, `m_users` under `m_mutex` | init, print, log, error, addUser, clearAll, clearMessages, clearUserList, destructor | all three threads draw |
| Address (`address.h`) | host, port | `str`, `IPv4`, `convert` | the host's log |

What is hard in it:

* **Reused identities.** A user id is the id of an ENet peer plus one
  (`chat_app.h:64`), and ENet reuses peers as soon as they are reset. Everything
  that mentions a user id - map entries, packages in flight, `m_localuser_ptr` -
  must die with the connection or it names somebody else.
* **Replicated state.** Each client keeps a copy of the host's list: a snapshot
  (USERNAME_ACK) and deltas (STATE_ADD_USER, STATE_REM_USER) that start to arrive
  before the snapshot, over packets that may get lost.
* **Unchecked look-ups.** Handlers dereference the user they looked up
  (`chat_state_host.h:74`, `chat_state_client.h:72`, `:80`); that the user is
  there is a property of the whole protocol.
* **Three threads and one `m_state`.** `goToState` deletes and replaces the
  current State without a lock, from the input thread and from the listener.
* **One window for three threads.** PDCurses is not thread safe, and the row of
  the next line is a member that every thread reads and increments without a
  lock. It moves on by one row whatever the length of the line, although a line
  begins in column 40 and a long one goes on in the next row. Only the list of
  users has a mutex, and clearing it does not take it.
* **Integers and lengths.** A stream doubles its buffer as it grows, and takes
  integers of nine kinds apart and puts them together again.
* **Two roles of one thread of control.** A line typed by the host's user is
  printed and broadcast while the listener relays lines of others.

## Modules

```
ChatProtocol      identifiers, user map, packages             (operators only)
  ENetTransport   connections and packets between processes
    ChatHost      the process that hosts
    ChatClient    the processes that join
      ChatSession host + clients + transport: Spec, FairSpec, the properties
        ChatInvariant      the inductive invariants IInv, NumbersOK, ReplicaOK, OrderOK
          MCChatSession      TLC
          ChatSessionProofs  TLAPS: the host's safety
            ChatReplicaProofs  TLAPS: the clients' lists follow the host's
            ChatRoomProofs     TLAPS: the session implements the room
              ChatOrderProofs  TLAPS: lines are shown once and in one order
ChatRoom          abstract: what a session promises (INSTANCEd by ChatSession)

AppThreads        main, input and listener thread of one process
  AppInvariant    the inductive invariant ThreadsInv
    AppThreadsProofs  TLAPS
ChatWindow        the window and the list behind its panel
  AppWindow       AppInvariant + ChatWindow: what each thread draws; TLC
    AppWindowProofs   TLAPS: AppWindow implements AppThreads; who may draw when;
                      the rows of lines and the panel of users

ByteStream        a stream that is being written
  ByteStreamProofs  TLAPS
ByteReader        a stream that is being read, integers as bytes (operators only)
Address           IPv4 addresses                                 (operators only)
  PackageTransfer   ByteStream + ByteReader + Address: serialize, send, read
    MCPackageTransfer      TLC
    PackageTransferProofs  TLAPS: packages come through
```

An operator called `X_Something` is `X` with a mistake a programmer could make;
no specification uses it. It replaces `X` to see that the properties notice.

### ChatProtocol

Nicknames are abstracted to the process whose user entered them, lines of chat
to their author and a number: the code stores and displays both and compares
neither. A user map is a function from user ids to names, `NoUser` where there
is no entry. `Insert` keeps an entry that exists, as `std::map::insert` does
(`chat_app.cpp:112`). `toUserID` adds in 16 bits (`IDSpace`).

### ENetTransport

ENet itself is external; the model is how `ENetWrapper` uses it:

* `owner[p]` and `peerState[p]` are the host's peers; `link[c]` is the client's
  only peer; `up[c]` and `down[c]` are the packages in flight. A process that
  joins connects once and quits when disconnected, so a connection can be named
  after its client.
* `enet_packet_create(..., 0)` makes an unreliable sequenced packet: it arrives
  at most once and never after a later one. So a queue of which any element may
  vanish (`Lose`, when `Lossy`).
* The three steps of a connection are apart: the host picks any free peer
  (`Accept`), the client learns of it (`ClientConnectEvent`), the host learns
  that the client knows (`HostConnectEvent`). Broadcasts reach peers from the
  third step on.
* ENet resets a peer before it reports DISCONNECT: the slot may be reused and
  what was in flight to the host is gone (`ResetPeer`). When `Timeouts` holds,
  either end may give up a connection although both live.

### ChatHost, ChatClient

One action per handler; the table gives the correspondence.

| Action | Code |
|---|---|
| `HostBeginState` | `chat_state_host.h:18-23` |
| `HostInput`, `HostSendsInput` | `handleInput` `:25-36`: print, then broadcast; the listener may run between |
| `HostExit` | `:27-30` and `QuitState`, `ENetWrapper::disconnectAll` |
| `HostConnectEvent` | `:38-41` and `enet_wrapper.h:127` |
| `HostReceivesUsername` | `:57-70`: add, acknowledge, broadcast |
| `HostReceivesMessage` | `:72-76`: print, relay; null user crashes |
| `HostDisconnectEvent` | `:43-55` and `enet_wrapper.h:131-133` |
| `ClientBeginState` | `chat_state_client.h:19-23` |
| `ClientInput`, `ClientExit` | `:25-36` |
| `ClientConnectEvent` | `:38-42` |
| `ClientDisconnectEvent` | `:44-50`; its pause of 3 s is part of the step |
| `ClientReceivesAck` | `:52-59` |
| `ClientReceivesAddUser` | `:61-68` |
| `ClientReceivesRemoveUser` | `:70-74`; null user crashes |
| `ClientReceivesMessage` | `:76-82`; null user crashes, own line is ignored |

A listener handler is one step: nothing else writes what it reads, except that
the input thread of the host may broadcast a line in the middle of one. The line
then lands between two packages of the same handler; no handler of a client
treats a MESSAGE from user 0 differently before or after those packages, unless
it is not acknowledged yet, which `unknown_user` shows anyway.

The constructor of `ChatApp` leaves `m_localuser_ptr` uninitialised. `StartPtrs`
says what may be there; a pointer that is neither null nor valid (`Wild`) ends
the client at its first use. That it might point to readable memory by accident
is left out.

### ChatRoom

The abstract specification: a room that the host opens and closes, members that
join and leave, and one transcript to which a member appends lines, each with a
higher number than any earlier line of the same member, under the member's own
name. `ChatSession!ImplementsRoom` is the refinement: members are the users in
the host's map, the transcript is the host's window.

### AppThreads

Each thread has a `pc`; between two accesses of what the threads share any other
may run. `goToState` (`chat_app.cpp:42-51`) is four steps: `endState` through
`m_state`, `delete m_state`, assignment, `beginState` through `m_state` read
again. `this[t]` is the State whose member function thread `t` is in; a step that
goes through a deleted State (`UseDeleted`) sets `fault` and the model stops, as
what follows is undefined. The constructor leaves `m_state` uninitialised
(`chat_app.h:20`): `StartStates` says what may be there, and a pointer that is
not null ends the process in the first `goToState`. Taking the mutex for one
call of ENet is one step, except for `enet_host_service` in `listen`, which
spans two.

Of what a client's handlers and its input share beyond that, `localUser` says
whether `m_localuser_ptr` is set, and `m_peers` what a client's wrapper knows of
its host: `listen` inserts the entry before it calls the handler of CONNECT and
erases it after that of DISCONNECT, while `getPeerPtr` looks it up
(`enet_wrapper.h:236`) and goes on with what it found, without the mutex.

`fault` tells how a process came to grief:

| `fault` | Code |
|---|---|
| `deleted` | a State is used that another thread has deleted (`chat_app.cpp:47`, `:173`; the menu, `prompt_state_conn.h:24`) |
| `wild` | `m_state` was never initialised (`chat_app.h:20`) |
| `no_enet` | a handler answers through `m_enet` before it is assigned (`chat_app.cpp:33`) |
| `destroyed` | ENet's host is used after `enet_host_destroy` (`enet_wrapper.h:98`) |
| `peers` | `m_peers` is searched while it changes, or its entry has gone (`enet_wrapper.h:236`) |
| `threw` | `enet_host_create` failed and the exception is caught by nobody (`enet_wrapper.h:90`) |

### ChatWindow, AppWindow

A method of `ChatWindow` is the sequence of what it does to the state of PDCurses
and to the row counters: `print` is `mvprintw`, then `next_row`. `todo[t]` is
what thread `t` has yet to draw, and each element is a step of its own, between
which the others may draw.

* Two threads that draw at the same time race for PDCurses' window and for
  `m_msg_win_y`. That is undefined, so the text becomes `Blurred`, and stays so
  until it is cleared by one thread alone (`ClearText`).
* Lines go on below the last row, where nothing is shown (`Below`): the window
  does not scroll.
* A line begins in column 40 (`chat_win.cpp:39`), the middle of a row, and curses
  continues what does not fit at the left edge of the next row. So rows are seen
  in halves (`Places`): a line takes `length` half rows from `Middle` of its row
  on, where `length` is any of `Lengths`, and the next line begins one row below,
  over the rest of a long one. Each half row says what is there (`Marks`):
  nothing, the beginning of a line, the rest of one, a beginning printed over the
  rest of another line, or, if a beginning was ever printed over, `lost`. The
  text is what curses holds in `stdscr`; the terminal is taken to be wider than
  40 columns.
* `addUser` and `removeUser` of `ChatApp` change `m_users`, list it anew and hold
  `m_mutex` meanwhile; `clearUserList`, when called by `clearAll`, does not take
  it.

`AppWindow` connects the two: `Texts(label)` is what the code draws at a label of
`AppThreads`. A thread draws all of it (`Paint`) before it takes its step from
there (`Move`), and takes the drawing of the label it arrives at. At label
"handler" the choice is among the drawings of the handlers that the event may
lead to; `HandlerAgrees` ties what a handler does to what it has drawn (a host
tells the others of a disconnect if it knew the user; a client's local user is
set by the handler that lists it). There are two users, this process's own and
another one.

### ByteStream, PackageTransfer

One `write` is `Write`, any number of `Resize`, and `Copy`, the loop of
`byte_stream.cpp:163-174`. Memory nobody has written holds `Junk`; the bytes
`resize` reads beyond the old buffer are `Junk` too. `ByteReader` has the other
side: the two copying constructors, `end`, the check of `read`, `peek` (with what
it subtracts when it has too little), and integers of all nine kinds as bytes.

`PackageTransfer` runs the fields of a package through a stream, sends them, and
reads them back as the constructors in `protocol.h` do, which one being decided
by the byte that `receiveEvent` peeks at; a read beyond the end leads to stage
"thrown". `Records` are sequences of fields that no package has: integers of all
kinds at their limits, empty and long strings. They are also read back from the
stream itself and from a copy of it (`Rewind`). With the packet comes the address
of its peer, which `convert` takes from ENet and `str` writes to the log.

## Runs

Every number below is a bound of the model and is set in the `.cfg`.

| Run | Instance | Question | Distinct states |
|---|---|---|---|
| `membership` | 3 clients, 2 peers, one of them types a line, timeouts, no loss | Do all lists follow the connections? Is a line shown once, under its author's name? Is `ReplicaOK` invariant? | 587 k |
| `order` | 3 clients, 3 peers, host and one client type a line, nobody leaves | Do all windows agree on the order of lines? Is `OrderOK` invariant? | 1.9 M |
| `lossy` | 2 clients, 2 peers, 2 lines each, none of the host, loss, wild pointers | Is the host safe whatever gets lost? Does it implement the room? Are `IInv` and `NumbersOK` invariant? | 678 k |
| `live` | 2 clients, 2 peers, 1 line each, timeouts, no loss, fair | Do joins complete, leaves spread, lines arrive? | 36 k |
| `threads` | both roles, all interleavings of steps and of drawing, 2 rows, lines of 1 or 3 half rows, 2 users, `m_state` null or wild at the start | What holds in spite of the unlocked `m_state`, `m_peers` and window? Are `ThreadsInv` and `DrawingInv` invariant? | 497 k |
| `packages` | capacity 64, 285 packages, 5 records, 2 addresses | Does growth keep the bytes? Does everything survive the round trip? Is `TransferInv` invariant? | 13.6 k |

and those that show a disagreement (each lists its finding in `PROJECT.json`):

| Run | Violated | What happens |
|---|---|---|
| `join_lossy` | `JoinCompletes` | USERNAME or USERNAME_ACK is lost, nobody sends it again; the README promises reliable communication |
| `unknown_user` | `ClientFindsUser` | a client that is connected and not acknowledged receives a broadcast about a user it does not know, and dereferences null |
| `stale_name` | `ClientsNameAuthors` | STATE_REM_USER is lost, the peer is reused, the next user's lines appear under the old name |
| `state_deleted` | `StatesOutliveTheirUse` | `/exit` deletes the State the listener is about to call |
| `enet_unlocked` | `ENetEnteredByOne` | `disconnectAll` without the mutex during `enet_host_service` |
| `overread` | `CopiesOwnMemory` | `resize` copies twice what the old buffer has |

Why the bounds are enough. Two peers and three clients are the least with which
a peer is reused while another client watches, which is what stale identities
take; three connected clients are the least with which two receive and a third
sends. One line per user suffices for authorship and duplicates; two authors
suffice for order. `order` forbids leaving because a client that left shows no
more lines. `lossy` has two lines of each client, so that their order can go
wrong when one is lost; the host's own lines are in `order`, and the theorems
cover both together. `threads` has more lines to print than rows, lines that end in their row and
lines that go on over the place where the next one begins, and one user to come
and go besides the own one. `packages` uses the real capacity of 64,
strings that fill it exactly or miss it by one, a list of 17 users, which
doubles it more than once, and a string whose length takes two bytes.
`MaxLength` (700) is above what any of these takes; it and `Word` (2^16, for
2^32) are bounds of the model, and so is that integers of 32 and 64 bits are
those an `int32_t` holds: TLC counts with 32 bits. Clients are symmetric up to
the bounds `Talkers` and `Leavers`, which `Symmetry` respects (leavers are all
clients, none, or those that do not talk).

Deadlock is not checked: a session, a process and a transfer end.

### Properties

*Lists of users.* `RosterMatchesPeers`: whoever the host lists under an id is the
client behind that peer now. `LocalUserMatchesPeer`: a registered client goes by
the id the host serves it under. `ReplicaCatchesUp`: applying what is on its way
to a registered client's list gives the host's list. `RegisteredNeverFaults`: a
client that is acknowledged is never told of a user it does not know. `ReplicaOK`:
the invariant from which this, `ReplicaCatchesUp` and `ClientsNameAuthors` are
proved.
`HostFindsSender`: the host always finds the user of a message.

*Lines.* `HostNamesAuthors`, `ClientsNameAuthors`, `LinesShownOnce`,
`ScreensAgree` (any two windows show the lines of others in one order; the
host's own lines may stand elsewhere in its own window, because it prints before
it broadcasts), `NumbersOK` (what a client sent and the host has not seen comes
after what the host printed, in order), `OrderOK` (what the windows show and are
going to show is in one order: the invariant from which `LinesShownOnce` and
`ScreensAgree` are proved), `ImplementsRoom`.

*Progress.* `JoinCompletes`, `GoneUsersDropped`, `GoneUsersDroppedByAll`,
`LinesArrive`.

*Threads.* `CalmUntilQuit` (until somebody quits no thread uses a deleted State or
is about to, but for main while it prints the menu: who types "1" before it is
complete has the input thread delete the State that prints it),
`PeersCalmUntilQuit` (until then no look-up meets a change of `m_peers`),
`InputWaitsForMenu` (input is handled only after the first State is there), `HostOutlivesItsUse`,
`ClientFindsENet`, `LeavesNothingBehind`, `ShutdownCompletes`, and `ThreadsInv`,
from which all of them but the last follow.

*Window.* `DrawnWhileOpen` (nobody draws before `initscr` or after `endwin`),
`LinesHaveTheirRow` (as long as no two threads have drawn at a time, one line
begins in each row above the next one and none below, no beginning of a line is
ever printed over, and of a line only the rest that did not fit in its row is),
`PanelShowsUsers` (once the menu is printed, and until somebody quits, the panel
shows the map of users whenever no thread is busy with it), and
`DrawingInv`, from which the latter two are proved. `WindowInv`, from which the
first is, is a theorem and needs no run.

*Bytes.* `HoldsWhatWasWritten`, `CopiesWithinBuffer`, `WritesEnd`, `RoundTrip`,
`AllReceived`, `LogNamesAddress`; `TransferInv` is the invariant from which
`RoundTrip` and `LogNamesAddress` are proved. `StreamInv`, from which the first
two follow, is a theorem and needs no run.

### Fairness

* `ChatSession!FairSpec`: weak fairness of each peer's events at the host, of
  each client's events, and of the broadcast that follows a printed line. The
  listener polls every millisecond (`enet_wrapper.h:116-141`) and ENet serves
  its peers in turn. A connection whose other end is gone fails its pings, so
  its DISCONNECT comes; a timeout between two live processes is possible and
  never promised. Nobody has to type, and nothing has to be lost.
* `AppWindow!WFairSpec`: every thread that can run, or draw, does; the input thread gets
  the mutex in the end because the listener releases it and sleeps every round
  (strong fairness). The user presses Enter in the end.
* `PackageTransfer!FairSpec`: a call runs to its end.

## Proofs

`ChatSessionProofs` proves, for any number of clients, up to 4095 peers, any
number of lines, with or without loss and timeouts and whatever is in
`m_localuser_ptr` at the start:

| Theorem | Property |
|---|---|
| `InvariantHolds` | `IInv` |
| `TypeCorrect` | `TypeOK` |
| `HostAlwaysFindsSender` | `HostFindsSender` |
| `RosterAlwaysMatchesPeers` | `RosterMatchesPeers` |
| `LocalUserAlwaysMatchesPeer` | `LocalUserMatchesPeer` |
| `HostAlwaysNamesAuthors` | `HostNamesAuthors` |

The assumptions are those the modules name: `ProtocolAssumption` (at least one
peer and no more than ENet can address, names and ids are distinct),
`TransportAssumption`, `ClientAssumption`.

`HostFindsSender` is not inductive: that a message finds its author depends on
where the client got its id. The argument is `IInv` (module `ChatInvariant`). A
client is behind one peer for as long as any package of its connection exists, so
there is one id that everything about it agrees on - its own entry, its local
user, its messages, the acknowledgements on their way (`IdentityOK`). The id gets
to the client only by an acknowledgement, sent after the host listed the client,
and the host drops the client only together with the peer, which discards what
is in flight from it; so a client that knows its id, or is about to, or has used
it, is listed (`ListedOK`). `PeersOK`, `RosterOK`, `FreshOK` and `AuthorsOK` are
what these two need about peers, the host's map, connections not open yet, and
the contents of packages. Run `lossy` checks `IInv` before it is relied on. There
is one lemma per action, frame lemmas for the conjuncts an action leaves alone,
and lemmas on how sending and consuming changes the range of a queue.

`ChatRoomProofs` proves `LinesKeepTheirNumbers` (`NumbersOK`) and
`SessionImplementsRoom` (`ImplementsRoom`) under the same assumptions. A client
numbers a line higher than any before, queues of messages stay in order when
their first or any other element goes, and the host prints the first; so what
the host prints is newer than all it printed of that author. With `IInv`, which
says who the author is and that he is listed, each step of the session is then a
step of the room: listing is joining, dropping is leaving, printing is posting,
and everything else the room does not see.

`ChatReplicaProofs` proves that the lists of the clients follow the host's when
no packet is lost:

| Theorem | Property |
|---|---|
| `ListsFollowTheHost` | `ReplicaOK` |
| `RegisteredNeverCrashes` | `RegisteredNeverFaults` |
| `ClientsNameTheAuthors` | `ClientsNameAuthors`, when no packet is lost |
| `ReplicasAlwaysCatchUp` | `ReplicaCatchesUp` |

`ReplicaCatchesUp` says what a fold over the queue computes; `ReplicaOK`, which
is inductive, says it without a fold. A client
`Knows` that `u` is `x` after `k` packages if its list or one of them said so and
none since said that `u` is gone; what it knows after all of them is in the
host's map, and all of the map is known if an acknowledgement is among them or
was handled before (`EndsWith`). `QueueOK` adds that nobody is told two names of
one user - the host tells of a departure before it gives the id away again - and
that who got the acknowledgement knows the users that later packages speak of,
so its handlers find them. The lemmas on sending (`AppendOK`) and on handling
(`ConsumeOK`) say this of any list and queue; each action is one or the other.
Back to the fold: `QueueTells` says that handling the first `n` packages of a
queue without two names of one user results in the map of what is known after
`n`, for every `n`; with `EndsWith` that is the host's map. `FoldLeft` is defined
by the community modules with a choice of a recursive function, and the
induction theorems of the library take an operator as a parameter, which the
provers cannot instantiate. So the module shows from `WFMin`, the least element
of a well-founded relation, that a set of numbers that has 0 and every successor
is `Nat` (`Induction`), that the recursive function exists (`SomethingHandles`)
and that the fold is its last value (`FoldIsLast`).

`ChatOrderProofs` proves, with or without loss:

| Theorem | Property |
|---|---|
| `WindowsStayInOrder` | `OrderOK` |
| `LinesAlwaysShownOnce` | `LinesShownOnce` |
| `ScreensAlwaysAgree` | `ScreensAgree` |

Neither of the last two is inductive: the order of the windows of tomorrow is in
the queues of today. `OrderOK` looks at what a window shows and at what is on its
way to it together: whoever `Hears` a line, now or in the end, hears it in the
order of the others (`HeardInOrder`). A broadcast puts the line last in every
queue it enters, handling moves a line from the head of a queue to the end of a
window, and a loss only takes one away. The line that is broadcast is heard by
nobody before: the host has not printed it yet or has it still to send, which
takes `NumbersOK`, and what a client hears the host has printed. The copy of its
own line a client knows by its user id (`EchoOK`, with `IdentityOK`), and its own
lines it prints as they are typed (`OwnLinesOK`).

`AppThreadsProofs` proves, for both roles and whatever is in `m_state` at the
start (`ThreadsAssumption`):

| Theorem | Property |
|---|---|
| `ThreadsInvariantHolds` | `ThreadsInv` |
| `OnlyMenuDanglesUntilQuit` | `CalmUntilQuit` |
| `PeersCalmUntilSomebodyQuits` | `PeersCalmUntilQuit` |
| `HostAlwaysOutlivesItsUse` | `HostOutlivesItsUse` |
| `ClientAlwaysFindsENet` | `ClientFindsENet` |
| `InputAlwaysWaitsForMenu` | `InputWaitsForMenu` |
| `NothingIsLeftBehind` | `LeavesNothingBehind` |

None of them is inductive. `ThreadsInv` (module `AppInvariant`) is what each
thread may count on where it is: until main has begun the menu nobody else does
anything (`MenuComesFirst`), the thread that polls goes from State to State in
one direction and meets its own or a QuitState (`UIGoesForward`), the listener
exists only once the chat's State is in place (`ListenerComesLast`), and ENet's
host exists from before the first use to after both threads ended
(`HostInPlace`). Two threads replace a State at the same time only if one has
seen the other delete it, which is fault `deleted`, so no State is lost
(`NoStateIsLost`); before anybody quits, the States deleted are those left
behind (`CalmOK`).

`AppWindowProofs` proves that the threads with their drawing are those of
`AppThreads` (`ThreadsThatDrawAreThreads`), so that all of this holds for them
(`ThreadsThatDrawAreSafe`), and, for a window of any size,
`WindowInvariantHolds` (`WindowInv`) and `DrawnOnlyWhileOpen`
(`DrawnWhileOpen`): `WindowInv` says that main has `initscr` and `endwin` to draw
at its first and last label and nowhere else, and that nobody else has anything
left to draw then. That the others have nothing left follows from `ThreadsInv`:
they wait for a window to type into, or have ended.

For a window of any size, lines of any lengths, this process's own user and another
one, it proves further:

| Theorem | Property |
|---|---|
| `DrawingInvariantHolds` | `DrawingInv` |
| `ProcessTypeCorrect` | `WTypeOK` |
| `LinesAlwaysHaveTheirRow` | `LinesHaveTheirRow` |
| `PanelAlwaysShowsUsers` | `PanelShowsUsers` |

The two properties speak of moments between methods; `DrawingInv` says what is
true in the middle of one. What is left to draw is whole methods but for the
first, and who is within a method has drawn a part of it (`StrokesInv`). At most
one thread is within a method on text, unless the text is `Blurred`: one that
has printed and not yet counted has begun a line in the row of the counter, one
that has cleared and not yet reset finds no line (`TextInv`). A line that runs on
takes half rows from the middle of its row on, and all beginnings are above, so
it covers none (`LinesGrow`). Who has cleared the panel and
changed the users holds the mutex until he has listed them, and the panel is
empty meanwhile (`PanelInv`). This needs to know, too, at which labels of
`AppThreads` the list may change at all (`Drawable`): `clearUserList` without the
mutex only runs where a State ends, and that is before a chat or after somebody
quit, by `ThreadsInv`.

`ByteStreamProofs` proves `StreamInvariantHolds`, `StreamAlwaysHoldsWhatWasWritten`
and `StreamAlwaysCopiesWithinBuffer` for any bytes, initial capacity and writes
that stay below half of what an unsigned int counts. `StreamInv` says that the
length counts what was written and is being written, and that the bytes written
are at the start of the buffer; that the capacity does not wrap around follows
from the bound on the length, since the buffer only doubles while it is no longer
than that.

`PackageTransferProofs` proves for any names, ids, lists of users, records of
fields and addresses that are possible (`TransferAssumption` and `StreamAssumption`
say which):

| Theorem | Property |
|---|---|
| `TransferInvariantHolds` | `TransferInv` |
| `TransferTypeCorrect` | `TypeOK` |
| `SerializedStreamIsWhole` | `StreamInv` |
| `PackagesAlwaysComeThrough` | `RoundTrip` |
| `LogAlwaysNamesAddress` | `LogNamesAddress` |

`TransferInv` has two halves. While a package is serialized, the calls of `write`
made so far are the first of all it takes, and what they wrote is what these
come to (`SendInv`); `StreamInv` says that this is in the buffer. While it is
read, the fields read so far are the first of the package, the stream has been
read as far as these go, and nothing was thrown (`ReceiveInv`). That the next
call reads the next field takes that the bytes of a field come after those of
the fields before it (`BytesGoOn`), that `readX` undoes `writeX` for each of the
nine integer types (`ReadsInteger`: digits to the base 256, with a sign or
without) and for the length of a string (`ReadsLength`), and that the layout a
constructor expects after what it has read is the one `serialize` wrote
(`NextFieldOfPackage`, where an acknowledgement ends because the stream does). The
bytes are `FlattenSeq` of the calls; the lemmas on it are by induction as above.

Only model-checked: progress (`JoinCompletes`, `GoneUsersDropped`,
`GoneUsersDroppedByAll`, `LinesArrive`, `ShutdownCompletes`, `AllReceived`,
`WritesEnd`), because the prover handles neither liveness under fairness nor
`ENABLED`; and the violations, which are counterexamples. Every invariant of a
passing run is a theorem.

## Not modelled

* Of drawing: colours, boxes and the copying to the terminal, where the panel and
  the box to type into lie over the text; that old windows are never freed
  (`chat_win.cpp:82`, `:98`). A user takes one row of the panel in the model: a
  name of about 28 characters or more goes on in the next row of the 30 columns
  the panel has (`:98`, `:112`), and the next name is printed over it.
* The constructor of `UserInfo` that initialises its name with itself
  (`userinfo.h:20`), run before a STATE_ADD_USER is read (`protocol.h:99`): it
  copies a string that does not exist yet, which is undefined. The package is
  modelled from the moment its fields are read.
* `Address` for a machine that is not little-endian: `convert` is modelled on the
  byte order it takes for granted.
* `ENetContainer`, `app.cpp`: nothing in them changes shared state. The comparison
  operators of `Address` are used by nothing.
* In `ENetWrapper`: `disconnect` of one peer and `getAddress`, never called; the
  failure of `enet_host_connect`, which ends the process as that of
  `enet_host_create` does (fault `threw`).
* ENet's fragmentation of packets above the MTU, and its memory.
* The input buffer (80 bytes): input is a line the user typed, of any of `Lengths`.
* A logged line and a line of chat are not told apart in the window; in the
  session, a window is the sequence of chat lines printed, logs and errors left
  out.

## Plan

Done: 1. the protocol, its transport, host, client and session; 2. `IInv` and the
host's safety; 3. the threads of a process and `ThreadsInv`; 4. the window and
what the threads draw; 5. the stream, integers and packages; 6. the refinement of
the room as a theorem; 7. the lists of the clients and the order of lines as
theorems; 8. the rows of the window and the panel, what the fold over a queue
comes to, and the transfer of packages as theorems.

Left:

1. The handlers of `ChatHost` split where the input thread may run in between,
   shown to implement those of today.
