# Verification of the Go game

TLA+ models of the program in `src/`, their TLC configurations, and theorems
about them checked by TLAPS. The models are translated from the code; where a
comment or a README of the repository says something else than the code does,
the model follows the code and a run shows the difference.

Paths below are relative to `src/src/` unless they start with `src/`.

    tlc -workers 2 -config MCGame.cfg MCGame      # a run: module and cfg from PROJECT.json
    tlapm GameProofs.tla                          # the proofs of a module

## 1. The system

A server process holds the game; clients connect over TCP, send what their user
wants to do, and show the board they rebuild from the numbered deltas the server
broadcasts. A client may host: it runs a server in its own process and connects
to it.

      user interface thread          io thread           server thread       game thread
      GameWidget/BoardWidget         TcpServer           network::Server     Game::run
            | try..., connect        Connection          SessionManager          |
            v                            | callbacks          | handler          | delta
      app::SessionManager                v                    v                  v
      network::Client  <--- TCP --->  event queue ------> GameServer ------> event queue
            ^                        (SafeQueue)          broadcast <----- onGameDelta
            | handlers                                        |
      read thread  <------------------------------------------'

### Components

| component | state | operations | modules | status |
|---|---|---|---|---|
| game model: `game/model` | the board | place, remove | `GoRules` | modelled |
| move checker: `game/core/moveChecker.cpp` | none; a stack, visited points and counters inside one search | group search, captures, suicide, superko, simulated move | `GoRules` (what), `GroupAnalysis` (how) | modelled |
| position and hash: `position.cpp`, `zobristHash.hpp` | board, player to move, move number, hash | pass, incremental hash | `GoRules` | modelled |
| game loop: `game.cpp` | queue, active flag, consecutive passes, seen hashes | push, run, one handler for each event | `Game` (how), `Match` (what) | modelled |
| game event hub: `game/core/eventHub.cpp` | listeners, a mutex | subscribe, unsubscribe, signal | in `GameServer` | partly |
| blocking queue: `SafeQueue.hpp` (two copies) | deque, mutex, condition variable, release flag | Push, Pop, Release | `SafeQueue` (how), `Fifo` (what) | modelled |
| TCP server: `net/core/tcpServer.cpp`, `connection.cpp` | connections, acceptor, strands, write queues | accept, read, write, disconnect, stop | `TcpServer` (how), `Callbacks` (what) | partly |
| session server: `net/network/server.cpp`, `sessionManager.cpp` | running flag, event queue, two session maps, session counter | start, stop, io callbacks, connect / message / disconnect / shutdown events, send, broadcast | `Server` | partly |
| messages: `net/network/nwEvents.cpp` | none | encode, decode | `NwEvents` | modelled |
| game server: `apps/runtime/gameServer.cpp` | players, chat history, game thread | client connects / leaves / sends, deltas, start, stop | `GameServer` | modelled |
| network client: `net/network/client.cpp`, `net/core/tcpClient.cpp` | socket, connected flag, running flag, read thread | connect, disconnect, send, read loop, handlers | `Client` | modelled |
| client runtime: `apps/runtime/sessionManager.cpp`, `position.cpp`, `eventHub.cpp` | shadow position, chat, local server | connect, host, disconnect, shutdown, the network handlers, the signals | `ClientPosition`, `Client`, `Widgets` | modelled |
| Qt client: `apps/tengen` | renderer, labels, chat list and its cursor | app events, paint, resize, click, dialogs' calls | `Widgets` | partly |
| sgf handler, terminal game, logging | | | | not modelled |
| camera vision: `vision` | none between calls | image processing over OpenCV | | not modelled |

### What is hard, and what makes each part correct

- **Rules.** Every rule rests on one search of connected stones and liberties;
  captures, suicide and superko are judged on different boards (before, with and
  after the move), and the hash behind superko is never recomputed. Correct:
  every stone on the board has a liberty, no situation returns, the hash is the
  hash of the situation, the deltas alone rebuild the board.
- **Game loop.** Events of any player come at any time, before `run()`, after the
  end, off the board. Correct: numbered deltas without a gap, nothing changes
  after the end, a shutdown ends the thread; that is, it is a `Match`.
- **Queue.** The usual condition variable questions. Correct: first in, first
  out, no lost wake-up; `Release` without the mutex is the exception found.
- **TCP server.** A read, a write and `stop` can each find a connection dead, in
  any order; any thread sends while a write is under way; the accept handler
  calls back with a mutex held. Correct: the callbacks keep the contract
  `Callbacks`, frames leave whole and in order, `stop` returns.
- **Session server.** Three threads. A disconnect may be queued behind the
  connect of the successor; the game thread broadcasts while sessions are made;
  `stop` runs against clients that go on sending. Correct: one open connection
  for each colour, sessions inverse to connections, the handler's calls of each
  session in order, no gap in the broadcasts a client gets, nothing called or
  sent after `stop`.
- **Messages.** Fields are demanded by type, enumerations are cut to a byte and
  a payload may be any JSON. Correct: what one side writes the other reads back,
  and whatever is read has fields that agree.
- **Game server.** Four threads; a seat, a player and a session are three notions
  that a connect or a disconnect changes one after the other; moves wait in two
  queues while players change. Correct: each client shows a prefix of the game,
  each move came from the client with that seat, `stop` returns. One interleaving
  in which `stop` does hang is the exception found.
- **Client.** Two threads share an unlocked socket; a reconnect may meet the old
  read thread at any point of its loop. Correct: a board of moves in order, a
  disconnect that leaves no thread behind and does not wait for a server that
  says nothing. A reconnect that nobody reads is the exception found; and a call
  that stops a local server hangs when `GameServer::stop` does.
- **Window.** Signals are posted by one thread and handled later by another,
  which reads the state as it is then. Correct: when nothing is posted any more
  the window shows the state; the chat list neither repeats nor reorders; a call
  that waits for the read thread comes back, although that thread is signalling.

`PROJECT.json` lists the hazards with their lines and the properties that cover
them.

## 2. The modules

| module | models | state and actions |
|---|---|---|
| `GoRules` | board, rules, position | operators named after the functions: `groupAnalysis`, `wouldCapture`, `isSuicide`, `simulatePosition`, `isNextPositionLegal`. A hash is the set of the keys whose exclusive or the code keeps: two sets are equal when no 64-bit collision occurs. |
| `Game` | class `Game` | one action for each event handler, taking the event off the queue; refused moves are actions of their own. `deltas` is the log of what listeners got. |
| `GroupAnalysis` | the loop of `groupAnalysis` | one step for each pop of the stack and each side of a point. |
| `SafeQueue` | the queue | each lock, predicate, wait and notification is a step; a waiting thread is in `waiting`. |
| `Fifo` | what its users rely on | append, take the front, release. |
| `Server` | `network::Server` and its `SessionManager` | owner (start, stop in four steps), io thread (callbacks), server thread (an event in one step; a connect in three, since the broadcast can come between), game thread (a broadcast visits the sessions one by one). `calls` and `outbox` are histories of the handler calls and of the messages sent. |
| `Match` | what `Game` promises | queue, turn, numbered deltas and the end; legality and captures are left open. `Game` implements it, `GameServer` uses it. |
| `Callbacks` | what `TcpServer` promises | what each client sent, what was called back for its connection. |
| `TcpServer` | `core::TcpServer`, `Connection` | io thread: one step for each handler, cut where it waits for `m_connectionsMutex` or calls back; header and payload of a frame apart; posted handlers, write queue and writes in flight; owner: `stop` in five steps. |
| `NwEvents` | the messages | operators named after the functions, on objects that give each key a value of a JSON kind; numbers modulo the width of their type. |
| `GameServer` | `app::GameServer`, the loop and broadcast of the session server under it, the event hub | io, server, game and owner threads; a broadcast visits sessions one by one; every message is encoded and decoded by `NwEvents`, and `shown` is what `ClientPosition` makes of it. |
| `ClientPosition` | `app::Position`, the chat of `app::SessionManager` | operators named after the methods. |
| `Client` | `network::Client`, `TcpClient`, `app::SessionManager` | user interface thread and read thread, each with a program counter; the server is the environment and does what `GameServer` does: a configuration once, then deltas, chat, perhaps a close. Stopping a local server takes two steps, the look at the game thread and the end, between which the configuration may come; then `stopHangs` leaves the user interface `blocked`. |
| `Widgets` | signals of `app::SessionManager`, `GameWidget`, `BoardWidget`, `BoardRenderer`, `MainWindow` | read thread and user interface thread; `events` is Qt's queue; painting is a step that draws with the renderer as it is. A call that stops a local server may not return (`stopHangs`), at any time, since the window cannot see why. |
| `MC...` | definitions for TLC only | |
| `...Proofs` | theorems | |

`Game` and `Server` treat `Push` and `Pop` of their queue as atomic. `SafeQueue`
implementing `Fifo` is what justifies that.

How they fit together: each layer is built on the promise of the one below, and
that promise is an abstract specification which the layer below is shown to
implement.

      Widgets      what the window makes of the signals of
      Client       one client, on ClientPosition
      - - - - - - - NwEvents: what both ends read of a message - - - - - - -
      GameServer   on Match (implemented by Game, on GoRules and GroupAnalysis)
      Server       on Fifo (implemented by SafeQueue)
                   and Callbacks (implemented by TcpServer)

Two of these joints are not refinements. `GameServer` restates the session server
with its connect in one step, as `Server` shows that the sessions, their order
and their seats do not tell the difference; and the io callbacks of `Server`
are those of `Callbacks` by reading, since they carry sessions instead of frames.

## 3. The runs

| run | question | bounds | result |
|---|---|---|---|
| `game` | rules, superko, deltas and end of a game; a shutdown ends `run()`; the game is a `Match` | 2 x 2 board and one point off it, 8 moves, 2 queued events up to move 5 and 1 after it | holds |
| `two_passes` | "Two consequtive passes ends game." (`game.hpp:42`) | as `game` | violated |
| `group_analysis` | the search returns the group and its liberties, and ends | 3 x 3, every set of black stones, one white stone at most, every start and kind of call; 946 thousand states | holds |
| `safe_queue` | first-in first-out, no lost wake-up | 2 producers with 2 elements each, 2 consumers, spurious wake-ups, a release; 90 thousand states | holds |
| `queue_release` | "Stop blocking the threads trying to pop" (`SafeQueue.hpp:27`) | 1 producer, 1 consumer | violated |
| `server` | seats, sessions, order of calls | 3 connections, 2 messages of 2 events and junk, the session counter wraps at 3; 3.7 million states with the events symmetric | holds |
| `server_broadcast` | no gap in broadcasts; stop returns, and nothing is called or sent after it; a client gets a session | 2 connections that send a message each, 2 broadcasts, the counter wraps at 2; 769 thousand states | holds |
| `client` | board, chat and threads across two connections | 2 connects, 2 moves, 2 chat messages per game; 853 thousand states | holds |
| `game_server` | each client shows how the game went, each move comes from its seat, stop returns | a board of one point, 3 clients of which one may leave, 2 messages, 1 event queued at a time; 1.8 million states | holds |
| `tcp_server` | the contract of the callbacks, whole frames in order, stop returns | 2 connections, 3 frames and messages together; 2.2 million states | holds |
| `widgets` | the window catches up with the state, the chat list has no gap, joining the read thread never blocks both threads | boards of 2 and 3 lines, 2 widget sizes, 1 stone, 2 chat messages, 2 calls; 7.5 million states | holds |
| `client_reconnect` | "Start the blocking read loop only after a successful connect." (`client.cpp:58`) | 2 connects, 1 move | violated |

Why the bounds are enough for the cases the properties are about: on 2 x 2 a
group can be captured whole, suicide and superko (with passes in between) occur
within 8 moves; 3 x 3 is the smallest board with a corner, an edge and a point
with four sides, and a ring of stones makes the stack hold a point twice; two
threads on each side of the queue suffice for a notification to reach the wrong
one; a third connection takes a seat that was given up, with the session counter
past its end; two broadcasts can go on either side of a connect or a stop, with
a message and a disconnect queued behind the shutdown; a second connection is
enough to meet every step of the read thread of the first; and a third client of the game server can take a seat that a player
left, or watch, while two messages suffice for a move after a move, a resignation
behind a move and chat between them. A read and two writes, or two reads and a
write, are what one connection needs to fail in both directions with a message
waiting. The window needs two board sizes for a picture drawn on old lines,
and two chat messages for a signal that finds nothing new, and two calls to stop the local
server of the first one. All bounds are
constants named in the modules, and the theorems below do not depend on those of
the game, the search and the queue.

Deadlock is checked in the runs of the game, the search, the three servers and
the window, where the ends are explicit (`Terminated`). It is not in the queue
and client runs: a consumer may wait for ever for an element nobody pushes, and
a client for a user.

### Fairness

Only what the scheduler owes a runnable thread. `Game`: the game thread takes
the next event if there is one. `GroupAnalysis`: the loop goes on.
`SafeQueue`: a thread inside a call goes on when it can; nobody need push or
release, and spurious wake-ups cannot be relied upon. `Server`: the server thread
goes on, and the owner goes on once it is in `stop`; clients, io, broadcasts and
the call of `stop` itself are not fair. `Client`: both threads go on with what
they have begun; calls, sends and the server are not fair, so a blocking read
may wait for ever and the join in `disconnect` has to end all the same. `TcpServer`: the io
thread finishes the handler it is in, the owner goes on once it is in `stop`;
that a handler is ever started is not assumed. `GameServer`: the server and the
game thread take their next event and finish their broadcasts, the owner goes
on once it is in `stop`. `Widgets`: none; nothing it promises has
to happen, and `JoinCanGoOn` says which thread can go on in every state.

## 4. What the runs found

1. `game.cpp:83` counts a pass before superko accepts it. A pass that would repeat
   a situation is dropped, yet counted, so a second pass by the same player
   ends the game though no one saw the first (`two_passes`).
2. `SafeQueue.hpp:76` releases without the mutex. A `Pop` between its predicate and
   its wait misses the notification and sleeps on (`queue_release`).
   `Server::stop` is safe because it pushes a shutdown event first; the run
   `server_broadcast` shows that it returns.
3. `client.cpp:83`: a read loop that ended with its connection leaves `m_running`
   set, so the next connect starts no read thread; the client is connected and
   deaf until the user disconnects (`client_reconnect`).

Seen while modelling, without a comment or document that claims otherwise:

- `app::SessionManager::connect` resets the state before the old connection is
  gone. If the old one goes on and ends only then, its read thread continues on
  the new socket with the old state, and the board may show the first moves of
  one game followed by moves of another; `BoardShowsMovesInOrder` states what
  remains true.
- A client that misses a delta or joins late never gets back into step
  (`position.cpp:76`, `sessionManager.cpp:196`). A client that takes a seat during
  a game gets no configuration and ignores every delta (`gameServer.cpp:50`); so
  does an observer. `ClientsShowGame` states that such a client shows nothing,
  not half a game.
- `GameServer::stop` looks at the game thread before it stops the session server
  (`gameServer.cpp:31`). When the second player joins in between, the game thread
  is made too late to be told, and `stop` waits for it for ever: `stopHangs`, which
  the run reaches; `StopReturns` excludes exactly this case (`LateThread`). In a
  client that hosts, `connect`, `host`, `disconnect` and the closing of the window
  run this `stop` on the user interface thread (`sessionManager.cpp:36`, `68`, `87`),
  so they hang with it. `CallsReturn` of `Client` lets a call end `blocked` by
  `stopHangs` and claims that nothing else keeps it; `JoinCanGoOn` of `Widgets`
  speaks of the join of the read thread only.
- The game thread stays joinable when the game is over, so two players who meet
  on a server whose game has ended never get another one (`gameServer.cpp:60`).
- The configuration is broadcast before the game thread has set the game active,
  so a move sent at once can be rejected without a word (`gameServer.cpp:127`).
- A resignation is recorded for the player to move, not for the one who
  resigned (`game.cpp:128`; the seat of a delta is described at `nwEvents.hpp:40`).
- `TcpServer::stop` does not close a connection whose accept handler was
  already under way (`tcpServer.cpp:146`; "Disconnect clients and stop the server",
  `tcpServer.hpp:34`). Its client finds out when the server object is destroyed.
- `Connection::send` drops a message above the limit, and `TcpServer::send` returns
  true all the same (`connection.cpp:40`).
- Chat messages of a second connection are not listed until there are more of
  them than the first one had, since the cursor of the list is not reset
  (`GameWidget.cpp:136`), and the label of the player to move is not told of a
  resignation; `ShowsChat` and `ShowsGame` state what remains.
- A click is mapped with the size last painted (`BoardWidget.cpp:112`), so between
  a configuration and the next picture it names a point of the old board.
- `net/core/README.md` intends `TcpClient` for a single thread and
  `sessionManager.hpp:39` says that the session manager is used by the server
  thread only; the program uses the first from two threads and the second from
  the game thread too. The models take every single access as atomic.

## 5. What is proved

The theorems hold for every value of the constants, under the assumptions named
in the modules (`GoRules`: the size of the board is positive; `GameAssumption`,
`BoardsAssumption`, `QueueAssumption`, `PositionAssumption`,
`TcpServerAssumption`, `ServerAssumption`; `NwEventsAssumption`: an unsigned
number has more than eight values; `GameServerAssumption`: numbers of sessions and
of messages fit in an unsigned number, and a point of the board can be written;
`PayloadAssumption`: `EventCoord` and `Text` hold whatever clients name and write;
`WidgetsAssumption`: a picture has at least one pixel for each line, as the minimum
size of the board widget makes it).

- **`GameProofs`, the rules.** `Group` is defined as the least set that holds the start
  and is closed under neighbours of its colour; from this follow symmetry, and
  that groups are equal or disjoint. `ValidMoveBreathes`: after a valid move every
  group breathes. For the mover's stones: either a captured neighbour leaves a
  point free, or the suicide test found a liberty. For the opponent's: a group
  that touches the move and lost its last liberty is captured whole.
  `MoveKeepsHash`: the hash after a move is the hash of the new situation.
- **`GameProofs`, the loop.** The inductive invariant `IInv` joins the invariants of the run
  with `Bookkeeping`: the seen hashes are finite, as many deltas as moves until
  the game is over, all of them active until then, the player to move follows
  from the parity of the move number, and two passes are never counted in a
  running game. None of the properties is inductive alone: the numbers of the
  deltas need the move number, superko needs the hash to be right, and the end
  needs the pass counter. From `IInv`: `TypeCorrect`, `HashCorrect`, `Superko`,
  `GroupsAlwaysBreathe`, `DeltasAlwaysInOrder`; and `PositionIsFinal`, an action
  property. `DeltasAlwaysRebuildBoard` needs no induction over data, although it
  speaks of all deltas in turn: the boards along the deltas are followed along
  the steps of the game, each of which applies at most one more delta. Every step is a step of `Match` or a stutter (`GameIsMatch`, for the
  safety of `Match`): the number and the player of a delta are computed from the
  position in `Game` and from the deltas alone in `Match`, and the invariant is
  what makes them equal.
- **`GameServerProofs`, the messages.** For every event of a client and of a server, decoding what was
  encoded gives the event back (`ClientRoundTrip`, `ServerRoundTrip`), which
  needs that every code fits in the byte it is cut to and that no two types
  share a name; and whatever object is read, an accepted delta has two player
  seats, a coordinate exactly when it is a stone, and captures only then
  (`DeltaIsWellFormed`).
- **`GroupAnalysisProofs`.** The invariant says that what is visited or on the stack
  is in the group of the start, that every neighbour of a scanned side is
  accounted for, and that the liberties counted are those marked. When the stack
  is empty the visited stones are closed under neighbours, so by the leastness
  of the group they are the group (`SearchFindsGroup`), and the count is the
  number of its liberties (`SearchCountsLiberties`).
- **`SafeQueueProofs`.** The invariant: exactly the thread inside the critical
  section holds the mutex, and what a `Pop` has copied is at the front until it
  removes it. Then every step is a step of `Fifo` or a stutter (`QueueIsFifo`).
- **`TcpServerProofs`.** The invariant has two halves. For the callbacks: a connection
  that runs, or whose end is about to be reported, was announced and has not
  ended, and as many frames were heard from it as were read (`Announced`, `Ends`,
  `ReadsMatch`); whoever clears the flag of the connection reports its end, so
  the second operation that fails finds it cleared. From it every step is a step
  of `Callbacks` or a stutter (`ContractIsKept`). For the frames: at most one
  write is in flight, that of the first message of the queue, and what was sent
  to a running connection is what left the queue, the queue and what waits on
  the strand, in this order (`WritesMatch`). The length of the wire then tells
  which part goes out next (`FramesAlwaysInOrder`).
- **`ClientProofs`.** That a stopped client has no read thread is inductive
  (`StoppedIsJoined`), and `NothingAfterDisconnect` follows: no step of the read
  thread is enabled. `BoardAlwaysInOrder` is not: that no move of an earlier game
  comes behind one of a later game needs `GamesInOrder`, by which the numbers of
  the games never fall along the board, the message in hand, the messages on the
  wire and the server, whatever socket is closed meanwhile. `ChatNeverHasGap`
  rests on a lemma about `onChatMessage` for any message in any order: there is a
  least number that is missing, what is before it moves to the history, what is
  after it stays.

- **`ServerProofs`.** The inductive invariant has ten parts. The two maps of the
  session manager are inverse to each other (`InverseMaps`), sessions and keys
  lie below the counters (`Known`), an open connection with a session has an
  active one (`ActiveWhileOpen`), and a colour has one active session
  (`SeatHasOneActive`): from these `SeatIsSafe` and `MapsAreInverse`. `QueueInOrder`
  ties what waits to what was handled, so `HandlerIsCalledInOrder` and
  `EventsAreHandledInOrder`: the handler hears of a session after it was
  connected, in the order of the events, and of nothing after its disconnect.
  `BroadcastsCounted` and `Delivered` count, for each connection that is told,
  what it was sent, what was broadcast and how far the thread that broadcasts
  has come, whichever of the two threads that is; `BroadcastsHaveNoGap` follows,
  with `NoneMissing` for the last broadcast of a connection that is still open.
  `StoppedIsQuiet` is an action property: when `stop` has returned the server
  thread has ended (`Phases`), so no handler is called and no session changes, and
  no connection is open, so a broadcast that goes on sends nothing.
- **`GameServerProofs`, the game server.** Neither property is inductive. `ClientsAlwaysShowGame` needs to
  know what each broadcast under way sends (`Broadcasts`: the configuration while
  no move waits, the last chat message, the last delta), that it reads back as
  what was written (the round trips), that a connected session with a seat is
  active (`Connections`), and that a listener is there while clients are
  (`Phases`). Then a client shows nothing, or the game up to the last move, or up to
  the one before if it is yet to be visited (`PositionsFollow`); the chat of any client
  is the history up to some message, with later ones pending (`ChatsFollow`).
  `MovesAlwaysFromTheirSeat` carries its witness through the game's queue: every
  delta and every move that waits has a call of its own, in the order of both
  (`CausesInOrder`), and the calls do not outnumber the messages (`Counted`).

- **`WidgetsProofs`.** A widget reads the state when it comes to an event, not when
  the event was signalled, so `QuietShowsState` is not inductive. The invariant: each
  part of the window shows what it should, or its event is due (posted, or owed by
  the read thread, or by a call of connect that has not signalled yet), or the
  widget is about to paint. `DueStays` shows that an event stays due until the event
  loop comes to it, whoever posts meanwhile, and `StateChanges` and `MoveSignals`
  that whoever changes what a part shows makes its event due. The half of
  `ShowsBoard` about clicks is arithmetic: with lines `size \div n` pixels apart, of
  which there is at least one, the pixel of a line is on the picture and near no
  other line (`ClickFindsPoint`). `ChatListAlwaysInOrder` follows from the number of
  the last line being the number of lines.

Only model-checked: all liveness (`ShutdownEndsRun`, `SearchEnds`,
`EveryElementPopped`, `ReleaseWakesWaiting`, `StopReturns`, `ClientGetsSession`,
`CallsReturn`), which is out of the prover's reach, and with it the fairness
in `ImplementsMatch`; and `JoinCanGoOn`, which is about `ENABLED`.

## 6. What is not modelled

- **Vision** (`vision`, the largest part of the source). It rectifies a photograph
  and finds stones: floating-point operations on images through OpenCV, one call
  after the other, without state, threads or protocol. Its decisions are
  thresholds on intensities and fits of a lattice; TLC has no arithmetic for
  them and enumerates none of their inputs, and an operator over a few integers
  would leave out what decides whether it is correct.
- **The terminal game**, the visual tuner and other tools: demonstrations that
  push events or show images.
- **`SgfHandler`**: an empty stub. **Logging**: output only.
- **Layout, textures and dialogs** of the Qt client, and the order in which its
  objects are destroyed (the widgets unsubscribe from a session manager that
  `MainWindow.hpp:26` destroys first).
- Collisions of 64-bit hashes; the text of messages, of JSON and of logs; lengths
  of messages, but for the three kinds of frame in `TcpServer`.
- `GamePosition::putStone`, `SessionManager::remove` (server), `TcpServer::reject` and
  `SafeQueue::Empty`, which have no caller in the programs; restarting a server
  after `stop`, which no caller does.
- The undefined behaviour of `forEachSession` iterating a hash table during an
  insertion: the model visits the old sessions and perhaps the new one.
- The subscription of listeners to both event hubs, which happens before the
  first signal, and the listeners of game state and board signals, which only
  the terminal game has.

## 7. Plan

Done: rules, search, game, queue, session server and client with their theorems;
then the messages, `Match`, the game server, the transport with its contract and
its proof, and the window with its theorems. What is left: the refinement between
the sessions of `Server` and those of `GameServer`, which share the order of the
handler calls and the seats.
