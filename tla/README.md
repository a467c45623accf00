# A verification of onlineGomoku

TLA+ models of this repository (the game server `src/*.hpp`, the page of the
room in `src/wwwroot`, the logging library `mylog`), the TLC configurations that
check them on small instances, and TLAPS proofs for every instance. File names
are those of the repository: `server.hpp` is `src/server.hpp` there, `format.hpp`
is `mylog/format.hpp`.

## 1. The system

Two players log in, open the page of the hall, ask to be matched, are led to
the page of a room and play five in a row there. The process has four threads:
the **event loop** of asio, on which every http request, websocket callback and
timer callback runs, one after the other, and three **matching threads**, one
per tier of players. All of them log through `mylog`, which a program can also
use with loggers of its own, in threads of its own.

| Component | State | Operations | Talks to |
|---|---|---|---|
| `GomokuServer` (server.hpp) | the components below | `LoginHandler`, `InfoHandler`, `RegisteHandler`, `FileHandler`, `WsOpen/Close/Msg` for `/hall` and `/room` | all of them, by calls |
| `SessionManager` (session.hpp) | `_nextSid`, `_session`, the timer of each session | `CreateSession`, `GetSessionBySid`, `SetSessionTime`, `RemoveSession`, `AppendSession` | the event loop's timers |
| `OnlineUser` (onlineUser.hpp) | `_hallUser`, `_roomUser` | enter, exit, test and get, for hall and room | none |
| `Matcher`, `MatchQueue` (matcher.hpp) | three queues, three threads | `Add`, `Del`, `ThreadRunHelper` | `OnlineUser`, `RoomManager`, `UserTable` |
| `Room`, `RoomManager` (room.hpp) | `_nextRid`, `_rooms`, `_users`; per room status, board, number of players | `CreateRoomForTwoUser`, `GetRoomByUid`, `HandleRequest`, `Broadcast`, `RemoveUser`, `DestroyRoom` | `OnlineUser`, `UserTable`, the pages |
| `UserTable` (database.hpp) | one MySQL client handle, `_mtx`; the table | `AddtUser`, `Select...`, `Win`, `Lose` | MySQL |
| util (util.hpp) | none | `split`, json, files, MySQL calls | |
| pages (wwwroot) | room: `is_me`, `chessBoard`, `room_info` | clicks, `onmessage`, leaving | the server, by messages |
| mylog, asynchronous logger (asyncLoggerCtrl.hpp, asyncLoggerCharBuf.hpp) | two buffers, `_stoped`, a consumer thread | `push`, `threadRunning`, the destructor | sinks |
| mylog, loggers (logger.hpp, format.hpp, sinker.hpp, util.hpp) | the registry, levels, items of a format, open files | builders, `get`, `add`, `debug` ... `fatal`, `fillItems`, `createDir` | console, files |
| practice, vendored jquery, static pages | none of interest | | |

### What is hard here, and what correctness means

* **Sessions** (event loop only, but asynchronous). Cancelling a timer *runs* its
  callback, so making a session permanent removes it and a second timer puts it
  back. Correct: a permanent session never gets lost, a temporary one always
  ends, an ended one stays ended, however many calls overlap.
* **Matching** (four threads). Every call of `ThreadRunHelper` is a critical
  section of its own, and in between players stop, leave, lose games or come
  back. Correct: who waits in the hall stays in a queue or in the hands of a
  thread until he is matched, is not multiplied, is not matched with himself,
  and a thread with work does not sleep.
* **Rooms** (created by matching threads, used by the loop). Correct: the index
  by player agrees with the rooms, a game ends exactly when its result is
  recorded, no win goes unnoticed, points only change hands, and a room is
  destroyed when nobody is in it.
* **The game between two browsers.** The server does not know whose turn it is;
  each page keeps a flag and a board by the answers it gets, and a session may
  run out in between. Correct: turns alternate, the boards agree, the turn is not
  lost between the pages, and whoever is there when a game ends is told.
* **Connections** (order of openings, closings, reloads, several tabs). Correct:
  the registries list open connections, sessions are permanent for clients that
  are connected and only for those.
* **One database handle for four threads**, locked by the selects only. Correct:
  each query gets its own answer, and calls come back, while nothing without the
  lock gets in between.
* **Logging.** Producers and a consumer exchange buffers, a destructor runs in
  some thread at some time. Correct: each message comes out once, in order,
  what was accepted comes out before the end, callers come back, sinks agree.
* **Texts**: the session cookie among others, the format of a log line, the
  directory of a log file. Correct: what their descriptions say, on all inputs.
* **Failure**: a query may fail at every call. There are no restarts to model:
  everything but the table lives in memory.

`PROJECT.json` lists every hazard at its line, with the properties that watch it.

## 2. Modules

```
UserIds   OnlineUser   UserTable   Room      SessionManager --implements--> SessionLease
                \      /   |      /                |
                 \    /    |     /                 |
                RoomManager|---------------.       |
                /    |     |                \      |
          Matcher  GamePages TableHandle    GomokuServer

AsyncLoggerCtrl --implements--> LogChannel        TextUtil
       |                                              |
LoggerManager                                     FileUtil   Formatter
                                                       \      /
                                                         Texts
```

A line downwards is `EXTENDS`: the lower module uses the operators and the
variables of the upper ones (`UserIds` is under `OnlineUser` and `UserTable`,
and `UserTable` under `RoomManager` and `TableHandle`). Names are the source's names.

* **OnlineUser**: `_hallUser`, `_roomUser` as functions from players to
  connections. A connection is a token. `Inserted` is `unordered_map::insert`,
  which keeps an existing entry: the cause of several behaviours below.
* **UserTable**: one row per player: score, games, games won. `QueryResults` is
  the outcome of `util::mysql::exec`; with `DbMayFail` every query may fail.
* **Room**: a room is a record; `win`/`fiveChess` translate the scan through the
  last stone. `FiveInARow` is the rule of the game, stated independently.
* **RoomManager**: `_nextRid`, `_rooms`, `_users`; `results` is a history
  variable. One action per operation. A handler of the event loop is one step,
  since no other thread reads a game, removes a room, or writes the table; the
  creation of a room is the critical section `InsertRoom`, which `RmSpec` allows
  for any two players: the tests of the hall lie before it, in other critical
  sections, and a player may have left since. `RemoveUser` includes what
  `HandleExitRoom` does and the destruction of the room.
* **Matcher**: adds the queues and threads. `pc[t]` names the call that thread `t`
  makes next, `held[t]` is `uid1`, `uid2`, `seen[t]` is `conn1`, `conn2`. A thread
  blocked in `Wait` is `pc = "blocked"`; `notify_all` and spurious wakeups send it
  back to `Size`. `Size` and `Wait` are two steps as they are two critical
  sections in the code. `Add` is two steps when a thread runs it (the query, the
  `Push`), one when the event loop does, because nobody else writes the table.
  `wish`, `starts`, `seats` are history variables.
* **GamePages**: the pages of the room, the messages in both directions, and
  the room handlers with their answers. `page[c]` holds the variables of the
  script: `isMe`, `marks` (`chessBoard`), `rid` (`room_info.room_id`) and whether a
  result has been shown. Connections deliver in order; what two of them carry is
  not ordered. An answer goes to whoever is *registered* when the server handles
  the request (`Broadcast`). `Click`, `Leave`, `PageTakes` are the page's steps,
  `Open`, `OpenUnheard`, `ServerTakes` the server's; the changes of rooms are RoomManager's
  operators, with nothing left out. A player has one page loaded at a time (two
  tabs are in GomokuServer), but his new page may come before the server has
  heard of the end of the old one: those players are `doubled`. `late` marks pages
  that opened after the end of the game. Any request may find no session
  (`NoSession`, `OpenUnheard`): the sessions' terms are SessionManager's subject, and
  GomokuServer shows that they run out under connected players too. A page that
  was opened so is `mute`: the server keeps nothing of it. A page whose move was
  dropped so is `unheard`; these three are history variables.
* **TableHandle**: the calls of UserTable, cut where the client library can be
  entered by another thread: `Enter` (the lock), `Send` and `Answer` (`mysql_query`),
  `Store` (`mysql_store_result`), `Return`. The library is external and modelled from
  its rules for callers: one exchange at a time, a query while rows are pending
  is refused, and two threads inside at once make every later answer arbitrary
  (`torn`), or keep it from coming: another thread may have read it, and no read
  timeout is set, so no fairness is granted to a thread that reads then. `UInt64`, `asIntThrows`, `TierOf` follow a score from its row to the
  queue. `truth` remembers what the server really answered.
* **SessionManager**: `tp` is the set of sessions with a live timer, `removals` and
  `appends` count callbacks of cancelled timers and of 0 ms timers that have not
  run. `SetSessionTime` has the code's four cases. `Expire` is a timer that was
  not cancelled; it lies 30 s ahead, so it comes after every pending callback,
  which is its guard. A 0 ms timer is set after the `cancel()` it repairs and
  comes after that callback (`appends > removals`).
* **SessionLease**: the promise without timers: a lease is granted, renewed, ends
  when temporary, and never comes back.
* **GomokuServer**: the handlers, composed of the operations of `RoomManager` and
  `SessionManager`. `uri[c]` and `cookie[c]` belong to the clients; a connection that
  is closed and that no registry holds is free to stand for another one, so any
  number of them come and go. `owner` is the `_uid` of a session, `asked` stands for
  the match queues and `Match` for the matching threads (module Matcher has them
  in detail). `Crash` is the null dereference that follows "no room found" in
  `WsOpenRoom` and `WsMsgRoom`, where the code answers the client but does not
  return; the process is then gone. `missed` is a history variable: the sessions
  a close handler did not find.
* **AsyncLoggerCtrl**: `produceBuf`, `consumeBuf` with the messages and bytes in them,
  `cpc` where the consumer is in `threadRunning`, `ppc[t]` where thread `t` is in `push`,
  `dpc` how far the destructor is. A critical section is a step, but for the
  consumer between its predicate and its sleep (`Decide`, `Block`): the destructor,
  which takes no mutex, may come in between. `_stoped` and `_produceBuf.empty()` are
  read without the mutex where the code does so.
* **LogChannel**: what an asynchronous logger promises: accepted messages come
  out in order, once; what was accepted before the closing is owed.
* **LoggerManager**: the registry, the builders, levels, and `SyncLogger`, around a
  controller of the module above. Pointers are `handle[t]` and the entries of
  `loggers`; `DropLast` is the end of the last one, which runs the destructor in
  that thread. `GetUnlisted` is the call of `get` that locks `_mtx` twice.
* **TextUtil**, **Formatter**, **FileUtil**: the algorithms on texts as operators and
  recursive functions on sequences of characters, each beside a definition of
  what it should do (`Named`, `Marks`/`WellFormed`/`Line`, `CanOpen`/`OnTheWay`).
  **Texts** asks each of them every question of the instance. The file system is
  external: a set of directories, in which `Walk` follows a path name by name
  (`Into`), and `CanOpen` wants a directory that can be reached and, in it, a name
  that is no directory's. `MakeAt` is the loop of `createDir` at one place of the path.
* **Induction** models nothing: it holds the facts about numbers, finite sets and
  functions that the proofs about recursive functions rest on.

The MC modules give the constants their values. `Matcher`, `GamePages` and
`GomokuServer` implement `RmSpec`, `GomokuServer` implements `SmSpec`, and
`LoggerManager` implements `CtrlSpec`: all proved, so what holds of rooms, sessions
and the controller by themselves holds in the compositions.

Operators marked "variant for the mutation runs" are plausible mistakes in the
operation they precede. No specification uses them: they serve to see that each
property fails when the code is wrong (`PROJECT.json`, "mutants").

### Abstractions

* Requests that change nothing and whose answer nobody acts on have no action:
  chat, unparsable json, an unknown `optype`, a missing cookie, a request of the
  hall without a session. Those of the room without one lose something and are in
  GamePages, with the wrong `room_id` and the move on a taken cell; the close of a
  connection without one is in GomokuServer too.
* The `uid` in a request for a move is the one of its session, and the cell is on
  the board, as `game_room.html` sends them. The rooms of RoomManager accept
  moves in any order; turns are GamePages' subject.
* Scores range over a finite set; it is wide enough in each run, or the run says
  what it leaves out. Only tiers some score belongs to have a queue.
* The accounts exist from the start and `Win`/`Lose` are atomic, except in
  TableHandle, where players register and threads meet in the handle.
* A log message is a value with a length and a level. The text of time, thread
  and `printf` arguments is a constant of Formatter.

## 3. Runs

Bounds: `MaxRooms` rooms are created in all, a room records at most `MaxResults`
results by moves, a player sends `MaxStarts` requests to be matched, there are
`MaxSids` logins; `MaxCalls` counts calls of `SetSessionTime` per session, messages
logged in all, or handlers and calls of `Add` in all. Each is a guard marked
"bound". The constraint `OneCancelPending` of the server's runs leaves one
cancelled timer pending at a time; any number of overlapping ones is the matter
of the run `session`. Players are interchangeable (symmetry), and so are
connections in the server's runs. Runs with liveness use no symmetry.

| Run | Instance | Shows |
|---|---|---|
| `room_index` | 3 players, 2 rooms, 2 results, board without wins, failing queries | Types (a room that exists counts one or two players), `RoomIndexSound`, `OverMeansRecorded`: players who meet again while old rooms and old index entries exist, which takes three players and a second room. `NothingCountsTwice`: games that are won again while either query of a result may fail |
| `room_game` | 2 players, 1 room, 2 results, 3x3, three in a row | `FiveEndsTheGame` on every board that moves in any order by anybody can make. Three in a row of three is the smallest size where a stone can close a row at its end or in its middle, in all four directions. `AccountsBalance` over games that are won twice: while queries succeed, points only change hands |
| `match` | 3 players, 2 tiers, one request each, failing queries, fair threads | `WaitersNotLost`, `SeatsWereAskedFor`: the retry paths lose and multiply nobody while players leave, stop, lose a game (and change tier) or a query fails. `AwakeThreadPops`, `HeldPlayersReleased`: a thread that is awake with two players in its queue takes them, and lets go of whom it took |
| `session` | 2 sessions, 3 calls each, fair callbacks | The session manager implements `SessionLease`, with liveness; `ForeverIsAlive`, `TimedHasTimer` |
| `server` | 2 players, 2 logins, 3 connections at a time, 1 room, 3 calls per session | `GhostsAreMissedCloses`, `PermanentWhileConnected`; each step is a step of `RoomManager` and of `SessionManager` (the types of the server are only proved). Three connections are enough for one player with two pages of a kind and his opponent, or a hall page beside two room pages, and three calls for a session to go through hall and room and leave it, so that rooms are also destroyed |
| `pages` | 2 players, one with a second page, 1 room, three cells, two in a row win | `TurnsAlternate`, `PagesAgree`, `EndIsTold`, `SomebodysTurn`: a game by a move, by an absence and by an exit, moves that cross a reload or the entering of the opponent, moves after the end, sessions gone at any request. `SomebodysTurn` excepts the move that found no session. Three cells allow a win by the first player in his second move, and a full board without a winner |
| `handle` | the loop, 2 matching threads, 2 players (one unregistered, one with 10 points), 3 handlers, failing queries | `SelectTellsTruth`, `TornNeedsUpdate`: two selects that contend, an update that meets a select in the library, an update refused because rows are pending, and everything after the exchange is torn. `AddPlacesByScore` on scores below zero, bronze and silver; `CallsComeBack`, also through failing and refused queries, with the torn exchange as its exception. `IntMax` and `UMod` are 2^11 - 1 and 2^16 in place of 2^31 - 1 and 2^64: what matters is that the second is more than twice the first (`HandleAssumption`) |
| `log` | 2 threads, 3 loggers of which two claim the same name, a buffer of 2 bytes, messages of 1, 2 and 3, 3 messages | `BuffersFit`, `EndedMeansWritten`, `StopFindsNobodyInside`, `SinksAgree`, the refinement of `LogChannel` with its liveness, `CallsReturn`, `JoinsUnlessUnheard`. Two bytes make a producer wait for a swap; three messages fill both buffers and one more |
| `texts` | all lists of up to 2 cookies, formats of up to 5 characters, paths of up to 6 characters on 2 disks | `CookieIsFound`, `FormatsAsDocumented`, `SinksOpen`. One of the disks has a directory `/w/a`, and `a/../a` makes one on the other: the names that cannot be opened occur |

Three runs end in a violation: a comment of the code says what the code does not
do. Each is a finding in `PROJECT.json`.

| Run | Comment | What happens |
|---|---|---|
| `match_blocked` | matcher.hpp:20 the consumer blocks when `_list.size() < 2` | Both players are pushed between `Size()` and `Wait()`; the thread sleeps on a full queue |
| `match_self` | matcher.hpp:95 two players are taken out | `match_start` twice: one player takes both seats |
| `server_destroyed` | server.hpp:335 the room is destroyed when it has no users | One player closes two room connections: the room is destroyed with his opponent in it |

Deadlock is checked in the runs of rooms and of matching. Elsewhere the bounds
(logins, calls, messages, questions), closed connections, the end of the process,
or the threads stuck in `get` leave nothing to do.

### Fairness

* `FairMatcherSpec`: weak fairness of each matching thread's steps. A thread that
  is not blocked is runnable and the operating system runs it; locks are held
  for a few instructions. Nothing is assumed of players, and no spurious wakeup.
* `FairSmSpec`: weak fairness of callbacks and expirations. asio's loop runs what
  is due, and nothing in it blocks forever. Nothing is assumed of requests, but
  that a session is renewed finitely often (`MaxCalls`): a client that asks for
  `/info` again and again within the timeout keeps a temporary session for as long
  as it likes, and `SessionLease` promises an end to those that are not renewed.
* `FairGpSpec`: browsers and the event loop handle something while anything has
  arrived. Nobody has to play, to enter or to stay, and no session has to last or
  to end; `SomebodysTurn` speaks of players who do stay.
* `FairHandleSpec`: a thread that can go on does, and the database answers. It may
  answer with an error each time. Nothing is assumed of a thread that reads from
  a torn connection (`ReadsTorn`): it may wait for ever.
* `FairLogSpec`: the consumer and every thread inside a call go on when they can;
  the sinks come back. Spurious wakeups do not come for ever: without that
  assumption a consumer that wakes for nothing again and again could take the
  mutex each time a producer is to have it. Nobody has to log, to drop a logger,
  or to build one.

Four of the liveness properties name their exceptions, which are behaviours of the
code. `CallsReturn`: a message longer than the buffer waits for ever.
`JoinsUnlessUnheard`: so does a destructor that notifies between the consumer's
test and its sleep. `CallsComeBack`: in a torn exchange a thread may wait for ever
inside `mysql_query`, and with it those that want the lock it holds.
`SomebodysTurn`: a move that finds no session loses the turn.

### Seen while modelling, not run as findings

No text of the repository promises the contrary of these, or not clearly enough:

* A game that is over accepts further winning moves and records them; the first
  move wins when the opponent has not opened his page yet; a full board without
  a row ends nothing.
* A player of a room that still exists is matched again and `GetRoomByUid` leads
  him to the older room, as `_users.insert` keeps its entry (room.hpp:379).
* Between `RemoveSession` and `AppendSession` a session that is to be permanent is
  not in the map; a handler that runs then gives up (session.hpp:135).
* `match_stop` does not reach a player who is in a thread's hands or whose tier
  has changed; `match_success` is sent on connections that may have closed;
  `match_start` is answered with success when `Add` failed.
* `Win` can succeed where `Lose` fails; `GET /info` sets a timeout on the session of a
  client who is connected.
* A second room page of a player is first sent a `room_ready` without ids, which
  its script takes for its turn, and is then let in while the registry keeps the
  first one: answers go there. `TurnsAlternate` excepts such players.
* The session of a player at a game can end (server.hpp:251 and :324 set the
  timeout). His next move is then dropped (server.hpp:373); the page has cleared
  `is_me` when it sent it (game_room.html:126), and takes no turn again until it is
  reloaded. Both players wait.
* A torn exchange can leave a thread inside `mysql_query` for ever, with `_mtx` if it
  selects.
* A log file whose name a directory has cannot be opened, and the assertion ends
  the process (sinker.hpp:57): `a` where `/w/a` is a directory, or `a/../a`, for which
  `createDir` makes that directory itself. `SinksOpen` excepts such names.
* A page does not compare the `room_id` of an answer with its own. A player in two
  rooms at once draws the stones of both on one board.
* After an exit from a finished game the other page receives `null`, on which
  its script throws; nothing is lost by that.
* `get` with an unknown name locks the registry for good (logger.hpp:364), and a
  second builder with the same name gets a logger that nobody finds.
* The two `assert`s that call `fillItems()` (format.hpp:192) and test the log file
  (sinker.hpp:57) are absent when built with `NDEBUG`: then no format is parsed at
  all. The model is of the build with assertions.
* To `createDir` a backslash separates names, to the system it does not.
* The results of failed or empty selects are not freed (database.hpp:77-81), and
  `SID=` with something that is no number throws in `std::stol` (server.hpp:465).

## 4. Proofs

Each `...Proofs` module extends the component it is about; the proofs of
`UserTable` are in RoomManagerProofs, those of `SessionManager` in
GomokuServerProofs and those of `AsyncLoggerCtrl` in LoggerManagerProofs, beside
the proofs that use them, and TextsProofs has the three modules of texts. The
constants are arbitrary: any sets of players, threads, connections, messages and
scores, any board, any bound, texts of any length. Every safety invariant that a
run checks and finds true is also a theorem, the two about turns and boards of
pages in one room.

The assumptions are the named `ASSUME`s of the modules; TLC evaluates them in the
runs. Most are about null values and number types. The others:

* `UidsAssumption`: finitely many players. They are the rows of a table.
* `InfoAssumption`: the fields of a log message are texts.
* `TextsAssumption`: formats, file names and directories are texts; in the `Cookie`
  header no name is empty or contains `=` or `;`, and no value contains `;`, as
  browsers send it (RFC 6265). Values may contain `=` and whatever else.
* `CwdAssumption`: no name in the path of the working directory is `.`, as with
  `getcwd`.

### Induction

The library's induction theorems take operators as parameters, which the
provers cannot instantiate. Induction states them about *sets* instead:
`NatInd` (a set of naturals with 0 and every successor has all), `SubsetInd` for
the subsets of a finite set and `DownInd` for the places of a sequence from
behind, all from the minima of a well-founded relation. From these follow
`StepwiseExists` and `StepwiseEqual` (there is a function with a given first value
and given steps, and only one), and `DownwardsExists` for functions that look
behind. With the existence of the function a recursive definition is an
equation, and what it computes for *every* input can be proved.

### The components

* **RoomManagerProofs**: `RmInv == RmTypeOK /\ RoomIndexSound /\ RidsAreFresh /\
  OverMeansRecorded` is inductive. `RidsAreFresh` (no room, no result under a rid
  not yet given out) is needed so that a new room does not change what old
  entries of the index mean, and starts without a result. The conjuncts need each
  other: destroying a room keeps the index sound because a player whose entry
  remains is, by soundness, in another room. One lemma per operation
  (`InsertRoomInv`, `HandleRequestInv`, `DestroyRoomInv`, `CloseRoomInv`), and
  `RoomChangeInv` for every change of a room that keeps its players.
  `FivesEndTheGame`: a line that is complete after a move contains the new stone,
  or it was complete before and the game over; in the first case the two passes
  of the scan find at least the line's cells on either side (`StepsOnLine`), and
  `win` counts them.
  `AccountsAlwaysBalance`, `NothingEverCountsTwice`: with `RmInv`, the two properties
  together (`Ledger`) are inductive, for any number of players, rooms and results.
  `Total`, the sum over a finite set, is unfolded by induction on its subsets
  (`SumsExist`, `TotalIsSum`); `TotalPlus` is the one fact about sums that the steps
  need: the total changes by what the one changed entry does. `WinCounts` and
  `LoseCounts` say what a query does to the three totals, `RecordLedger` puts two of
  them together, and no other operation writes the table (`OnlyRecordWrites`).
  Even a room of one player with himself (run `match_self`) does no harm: the same
  row is won and lost.
* **MatcherProofs**: `MatcherInv` is `RmInv`, the types of the threads with `Hands`
  (how many players each program point holds) and `WaitersNotLost`. `Hands` is
  what makes the second invariant inductive: each thread gives back what it took
  only if it holds exactly what its program point says. Lemmas on sequences
  (`ElementsAppend`, `ElementsHeadTail`, `RemoveKeeps`) carry the queues; one
  lemma per step of a thread and per handler. The event loop's games are taken
  over from `RmNextInv`. `NobodyIsMultiplied` (`SeatsWereAskedFor`) rests on `MatcherInv`
  and on lemmas that count (`CountAppend`, `CountHeadTail`, `RemoveCount`): a step is
  right if what it adds to one queue it takes from the hands of one thread, or was
  asked for, and no other queue or thread gains anything (`SeatsStep`). There are
  three queues at most, so the sum over them needs no induction.
* **GomokuServerProofs**, on sessions: `SmInv` relates, for each session, its last
  term, timer and pending callbacks; in particular `appends >= removals`, and a session out of
  the map with a pending callback will be re-inserted. From it `ForeverIsAlive`
  and `TimedHasTimer` follow, and `SmSpec` implements the safety part of
  `SessionLease`: each step maps to `Grant`, `Renew`, `End` or a stutter.
* **GomokuServerProofs**, on the server: `ServerInv` joins `RmInv` and `SmInv` with the
  links between clients and server: `ClientInv` (an existing session has an owner; an open or
  held connection carries the cookie of a session that was created) and the two
  safety properties. `ServerStepsRooms` and `ServerStepsSessions` show, handler by
  handler, that a step of the server is a step of each component or leaves it
  alone; that gives both refinements and the first two conjuncts. For the rest
  there is one lemma per kind of step: `QuietInv`, `OpenInv`, `FoundCloseInv`,
  `MissedCloseInv`. `MatcherImplementsRooms` in MatcherProofs takes the same way.
* **GamePagesProofs**. In any number of rooms: `PagesImplementRooms`, and with it
  `RmInv`; `EndIsAlwaysTold` from that, the types of the messages and `Swallowed` (a
  page that is not loaded has nothing on its way). The argument is per game: the
  step that ends it sends its result to every registered page, and a queue loses
  a message only to its page, which then shows it. In one room (`MaxRooms = 1`):
  `PagesAlwaysAgree` and `TurnsAlwaysAlternate`. The first needs `Setting`: who is
  not in the room has seen no stone on the board (else his absence would have
  ended the game), and before `room_ready` a registered page hears nothing else.
  The second strengthens the count of stones to `TurnOf`: of the flag, the move on
  its way to the server and the answer on its way back exactly the player whose
  turn it is has at most one, and the other has none; a page that takes no part (`Apart`: not loaded, and without
  a move on its way) has none either, and a move that is dropped takes one away
  and gives none. The hypothesis of one room is
  no convenience: with two rooms a player may be in both, answers of one change
  the flag and the board of the page in the other, and neither property is
  claimed.
* **TableHandleProofs**: `HandleInv` adds to the property that a select holds `_mtx`
  from its query to the end of its exchange (`Locking`), and that pending rows are
  the answer to the one select that will read them (`PendingIsMine`). Two threads
  inside the library are then never two selects. `AddPlaces` rests on the arithmetic
  of the unsigned type (`UInt64OfScore`): a negative int becomes larger than any int,
  every other one stays what it is.
* **LoggerManagerProofs**, on the controller: `CtrlInv` is `BuffersFit`, the types and
  `NothingForgotten` (`atStop` never exceeds what was accepted). Everything is said through `Accepted`,
  the concatenation of sinks and both buffers: a push appends to it, a swap and a
  consumption leave it alone, which is the refinement of the channel. The order
  of the buffers is right because the one swapped in is empty, the last conjunct
  of `BuffersFit`.
* **LoggerManagerProofs**, on the loggers: `LoggersUseTheController` maps every step
  to one of `CtrlNext` or a stutter, so the theorems above hold here;
  `StopAlwaysFindsNobodyInside` from `InOnePlace` (who is in `push` has a pointer) and
  `ReachableMeansMade`; `NamesAlwaysStay` as an action property.
  `SinksAlwaysAgree`: the property itself is not inductive, as it does not say what
  the writing thread has left to do. `SinksInv` does: who is among the sinks of a
  logger owns its mutex (`OwnersWrite`), what is left to write fits where he is
  (`LeftToWrite`), and the console is ahead of the file by exactly the message in
  hand while only the file is left (`InStep`). `OfSync`, a recursion over the lines
  of a sink, is unfolded into `OfSyncAppend`: a line of another logger changes
  nothing, one of this logger is appended.
* **TextsProofs**: each question has the answer the property describes, for every
  input; that the answer given is the program's (`AnswersInvariant`) is easy, and
  the rest are lemmas on the functions.
  *Formats.* `fillItems` scans forward by runs of characters, `Marks` looks back,
  `Line` goes place by place. The equation of `fillItems` from any place on
  (`FillItemsEquation`) is compared with the rest of the documented line from the
  last place to the first (`ParsesAll`).
  *Cookies.* `split` finds again what `Header` joined (`SplitJoined`), because the
  separator occurs in no name or value; each pair splits at its `=` (`PairSplits`),
  and the first one with the key is the least of `Named` (`LookupFinds`).
  *Paths.* The names of a path split around a slash are the names on either side
  (`NamesAround`), so the path up to a separator has one name more than up to the
  separator before, or the same ones. The loop of `createDir` keeps `Done`: from
  each separator passed so far the path leads somewhere, the directories only
  grow, and every new one is on the way. It needs that a walk that arrives
  arrives at the same place among more directories (`WalkResolved`): what was
  passed stays passed. After the loop the directory of the file can be reached;
  that its name is no directory's then follows from the theorem's exception, as
  the only new directories are those on the way. A path that is `.` or `..` alone always leads
  somewhere, so the loop may skip it.
  The provers do not know a string literal to be in `STRING`; `Char` lists the few
  characters that matter beside it.

### Only model-checked

Liveness (`AwakeThreadPops`, `HeldPlayersReleased`, `SomebodysTurn`, `CallsComeBack`,
`CallsReturn`, `JoinsUnlessUnheard`, the fairness of `ImplementsLease` and
`ImplementsChannel`), which the provers do not handle; and the three violations.

## 5. Not modelled, and what could come next

Not modelled: static files, the wording of answers and drawing of pages, json,
chat, the pages of hall, login and registration as programs of their own (the
other modules let a client send what these send, in any order), connecting to
MySQL, the text of log fields, practice programs, vendored code.

What is left of the plan: `PagesAgree` for rooms in sequence, where a player is in
one at a time; the hall page as a client of Matcher.

## 6. Running

In this directory: `tlc -config room_index.cfg MCRoomManager`, and so on for
each run of `PROJECT.json`; `tlapm RoomManagerProofs.tla` for the proofs. The runs
take from seconds to two minutes each with two workers.
