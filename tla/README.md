# TLA+ verification of game_dispatch

game_dispatch is a card-game platform: one dispatch server, several lobby
servers, and one game server process per game and room level, written in C++
over an epoll reactor, MySQL and redis. This directory holds TLA+ models of its
core, the TLC configurations that check them on small instances, and TLAPS
proofs of what holds on instances of every size.

Paths below are relative to `src/game_dispatch/`; `GS` is
`server/servers/game_server/src`, `LS` is `server/servers/lobby_server/src`,
`DS` is `server/servers/dispatch_server/src`, `CM` is `server/servers/common/src`.

    tlc -workers 2 -config LandRoomHumans.cfg MCLandRoom.tla     # a run
    tlapm LandRoom_proof.tla                                    # a proof module

`PROJECT.json` lists components, runs, mutants, findings, hazards and theorems,
and maps every definition to the source lines it stands for.

## 1. The system

Every process is a single-threaded reactor: sockets and timers call handlers,
and a handler runs to its end before the next one starts. Beside it runs one
database thread per connection (`CDBTask`), fed through a queue. So the
concurrency that matters is between processes, between a handler and the
handlers that come before its answer, and between the reactor and the database
thread.

    clients ──TCP── lobby ──TCP── game server (one game, several rooms)
                      │  \          │  \
                      │   MySQL, redis (shared by all)
                      └── dispatch ─┘        ── web site (php) ── lobby, dispatch

| Component | State | Operations | Talks to |
|---|---|---|---|
| Dispatch server: register (`DS/server_mgr.cpp`, `lobby_mgr.cpp`, `game_net_mgr.cpp`) | `m_mpServers`, `m_lobbySvrs`: id, connection, status | register, heartbeat, remove, retire orders, announce a lobby, relay between lobbies | all servers over TCP, the web site |
| Servers' side (`GS/dispatch_mgr.cpp`, `LS/dispatch_mgr.cpp`, `GS/lobby_mgr.cpp`) | `m_DispatchSvr` (socket, `isRun`), the lobbies known | reconnect every 3 s, register, report, take orders | dispatch server |
| TCP connections (`server/server_frame/include/network`) | buffers, stage, pool of objects | connect, send, receive whole packets, heartbeat, destroy | everything |
| Lobby: login and session (`LS/player.cpp`, `msg_client_handle.cpp`, `game_net_mgr.cpp`) | player state, session, load flags, recovery flags | login, asynchronous load, relogin, kick the session at another lobby, logout, recovery | redis, MySQL, other lobbies by way of dispatch |
| Location in redis (`CM/redis_mgr.cpp`) | player to lobby and game server | set, read, delete, clear | lobbies and game servers |
| Account and ledger (`CM/player_base.cpp`, `LS/msg_server_handle.cpp`, `CM/dbmysql_mgr.cpp`) | coins, safe box, score: in the lobby, in the game server, in MySQL | change by difference, safe box, gifts, load | lobby, game server, database thread |
| Lobby to game server link (`LS/server_mgr.cpp`, `GS/lobby_mgr.cpp`) | servers registered at the lobby | register, relay, enter, leave, stop | both |
| Matching room (`GS/game_room.cpp`, `game_table.cpp`, `game_player.cpp`, `CM/player_mgr.cpp`) | players, room membership, `m_marryPlayers`, tables, seats, `m_playerNum` | enter, leave, queue, matching tick, ready, start, end, recover | lobby, the game's table class |
| Robots of a room (`GS/robot_mgr.cpp`, `robot.cpp`) | pool of free robots, blockers | ask for one, give back, log out | room, lobby |
| Landlord game (`land_robot_server/src/game_imple_table.cpp`) | phase, hands, calls, timers | bid, play, pass, act for an absent player, settle | room |
| Stock and jackpot of a room (`GS/game_room.cpp` 1669-1775) | rates, stock, jackpot, the row | load, draw a round's outcome, book it, change | all games with control, web site, MySQL |
| Database thread (`frame/server_frame/src/dbmysql/db_task.cpp`) | `m_QueueReq`, `m_bRun` | push, run, stop, answer | MySQL |
| Private tables and fees (`GS/game_table.cpp`) | table record, host's income | create, renew, charge, expire | account |
| Banker queue and locked scores (`GS/game_table.cpp`, betting games) | applicants, locked score per player | apply, lock, unlock, change banker | account |
| Other games (16 servers) | phase, bets, hands | phase timers, bet, deal, pay | room, stock |
| Card and tile logic (`*_logic.cpp`) | none | types, comparison, enumeration | games |
| Landlord robot player (`land_robot_ai_ex`) | none that outlives a move | choose cards | landlord game |
| Missions, lobby robots, fish tables, center log, configuration | counters, timetables, tables | count, log in, write, read once | lobby, game server |
| Web site handlers (`LS/msg_php_handle.cpp`, `DS/php_mgr.cpp`) | none | parse a request, call another component | site |
| Reactor, timers, pools, JSON, Lua, XML, generated messages | | | |

### What is hard, and what makes each part correct

* Register: connections die without either side noticing, a server comes back
  while its stale entry is still there and is refused, the register is lost
  with the process. Correct when entries never outlive connections, a server
  that believes it is registered is, orders are not lost on live connections,
  and everybody gets back in.
* Matching room: handlers and ticks interleave in every order, and player
  objects are deleted while room, queue, seats and robots may hold pointers to
  them. Correct when all of these agree, nobody drops out of the queue or out
  of a running game, games have the mix of players they are meant to have,
  tables do not grow without bound and everyone who waits is served.
* Stock: memory, row, queue and the site's messages describe the same two
  amounts on different paths; several tables deal from one jackpot and settle
  later; a process ends in three ways. Correct when nothing is created or
  lost, and a controlled round keeps the promise under which it was dealt.
* Login, location, account: one player at two lobbies, data loaded
  asynchronously while changes arrive, differences applied at three copies,
  gifts whose receiver moves. Correct when there is one session and one
  location per player and the copies add up.
* Banker queue, private tables: every amount locked or charged is given back
  or delivered exactly once.
* Landlord game: a player who is absent never stalls the table, the score is
  zero-sum up to the fee.

`PROJECT.json` lists the hazards one by one, at their lines.

## 2. Modules

| Module | Models | Proofs | Instances |
|---|---|---|---|
| `LandRoom` | one COMMON room with matching, its landlord tables, players, robots | `LandRoom_proof` | `MCLandRoom`, `LandRoom*.cfg` |
| `RoomStock` | stock and jackpot of a room, its row, the database thread, the site's changes | `RoomStock_proof`, `Sums_proof` | `MCRoomStock`, `RoomStock*.cfg` |
| `DispatchRegistry` | the dispatch server's register and the servers' connections to it | `DispatchRegistry_proof` | `MCDispatchRegistry`, `DispatchRegistry*.cfg` |
| `LobbySession` | one player's logins at all the lobbies, and redis' records of him | `LobbySession_proof` | `MCLobbySession`, `LobbySession.cfg` |
| `LandGame` | the games at a landlord table whose chairs stay taken: deal, bids, turns, time-outs, settlement | `LandGame_proof` | `MCLandGame`, `LandGame*.cfg` |
| `Ledger` | what the accounts promise: every change of a player's worth is booked once | | |
| `PlayerAccount` | the row, the lobbies' and the game server's copies, gifts; implements `Ledger` | `PlayerAccount_proof`, `Sums_proof` | `MCPlayerAccount`, `PlayerAccount.cfg` |
| `BankerTable` | baccarat's banker, the queue for it, locked stakes, bets and rounds | `BankerTable_proof`, `Sums_proof` | `MCBankerTable`, `BankerTable.cfg` |

The definitions named `Broken...` stand beside the operator they vary; they are
the plausible slips the checks are tried on, and no specification uses them.

### LandRoom

State: `online` is `CPlayerMgr`'s table, `inRoom`, `at` and `seat` are the three
pointers that must agree (`m_pGameRoom`, `m_pGameTable`, `m_vecPlayers`),
`waiting` and `exclude` are `m_marryPlayers`, `playerNum` is `m_playerNum`,
`roomIndex` is `m_roomIndex`, `ready` and `playing` are the seat and table
states, `blocks` the lists of players to avoid, `score` where a player's score
stands against the room's limits, `status` the server's state.

Actions are the handlers (`EnterSvr`, `NetStateDown`, `BackLobby`, `EnterRoom`,
`QueueUp`, `LeaveTableReq`, `TableReady`, `ScoreChange`), the room's matching
tick (`MarryTick`, then `MarryJoin` or `MarryMalloc` per waiting player,
`MarryEnd`), a table's tick (`TableTick` with `CheckAddRobot`,
`CheckReadyTimeOut`, `OnGameStart`), the end or restart of a game
(`OnGameEnd`, `ReGameStart`), the robots' timers (`RobotBackPool`,
`RobotBackLobby`, `RobotClearBlocker`) and the server's end (`StartRetire`,
`StopServer`). The two ticks loop in the code; they are split into steps, and `pc`
makes everything else wait until they are over, so the split adds no
interleaving. The order in which the tick meets the waiting players is that of
a map keyed by pointer, so it is left open.

Left out: times (a timeout may have expired whenever the code asks),
automatic readiness (set before the one place that reads it), the net flag of a
player who is in no game (recovery at once and at the next login end alike,
`BackLobby`), lookers, private and free rooms, fees and the turns of a game.

### LandGame

State: `gameState` is the phase; `firstUser`, `bankerUser`, `curUser`,
`callScore`, `turnCards`, `turnWiner` and `handCards` are the members with these
names; `bankerCard` is `m_bankerCard` until the landlord takes it up; `plays` is
`m_outCardCount` up to 2, all that spring asks for, and `bombTimes` the factor
`m_bombCount` gives; `outCards` and `pooled` are the pile `m_outCards` as a set
and its size, kept apart because the code trusts the size; `autoState` and
`overTimes` are the seats' hosting; `waited` is `m_coolLogic`, as far as the tick
looks at it; `score` and `fees` are the coins and the fees in the game's log.
`misdealt` is history: a deal took the good cards to a chair that is none.

Actions: `OnGameStart`, the client's `UserCallScore`, `OnUserOutCard`,
`OnUserPassCard` and `PlayerSetAuto`, and the room's tick `OnTimeTick`, which
bids and plays for robots, for the hosted and for those whose time is up. A bid
ends the bidding (`BankerBegins`), starts the game again (`ReGameStart`) or passes
the turn on; a play goes on (`GoesOn`) or ends the game (`OnGameEnd`, with `Settle`).

The three controls that change a deal keep their effect: two hands change places
(`SetControlPalyerWin`, `robotBankerWinPro`, `SetStockWinLose`: any two, since
which hand counts as good is data), or the hand of a player set to lose goes
elsewhere (`GoodCardsAway`, with what lies in memory behind the hands when the
chair it should go to is none). From then on the code's hands and its pile may hold
a card twice or a blank; the model's are sets of cards and keep such a card once and
a blank not at all, so `DeckWhole`, the hands in `TurnSound` and `GameEnds` speak of
the games until `misdealt`, and the other properties of all games.
Which combinations there are and which beats which are constants, and a robot
may play whatever is legal. The tick comes every second, so one finds the turn
more than a second old before one finds its time up, and a robot's time to think
is shorter than that. The chairs stay taken, since a player that goes offline is
hosted and not put out during a game; between two games the coins are any of
`Purses`. Left out: messages to clients, logs, the stock's share (`RoomStock`),
and a game ended by force (`GER_DISMISS`, which nothing calls).

### RoomStock

State: `cfg`, `stock`, `jackpot` are `m_roomStockCfg`; `row` the row in
`room_stock_cfg`; `queue`, `dbThread`, `dbRun` are `CDBTask`; `round` what each
table was dealt; `net` the site's changes under way by lobby or by dispatch
server; `proc` how the process stands. `books` and `faulty` are history: what the
row should hold in the end, and whether a statement or a change was lost.

Actions: `Start` (load), `DealRound` (`IsStockChangeCard` through
`CheckStockChange`), `EndRound` (`UpdateStock`), `DismissRound`, `SiteChange` (the
site's own update of the row and its message; it stores only what the game
server's validity check will accept of what the path carries), `ChangeRoomStockCfg`, the thread's
`DbThreadStart`, `DbWrite`, `DbWriteFails`, `DbThreadEnd`, and the ends `StopRun`,
`DoRetire`, `Crash`. Rates are in ten-thousandths and amounts integers; the
code's `0.0001 * x * rate` truncates to the quotient of integers the model
uses, since the double 0.0001 lies just above the fraction; amounts stay far
below the 2^53 and 2^63 where that or the width of `int64` would show.

### DispatchRegistry

State: per server its process (`running`, `status`, `isRun`, `sock`) and the
connections of it the dispatch server holds (`link`: held, up, whether a
register request waits, the messages towards the server), the register `reg`,
the server table `config`, the lobbies a game server knows. `cut` is history: a
Register whose sending failed, after which `ReConnect` sets `isRun` all the same.

Actions: `Boot` (a game server gives up when the table is empty, `CFrameWork::InitializeEnvironment`),
`ReConnect` (also failing: `ReConnectFails`, `ReConnectCut`),
`Report`, `HearClose`, `Receive` (answer, new lobby, retire), `Die`, `RetireExit`,
`LoseLink`; at the dispatch server `RegisterRefused`, `RegisterGame`,
`RegisterLobby`, `DestroyObj`, `OnTimer` (heartbeat), `NotifyRetireServer`,
`DispatchRestart`. When a send inside the loop over `m_mpServers` fails, the code
erases the entry its iterator stands on; whom the rest of the loop reaches is
left open.

Left out: player counts and redis status (read by the operator's pages only),
messages relayed between lobbies, the notice of a retired lobby's removal
(its handler only logs).

### LobbySession

State, per lobby: `state`, `session`, `other`, `need`, `inGame`, `got` are a
`CPlayer` object's `m_bPlayerState`, `m_pSession`, `m_otherRecover`,
`m_needRecover`, `m_curSvrID` and `m_loadState`; `pending` the answers of the
database that are under way; `link` is the uid a client connection carries;
`words` the `msg_check_other_lobby_server` under way by the dispatch server.
`record` and `game` are what redis says (OLLOBBY, ONLINE). redis is asked in
separate commands and shared, so a deletion (`Recover`, then `DeleteRecord`)
and the game server's writing back (`GameReads`, `GameWrites`) are two steps,
with `busy` and `gread` what has been read. `lost` and `astray` are history: a word
to a lobby was lost; the record was overwritten blindly, or a crash cut a login
short.

Actions: `LoginAgain`, `LoginTakesOver`, `LoginCreates` are the three ways of
`handle_msg_login`, `LoadAnswer` and `LoadFails` the database's answers,
`Disconnect` the end of a connection, `KillPlayer` the site's order, `CheckOther`
a word's arrival, `LoseWord`, `Recover` the timer's `CheckRecoverPlayer`,
`EnterGame`, `BackLobby`, `Crash` and `Start` of a lobby.

Left out: refusals that leave nothing behind (password, black list, repair),
robots, several players on one connection. The lobby that lets go of a player
also reports his net state as 0 to the game server, which may arrive after the
new lobby's 1; that report is not modelled.

### PlayerAccount and Ledger

State: `row` is the account in MySQL; `mem`, `phase`, `cur` a lobby's copy, how far
its load is and whether the player is in a game; `asks` and `read` the load under
way; `game` the game server's copy; `toGame`, `toLobby` the messages between a
lobby and the game server, in order; `mail` gifts on their way over the dispatch
server. `owed` and `posted` (what is under way) and the books are history.

`Ledger` has a balance per player and books for the games, the site, the tax,
what could not be taken (`unpaid`) and what was lost (`dropped`). `PlayerAccount`
implements it under the mapping `worth`, which is the row and what is under way:
the copies do not count. Modelled are the handlers that load, copy and recover an account,
the site's changes, gifts, the safe box, and entering and leaving a game and
what it brings. Not modelled are the other changes of an account: bankrupt help,
missions, exchange, the rewards of a login, the price of a broadcast and what robots
store and draw. Each action maps to one booking, or to a stutter when it only moves what is booked
(a message that is applied, a copy that is made).

Whether a gift's receiver exists and may get one (VIP level) is left open. Two of
the six amounts and one game server are modelled. A request for the safe box
that meets a player who has left (`GS/msg_lobby_handle.cpp`:686) is taken as lost.
Recovery may come at any time. `toLobby` loses a change when the lobby it is for
has closed (`LoseChange`).

### BankerTable

State: `queue`, `lock`, `auto` are `m_ApplyUserArray`, `m_ApplyUserScore`,
`m_mpApplyUserInfo`; `bank` the banker with his stake and term; `bets` and `all`
`m_userJettonScore` and `m_allJettonScore`; `coin` the players' coins on the game
server, `state` the phase. History are `due` (what a player would have if nothing were
locked), `taken` (how much was taken from a player's coins while they were at
stake: a jump paid with coins that are bet, a banker's moves between two rounds) and
`below` (a bet below zero was taken this round).

Actions: the table's clock (`StartRound`, `FindBanker`, `EndRound`, `ClearTable`),
`EnterTable`, `LeaveTable`, `GoOffline`, `GoOnline`, `ApplyBanker`, `JumpQueue`,
`GiveUpBanker`, `ForceLeaveBanker`, `PlaceJetton`, `ContinuousPressure`, and
`MoveCoins`, the lobby's messages that change coins.

A client's amount is a signed number, and `PlaceJetton` refuses only 0
(`baccarat_server/src/game_imple_table.cpp`:1029), so `Jettons` may hold amounts below
zero: such a bet lowers the totals, and with them what the next bets are measured
against. `ContinuousPressure` refuses them (:1267), and robots do not bet so.

Two of eight areas stand for all, with a multiple that is an integer (the code
also has 1.5, 0.5 and half the rate for a banker's six); seats are left out, they
decide who is paid first and not what. A robot's bets that are planned but not yet placed, which keep
it at the table, are left out as well. `TakeTurns` passes over nobody
who is online, since every stake in the queue suffices (`QueueSound`); the
definition relies on it. Left out: a server's retirement, which deletes players
without asking `CanLeaveTable`, and robots sent away by `CRobotMgr`.

## 3. Runs

| Run | Instance | Shows |
|---|---|---|
| `land_room_humans` | 3 players, two at one address, 2 chairs, blockers on, up to 7 tables; 309,553 states | players that avoid each other are never ready together; tables stay bounded; nobody is forgotten; whoever waits gets a seat or leaves |
| `land_room_robots` | 2 players, 2 robots, 3 chairs, 3 tables, scores within and above, symmetric; 2,754,636 states | the inductive invariant (seats, queue, room and counter agree) and the one-or-all-humans rule while robots come and go and the tick turns players out; nobody is taken from a game |
| `land_room_rematch` (violation) | 3 players, 2 chairs, blockers on | matching again can put a player out of the room |
| `room_stock` | 2 tables, 2 rounds per life, 1 change of three kinds, 2 lives; 248,374 states | memory equals row plus what is under way; an orderly stop saves every round; the stock's floor; a controlled round keeps its jackpot; a stop that finds the thread running ends |
| `room_stock_kill_line` (violation) | the same | a change sent by way of the dispatch server zeroes the kill line |
| `dispatch_registry` | 1 game server, 1 lobby, 2 connections each, 2 faults, 1 retire order; 42,728 states | entries are live, belief of being registered is right, orders arrive, everybody gets back into the register |
| `dispatch_new_lobby` (violation) | 2 lobbies, one of them in the server table from the start | a lobby that registers in a gap is never announced, though every server boots from a table that is not empty |
| `lobby_session` | 2 lobbies, 2 connections, 2 parts of data, 3 logins or crashes; 604,000 states | sessions and connections agree; two lobbies serve the player only while a word is under way or was lost; redis does not forget him early; nothing stays stuck, and one lobby is left |
| `player_account` | 2 players, 2 lobbies, 4 requests, symmetric; 1,350,186 states | every step is one of `Ledger`; a copy says more than the row only when a change went past it, and only then is a gift or a loss not paid |
| `banker_table` | 2 players, 1 robot, stakes of 2, bets of 2 and of −1, 4 requests; 639,758 states | queue, locked stakes and bets stay sound; what is missing at stake is what was taken of it; who waits is served |
| `land_game` | 7 cards, 1 human, 2 robots, bids up to 2, a fee on what is won, two chairs whose players may be set to lose, one of them so that a hand goes behind the last chair; 358,542 states | no card is lost or doubled over many games until a deal goes behind the last chair; the turn machine is never stuck; nobody keeps the table waiting a third time; coins are kept; a game that was dealt to its chairs ends |
| `land_game_control` (violation) | the same, any player may be set to lose | the good hand goes to a chair that is not there, and its cards leave the deck |

### Bounds and why they are enough

* `LandRoom`: a table of two chairs is the smallest that can be half full; three
  players give one who is left over, one who comes back and one who is avoided, and
  two at one address are kept apart by that as well.
  The mix of humans and robots needs the landlord's three chairs. `MaxTables` is
  a bound on table ids the code does not have: `MarryTick` begins only while
  every waiting player could still be given a table. While scores are within limits
  `TablesBounded` shows the bound is never felt (7 against at most 4 in
  `land_room_humans`), so it does not weaken `WaitingServed`. With scores above the
  limit a player who queues makes the tick allocate a table each time and none is
  ever freed, so in `land_room_robots` the bound of 3 cuts the run short; that run
  checks safety only.
* `RoomStock`: `MaxRounds`, `MaxChanges`, `MaxLives` bound counters. Two tables
  are needed for one to settle between another's deal and settlement; two lives
  for a reload of the row. Amounts and rates are chosen so that every
  division truncates, the stock crosses its ceiling, and the jackpot visits
  each zone of `IsStockChangeCard`. The three requests are one
  both ways accept, one both refuse, and one with a win rate only the lobby refuses.
  One change per run keeps the run short; two were checked once (3,018,710
  states, four minutes) with the same result.
* `DispatchRegistry`: a stale connection and a new one (`MaxLinks` = 2) are what a
  refusal takes; two faults give a fault during the recovery from another. The
  register keeps servers apart except for the announcement of lobbies, so one
  of each kind is enough for everything but that; the proofs are about any
  number.

* `LobbySession`: two lobbies for a word that crosses another, two connections for
  a login that takes over. `MaxEvents` counts logins and crashes; three of them
  give a login at each lobby and one more on an object that has been told to go.
  Two parts of data: some have arrived and some not. There is no master lobby in
  the run (nobody tells a master anything, so it would take the one word of two
  lobbies away); the proofs cover it.
* `PlayerAccount`: `MaxEvents` counts requests, results and lost messages. Four
  give a gift on a copy that the site's change and a game's loss have gone past.
  The gift's tax makes it smaller than the least that is accepted. The players,
  and the lobbies, differ in nothing, so both are symmetric; no liveness is
  checked with it.
* `BankerTable`: two players and a robot give a banker, a bettor and one who waits, or
  two in the queue, one to jump over the other. A term of two rounds ends after one that
  did not end it. A bet of 2 is all a stake of 2 covers, and one of −1 makes room for
  more than that; one fee of two parts truncates. The clock is not counted, so every round runs to its end.
* `LandGame`: seven cards, two to a hand and one at the bottom, singles, a pair
  and a missile: enough for a trick that is beaten twice, for a bomb, and for a
  pass that ends a trick. One deal has a pair in a hand and a missile that the
  bottom card completes, in the other the bottom completes the pair; `Swapped` adds the
  exchanges of two hands. The players carry 3, 50 and 9 coins: with 3 the landlord's, or
  the farmer's, coins limit what passes, with 50 nothing does. The player in chair 0
  may be set to lose, and then the good hand finds a chair; so may the one in chair 1,
  and then it need not. All three were checked once, with the same result.
  No counter is bounded: the plays of a chair are counted up to 2, and the cards bound bombs and time-outs.

### Deadlock

`LandRoom`, `LandGame` and `BankerTable` never stop and are checked for it. In `RoomStock` the
bounded counters end and a stop that meets a thread which has not begun waits
for good (that is `db_task.cpp`:35 and part of the model); in `DispatchRegistry`
the bounded faults end; `LobbySession` and `PlayerAccount` stop when the requests
are used up and nothing is under way. These configurations say
`CHECK_DEADLOCK FALSE`.

### Fairness

* `LandRoom!Fairness`: the room's timer fires again and again, and a callback
  that has begun ends. `MarryTick` needs strong fairness because other
  callbacks, and the bound on tables, disable it in between. Clients owe nothing.
* `RoomStock!FairSpec`: the database thread is a thread, the system schedules it.
  Nothing obliges rounds to end or the site to act.
* `DispatchRegistry!FairSpec`: the reconnect timer, the polling of sockets by both
  reactors, and the closing of silent connections. Messages may be lost and
  processes may die, within the bound on faults; a reboot is not promised.
* `LobbySession!Fairness`: a lobby's timer fires again and again (`Recover`, and the
  deletion that follows it in the same handler), and what has arrived is handled
  (`CheckOther`). Answers of the database, clients and crashes owe nothing.
* `BankerTable!Spec`: the room ticks its tables (`OnTimeTick`). That a jump is not
  repeated for ever is due to the bound on requests, and to its price in the code.
* `LandGame!FairSpec`: the room ticks its tables every second
  (`OnTimeTick(waited + 1)`: time passes between ticks). No client owes an act, so
  that a game ends is due to the tick alone.
* `PlayerAccount` has no fairness: its properties are about single steps.

## 4. Proofs

All theorems are about the unbounded parameters: any sets of players,
robots, tables, servers, any rates and amounts, any bounds. Each proof module
follows one scheme: an invariant with one lemma per action, `Init` lemma, a step
theorem by cases on `Next`, a temporal step; then each property from the
invariant. The assumptions are the named `ASSUME`s of the modules, which TLC
evaluates on every run.

* `LandRoom_proof`: `RoomInv` is inductive: the types, `SeatsAgree`,
  `WhereAllowed`, `PlayerNumExact`, `PlayingFull` and `CallbackOK`.
  `PlayerNumExact` needs `WhereAllowed` (who is let out was in), `GameKeepsPlayers`
  needs `SeatsAgree`, and `SeatsAgree` needs `CallbackOK` to know
  that the table a tick is about is still free. `RoomCorrect`, `TypeCorrect`,
  `SeatsCorrect`, `WhereCorrect`, `PlayerNumCorrect` are its conjuncts,
  `GameKeepsCorrect` and `NobodyForgottenCorrect` are action properties from it.
  `GameInv` adds to `RoomInv` that nobody ready at a waiting
  table avoids another there, and `MixInv`: robots never queue, and a table that
  has robots has at most one human, who is missing only while a chair is empty. An
  action lets players leave, seats one whom `CanEnterTable` let in, or moves nobody;
  each of the three has one lemma. `NoAvoidedGameCorrect` and
  `OneOrAllHumansCorrect` follow for any number of chairs. `TablesBoundedCorrect`
  counts: while the table searched for the first waiting player is not found, every
  table below has somebody seated, so there are fewer of them than players. It
  assumes that nobody's score is below the room's limit, as the run does.
* `Sums_proof` has what `RoomStock_proof`, `PlayerAccount_proof` and
  `BankerTable_proof` need of `SumFunction`, which the properties
  are stated with: what a sum is after one term is added, taken away or
  changed, and so what a message or statement does to the sum over a queue, or
  over a function of queues, when it is appended or taken. The library's induction
  theorems take an operator as a parameter, which the provers cannot instantiate;
  the sums are recursive functions on the subsets of a finite set, so
  each fact is proved by taking a smallest subset it fails for, which
  well-foundedness of the strict subset ordering provides, and finding a smaller
  one. `Solvent` says that an account covers the bills of a queue paid
  in order, with a lemma each for a bill paid, one appended and one lost.
* `RoomStock_proof`: `StockInv` is type correctness, valid rates in memory and in
  the row, and `DealsKept`: what a table was dealt under a limit fits the jackpot
  of its deal. The last is what makes `ControlledRoundKeepsJackpot` provable, which
  measures a controlled round by the limit it was dealt under and by what other tables
  have taken from the jackpot since: that round leaves at least that limit less what
  they took, and a round dealt to feed the jackpot never lowers it. `StockFloorCorrect` rests on truncation (a
  share with a rate of at most 10000 never exceeds what it is taken from),
  proved as a lemma on integer division. `RatesCorrect` shows no divisor is ever
  zero, from a row that is valid when it is loaded.
  `PotsInv` is the second invariant: `StockInv`, and while nothing was lost, memory is
  the row plus the writes in the queue less what the room is still to be
  told (`Balanced`), and row and queue together hold what was booked (`BooksKept`);
  a process that is not up has nothing under way to it, and one that stopped has an
  empty queue. `Balanced` alone is not inductive: a stop leaves the memory behind, and
  a start must find nobody's change under way. `MemoryIsRowCorrect` and
  `StopSavesAllCorrect` are read off it. A change stays in balance
  because what the path carries is accepted when the site stored it: the page's
  check is the game server's, on the same fields.
* `DispatchRegistry_proof`: `RegistryInv` speaks about each server alone: the only
  connection that carries data is the one the process uses and the dispatch
  server holds; a waiting register request is on a held connection; an entry's
  connection is held; an accepting answer travels only on the entry's
  connection; a process that counts itself as registered has a socket, and when its
  connection has settled its entry is that connection; an order shown in the
  entry is obeyed or under way. The interplay of stale answers and new
  connections is why the clause about answers is needed: without it
  `RunMeansRegistered` is not inductive, since a late acceptance could set `isRun`
  for a connection that has no entry. `EntriesLiveCorrect`,
  `RunMeansRegisteredCorrect` and `RetireGivenCorrect` follow.

* `LobbySession_proof`: `SessionInv` is types, `SessionsAgree`, `OneServes`,
  `RecordKept` and `OthersTold`: once the lobby redis names has begun to play, is deleting the
  record or is down, every other lobby with an object has been told. It is what
  makes `RecordKept` inductive, since whoever deletes the record asks nobody.
* `PlayerAccount_proof`: `TypeCorrect` needs more than types in one place: a change
  that takes anything takes at least as much as it brings (`Change`), so that what
  is refused can never leave more than it found. `LedgerCorrect` is the refinement,
  `Spec => L!Spec` with `L == INSTANCE Ledger WITH worth <- ...`: one lemma per
  action, which names the booking the action maps to, on lemmas that
  say how `Worth` moves with a row, `owed` and `posted`.
  `UnderWayCountedCorrect` ties those two history variables to the messages: each
  action that sends, handles or loses one changes the sum and the count alike.
  `CopiesBehindCorrect` takes a good deal more than it says, `AccountInv`. For a
  player who is not marked: every copy, and every row a lobby has read and not yet
  been given, is within the row; the row covers what is under way to a
  lobby one change after the other, since the next one handled is the oldest and not
  their sum; it is under way to one lobby only, the one his game belongs to
  while he plays, since two queues are handled in no order; the game's copy
  is within the row and all that is owed; and where there is no object there is no
  copy. An action that would break one of these marks the player, which is what
  `MarkApart` records: a row lowered past a copy, a lobby's account that is
  out of date when it reaches the game, a change that is lost.
  `UnpaidNeedsApartCorrect` follows: whoever is charged and is not marked has a row
  that covers it.
* `BankerTable_proof`: for any stakes and any bets but 0. `BankerInv` adds to the four
  properties `RoundSound` (between rounds there are no bets, and a banker has rounds and
  a base score left). What the banker wins is a sum over the players, so this proof uses
  `Sums_proof` as well.
  `LocksPaidBack` is stated with `Held`, coins and the stake that waits, and each
  operator on the queue has a lemma which says that it leaves `Held` alone;
  `StakesBacked` rests on `BetsInv` (who has bet is at the table) and on the
  lemma that a bet for which `RoomForBet` has room is covered with the others as long
  as none of them is below zero.
* `LandGame_proof`: `PlayInv` is types, `NoThirdWait` and three parts that make them
  inductive: `BidInv` (bids go round from `firstUser`, and no two that count are
  equal, so that the landlord bid more than the others), `TurnInv` and `WaitInv`
  (who was waited for twice is hosted before his turn is a second old).
  `CoinsCorrect` follows with a lemma on settlement: what passes between the
  landlord and the farmers is never more than either carries, and fees are part
  of what is won. `DeckInv` adds the cards: from a whole deck each
  action makes a whole deck, and the one exception is the step that sets `misdealt`.
  `DeckCorrect` and `TurnCorrect` assume nothing about `Controlled`.

Every invariant and every action property the passing runs check is a theorem.
Model-checked only are the seven liveness properties: `WaitingServed`,
`Served`, `Reregisters`, `NothingStuck`, `EndsWithOne`, `GameEnds` and `StopEnds`. They
rest on fairness, and so on ENABLED, which is out of the prover's reach. The amounts
are unbounded integers in the proofs as in the models. No module the proofs use
declares a RECURSIVE operator.

## 5. Findings

1. `CGameRoom::MarryTable` (`GS/game_room.cpp`:840) turns players out whom
   `RenewFastJoinTable` promised to match again: run `land_room_rematch`.
2. The change of a room's stock record sent by way of the dispatch server does
   not carry the kill line, and the game server copies the missing field as zero
   (`GS/msg_dispatch_handle.cpp`:104): run `room_stock_kill_line`.
3. A lobby that registers between a game server's reading of the server table and
   its registration is never announced to it (`DS/server_mgr.cpp`:124): run
   `dispatch_new_lobby`.
4. `SetControlPalyerLost` computes the chair of the next player with `%` before `+`
   (`server/servers/land_robot_server/src/game_imple_table.cpp`:2761), which for chair 2
   is none, and for chair 1 when two is added: run `land_game_control`.

Seen while modelling, and not findings, since nothing in the repository says
otherwise:

* a gift that the row did not cover is given all the same
  (`LS/msg_client_handle.cpp`:411); `UnpaidNeedsApart` shows when that can be;
* a gift to a player at another lobby is lost when he has left it, or when the tax
  brings it below 100 (`LS/msg_dispatch_handle.cpp`:185-196): `dropped` in the books;
* a banker's coins may be moved between two rounds, since `IsInGamePlaying` asks only
  for the phase of the table. His stake is then more than he has, and what he loses
  beyond his coins is paid to the others by nobody. A player who waits in the queue and
  has bet may pay for a jump with coins that he has bet;
* the room left for a bet counts the bets so far with what their areas pay and the
  new one once (`baccarat_server/src/game_imple_table.cpp`:3757), so the stake covers
  the bets and not always what they may win;
* a bet below zero is taken (`baccarat_server/src/game_imple_table.cpp`:1029) and counts
  against the others, so that from then on the bets of a round may exceed the stake
  (`StakesBacked`, `below`); the same message with several bets refuses it (:1267);
* one who is banker between two rounds and gives up is not heard (:1363);
* a start fee larger than the coins is taken as far as they go, and the log and the
  host's income count the whole fee (`GS/game_table.cpp`:1600); `CoinsKept` excepts it;
* a landlord player that reconnects while the bidding goes on is sent
  `m_callScore[m_bankerUser]` with no landlord, which lies outside the array
  (`server/servers/land_robot_server/src/game_imple_table.cpp`:1523).

In parts no module covers: the host's income is added twice (`GS/game_table.cpp`:1614);
the jackpot's share is divided by a coefficient that is 0 for a room without a row
(`GS/game_room.cpp`:1727); the dispatch server reads a lobby's id from the entry it has
just erased (`DS/lobby_mgr.cpp`:119); renewing a private table charges the fee although
the balance was found too small (`GS/msg_lobby_handle.cpp`:1003); a
retiring server deletes a banker the table goes on pointing at.

## 6. Plan

Done: `LandRoom`, `RoomStock`, `DispatchRegistry`, `LobbySession`, `PlayerAccount`
with `Ledger`, `BankerTable`, `LandGame`, each with proofs.

What is left, in this order:

1. Retirement at a table with a banker and a queue (`CheckRetireTableUser`,
   `RetireUser`): a further action of `BankerTable`.
2. `LandGame` composed with `LandRoom`'s `OnGameStart` and `OnGameEnd` by refinement
   (the room's game is an atomic start and end).
3. `LobbySession` composed with `PlayerAccount`: the account takes its lobbies'
   objects as they come; the sessions say which can be there at one time.
4. Private tables, missions, and the small pure functions of the card logic as
   operators against reference definitions, as far as they are short enough.

### Not modelled

* The robot's card heuristics and the long enumerations of card logic (data
  without state), vendored libraries, center log, configuration loading and
  deployment (no protocol of their own), and the generated protobuf code, which with its
  two copies and the vendored code makes most of the repository's lines.
* Fifteen of the sixteen other games: phases on a timer, bets, payment. Those with a
  banker copy baccarat's handlers, with their own areas and rates.
* Private tables and their fees, missions, the lobby's robots, and of the link
  between lobbies and game servers everything but the messages that carry a
  player or his account.
