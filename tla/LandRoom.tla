------------------------------ MODULE LandRoom ------------------------------
(***************************************************************************)
(* One matching room of a landlord game server: CGameRoom of type COMMON   *)
(* with marry = 1 and coin consumption, its CGameLandTable tables, and the *)
(* part of CPlayerMgr and CRobotMgr that creates, recovers and removes the *)
(* players sitting in it.                                                  *)
(*                                                                         *)
(* The server is single-threaded: a handler or timer callback runs to its  *)
(* end before the next one.  The two callbacks that loop, the matching     *)
(* tick and the table tick, are split into one step per iteration or       *)
(* stage; the control variable pc makes every other action wait until they *)
(* are over, so the split adds no interleaving.                            *)
(*                                                                         *)
(* Auto-ready flags are left out: CGameLandTable::OnPlayerJoin sets the    *)
(* flag before the only place that reads it.  Times are left out: a        *)
(* timeout may have expired or not whenever the code asks.                 *)
(***************************************************************************)
EXTENDS Integers, FiniteSets

CONSTANTS
  Humans,       \* players of type PLAYER_TYPE_ONLINE
  Robots,       \* players of type PLAYER_TYPE_ROBOT
  Nobody,       \* the NULL player pointer of a seat
  IP,           \* the address of each player
  SeatNum,      \* GAME_LAND_PLAYER, the chairs of a table
  TableNum,     \* m_roomCfg.tableNum, the tables allocated by Init
  MaxTables,    \* bound on the table ids (the code has none)
  RobotCfg,     \* m_roomCfg.robot, whether the room takes robots
  AddBlockersOn,\* m_isaddblockers, whether a game makes its players avoid each other
  ScoreClasses  \* where a score may stand against the room's limits

ASSUME SeatNumAssumption   == SeatNum \in Nat \ {0}
ASSUME TableNumAssumption  == TableNum \in Nat /\ MaxTables \in Nat /\ TableNum <= MaxTables
ASSUME PlayersAssumption   == IsFiniteSet(Humans) /\ IsFiniteSet(Robots) /\ Humans \cap Robots = {}
ASSUME NobodyAssumption    == Nobody \notin Humans \cup Robots
ASSUME SwitchAssumption    == RobotCfg \in BOOLEAN /\ AddBlockersOn \in BOOLEAN
ASSUME ScoreAssumption     == "within" \in ScoreClasses /\ ScoreClasses \subseteq {"below", "within", "above"}

Players  == Humans \cup Robots
Seats    == 1..SeatNum
TableIds == 1..MaxTables
NoTable  == 0       \* the NULL table pointer, and "exclude no table"

VARIABLES
  status,     \* CApplication's server state: "normal", "retire" or "repair"
  online,     \* players registered in CPlayerMgr
  inRoom,     \* players whose m_pGameRoom is this room
  playerNum,  \* m_playerNum of the room
  at,         \* m_pGameTable of each player
  roomIndex,  \* m_roomIndex: tables 1..roomIndex exist
  seat,       \* m_vecPlayers[c].pPlayer of each table
  ready,      \* players whose seat has readyState 1
  playing,    \* tables whose state is not TABLE_STATE_FREE
  waiting,    \* keys of m_marryPlayers
  exclude,    \* values of m_marryPlayers: the table not to go back to
  fresh,      \* the local pTable of MarryTable: the table its loop allocated
  blocks,     \* m_blocks of each player
  score,      \* where GetPlayerCurScore stands against EnterMin and EnterMax
  pc, cur     \* the callback being executed, and the table it is about

vars == <<status, online, inRoom, playerNum, at, roomIndex, seat, ready, playing,
          waiting, exclude, fresh, blocks, score, pc, cur>>

-----------------------------------------------------------------------------
(* What the guards of the code read.                                       *)

Sitting(t)  == {p \in Players : \E c \in Seats : seat[t][c] = p}
IsFullTable(t)        == \A c \in Seats : seat[t][c] # Nobody
GetOnlinePlayerNum(t) == Cardinality(Sitting(t) \cap Humans)
GetChairPlayerNum(t)  == Cardinality(Sitting(t))
GetReadyNum(t)        == Cardinality(Sitting(t) \cap ready)
IsAllReady(t) == \A c \in Seats : seat[t][c] # Nobody /\ seat[t][c] \in ready
Free(t)     == t \notin playing
IsFirstFree(t, c) == seat[t][c] = Nobody /\ \A d \in 1..(c-1) : seat[t][d] # Nobody

IsExistIP(p, t) == \E q \in Sitting(t) : IP[q] = IP[p]

\* q avoids p: by its identity, or by the address of somebody q avoids.
Avoids(q, p) == \/ p \in blocks[q]
                \/ \E b \in blocks[q] : IP[b] = IP[p] /\ IP[b] # IP[q]
Blocked(p, q) == Avoids(q, p) \/ Avoids(p, q)
BrokenNoBlockCheck(p, t) == FALSE
IsExistBlock(p, t) == \E q \in Sitting(t) \ {p} : Blocked(p, q)

BrokenAnyMix(p, t) == TRUE

\* A table holds one human with robots, or humans only.
MixAllowed(p, t) ==
  IF p \in Humans
  THEN GetOnlinePlayerNum(t) = GetChairPlayerNum(t) \/ GetOnlinePlayerNum(t) = 0
  ELSE \/ GetOnlinePlayerNum(t) = 1
       \/ GetOnlinePlayerNum(t) = 0 /\ GetChairPlayerNum(t) < 2

CanEnterTable(p, t) ==
  /\ ~IsExistIP(p, t)
  /\ MixAllowed(p, t)
  /\ ~IsExistBlock(p, t)
  /\ at[p] = NoTable
  /\ ~IsFullTable(t) /\ Free(t)
  /\ score[p] # "below"

CanEnterRoom(p) == score[p] = "within"

BrokenLeavesGame(p) == TRUE

\* A human may leave a table that is free; a robot may be held there longer.
CanBackLobby(p) == at[p] # NoTable => Free(at[p])

\* CompareTableMarry: t is served before u.
Before(t, u) ==
  IF GetReadyNum(t) # GetReadyNum(u) THEN GetReadyNum(t) > GetReadyNum(u)
  ELSE IF GetChairPlayerNum(t) # GetChairPlayerNum(u) THEN GetChairPlayerNum(t) > GetChairPlayerNum(u)
  ELSE t < u

BrokenSkipsEmptyTables(p) ==
  {t \in 1..roomIndex : t # exclude[p] /\ CanEnterTable(p, t) /\ Sitting(t) # {}}
ReadyTables(p) == {t \in 1..roomIndex : t # exclude[p] /\ CanEnterTable(p, t)}
BestTables(p)  == {t \in ReadyTables(p) : \A u \in ReadyTables(p) \ {t} : Before(t, u)}

-----------------------------------------------------------------------------
(* What the calls made by the handlers do.                                 *)

\* The operators named Broken... are seeded bugs; nothing uses them but the
\* tests of the properties.
BrokenKeepsSeat(S) ==
  /\ at' = [p \in Players |-> IF p \in S THEN NoTable ELSE at[p]]
  /\ UNCHANGED seat /\ ready' = ready \ S

\* CGameTable::LeaveTable by every player of S.
LeaveTable(S) ==
  /\ at' = [p \in Players |-> IF p \in S THEN NoTable ELSE at[p]]
  /\ seat' = [t \in TableIds |-> [c \in Seats |-> IF seat[t][c] \in S THEN Nobody ELSE seat[t][c]]]
  /\ ready' = ready \ S

\* CGameRoom::LeaveRoom by every player of S, once they have no table.
LeaveRoom(S) ==
  /\ inRoom' = inRoom \ S
  /\ playerNum' = playerNum - Cardinality(S \cap inRoom)
  /\ waiting' = waiting \ S
  /\ exclude' = [p \in Players |-> IF p \in S THEN NoTable ELSE exclude[p]]

\* CGameRoom::JoinMarry by the players of S, who are to avoid table t.
JoinMarry(S, t) ==
  /\ waiting' = waiting \cup S
  /\ exclude' = [p \in Players |-> IF p \in S \ waiting THEN t ELSE exclude[p]]

LeaveMarry(p) ==
  /\ waiting' = waiting \ {p}
  /\ exclude' = [exclude EXCEPT ![p] = NoTable]

\* OnLoginOut, RemovePlayer and delete, for every player of S.
LoginOut(S) ==
  /\ LeaveTable(S)
  /\ LeaveRoom(S)
  /\ online' = online \ S
  /\ blocks' = [p \in Players |-> IF p \in S \cap Robots THEN {} ELSE blocks[p]]

SitDown(p, t) ==
  /\ at' = [at EXCEPT ![p] = t]
  /\ \E c \in Seats : IsFirstFree(t, c) /\ seat' = [seat EXCEPT ![t][c] = p]

StayInRoom == UNCHANGED <<inRoom, playerNum>>
StayAtTable == UNCHANGED <<at, seat, ready>>
StayInQueue == UNCHANGED <<waiting, exclude>>

Idle == pc = "idle"
Return == pc' = "idle" /\ cur' = NoTable

-----------------------------------------------------------------------------
Init ==
  /\ status = "normal"
  /\ online = {} /\ inRoom = {} /\ playerNum = 0
  /\ at = [p \in Players |-> NoTable]
  /\ roomIndex = TableNum
  /\ seat = [t \in TableIds |-> [c \in Seats |-> Nobody]]
  /\ ready = {} /\ playing = {}
  /\ waiting = {} /\ exclude = [p \in Players |-> NoTable] /\ fresh = NoTable
  /\ blocks = [p \in Players |-> {}]
  /\ score = [p \in Players |-> "within"]
  /\ pc = "idle" /\ cur = NoTable

(* handle_msg_enter_svr: a new player or robot brings its score along, a   *)
(* player that is still here (ReLogin) does not.                           *)
EnterSvr(p) ==
  /\ Idle
  /\ online' = online \cup {p}
  /\ IF p \in online THEN UNCHANGED score
     ELSE \E s \in ScoreClasses : score' = [score EXCEPT ![p] = s]
  /\ StayInRoom /\ StayAtTable /\ StayInQueue
  /\ UNCHANGED <<status, roomIndex, playing, fresh, blocks, pc, cur>>

(* handle_msg_notify_net_state with state 0: CGamePlayer::SetNetState. *)
NetStateDown(p) ==
  /\ Idle /\ p \in online
  /\ IF at[p] # NoTable /\ Free(at[p])
     THEN LeaveTable({p}) /\ LeaveRoom({p})
     ELSE StayAtTable /\ StayInRoom /\ StayInQueue
  /\ UNCHANGED <<status, online, roomIndex, playing, fresh, blocks, score, pc, cur>>

(* handle_msg_back_lobby, handle_msg_goto_svr, and CheckRecoverPlayer on a  *)
(* player that is disconnected, or here when the server is being repaired.  *)
BackLobby(p) ==
  /\ Idle /\ p \in online /\ CanBackLobby(p)
  /\ LoginOut({p})
  /\ UNCHANGED <<status, roomIndex, playing, fresh, score, pc, cur>>

(* handle_msg_enter_room. *)
EnterRoom(p) ==
  /\ Idle /\ p \in online \ inRoom /\ CanEnterRoom(p)
  /\ inRoom' = inRoom \cup {p}
  /\ playerNum' = playerNum + 1
  /\ StayAtTable /\ StayInQueue
  /\ UNCHANGED <<status, online, roomIndex, playing, fresh, blocks, score, pc, cur>>

(* handle_msg_enter_table for another table than the player's own, and     *)
(* handle_msg_fast_join_table: leave the table if there is one, and queue. *)
(* CGameRoom::FastJoinTable excludes the table just left; EnterTable does  *)
(* not.                                                                    *)
QueueUp(p, avoid) ==
  /\ Idle /\ p \in inRoom
  /\ at[p] # NoTable => Free(at[p])
  /\ avoid \in {NoTable, at[p]}
  /\ LeaveTable({p})
  /\ JoinMarry({p}, avoid)
  /\ StayInRoom
  /\ UNCHANGED <<status, online, roomIndex, playing, fresh, blocks, score, pc, cur>>

(* handle_msg_leave_table_req: the table and, in a COMMON room, the room. *)
LeaveTableReq(p) ==
  /\ Idle /\ p \in online
  /\ at[p] # NoTable /\ Free(at[p])
  /\ LeaveTable({p}) /\ LeaveRoom({p})
  /\ UNCHANGED <<status, online, roomIndex, playing, fresh, blocks, score, pc, cur>>

(* CGameTable::PlayerReady for a seated human. *)
PlayerReady(p) ==
  \/ /\ score[p] # "within"
     /\ LeaveTable({p}) /\ LeaveRoom({p})
  \/ /\ score[p] = "within" /\ IsExistBlock(p, at[p])     \* RenewFastJoinTable
     /\ LeaveTable({p}) /\ JoinMarry({p}, at[p]) /\ StayInRoom
  \/ /\ score[p] = "within" /\ ~IsExistBlock(p, at[p])
     /\ ready' = ready \cup {p}
     /\ UNCHANGED <<at, seat>> /\ StayInRoom /\ StayInQueue

(* handle_msg_table_ready. *)
TableReady(p) ==
  /\ Idle /\ p \in online /\ status # "repair"
  /\ at[p] # NoTable /\ Free(at[p])
  /\ PlayerReady(p)
  /\ UNCHANGED <<status, online, roomIndex, playing, fresh, blocks, score, pc, cur>>

(* A balance changed by the lobby while the player is here. *)
ScoreChange(p) ==
  /\ Idle /\ p \in online
  /\ \E s \in ScoreClasses : score' = [score EXCEPT ![p] = s]
  /\ StayInRoom /\ StayAtTable /\ StayInQueue
  /\ UNCHANGED <<status, online, roomIndex, playing, fresh, blocks, pc, cur>>

-----------------------------------------------------------------------------
(* CGameRoom::MarryTable, once a second: serve every waiting player.       *)

\* What CGameTable::EnterTable does with a player that may enter, who is
\* made ready at once.  PlayerReady still sends a player away whose score is
\* above the limits; CanEnterTable has checked the avoided players already.
EnterTable(p, t) ==
  \/ /\ score[p] = "above"
     /\ LeaveTable({p}) /\ LeaveRoom({p})
  \/ /\ score[p] # "above"
     /\ SitDown(p, t) /\ ready' = ready \cup {p}
     /\ StayInRoom /\ LeaveMarry(p)

MarryTick ==
  /\ Idle /\ waiting # {}
  /\ roomIndex + Cardinality(waiting) <= MaxTables     \* bound
  /\ pc' = "marry" /\ fresh' = NoTable
  /\ StayInRoom /\ StayAtTable /\ StayInQueue
  /\ UNCHANGED <<status, online, roomIndex, playing, blocks, score, cur>>

\* JoinNoFullTable finds a table for p.
MarryJoin(p) ==
  /\ pc = "marry" /\ p \in waiting /\ ReadyTables(p) # {}
  /\ \E t \in BestTables(p) : EnterTable(p, t)
  /\ UNCHANGED <<status, online, roomIndex, playing, fresh, blocks, score, pc, cur>>

\* None has room: p goes to the table this loop allocated last, or to a new one.
NextFresh == IF fresh = NoTable \/ IsFullTable(fresh) THEN roomIndex + 1 ELSE fresh
BrokenForgets(p) ==
  /\ pc = "marry" /\ p \in waiting /\ ReadyTables(p) = {}
  /\ fresh' = NextFresh
  /\ roomIndex' = IF NextFresh > roomIndex THEN NextFresh ELSE roomIndex
  /\ IF CanEnterTable(p, NextFresh)
     THEN EnterTable(p, NextFresh)
     ELSE LeaveMarry(p) /\ StayInRoom /\ StayAtTable
  /\ UNCHANGED <<status, online, playing, blocks, score, pc, cur>>

BrokenWaitsForTable(p) ==
  /\ pc = "marry" /\ p \in waiting /\ ReadyTables(p) = {}
  /\ Return
  /\ StayInQueue /\ StayInRoom /\ StayAtTable
  /\ UNCHANGED <<status, online, roomIndex, playing, fresh, blocks, score>>

MarryMalloc(p) ==
  /\ pc = "marry" /\ p \in waiting /\ ReadyTables(p) = {}
  /\ fresh' = NextFresh
  /\ roomIndex' = IF NextFresh > roomIndex THEN NextFresh ELSE roomIndex
  /\ IF CanEnterTable(p, NextFresh)
     THEN EnterTable(p, NextFresh)
     ELSE LeaveRoom({p}) /\ StayAtTable
  /\ UNCHANGED <<status, online, playing, blocks, score, pc, cur>>

MarryEnd ==
  /\ pc = "marry" /\ waiting = {}
  /\ Return /\ fresh' = NoTable
  /\ StayInRoom /\ StayAtTable /\ StayInQueue
  /\ UNCHANGED <<status, online, roomIndex, playing, blocks, score>>

-----------------------------------------------------------------------------
(* CGameLandTable::OnTimeTick of a free table: robots, expired players,    *)
(* then the game if everybody is ready.                                    *)

\* A robot that CheckAddRobot leaves alone and passes over.
Settled(r, t) == r \in ready /\ blocks[r] \cap Sitting(t) = {}

RobotTurn(r, t) ==
  /\ \E c \in Seats : /\ seat[t][c] = r
                      /\ \A d \in 1..(c-1) : seat[t][d] \in Robots => Settled(seat[t][d], t)
  /\ \/ /\ \/ blocks[r] \cap Sitting(t) # {}                 \* RenewFastJoinTable
           \/ r \in ready                                    \* waited too long
           \/ score[r] = "within" /\ IsExistBlock(r, t)
        /\ LeaveTable({r}) /\ StayInRoom /\ StayInQueue
     \/ /\ blocks[r] \cap Sitting(t) = {} /\ r \notin ready
        /\ \/ /\ score[r] # "within"
              /\ LeaveTable({r}) /\ LeaveRoom({r})
           \/ /\ score[r] = "within" /\ ~IsExistBlock(r, t)
              /\ ready' = ready \cup {r}
              /\ UNCHANGED <<at, seat>> /\ StayInRoom /\ StayInQueue

\* CRobotMgr::RequestOneRobot.
RobotJoin(r, t) ==
  /\ status = "normal"
  /\ GetChairPlayerNum(t) \in 1..(SeatNum-1) /\ GetOnlinePlayerNum(t) > 0
  /\ r \in online \ inRoom /\ at[r] = NoTable
  /\ CanEnterRoom(r) /\ CanEnterTable(r, t)
  /\ inRoom' = inRoom \cup {r} /\ playerNum' = playerNum + 1
  /\ SitDown(r, t) /\ ready' = ready \cup {r}
  /\ StayInQueue

CheckAddRobot(t) ==
  \/ StayInRoom /\ StayAtTable /\ StayInQueue         \* none, or still cooling
  \/ RobotCfg /\ \E r \in Robots : RobotTurn(r, t)
  \/ /\ RobotCfg /\ \A r \in Sitting(t) \cap Robots : Settled(r, t)
     /\ \E r \in Robots : RobotJoin(r, t)

TableTick(t) ==
  /\ Idle /\ t \in 1..roomIndex /\ Free(t)
  /\ CheckAddRobot(t)
  /\ pc' = "timeout" /\ cur' = t
  /\ UNCHANGED <<status, online, roomIndex, playing, fresh, blocks, score>>

CheckReadyTimeOut ==
  /\ pc = "timeout"
  /\ \E S \in SUBSET (Sitting(cur) \cap ready) :
       LeaveTable(S) /\ JoinMarry(S \cap Humans, cur)
  /\ pc' = "start" /\ StayInRoom
  /\ UNCHANGED <<status, online, roomIndex, playing, fresh, blocks, score, cur>>

OnGameStart ==
  /\ pc = "start"
  /\ playing' = IF IsAllReady(cur) THEN playing \cup {cur} ELSE playing
  /\ Return
  /\ StayInRoom /\ StayAtTable /\ StayInQueue
  /\ UNCHANGED <<status, online, roomIndex, fresh, blocks, score>>

-----------------------------------------------------------------------------
(* A game: nobody calls and it is dealt again, or it ends.                 *)

ReGameStart(t) ==
  /\ Idle /\ t \in playing
  /\ ready' = ready \ Sitting(t)
  /\ UNCHANGED <<at, seat>> /\ StayInRoom /\ StayInQueue
  /\ UNCHANGED <<status, online, roomIndex, playing, fresh, blocks, score, pc, cur>>

\* m_blocks of each player after AddBlockers.
BlocksAfter(t) ==
  [p \in Players |-> IF AddBlockersOn /\ p \in Sitting(t) THEN Sitting(t) \ {p} ELSE blocks[p]]

\* OnGameEnd: a retired server sends the table's players back to the lobby.
OnGameEnd(t) ==
  /\ Idle /\ t \in playing
  /\ playing' = playing \ {t}
  /\ \E s \in [Sitting(t) -> ScoreClasses] :
       score' = [p \in Players |-> IF p \in Sitting(t) THEN s[p] ELSE score[p]]
  /\ IF status = "retire"
     THEN /\ LeaveTable(Sitting(t)) /\ LeaveRoom(Sitting(t))
          /\ online' = online \ Sitting(t)
          /\ blocks' = [p \in Players |-> IF p \in Sitting(t) \cap Robots THEN {} ELSE BlocksAfter(t)[p]]
     ELSE /\ ready' = ready \ Sitting(t)
          /\ blocks' = BlocksAfter(t)
          /\ UNCHANGED <<at, seat, online>> /\ StayInRoom /\ StayInQueue
  /\ UNCHANGED <<status, roomIndex, fresh, pc, cur>>

-----------------------------------------------------------------------------
(* Robots, and the server's own state.                                     *)

\* CRobotMgr::CheckRobotBackPool: the robot's time is up, or it has no table.
RobotBackPool(r) ==
  /\ Idle /\ r \in online \cap inRoom /\ r \notin waiting
  /\ CanBackLobby(r)
  /\ LeaveTable({r}) /\ LeaveRoom({r})
  /\ UNCHANGED <<status, online, roomIndex, playing, fresh, blocks, score, pc, cur>>

\* CRobotMgr::CheckRobotBackLobby and RemoveRobot.
RobotBackLobby(r) ==
  /\ Idle /\ r \in online /\ at[r] = NoTable
  /\ LoginOut({r})
  /\ UNCHANGED <<status, roomIndex, playing, fresh, score, pc, cur>>

\* CGameRobot::OnTimeTick, every five minutes.
RobotClearBlocker(r) ==
  /\ Idle /\ r \in online
  /\ blocks' = [blocks EXCEPT ![r] = {}]
  /\ StayInRoom /\ StayAtTable /\ StayInQueue
  /\ UNCHANGED <<status, online, roomIndex, playing, fresh, score, pc, cur>>

\* handle_msg_retire_gamesvr and StartRetire: the players of free tables and
\* the robots without a table go back to the lobby.
StartRetire ==
  /\ Idle
  /\ status' = "retire"
  /\ LoginOut({p \in online : \/ at[p] # NoTable /\ Free(at[p])
                              \/ at[p] = NoTable /\ p \in Robots})
  /\ UNCHANGED <<roomIndex, playing, fresh, score, pc, cur>>

\* handle_msg_notify_stop_server.
StopServer ==
  /\ Idle
  /\ status' = "repair"
  /\ StayInRoom /\ StayAtTable /\ StayInQueue
  /\ UNCHANGED <<online, roomIndex, playing, fresh, blocks, score, pc, cur>>

-----------------------------------------------------------------------------
HumanStep(p) ==
  \/ EnterSvr(p) \/ NetStateDown(p) \/ BackLobby(p)
  \/ EnterRoom(p) \/ (\E t \in TableIds \cup {NoTable} : QueueUp(p, t))
  \/ LeaveTableReq(p) \/ TableReady(p)

RobotStep(r) ==
  EnterSvr(r) \/ RobotBackPool(r) \/ RobotBackLobby(r) \/ RobotClearBlocker(r)

MarryStep == (\E p \in Players : MarryJoin(p) \/ MarryMalloc(p)) \/ MarryEnd
TickStep  == CheckReadyTimeOut \/ OnGameStart

Next ==
  \/ \E p \in Humans : HumanStep(p)
  \/ \E r \in Robots : RobotStep(r)
  \/ \E p \in Players : ScoreChange(p)
  \/ MarryTick \/ MarryStep
  \/ \E t \in TableIds : TableTick(t) \/ ReGameStart(t) \/ OnGameEnd(t)
  \/ TickStep
  \/ StartRetire \/ StopServer

Spec == Init /\ [][Next]_vars
-----------------------------------------------------------------------------
(* Properties.                                                             *)

TypeOK ==
  /\ status \in {"normal", "retire", "repair"}
  /\ online \subseteq Players /\ inRoom \subseteq online
  /\ playerNum \in Int
  /\ at \in [Players -> TableIds \cup {NoTable}]
  /\ roomIndex \in 0..MaxTables
  /\ seat \in [TableIds -> [Seats -> Players \cup {Nobody}]]
  /\ ready \subseteq Players
  /\ playing \subseteq TableIds
  /\ waiting \subseteq Players
  /\ exclude \in [Players -> TableIds \cup {NoTable}]
  /\ fresh \in 0..roomIndex
  /\ blocks \in [Players -> SUBSET Players]
  /\ score \in [Players -> ScoreClasses]
  /\ pc \in {"idle", "marry", "timeout", "start"}
  /\ cur \in TableIds \cup {NoTable}

\* A player's table pointer and the seats agree: whoever points to a table sits
\* on exactly one of its chairs, and a chair's occupant points back.  A chair
\* left behind would dangle once the player object is deleted.
SeatsAgree ==
  /\ \A t \in TableIds, c \in Seats : seat[t][c] # Nobody => at[seat[t][c]] = t
  /\ \A p \in Players : at[p] # NoTable => p \in Sitting(at[p])
  /\ \A t \in TableIds, c, d \in Seats :
        seat[t][c] = seat[t][d] /\ seat[t][c] # Nobody => c = d

\* A player is seated or queued only while in the room, never both, and ready
\* only on a chair: m_marryPlayers and the seats never hold a player that
\* CPlayerMgr has deleted.
WhereAllowed ==
  /\ \A p \in Players : at[p] # NoTable => p \in inRoom
  /\ waiting \subseteq inRoom
  /\ \A p \in waiting : at[p] = NoTable
  /\ \A p \in ready : at[p] # NoTable

\* The counter shown to clients and used to place robots is the number of
\* players in the room, whatever path they left by.
PlayerNumExact == playerNum = Cardinality(inRoom)

\* A game is played by a full table: EnterTable, LeaveTable, retirement,
\* recovery and robots leave the chairs of a running game alone.
PlayingFull == \A t \in playing : IsFullTable(t)

\* "A table is limited to 1 or 3 players": a game has one human among robots, or
\* only humans, although humans and robots come and go while the table is free.
OneOrAllHumans ==
  \A t \in playing : GetOnlinePlayerNum(t) \in {1, SeatNum}

\* A callback in progress: the table tick is about a free table, and the matching
\* loop never asks for a table beyond the bound on table ids.
CallbackOK ==
  /\ pc \in {"timeout", "start"} => cur \in TableIds \ playing
  /\ pc = "marry" => roomIndex + Cardinality(waiting) <= MaxTables

\* The inductive invariant.
RoomInv ==
  /\ TypeOK /\ SeatsAgree /\ WhereAllowed
  /\ PlayerNumExact /\ PlayingFull /\ CallbackOK

\* Players that avoid each other are not ready at the same table, so the next
\* game of a table never brings back two players of its last one.
NoAvoidedGame ==
  \A t \in TableIds : Free(t) =>
    \A p \in Sitting(t) \cap ready : \A q \in Sitting(t) \ {p} :
      q \notin blocks[p] /\ p \notin blocks[q]

\* The matching loop, and everything else, takes a player out of the queue only
\* by seating it or by letting it out of the room: a player in the room that
\* asked for a table is never forgotten.
NobodyForgotten ==
  [][\A p \in waiting \ waiting' : at'[p] # NoTable \/ p \notin inRoom']_vars

\* Nobody is taken from a running game: a player whose table is playing keeps it
\* until the step in which the game ends.
GameKeepsPlayers ==
  [][\A p \in Players : at[p] \in playing /\ at'[p] # at[p] => at[p] \notin playing']_vars

\* Matching seats a player it re-queued ("match again"), unless the player's
\* score has left the room's limits: it does not turn the player out.
RematchKeepsRoom ==
  [][pc = "marry" => \A p \in inRoom \ inRoom' : score[p] # "within"]_vars

\* Matching allocates a table only when it needs one: while scores stay within
\* the room's limits there are never more tables than players, plus the one a
\* re-queued player avoids, although no table is ever freed.
TablesBounded ==
  roomIndex <= TableNum \/ roomIndex <= Cardinality(Players) + 1

-----------------------------------------------------------------------------
(* Fairness: a callback that has begun runs to its end, and the room's      *)
(* timer goes on firing the matching tick between the other callbacks.      *)
Fairness == SF_vars(MarryTick) /\ WF_vars(MarryStep) /\ WF_vars(TickStep)
FairSpec == Spec /\ Fairness

\* Whoever queues for a table gets one, or leaves the room.
WaitingServed == \A p \in Players : (p \in waiting) ~> (p \notin waiting)
=============================================================================
