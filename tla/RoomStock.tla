------------------------------ MODULE RoomStock ------------------------------
(***************************************************************************)
(* The two pots of a game room and their row in the configuration          *)
(* database.                                                               *)
(*                                                                         *)
(* CGameRoom keeps the stock (what the house has won) and the jackpot      *)
(* (what it may hand back) of a room in m_roomStockCfg, loaded once from   *)
(* room_stock_cfg.  When a table deals, IsStockChangeCard looks at the     *)
(* jackpot and may ask the table for cards that lose (kill) or that win    *)
(* at most a limit; when the round ends, UpdateStock books the result in   *)
(* memory and queues the same delta for the database thread (CDBTask).     *)
(* The web site changes the row and the room's copy while rounds run.      *)
(*                                                                         *)
(* The tables of a room share the pots: between the deal of one table and  *)
(* its settlement other tables deal and settle, the site's messages        *)
(* arrive, and the process may stop, retire or crash.                      *)
(***************************************************************************)
EXTENDS Integers, Sequences, Functions, FiniteSets

CONSTANTS
    Tables,      \* the tables of the room
    Scores,      \* what the human players of a round may win together
    Fees,        \* what the room may charge them for it
    Row0,        \* the room's row when the system is first started
    Requests,    \* the changes the site may ask for
    Paths,       \* the servers it asks: the lobby, the dispatch server
    MaxRounds,   \* bound: rounds dealt in the life of a process
    MaxChanges,  \* bound: changes the site asks for
    MaxLives     \* bound: times the process is started

PRO_DENO == 10000    \* PRO_DENO_10000, the denominator of every rate

Rate == 0 .. PRO_DENO

Cfg == [stockMax : Int, conversion : Int, jackpotMin : Int, maxRate : Int,
        rate : Int, coefficient : Int, extract : Int, killLine : Int, winRate : Int]

\* The tests ChangeRoomStockCfg makes before it takes a configuration over.
ValidCfg(c) ==
    /\ {c.conversion, c.maxRate, c.rate, c.extract, c.winRate} \subseteq Rate
    /\ c.jackpotMin >= 1
    /\ c.coefficient >= 1

Delta == [stock : Int, jackpot : Int]
Row   == [cfg : Cfg, stock : Int, jackpot : Int]

\* The site refuses to store what the game server would refuse, so a row that
\* LoadRoomStockCfg reads, and never tests, is a valid one.
ASSUME RowAssumption ==
    /\ Row0 \in Row /\ ValidCfg(Row0.cfg)
    /\ Requests \subseteq Row

ASSUME RoundAssumption ==
    /\ Scores \subseteq Int
    /\ Fees \subseteq Nat
    /\ Paths \subseteq {"lobby", "dispatch"}
    /\ {MaxRounds, MaxChanges, MaxLives} \subseteq Nat

VARIABLES
    cfg,         \* m_roomStockCfg: the rates and lines
    stock,       \* m_roomStockCfg.stock
    jackpot,     \* m_roomStockCfg.jackpot
    round,       \* what each table has been dealt, NoRound between rounds
    row,         \* the row of room_stock_cfg
    queue,       \* CDBTask::m_QueueReq
    dbThread,    \* whether CDBTask::run has begun
    dbRun,       \* CDBTask::m_bRun
    proc,        \* the game server: "up", "stopping", "stopped", "retired", "crashed"
    net,         \* changes on their way to the game server, by path
    books,       \* what the row holds once every round and change is in it
    faulty,      \* a write, or a change, has been lost in this life
    rounds, changes, lives   \* bounded counters

pots  == <<cfg, stock, jackpot>>
db    == <<queue, dbThread, dbRun>>
site  == <<row, net, changes>>
vars  == <<cfg, stock, jackpot, round, row, queue, dbThread, dbRun, proc, net,
           books, faulty, rounds, changes, lives>>

-----------------------------------------------------------------------------
(* The arithmetic of the pots.                                             *)

Distance(a, b) == IF a < b THEN b - a ELSE a - b

\* x * rate / 10000 of a sum that is not negative, truncated.
Share(x, rate) == (x * rate) \div PRO_DENO

Clamp(r) == IF r < 0 THEN 0 ELSE IF r > PRO_DENO THEN PRO_DENO ELSE r

\* RandGen::RandRatio: never at 0, always at 10000, either in between.
Draw(r) == {b \in BOOLEAN : (b => r > 0) /\ (~b => r < PRO_DENO)}

Kill == -1

\* CGameRoom::IsStockChangeCard for a table where humans and robots both bet:
\* 0 for no control, Kill, or the most the humans may win.
StockChange ==
    LET sub == Distance(jackpot, cfg.jackpotMin)
        off == (PRO_DENO * sub) \div cfg.coefficient
    IN  IF jackpot < cfg.killLine
        THEN IF jackpot < 0
             THEN {Kill}
             ELSE {IF win THEN 0 ELSE Kill : win \in Draw(Clamp(cfg.winRate - off))}
        ELSE IF jackpot < cfg.jackpotMin
             THEN {0}
             ELSE {IF hit THEN Share(sub, cfg.maxRate) ELSE 0 :
                       hit \in Draw(Clamp(cfg.rate + off))}

\* The operators named Broken... are seeded bugs; nothing uses them but the
\* tests of the properties.
BrokenChecksSign(change, w) ==
    \/ change = Kill /\ w < 1
    \/ change > 0 /\ w > 0

\* CGameTable::CheckStockChange: do cards that let the humans win w obey the
\* change the room asked for?
CheckStockChange(change, w) ==
    \/ change = Kill /\ w < 1
    \/ change > 0 /\ w \in 0 .. change

BrokenConvertsAll(w) ==
    LET taken == IF w < 0 THEN Share(-w, cfg.extract) ELSE -w
        kept  == IF w < 0 THEN -w - taken ELSE 0
        moved == IF stock + kept > cfg.stockMax THEN Share(stock + kept, cfg.conversion) ELSE 0
    IN  [stock |-> kept - moved, jackpot |-> taken + moved]

\* What UpdateStock books for a round the humans won (w > 0) or lost (w < 0).
Booking(w) ==
    LET taken   == IF w < 0 THEN Share(-w, cfg.extract) ELSE -w
        kept    == IF w < 0 THEN -w - taken ELSE 0
        surplus == stock + kept - cfg.stockMax
        moved   == IF surplus > 0 THEN Share(surplus, cfg.conversion) ELSE 0
    IN  [stock |-> kept - moved, jackpot |-> taken + moved]

Nothing == [stock |-> 0, jackpot |-> 0]

NoRound == [phase |-> "none"]

-----------------------------------------------------------------------------
(* The process: start, database thread, the three ways down.               *)

LoadRow ==
    /\ cfg' = row.cfg
    /\ stock' = row.stock
    /\ jackpot' = row.jackpot

Init ==
    /\ row = Row0
    /\ cfg = Row0.cfg /\ stock = Row0.stock /\ jackpot = Row0.jackpot
    /\ round = [t \in Tables |-> NoRound]
    /\ queue = <<>> /\ dbThread = FALSE /\ dbRun = FALSE
    /\ proc = "up"
    /\ net = [p \in Paths |-> <<>>]
    /\ books = Row0.stock + Row0.jackpot
    /\ faulty = FALSE
    /\ rounds = 0 /\ changes = 0 /\ lives = 1

\* A new process: CGameRoomMgr loads the row, StartAsyncDB creates the thread,
\* which has not run yet.
Start ==
    /\ proc \in {"stopped", "retired", "crashed"}
    /\ lives < MaxLives
    /\ LoadRow
    /\ proc' = "up"
    /\ queue' = <<>> /\ dbThread' = FALSE /\ dbRun' = FALSE
    /\ books' = row.stock + row.jackpot
    /\ faulty' = FALSE
    /\ rounds' = 0
    /\ lives' = lives + 1
    /\ UNCHANGED <<round, site>>

BrokenRunsAgain ==
    /\ proc \in {"up", "stopping"}
    /\ dbThread' = TRUE
    /\ dbRun' = TRUE
    /\ UNCHANGED <<pots, round, site, queue, proc, books, faulty, rounds, lives>>

\* CDBTask::run sets m_bRun as its first step, whatever happened before.
DbThreadStart ==
    /\ proc \in {"up", "stopping"}
    /\ ~dbThread
    /\ dbThread' = TRUE
    /\ dbRun' = TRUE
    /\ UNCHANGED <<pots, round, site, queue, proc, books, faulty, rounds, lives>>

\* CDBTask::run takes the oldest statement; it is popped after it was run.
DbWrite ==
    /\ dbThread /\ proc \in {"up", "stopping"}
    /\ queue # <<>>
    /\ row' = [row EXCEPT !.stock = @ + Head(queue).stock,
                          !.jackpot = @ + Head(queue).jackpot]
    /\ queue' = Tail(queue)
    /\ UNCHANGED <<pots, round, net, changes, dbThread, dbRun, proc, books, faulty,
                   rounds, lives>>

\* The statement failed and the connection still counts as open: it is
\* popped all the same, and writeLog keeps nothing of it.
DbWriteFails ==
    /\ dbThread /\ proc \in {"up", "stopping"}
    /\ queue # <<>>
    /\ queue' = Tail(queue)
    /\ faulty' = TRUE
    /\ UNCHANGED <<pots, round, site, dbThread, dbRun, proc, books, rounds, lives>>

\* What a process that ends leaves behind: no rounds, no open connections.
Leave(how) ==
    /\ proc' = how
    /\ round' = [t \in Tables |-> NoRound]
    /\ net' = [p \in Paths |-> <<>>]

\* GameServerShutDown up to CDBTask::stop: the rooms are gone, no statement is
\* taken any more, the main thread waits for the database thread.
StopRun ==
    /\ proc = "up"
    /\ Leave("stopping")
    /\ dbRun' = FALSE
    /\ UNCHANGED <<pots, row, changes, queue, dbThread, books, faulty, rounds, lives>>

BrokenLeavesQueue ==
    /\ proc = "stopping"
    /\ dbThread /\ ~dbRun
    /\ proc' = "stopped"
    /\ UNCHANGED <<pots, round, site, db, books, faulty, rounds, lives>>

\* The database thread leaves its loop only when its queue is empty.
DbThreadEnd ==
    /\ proc = "stopping"
    /\ dbThread /\ ~dbRun /\ queue = <<>>
    /\ proc' = "stopped"
    /\ UNCHANGED <<pots, round, site, db, books, faulty, rounds, lives>>

\* CGameSvrEventMgr::DoRetire ends the process with exit(0): nobody waits for
\* the database thread.
DoRetire ==
    /\ proc = "up"
    /\ Leave("retired")
    /\ queue' = <<>> /\ dbThread' = FALSE /\ dbRun' = FALSE
    /\ UNCHANGED <<pots, row, changes, books, faulty, rounds, lives>>

Crash ==
    /\ proc \in {"up", "stopping"}
    /\ Leave("crashed")
    /\ queue' = <<>> /\ dbThread' = FALSE /\ dbRun' = FALSE
    /\ UNCHANGED <<pots, row, changes, books, faulty, rounds, lives>>

-----------------------------------------------------------------------------
(* The rounds of the tables.                                               *)

\* SendCardToClient of a card table.  The change is 0 when the players are all
\* robots or all human, when another control or a reviewed player is at the
\* table, and when the room asks for none.  A change is obeyed when one of the
\* 1000 shuffles fits it; otherwise the last shuffle is dealt as it is.
DealRound(t, w, mixed) ==
    /\ proc = "up"
    /\ round[t] = NoRound
    /\ rounds < MaxRounds
    /\ rounds' = rounds + 1
    /\ \E change \in (IF mixed THEN StockChange ELSE {}) \cup {0} :
         /\ change # 0 => CheckStockChange(change, w)
         /\ round' = [round EXCEPT ![t] =
                 [phase |-> "dealt", win |-> w, mixed |-> mixed, change |-> change,
                  jackpot |-> jackpot, floor |-> cfg.jackpotMin]]
    /\ UNCHANGED <<pots, site, db, proc, books, faulty, lives>>

\* OnGameEnd with GER_NORMAL: the fee is taken, UpdateStock books the round.
\* A statement pushed while m_bRun is not set is thrown away.
EndRound(t, fee) ==
    /\ proc = "up"
    /\ round[t] # NoRound
    /\ LET w == round[t].win - fee
           d == IF round[t].mixed /\ w # 0 THEN Booking(w) ELSE Nothing
       IN  /\ stock' = stock + d.stock
           /\ jackpot' = jackpot + d.jackpot
           /\ queue' = IF d # Nothing /\ dbRun THEN Append(queue, d) ELSE queue
           /\ faulty' = (faulty \/ (d # Nothing /\ ~dbRun))
           /\ books' = IF round[t].mixed THEN books - w ELSE books
    /\ round' = [round EXCEPT ![t] = NoRound]
    /\ UNCHANGED <<cfg, site, dbThread, dbRun, proc, rounds, lives>>

\* OnGameEnd with GER_DISMISS: nobody wins, nothing is booked.
DismissRound(t) ==
    /\ proc = "up"
    /\ round[t] # NoRound
    /\ round' = [round EXCEPT ![t] = NoRound]
    /\ UNCHANGED <<pots, site, db, proc, books, faulty, rounds, lives>>

-----------------------------------------------------------------------------
(* The site.  It stores a valid change in the row and asks the lobby, or   *)
(* the dispatch server, to tell the game server.                           *)

BrokenForgetsJackpot(req, p) ==
    IF p = "lobby" THEN req ELSE [cfg |-> req.cfg, stock |-> req.stock]

\* What the game server is told.  The dispatch server's message has no kill
\* line, no win rate and no jackpot: stStockCfg's constructor left them 0.
Told(req, p) ==
    IF p = "lobby" THEN req
    ELSE [cfg     |-> [req.cfg EXCEPT !.killLine = 0, !.winRate = 0],
          stock   |-> req.stock,
          jackpot |-> 0]

\* What the page behind a path stores: the dispatch page has no such fields.
Stored(req, p) ==
    [cfg     |-> IF p = "lobby" THEN req.cfg
                 ELSE [req.cfg EXCEPT !.killLine = row.cfg.killLine,
                                      !.winRate = row.cfg.winRate],
     stock   |-> row.stock + req.stock,
     jackpot |-> row.jackpot + (IF p = "lobby" THEN req.jackpot ELSE 0)]

\* Adds of a request that reach the row through a path.
Added(req, p) == req.stock + (IF p = "lobby" THEN req.jackpot ELSE 0)

\* A page stores what the game server will take over: the dispatch server's has
\* no win rate to be refused for.  The change is lost on the way when the game
\* server's connection is down.
SiteChange(req, p) ==
    /\ changes < MaxChanges
    /\ changes' = changes + 1
    /\ IF ValidCfg(Told(req, p).cfg)
       THEN row' = Stored(req, p) /\ books' = books + Added(req, p)
       ELSE UNCHANGED <<row, books>>
    /\ \/ /\ proc = "up"
          /\ net' = [net EXCEPT ![p] = Append(@, Told(req, p))]
          /\ UNCHANGED faulty
       \/ /\ faulty' = (faulty \/ proc = "up")
          /\ UNCHANGED net
    /\ UNCHANGED <<pots, round, db, proc, rounds, lives>>

BrokenSetsStock(p) ==
    /\ proc = "up"
    /\ net[p] # <<>>
    /\ net' = [net EXCEPT ![p] = Tail(@)]
    /\ LET req == Head(net[p])
       IN  IF ValidCfg(req.cfg)
           THEN /\ cfg' = req.cfg
                /\ stock' = req.stock
                /\ jackpot' = jackpot + req.jackpot
           ELSE UNCHANGED pots
    /\ UNCHANGED <<round, row, changes, db, proc, books, faulty, rounds, lives>>

\* handle_msg_change_room_stock_cfg and CGameRoom::ChangeRoomStockCfg.
ChangeRoomStockCfg(p) ==
    /\ proc = "up"
    /\ net[p] # <<>>
    /\ net' = [net EXCEPT ![p] = Tail(@)]
    /\ LET req == Head(net[p])
       IN  IF ValidCfg(req.cfg)
           THEN /\ cfg' = req.cfg
                /\ stock' = stock + req.stock
                /\ jackpot' = jackpot + req.jackpot
           ELSE UNCHANGED pots
    /\ UNCHANGED <<round, row, changes, db, proc, books, faulty, rounds, lives>>

-----------------------------------------------------------------------------
Database == DbThreadStart \/ DbWrite \/ DbWriteFails \/ DbThreadEnd

Next ==
    \/ Start \/ StopRun \/ DoRetire \/ Crash
    \/ DbThreadStart \/ DbWrite \/ DbWriteFails \/ DbThreadEnd
    \/ \E t \in Tables, w \in Scores, mixed \in BOOLEAN : DealRound(t, w, mixed)
    \/ \E t \in Tables, fee \in Fees : EndRound(t, fee)
    \/ \E t \in Tables : DismissRound(t)
    \/ \E req \in Requests, p \in Paths : SiteChange(req, p)
    \/ \E p \in Paths : ChangeRoomStockCfg(p)

Spec == Init /\ [][Next]_vars

\* The database thread is a thread of its own: the system schedules it.
FairSpec == Spec /\ WF_vars(Database)

-----------------------------------------------------------------------------
(* Properties.                                                             *)

Dealt == [phase : {"dealt"}, win : Scores, mixed : BOOLEAN, change : Int,
          jackpot : Int, floor : Int]

\* The type invariant of the room, its row and the database thread.
TypeOK ==
    /\ cfg \in Cfg /\ stock \in Int /\ jackpot \in Int
    /\ round \in [Tables -> Dealt \cup {NoRound}]
    /\ row \in Row
    /\ queue \in Seq(Delta)
    /\ dbThread \in BOOLEAN /\ dbRun \in BOOLEAN
    /\ proc \in {"up", "stopping", "stopped", "retired", "crashed"}
    /\ net \in [Paths -> Seq(Row)]
    /\ books \in Int /\ faulty \in BOOLEAN
    /\ rounds \in Nat /\ changes \in Nat /\ lives \in Nat

\* The statements and the changes that are still under way.
Unwritten(f(_)) == SumFunction([i \in DOMAIN queue |-> f(queue[i])])
Untold(f(_)) ==
    LET Worth(req) == IF ValidCfg(req.cfg) THEN f(req) ELSE 0
    IN  SumFunction([p \in Paths |->
            SumFunction([i \in DOMAIN net[p] |-> Worth(net[p][i])])])

\* Memory and row describe the same pots: as long as no statement and no change
\* was lost, each pot in memory is the row's, plus what the database thread
\* still has to write, less what the room has not been told yet.
MemoryIsRow ==
    proc = "up" /\ ~faulty =>
        /\ stock = row.stock + Unwritten(LAMBDA d : d.stock) - Untold(LAMBDA r : r.stock)
        /\ jackpot = row.jackpot + Unwritten(LAMBDA d : d.jackpot)
                        - Untold(LAMBDA r : r.jackpot)

\* An orderly stop loses no round: unless a statement failed, the two pots in
\* the row together hold what was loaded, what the site added, and minus what
\* the humans won in every round that counted.  UpdateStock's split between
\* the pots neither creates nor destroys anything.
StopSavesAll ==
    proc = "stopped" /\ ~faulty => row.stock + row.jackpot = books

\* In this step a round of table t ends while the process goes on.
Ends(t) == proc' = "up" /\ round[t] # NoRound /\ round'[t] = NoRound

\* A round moves the stock down only to pour what is above its ceiling into the
\* jackpot: it never takes the stock below both its value and the ceiling.
StockFloor ==
    [][(\E t \in Tables : Ends(t)) =>
          \/ stock' >= stock
          \/ stock' >= cfg.stockMax]_vars

\* A round the room controlled keeps what the control promised, however late it
\* settles and whatever else moves the jackpot meanwhile: a killed round takes
\* nothing out, and one dealt under a limit leaves the jackpot short of the
\* trigger amount of its deal by no more than other tables and the site have
\* taken out since (UpdateStock).  Nothing reserves what a dealt round may pay,
\* so two tables can each take what was free when they dealt.
ControlledRoundKeepsJackpot ==
    [][\A t \in Tables :
          Ends(t) /\ round[t].change # 0
          => /\ round[t].change = Kill => jackpot' >= jackpot
             /\ round[t].change > 0
                   => jackpot' >= round[t].floor - (round[t].jackpot - jackpot)
      ]_vars

\* ChangeRoomStockCfg keeps every rate within its range and every divisor of
\* IsStockChangeCard positive, whatever the site sends.
RatesInRange == ValidCfg(cfg)

\* An orderly stop that finds the database thread running ends: the thread
\* drains its queue, whatever becomes of each statement.
StopEnds ==
    (proc = "stopping" /\ dbThread /\ ~dbRun) ~> (proc # "stopping")

\* A change of the room's configuration reaches the room as it was stored:
\* when nothing is under way the room's kill line is the row's
\* (servers_msg.proto:233, "kill_points_line").
KillLineTold ==
    proc = "up" /\ ~faulty /\ (\A p \in Paths : net[p] = <<>>) =>
        cfg.killLine = row.cfg.killLine
=============================================================================
