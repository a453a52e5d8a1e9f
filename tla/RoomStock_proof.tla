--------------------------- MODULE RoomStock_proof ---------------------------
(***************************************************************************)
(* Proofs about RoomStock: its type invariant, the rates a room works      *)
(* with, what a settlement may do to the stock, and what a controlled      *)
(* round leaves in the jackpot, for any number of tables, any amounts and  *)
(* any changes the site asks for; and that the row will hold what memory   *)
(* does, so that an orderly stop saves all of it.                          *)
(*                                                                         *)
(* The argument rests on one fact about Share (a rate of at most 10000     *)
(* never takes more than there is) and on DealsKept: a dealt round         *)
(* remembers a change it obeys and a limit that its deal's jackpot covers. *)
(* The second part rests on PotsInv: row and memory differ by the sum of   *)
(* the writes in the queue, which one step at a time adds to or takes from.*)
(***************************************************************************)
EXTENDS RoomStock, Sums_proof, TLAPS

\* What a table remembers of its deal: the cards obey the change the room
\* asked for, and a limit is covered by the jackpot above the trigger.
DealKept(r) ==
    /\ r.change \in Nat \cup {Kill}
    /\ r.change = Kill => r.win < 1
    /\ r.change > 0 => r.win <= r.change /\ r.change <= r.jackpot - r.floor

DealsKept == \A t \in Tables : round[t] # NoRound => DealKept(round[t])

StockInv ==
    /\ TypeOK
    /\ RatesInRange
    /\ ValidCfg(row.cfg)
    /\ DealsKept

-----------------------------------------------------------------------------
(* The arithmetic.                                                         *)

\* A share of a sum at a rate within range lies between nothing and the sum.
LEMMA ShareBounds ==
    ASSUME NEW x \in Nat, NEW r \in Rate
    PROVE  Share(x, r) \in 0 .. x
<1>1. x * r \in Nat /\ x * r <= x * PRO_DENO
  BY DEF Rate, PRO_DENO
<1>2. (x * r) \div PRO_DENO >= 0 /\ (x * r) \div PRO_DENO <= x
  BY <1>1 DEF PRO_DENO
<1> QED
  BY <1>1, <1>2 DEF Share, PRO_DENO

\* The fields of a row and of what a table remembers of its deal.
LEMMA RowFields ==
    ASSUME NEW r \in Row
    PROVE  r.cfg \in Cfg /\ r.stock \in Int /\ r.jackpot \in Int
  BY DEF Row

LEMMA DealtFields ==
    ASSUME NEW r \in Dealt
    PROVE  /\ r.win \in Int /\ r.mixed \in BOOLEAN /\ r.change \in Int
           /\ r.jackpot \in Int /\ r.floor \in Int
           /\ \A fee \in Fees : r.win - fee \in Int /\ r.win - fee <= r.win
<1>1. r.win \in Scores /\ r.mixed \in BOOLEAN /\ r.change \in Int
      /\ r.jackpot \in Int /\ r.floor \in Int
  BY DEF Dealt
<1>2. r.win \in Int
  BY <1>1, RoundAssumption
<1>3. ASSUME NEW fee \in Fees
      PROVE  r.win - fee \in Int /\ r.win - fee <= r.win
  <2>1. fee \in Nat
    BY RoundAssumption
  <2> QED
    BY <1>2, <2>1
<1> QED
  BY <1>1, <1>2, <1>3

\* A configuration with another kill line and win rate is a configuration.
LEMMA OtherKillLine ==
    ASSUME NEW c \in Cfg, NEW a \in Int, NEW b \in Int
    PROVE  [c EXCEPT !.killLine = a, !.winRate = b] \in Cfg
  BY DEF Cfg

\* An empty queue is a queue.
LEMMA Empty == \A S : <<>> \in Seq(S)
  OBVIOUS

\* What the booking of a round does to the two pots.
LEMMA BookingBounds ==
    ASSUME TypeOK, RatesInRange, NEW w \in Int, w # 0
    PROVE  /\ Booking(w) \in Delta
           /\ stock + Booking(w).stock >= stock
                \/ stock + Booking(w).stock >= cfg.stockMax
           /\ w < 0 => Booking(w).jackpot >= 0
           /\ w > 0 => Booking(w).jackpot >= -w
           /\ Booking(w).stock + Booking(w).jackpot = -w
<1> DEFINE taken   == IF w < 0 THEN Share(-w, cfg.extract) ELSE -w
           kept    == IF w < 0 THEN -w - taken ELSE 0
           surplus == stock + kept - cfg.stockMax
           moved   == IF surplus > 0 THEN Share(surplus, cfg.conversion) ELSE 0
<1>1. /\ cfg.extract \in Rate /\ cfg.conversion \in Rate
      /\ stock \in Int /\ cfg.stockMax \in Int
  BY DEF RatesInRange, ValidCfg, TypeOK, Cfg
<1>2. /\ taken \in Int /\ kept \in Nat /\ kept + taken = -w
      /\ w < 0 => taken >= 0
      /\ w > 0 => taken = -w
  <2>1. CASE w < 0
    <3>1. -w \in Nat
      BY <2>1
    <3>2. Share(-w, cfg.extract) \in 0 .. -w
      BY <1>1, <3>1, ShareBounds
    <3> QED
      BY <2>1, <3>1, <3>2
  <2>2. CASE w > 0
    BY <2>2
  <2> QED
    BY <2>1, <2>2
<1>3. surplus \in Int
  BY <1>1, <1>2
<1>4. moved \in Nat /\ (surplus > 0 => moved <= surplus) /\ (~(surplus > 0) => moved = 0)
  <2>1. CASE surplus > 0
    <3>1. surplus \in Nat
      BY <1>3, <2>1
    <3>2. Share(surplus, cfg.conversion) \in 0 .. surplus
      BY <1>1, <3>1, ShareBounds
    <3> QED
      BY <2>1, <3>1, <3>2
  <2>2. CASE ~(surplus > 0)
    BY <2>2
  <2> QED
    BY <2>1, <2>2
<1>5. Booking(w) = [stock |-> kept - moved, jackpot |-> taken + moved]
  BY DEF Booking
<1> HIDE DEF taken, kept, surplus, moved
<1>6. Booking(w).stock = kept - moved /\ Booking(w).jackpot = taken + moved
  BY <1>5
<1>7. kept - moved \in Int /\ taken + moved \in Int
  BY <1>2, <1>4
<1>8. Booking(w) \in Delta
  BY <1>5, <1>7 DEF Delta
<1>9. stock + (kept - moved) >= stock \/ stock + (kept - moved) >= cfg.stockMax
  BY <1>1, <1>2, <1>4 DEF surplus
<1>10. Booking(w).stock + Booking(w).jackpot = -w
  BY <1>2, <1>4, <1>6
<1> QED
  BY <1>2, <1>4, <1>6, <1>8, <1>9, <1>10

\* The change IsStockChangeCard asks for: kill, none, or a limit that the
\* jackpot above its trigger covers.
LEMMA ChangeCovered ==
    ASSUME TypeOK, RatesInRange, NEW c \in StockChange
    PROVE  /\ c \in Nat \cup {Kill}
           /\ c > 0 => c <= jackpot - cfg.jackpotMin
<1> DEFINE sub == Distance(jackpot, cfg.jackpotMin)
<1>1. jackpot \in Int /\ cfg.jackpotMin \in Int /\ cfg.maxRate \in Rate
  BY DEF RatesInRange, ValidCfg, TypeOK, Cfg
<1>2. CASE jackpot < cfg.killLine
  BY <1>2 DEF StockChange, Kill
<1>3. CASE ~(jackpot < cfg.killLine) /\ jackpot < cfg.jackpotMin
  BY <1>3 DEF StockChange
<1>4. CASE ~(jackpot < cfg.killLine) /\ ~(jackpot < cfg.jackpotMin)
  <2>1. sub \in Nat /\ sub = jackpot - cfg.jackpotMin
    BY <1>1, <1>4 DEF Distance
  <2>2. c = 0 \/ c = Share(sub, cfg.maxRate)
    BY <1>4 DEF StockChange
  <2>3. Share(sub, cfg.maxRate) \in 0 .. sub
    BY <1>1, <2>1, ShareBounds
  <2> QED
    BY <1>1, <2>1, <2>2, <2>3 DEF Kill
<1> QED
  BY <1>2, <1>3, <1>4

-----------------------------------------------------------------------------
(* The invariant is inductive.                                             *)

LEMMA StockInit == Init => StockInv
<1> SUFFICES ASSUME Init PROVE StockInv
  OBVIOUS
<1>1. Row0 \in Row /\ Row0.cfg \in Cfg /\ Row0.stock \in Int /\ Row0.jackpot \in Int
  BY RowAssumption, RowFields
<1>2. ValidCfg(Row0.cfg)
  BY RowAssumption
<1>3. net \in [Paths -> Seq(Row)] /\ queue \in Seq(Delta)
  BY Empty DEF Init
<1>4. books \in Int /\ lives \in Nat /\ rounds \in Nat /\ changes \in Nat
  BY <1>1 DEF Init
<1>5. TypeOK
  BY <1>1, <1>3, <1>4 DEF Init, TypeOK
<1>6. DealsKept
  BY DEF Init, DealsKept
<1> QED
  BY <1>2, <1>5, <1>6 DEF Init, StockInv, RatesInRange

\* What a deal records is well formed and kept.
LEMMA DealStep ==
    ASSUME StockInv, NEW t \in Tables, NEW w \in Scores, NEW mixed \in BOOLEAN,
           DealRound(t, w, mixed)
    PROVE  StockInv'
<1>1. PICK change \in (IF mixed THEN StockChange ELSE {}) \cup {0} :
          /\ change # 0 => CheckStockChange(change, w)
          /\ round' = [round EXCEPT ![t] =
                 [phase |-> "dealt", win |-> w, mixed |-> mixed, change |-> change,
                  jackpot |-> jackpot, floor |-> cfg.jackpotMin]]
  BY DEF DealRound
<1> DEFINE r == [phase |-> "dealt", win |-> w, mixed |-> mixed, change |-> change,
                 jackpot |-> jackpot, floor |-> cfg.jackpotMin]
<1>2. /\ change \in Nat \cup {Kill}
      /\ change > 0 => change <= jackpot - cfg.jackpotMin
  BY ChangeCovered DEF StockInv, Kill
<1>3. jackpot \in Int /\ cfg.jackpotMin \in Int /\ w \in Int
  BY RoundAssumption DEF StockInv, TypeOK, Cfg
<1>4. r \in Dealt
  BY <1>2, <1>3 DEF Dealt, Kill
<1>5. DealKept(r)
  BY <1>1, <1>2, <1>3 DEF DealKept, CheckStockChange, Kill
<1>6. round' = [round EXCEPT ![t] = r]
  BY <1>1
<1> HIDE DEF r
<1>7. round' \in [Tables -> Dealt \cup {NoRound}]
  BY <1>4, <1>6 DEF StockInv, TypeOK
<1>8. UNCHANGED <<pots, site, db, proc, books, faulty, lives>> /\ rounds' \in Nat
  BY DEF DealRound, StockInv, TypeOK
<1>9. TypeOK'
  BY <1>7, <1>8 DEF StockInv, TypeOK, pots, site, db
<1>10. DealsKept'
  BY <1>5, <1>6 DEF StockInv, DealsKept, TypeOK
<1> QED
  BY <1>8, <1>9, <1>10 DEF StockInv, RatesInRange, pots, site

LEMMA EndStep ==
    ASSUME StockInv, NEW t \in Tables, NEW fee \in Fees, EndRound(t, fee)
    PROVE  StockInv'
<1> DEFINE w == round[t].win - fee
           d == IF round[t].mixed /\ w # 0 THEN Booking(w) ELSE Nothing
<1>1. round[t] \in Dealt
  BY DEF EndRound, StockInv, TypeOK
<1>2. w \in Int /\ round[t].mixed \in BOOLEAN
  BY <1>1, DealtFields
<1>3. d \in Delta
  BY <1>2, BookingBounds DEF StockInv, Nothing, Delta
<1>4. d.stock \in Int /\ d.jackpot \in Int
  BY <1>3 DEF Delta
<1>5. /\ stock' = stock + d.stock
      /\ jackpot' = jackpot + d.jackpot
      /\ queue' = IF d # Nothing /\ dbRun THEN Append(queue, d) ELSE queue
      /\ faulty' = (faulty \/ (d # Nothing /\ ~dbRun))
      /\ books' = IF round[t].mixed THEN books - w ELSE books
      /\ round' = [round EXCEPT ![t] = NoRound]
      /\ UNCHANGED <<cfg, site, dbThread, dbRun, proc, rounds, lives>>
  BY DEF EndRound
<1> HIDE DEF d, w
<1>6. queue' \in Seq(Delta)
  BY <1>3, <1>5 DEF StockInv, TypeOK
<1>7. round' \in [Tables -> Dealt \cup {NoRound}]
  BY <1>5 DEF StockInv, TypeOK
<1>8. stock' \in Int /\ jackpot' \in Int /\ books' \in Int /\ faulty' \in BOOLEAN
  BY <1>2, <1>4, <1>5 DEF StockInv, TypeOK
<1>9. TypeOK'
  BY <1>5, <1>6, <1>7, <1>8 DEF StockInv, TypeOK, site
<1>10. DealsKept'
  BY <1>5 DEF StockInv, DealsKept, TypeOK
<1> QED
  BY <1>5, <1>9, <1>10 DEF StockInv, RatesInRange, site

\* Steps that leave the rounds alone, or clear them, keep what deals recorded.
LEMMA RoundsLeft ==
    ASSUME StockInv,
           round' = round \/ round' = [t \in Tables |-> NoRound]
                          \/ \E t \in Tables : round' = [round EXCEPT ![t] = NoRound]
    PROVE  DealsKept' /\ round' \in [Tables -> Dealt \cup {NoRound}]
  BY DEF StockInv, DealsKept, TypeOK

\* The steps of the process and of its database thread.
LEMMA ProcessStep ==
    ASSUME StockInv, Start \/ StopRun \/ DoRetire \/ Crash \/ Database
    PROVE  StockInv'
<1>1. CASE Start
  <2>1. row.cfg \in Cfg /\ row.stock \in Int /\ row.jackpot \in Int
    BY RowFields DEF StockInv, TypeOK
  <2>2. cfg' \in Cfg /\ stock' \in Int /\ jackpot' \in Int /\ books' \in Int
    BY <1>1, <2>1 DEF Start, LoadRow
  <2>3. /\ queue' = <<>> /\ rounds' = 0 /\ lives' = lives + 1
        /\ dbThread' = FALSE /\ dbRun' = FALSE /\ faulty' = FALSE
        /\ proc' = "up" /\ UNCHANGED <<round, row, net, changes>>
    BY <1>1 DEF Start, site
  <2>4. TypeOK'
    <3>1. lives \in Nat /\ lives' \in Nat /\ rounds' \in Nat
      BY <2>3 DEF StockInv, TypeOK
    <3>2. queue' \in Seq(Delta)
      BY <2>3, Empty
    <3> QED
      BY <2>2, <2>3, <3>1, <3>2 DEF StockInv, TypeOK
  <2> QED
    BY <1>1, <2>3, <2>4, RoundsLeft DEF Start, LoadRow, StockInv, RatesInRange
<1>2. CASE StopRun \/ DoRetire \/ Crash
  <2>1. /\ round' = [t \in Tables |-> NoRound]
        /\ net' = [p \in Paths |-> <<>>]
        /\ queue' \in {queue, <<>>} /\ dbRun' = FALSE /\ dbThread' \in {dbThread, FALSE}
        /\ proc' \in {"stopping", "retired", "crashed"}
        /\ UNCHANGED <<pots, row, changes, books, faulty, rounds, lives>>
    BY <1>2 DEF StopRun, DoRetire, Crash, Leave
  <2>2. queue' \in Seq(Delta) /\ net' \in [Paths -> Seq(Row)]
    BY <2>1, Empty DEF StockInv, TypeOK
  <2>3. DealsKept' /\ round' \in [Tables -> Dealt \cup {NoRound}]
    BY <2>1, RoundsLeft
  <2>4. TypeOK'
    BY <2>1, <2>2, <2>3 DEF StockInv, TypeOK, pots
  <2> QED
    BY <2>1, <2>3, <2>4 DEF StockInv, RatesInRange, pots
<1>3. CASE DbThreadStart \/ DbThreadEnd
  <2>1. TypeOK'
    BY <1>3 DEF DbThreadStart, DbThreadEnd, StockInv, TypeOK, pots, site, db
  <2> QED
    BY <1>3, <2>1, RoundsLeft
    DEF DbThreadStart, DbThreadEnd, StockInv, RatesInRange, pots, site
<1>4. CASE DbWrite \/ DbWriteFails
  <2>1. queue' = Tail(queue) /\ queue # <<>> /\ queue \in Seq(Delta)
    BY <1>4 DEF DbWrite, DbWriteFails, StockInv, TypeOK
  <2>2. Head(queue) \in Delta /\ queue' \in Seq(Delta)
    BY <2>1
  <2>3. row' \in Row /\ row'.cfg = row.cfg
    <3>1. Head(queue).stock \in Int /\ Head(queue).jackpot \in Int
      BY <2>2 DEF Delta
    <3>2. row \in Row /\ row.stock \in Int /\ row.jackpot \in Int
      BY RowFields DEF StockInv, TypeOK
    <3>3. CASE DbWriteFails
      BY <3>2, <3>3 DEF DbWriteFails, site
    <3>4. CASE DbWrite
      <4>1. row' = [row EXCEPT !.stock = row.stock + Head(queue).stock,
                               !.jackpot = row.jackpot + Head(queue).jackpot]
        BY <3>4 DEF DbWrite
      <4>2. /\ row.stock + Head(queue).stock \in Int
            /\ row.jackpot + Head(queue).jackpot \in Int
        BY <3>1, <3>2
      <4> QED
        BY <3>2, <4>1, <4>2 DEF Row
    <3> QED
      BY <1>4, <3>3, <3>4
  <2>4. TypeOK'
    BY <1>4, <2>2, <2>3 DEF DbWrite, DbWriteFails, StockInv, TypeOK, pots, site
  <2> QED
    BY <1>4, <2>3, <2>4, RoundsLeft
    DEF DbWrite, DbWriteFails, StockInv, RatesInRange, pots
<1> QED
  BY <1>1, <1>2, <1>3, <1>4 DEF Database

\* What the pages store and the servers tell are rows.
LEMMA RequestRows ==
    ASSUME StockInv, NEW req \in Requests, NEW p \in Paths
    PROVE  /\ Told(req, p) \in Row
           /\ Stored(req, p) \in Row
           /\ ValidCfg(Told(req, p).cfg) => ValidCfg(Stored(req, p).cfg)
           /\ Added(req, p) \in Int
           /\ Added(req, p) = Told(req, p).stock + Told(req, p).jackpot
           /\ Stored(req, p).stock = row.stock + Told(req, p).stock
           /\ Stored(req, p).jackpot = row.jackpot + Told(req, p).jackpot
<1>1. req \in Row /\ req.cfg \in Cfg /\ req.stock \in Int /\ req.jackpot \in Int
  BY RowAssumption DEF Row
<1>2. row.cfg \in Cfg /\ row.stock \in Int /\ row.jackpot \in Int
  BY DEF StockInv, TypeOK, Row
<1> DEFINE page == [req.cfg EXCEPT !.killLine = row.cfg.killLine,
                                   !.winRate = row.cfg.winRate]
<1>3. page \in Cfg
  BY <1>1, <1>2 DEF Cfg
<1>4. Stored(req, p) \in Row
  BY <1>1, <1>2, <1>3 DEF Stored, Row
<1>5. Told(req, p) \in Row
  <2>1. [req.cfg EXCEPT !.killLine = 0, !.winRate = 0] \in Cfg
    <3>1. req.cfg \in Cfg /\ 0 \in Int
      BY <1>1
    <3> QED
      BY <3>1, OtherKillLine, Zenon
  <2>2. CASE p = "lobby"
    BY <1>1, <2>2 DEF Told
  <2>3. CASE p # "lobby"
    BY <1>1, <2>1, <2>3 DEF Told, Row
  <2> QED
    BY <2>2, <2>3
<1>6. Added(req, p) \in Int
  BY <1>1 DEF Added
<1>7. ASSUME ValidCfg(Told(req, p).cfg)
      PROVE  ValidCfg(Stored(req, p).cfg)
  <2>1. Stored(req, p).cfg = IF p = "lobby" THEN req.cfg ELSE page
    BY DEF Stored
  <2>2. CASE p = "lobby"
    BY <1>7, <2>1, <2>2 DEF Told
  <2>3. CASE p # "lobby"
    <3> DEFINE told == [req.cfg EXCEPT !.killLine = 0, !.winRate = 0]
    <3>0. ValidCfg(told)
      BY <1>7, <2>3 DEF Told
    <3>1. row.cfg.winRate \in Rate /\ page.winRate = row.cfg.winRate
      BY <1>1 DEF StockInv, ValidCfg, Cfg
    <3>2. /\ page.conversion = told.conversion /\ page.maxRate = told.maxRate
          /\ page.rate = told.rate /\ page.extract = told.extract
          /\ page.jackpotMin = told.jackpotMin
          /\ page.coefficient = told.coefficient
      BY <1>1 DEF Cfg
    <3> HIDE DEF page, told
    <3> QED
      BY <2>1, <2>3, <3>0, <3>1, <3>2 DEF ValidCfg
  <2> QED
    BY <2>2, <2>3
<1>8. /\ Added(req, p) = Told(req, p).stock + Told(req, p).jackpot
      /\ Stored(req, p).stock = row.stock + Told(req, p).stock
      /\ Stored(req, p).jackpot = row.jackpot + Told(req, p).jackpot
  BY <1>1 DEF Added, Told, Stored
<1> QED
  BY <1>4, <1>5, <1>6, <1>7, <1>8

LEMMA SiteStep ==
    ASSUME StockInv, NEW req \in Requests, NEW p \in Paths, SiteChange(req, p)
    PROVE  StockInv'
<1>1. /\ row' = row \/ (row' = Stored(req, p) /\ ValidCfg(Told(req, p).cfg))
      /\ books' = books \/ books' = books + Added(req, p)
      /\ net' = net \/ net' = [net EXCEPT ![p] = Append(@, Told(req, p))]
      /\ changes' \in Nat /\ faulty' \in BOOLEAN
      /\ UNCHANGED <<pots, round, db, proc, rounds, lives>>
  <2>1. changes' \in Nat /\ UNCHANGED <<pots, round, db, proc, rounds, lives>>
    BY DEF SiteChange, StockInv, TypeOK
  <2>2. /\ row' = row \/ (row' = Stored(req, p) /\ ValidCfg(Told(req, p).cfg))
        /\ books' = books \/ books' = books + Added(req, p)
    BY DEF SiteChange
  <2>3. net' = net \/ net' = [net EXCEPT ![p] = Append(@, Told(req, p))]
    BY DEF SiteChange
  <2>4. faulty' \in BOOLEAN
    BY DEF SiteChange, StockInv, TypeOK
  <2> QED
    BY <2>1, <2>2, <2>3, <2>4
<1>2. row' \in Row /\ ValidCfg(row'.cfg)
  BY <1>1, RequestRows DEF StockInv, TypeOK
<1>3. net' \in [Paths -> Seq(Row)]
  <2>1. net \in [Paths -> Seq(Row)] /\ net[p] \in Seq(Row) /\ Told(req, p) \in Row
    BY RequestRows DEF StockInv, TypeOK
  <2>2. Append(net[p], Told(req, p)) \in Seq(Row)
    BY <2>1
  <2> QED
    BY <1>1, <2>1, <2>2
<1>4. books' \in Int
  BY <1>1, RequestRows DEF StockInv, TypeOK
<1>5. TypeOK'
  BY <1>1, <1>2, <1>3, <1>4 DEF StockInv, TypeOK, pots, db
<1> QED
  BY <1>1, <1>2, <1>5, RoundsLeft DEF StockInv, RatesInRange, pots

LEMMA ChangeStep ==
    ASSUME StockInv, NEW p \in Paths, ChangeRoomStockCfg(p)
    PROVE  StockInv'
<1>1. net[p] \in Seq(Row) /\ net[p] # <<>> /\ net' = [net EXCEPT ![p] = Tail(net[p])]
  BY DEF ChangeRoomStockCfg, StockInv, TypeOK
<1>2. Head(net[p]) \in Row /\ Tail(net[p]) \in Seq(Row)
  BY <1>1
<1>3. net' \in [Paths -> Seq(Row)]
  BY <1>1, <1>2 DEF StockInv, TypeOK
<1>4. cfg' \in Cfg /\ ValidCfg(cfg') /\ stock' \in Int /\ jackpot' \in Int
  BY <1>2 DEF ChangeRoomStockCfg, StockInv, TypeOK, RatesInRange, Row, pots
<1>5. UNCHANGED <<round, row, changes, db, proc, books, faulty, rounds, lives>>
  BY DEF ChangeRoomStockCfg
<1>6. TypeOK'
  BY <1>3, <1>4, <1>5 DEF StockInv, TypeOK, db
<1> QED
  BY <1>4, <1>5, <1>6, RoundsLeft DEF StockInv, RatesInRange

LEMMA DismissStep ==
    ASSUME StockInv, NEW t \in Tables, DismissRound(t)
    PROVE  StockInv'
<1>1. TypeOK'
  BY RoundsLeft DEF DismissRound, StockInv, TypeOK, pots, site, db
<1> QED
  BY <1>1, RoundsLeft DEF DismissRound, StockInv, RatesInRange, pots, site

LEMMA StockNext == StockInv /\ [Next]_vars => StockInv'
<1> SUFFICES ASSUME StockInv, [Next]_vars PROVE StockInv'
  OBVIOUS
<1>1. CASE Start \/ StopRun \/ DoRetire \/ Crash \/ Database
  BY <1>1, ProcessStep
<1>2. CASE \E t \in Tables, w \in Scores, mixed \in BOOLEAN : DealRound(t, w, mixed)
  BY <1>2, DealStep
<1>3. CASE \E t \in Tables, fee \in Fees : EndRound(t, fee)
  BY <1>3, EndStep
<1>4. CASE \E t \in Tables : DismissRound(t)
  BY <1>4, DismissStep
<1>5. CASE \E req \in Requests, p \in Paths : SiteChange(req, p)
  BY <1>5, SiteStep
<1>6. CASE \E p \in Paths : ChangeRoomStockCfg(p)
  BY <1>6, ChangeStep
<1>7. CASE UNCHANGED vars
  <2>1. TypeOK'
    BY <1>7 DEF vars, StockInv, TypeOK
  <2> QED
    BY <1>7, <2>1, RoundsLeft DEF vars, StockInv, RatesInRange
<1> QED
  BY <1>1, <1>2, <1>3, <1>4, <1>5, <1>6, <1>7 DEF Next, Database

\* Everything the steps rely on holds in every reachable state.
THEOREM StockCorrect == Spec => []StockInv
  BY StockInit, StockNext, PTL DEF Spec

\* The room, its row and the database thread keep their types.
THEOREM StockTypeCorrect == Spec => []TypeOK
<1>1. StockInv => TypeOK
  BY DEF StockInv
<1> QED
  BY <1>1, StockCorrect, PTL

-----------------------------------------------------------------------------
(* What a settlement does.                                                 *)

\* The rates a room works with stay in range and its divisors positive,
\* whatever the site sends.
THEOREM RatesCorrect == Spec => []RatesInRange
<1>1. StockInv => RatesInRange
  BY DEF StockInv
<1> QED
  BY <1>1, StockCorrect, PTL

\* Only the settlement of a round ends it while the process goes on with a
\* change of the pots; a dismissal and a restart leave them alone.
LEMMA EndsOnlyBySettling ==
    ASSUME StockInv, [Next]_vars, NEW t \in Tables, Ends(t)
    PROVE  \/ stock' = stock /\ jackpot' = jackpot
           \/ \E fee \in Fees : EndRound(t, fee)
<1>1. round[t] \in Dealt /\ round[t] # NoRound /\ round'[t] = NoRound /\ proc' = "up"
  BY DEF Ends, StockInv, TypeOK
<1>2. CASE Start
  BY <1>1, <1>2 DEF Start
<1>3. CASE StopRun \/ DoRetire \/ Crash
  BY <1>1, <1>3 DEF StopRun, DoRetire, Crash, Leave
<1>4. CASE Database
  BY <1>1, <1>4 DEF Database, DbThreadStart, DbWrite, DbWriteFails, DbThreadEnd
<1>5. CASE \E s \in Tables, w \in Scores, mixed \in BOOLEAN : DealRound(s, w, mixed)
  <2>1. UNCHANGED pots
    BY <1>5 DEF DealRound
  <2> QED
    BY <2>1 DEF pots
<1>6. CASE \E s \in Tables, fee \in Fees : EndRound(s, fee)
  <2>1. PICK s \in Tables, fee \in Fees : EndRound(s, fee)
    BY <1>6
  <2>2. s = t
    BY <1>1, <2>1 DEF EndRound, StockInv, TypeOK
  <2> QED
    BY <2>1, <2>2
<1>7. CASE \E s \in Tables : DismissRound(s)
  <2>1. UNCHANGED pots
    BY <1>7 DEF DismissRound
  <2> QED
    BY <2>1 DEF pots
<1>8. CASE \E req \in Requests, p \in Paths : SiteChange(req, p)
  BY <1>1, <1>8 DEF SiteChange
<1>9. CASE \E p \in Paths : ChangeRoomStockCfg(p)
  BY <1>1, <1>9 DEF ChangeRoomStockCfg
<1>10. CASE UNCHANGED vars
  BY <1>1, <1>10 DEF vars
<1> QED
  BY <1>2, <1>3, <1>4, <1>5, <1>6, <1>7, <1>8, <1>9, <1>10 DEF Next, Database

\* A settlement books what BookingBounds says, or nothing.
LEMMA Settlement ==
    ASSUME StockInv, NEW t \in Tables, NEW fee \in Fees, EndRound(t, fee)
    PROVE  LET w == round[t].win - fee
           IN  /\ w \in Int
               /\ \/ stock' = stock /\ jackpot' = jackpot
                  \/ /\ w # 0
                     /\ stock' = stock + Booking(w).stock
                     /\ jackpot' = jackpot + Booking(w).jackpot
<1> DEFINE w == round[t].win - fee
<1>1. w \in Int
  <2>1. round[t] \in Dealt
    BY DEF EndRound, StockInv, TypeOK
  <2> QED
    BY <2>1, DealtFields
<1>2. stock \in Int /\ jackpot \in Int
  BY DEF StockInv, TypeOK
<1>3. CASE round[t].mixed /\ w # 0
  BY <1>1, <1>3 DEF EndRound
<1>4. CASE ~(round[t].mixed /\ w # 0)
  <2>1. stock' = stock + 0 /\ jackpot' = jackpot + 0
    BY <1>4 DEF EndRound, Nothing
  <2> QED
    BY <1>1, <1>2, <2>1
<1> QED
  BY <1>1, <1>3, <1>4

\* A round moves the stock down only to pour what is above its ceiling into
\* the jackpot (CGameRoom::UpdateStock).
THEOREM StockFloorCorrect == Spec => StockFloor
<1> DEFINE Floor == (\E t \in Tables : Ends(t)) =>
                        (stock' >= stock \/ stock' >= cfg.stockMax)
<1>1. StockInv /\ [Next]_vars => [Floor]_vars
  <2> SUFFICES ASSUME StockInv, [Next]_vars, NEW t \in Tables, Ends(t)
               PROVE  stock' >= stock \/ stock' >= cfg.stockMax
    OBVIOUS
  <2>1. stock \in Int
    BY DEF StockInv, TypeOK
  <2>2. CASE stock' = stock
    BY <2>1, <2>2
  <2>3. ASSUME NEW fee \in Fees, EndRound(t, fee)
        PROVE  stock' >= stock \/ stock' >= cfg.stockMax
    BY <2>1, <2>3, Settlement, BookingBounds DEF StockInv
  <2> QED
    BY <2>2, <2>3, EndsOnlyBySettling
<1> QED
  BY <1>1, StockCorrect, PTL DEF Spec, StockFloor

\* A controlled round keeps what its control promised, however late it settles:
\* what it takes out of the jackpot is at most what its deal found above the
\* trigger amount, whatever other tables and the site put in or took out in
\* between (IsStockChangeCard, CheckStockChange, UpdateStock).
THEOREM ControlledRoundCorrect == Spec => ControlledRoundKeepsJackpot
<1> DEFINE Kept == \A t \in Tables :
              Ends(t) /\ round[t].change # 0
              => /\ round[t].change = Kill => jackpot' >= jackpot
                 /\ round[t].change > 0
                       => jackpot' >= round[t].floor - (round[t].jackpot - jackpot)
<1>1. StockInv /\ [Next]_vars => [Kept]_vars
  <2> SUFFICES ASSUME StockInv, [Next]_vars, NEW t \in Tables, Ends(t)
               PROVE  /\ round[t].change = Kill => jackpot' >= jackpot
                      /\ round[t].change > 0
                            => jackpot' >= round[t].floor - (round[t].jackpot - jackpot)
    OBVIOUS
  <2>1. /\ jackpot \in Int /\ round[t].jackpot \in Int /\ round[t].floor \in Int
        /\ round[t].change \in Int /\ round[t].win \in Int
        /\ DealKept(round[t])
    BY RoundAssumption DEF Ends, StockInv, TypeOK, DealsKept, Dealt
  <2>2. CASE jackpot' = jackpot
    BY <2>1, <2>2 DEF DealKept
  <2>3. ASSUME NEW fee \in Fees, EndRound(t, fee), jackpot' # jackpot
        PROVE  /\ round[t].change = Kill => jackpot' >= jackpot
               /\ round[t].change > 0
                     => jackpot' >= round[t].floor - (round[t].jackpot - jackpot)
    <3> DEFINE w == round[t].win - fee
    <3>1. w \in Int /\ w # 0 /\ w <= round[t].win /\ jackpot' = jackpot + Booking(w).jackpot
      BY <2>1, <2>3, Settlement, RoundAssumption
    <3>2. /\ Booking(w).jackpot \in Int
          /\ w < 0 => Booking(w).jackpot >= 0
          /\ w > 0 => Booking(w).jackpot >= -w
      BY <3>1, BookingBounds DEF StockInv, Delta
    <3> HIDE DEF w
    <3> QED
      BY <2>1, <3>1, <3>2 DEF DealKept, Kill
  <2> QED
    BY <2>2, <2>3, EndsOnlyBySettling
<1> QED
  BY <1>1, StockCorrect, PTL DEF Spec, ControlledRoundKeepsJackpot

-----------------------------------------------------------------------------
(* Memory and row describe the same pots.                                  *)

\* What a statement, and a change that will be taken over, add to each pot.
StockOf    == [d \in Delta |-> d.stock]
JackpotOf  == [d \in Delta |-> d.jackpot]
ToldStock   == [r \in Row |-> IF ValidCfg(r.cfg) THEN r.stock ELSE 0]
ToldJackpot == [r \in Row |-> IF ValidCfg(r.cfg) THEN r.jackpot ELSE 0]

Written(v, q) == SumFunction(Mapped(v, q))

\* Each pot is the row's, plus what is still to write, less what is still to
\* be told.
Balanced ==
    /\ stock = row.stock + Written(StockOf, queue) - AllMapped(ToldStock, net)
    /\ jackpot = row.jackpot + Written(JackpotOf, queue) - AllMapped(ToldJackpot, net)

\* The row and what is still to write hold every round and every change.
BooksKept ==
    row.stock + row.jackpot + Written(StockOf, queue) + Written(JackpotOf, queue) = books

PotsInv ==
    /\ StockInv
    /\ proc = "up" /\ ~faulty => Balanced
    /\ proc \in {"up", "stopping", "stopped"} /\ ~faulty => BooksKept
    /\ proc # "up" => \A p \in Paths : net[p] = <<>>
    /\ proc = "stopped" => queue = <<>>

LEMMA PathsFinite == IsFiniteSet(Paths)
<1>1. IsFiniteSet({"lobby"})
  BY FS_Singleton
<1>2. IsFiniteSet({"lobby"} \cup {"dispatch"})
  BY <1>1, FS_AddElement
<1>3. Paths \subseteq {"lobby"} \cup {"dispatch"}
  BY RoundAssumption
<1> QED
  BY <1>2, <1>3, FS_Subset

\* The sums of the properties are the sums the lemmas speak of.
LEMMA UnwrittenWritten ==
    ASSUME NEW q \in Seq(Delta)
    PROVE  /\ SumFunction([i \in DOMAIN q |-> q[i].stock]) = Written(StockOf, q)
           /\ SumFunction([i \in DOMAIN q |-> q[i].jackpot]) = Written(JackpotOf, q)
<1>1. \A i \in DOMAIN q : q[i] \in Delta
  OBVIOUS
<1>2. [i \in DOMAIN q |-> q[i].stock] = Mapped(StockOf, q)
  BY <1>1 DEF Mapped, StockOf
<1>3. [i \in DOMAIN q |-> q[i].jackpot] = Mapped(JackpotOf, q)
  BY <1>1 DEF Mapped, JackpotOf
<1> QED
  BY <1>2, <1>3 DEF Written

LEMMA UntoldAllMapped ==
    ASSUME NEW n \in [Paths -> Seq(Row)]
    PROVE  /\ SumFunction([p \in Paths |-> SumFunction([i \in DOMAIN n[p] |->
                  IF ValidCfg(n[p][i].cfg) THEN n[p][i].stock ELSE 0])])
                = AllMapped(ToldStock, n)
           /\ SumFunction([p \in Paths |-> SumFunction([i \in DOMAIN n[p] |->
                  IF ValidCfg(n[p][i].cfg) THEN n[p][i].jackpot ELSE 0])])
                = AllMapped(ToldJackpot, n)
<1>1. ASSUME NEW p \in Paths, NEW i \in DOMAIN n[p]
      PROVE  n[p][i] \in Row
  OBVIOUS
<1>2. ASSUME NEW p \in Paths
      PROVE  /\ [i \in DOMAIN n[p] |-> IF ValidCfg(n[p][i].cfg) THEN n[p][i].stock ELSE 0]
                   = Mapped(ToldStock, n[p])
             /\ [i \in DOMAIN n[p] |-> IF ValidCfg(n[p][i].cfg) THEN n[p][i].jackpot ELSE 0]
                   = Mapped(ToldJackpot, n[p])
  BY <1>1 DEF Mapped, ToldStock, ToldJackpot
<1>3. [p \in Paths |-> SumFunction([i \in DOMAIN n[p] |->
          IF ValidCfg(n[p][i].cfg) THEN n[p][i].stock ELSE 0])]
        = [p \in DOMAIN n |-> SumFunction(Mapped(ToldStock, n[p]))]
  BY <1>2
<1>4. [p \in Paths |-> SumFunction([i \in DOMAIN n[p] |->
          IF ValidCfg(n[p][i].cfg) THEN n[p][i].jackpot ELSE 0])]
        = [p \in DOMAIN n |-> SumFunction(Mapped(ToldJackpot, n[p]))]
  BY <1>2
<1> QED
  BY <1>3, <1>4 DEF AllMapped

LEMMA MemoryRestated ==
    ASSUME TypeOK
    PROVE  (proc = "up" /\ ~faulty => Balanced) => MemoryIsRow
<1>1. queue \in Seq(Delta) /\ net \in [Paths -> Seq(Row)]
  BY DEF TypeOK
<1>2. /\ Unwritten(LAMBDA d : d.stock) = Written(StockOf, queue)
      /\ Unwritten(LAMBDA d : d.jackpot) = Written(JackpotOf, queue)
  BY <1>1, UnwrittenWritten DEF Unwritten
<1>3. /\ Untold(LAMBDA r : r.stock) = AllMapped(ToldStock, net)
      /\ Untold(LAMBDA r : r.jackpot) = AllMapped(ToldJackpot, net)
  BY <1>1, UntoldAllMapped DEF Untold
<1> QED
  BY <1>2, <1>3 DEF MemoryIsRow, Balanced

\* What a queue and the messages on the way are worth is a number, changes by
\* what is appended or taken, and is 0 when nothing is there.
LEMMA ValuesTyped ==
    /\ StockOf \in [Delta -> Int] /\ JackpotOf \in [Delta -> Int]
    /\ ToldStock \in [Row -> Int] /\ ToldJackpot \in [Row -> Int]
  BY DEF StockOf, JackpotOf, ToldStock, ToldJackpot, Delta, Row

LEMMA WrittenFacts ==
    ASSUME NEW q \in Seq(Delta)
    PROVE  /\ Written(StockOf, q) \in Int /\ Written(JackpotOf, q) \in Int
           /\ \A d \in Delta :
                /\ Written(StockOf, Append(q, d)) = Written(StockOf, q) + d.stock
                /\ Written(JackpotOf, Append(q, d)) = Written(JackpotOf, q) + d.jackpot
           /\ q # <<>> =>
                /\ Written(StockOf, Tail(q)) = Written(StockOf, q) - Head(q).stock
                /\ Written(JackpotOf, Tail(q)) = Written(JackpotOf, q) - Head(q).jackpot
<1>1. Written(StockOf, q) \in Int /\ Written(JackpotOf, q) \in Int
  BY ValuesTyped, MappedInt DEF Written
<1>2. ASSUME NEW d \in Delta
      PROVE  /\ Written(StockOf, Append(q, d)) = Written(StockOf, q) + d.stock
             /\ Written(JackpotOf, Append(q, d)) = Written(JackpotOf, q) + d.jackpot
  <2>1. StockOf[d] = d.stock /\ JackpotOf[d] = d.jackpot
    BY DEF StockOf, JackpotOf
  <2>2. SumFunction(Mapped(StockOf, Append(q, d))) = SumFunction(Mapped(StockOf, q)) + StockOf[d]
    BY ValuesTyped, MappedAppend
  <2>3. SumFunction(Mapped(JackpotOf, Append(q, d)))
           = SumFunction(Mapped(JackpotOf, q)) + JackpotOf[d]
    BY ValuesTyped, MappedAppend
  <2> QED
    BY <2>1, <2>2, <2>3 DEF Written
<1>3. ASSUME q # <<>>
      PROVE  /\ Written(StockOf, Tail(q)) = Written(StockOf, q) - Head(q).stock
             /\ Written(JackpotOf, Tail(q)) = Written(JackpotOf, q) - Head(q).jackpot
  <2>1. Head(q) \in Delta
    BY <1>3
  <2>2. StockOf[Head(q)] = Head(q).stock /\ JackpotOf[Head(q)] = Head(q).jackpot
    BY <2>1 DEF StockOf, JackpotOf
  <2> QED
    BY <1>3, <2>2, ValuesTyped, MappedTail DEF Written
<1> QED
  BY <1>1, <1>2, <1>3

LEMMA WrittenEmpty == Written(StockOf, <<>>) = 0 /\ Written(JackpotOf, <<>>) = 0
  BY MappedEmpty DEF Written

LEMMA ToldInt ==
    ASSUME NEW n \in [Paths -> Seq(Row)]
    PROVE  AllMapped(ToldStock, n) \in Int /\ AllMapped(ToldJackpot, n) \in Int
<1>1. Valued(Paths, Row, ToldStock, n) /\ Valued(Paths, Row, ToldJackpot, n)
  BY ValuesTyped, PathsFinite DEF Valued
<1> QED
  BY <1>1, AllMappedInt

LEMMA ToldAppend ==
    ASSUME NEW n \in [Paths -> Seq(Row)], NEW p \in Paths, NEW r \in Row,
           NEW m, m = [n EXCEPT ![p] = Append(@, r)]
    PROVE  /\ AllMapped(ToldStock, m) = AllMapped(ToldStock, n) + ToldStock[r]
           /\ AllMapped(ToldJackpot, m) = AllMapped(ToldJackpot, n) + ToldJackpot[r]
<1>1. /\ m \in [Paths -> Seq(Row)] /\ m[p] = Append(n[p], r)
      /\ \A j \in Paths : j # p => m[j] = n[j]
  OBVIOUS
<1>2. /\ Sends(Paths, Row, ToldStock, n, m, p, r)
      /\ Sends(Paths, Row, ToldJackpot, n, m, p, r)
  BY <1>1, ValuesTyped, PathsFinite DEF Sends, OneChanges, Valued
<1>3. AllMapped(ToldStock, m) = AllMapped(ToldStock, n) + ToldStock[r]
  BY <1>2, AllMappedAppend
<1>4. AllMapped(ToldJackpot, m) = AllMapped(ToldJackpot, n) + ToldJackpot[r]
  BY <1>2, AllMappedAppend
<1> QED
  BY <1>3, <1>4

LEMMA ToldTail ==
    ASSUME NEW n \in [Paths -> Seq(Row)], NEW p \in Paths, n[p] # <<>>,
           NEW m, m = [n EXCEPT ![p] = Tail(@)]
    PROVE  /\ AllMapped(ToldStock, m) = AllMapped(ToldStock, n) - ToldStock[Head(n[p])]
           /\ AllMapped(ToldJackpot, m) = AllMapped(ToldJackpot, n) - ToldJackpot[Head(n[p])]
<1>1. /\ m \in [Paths -> Seq(Row)] /\ m[p] = Tail(n[p])
      /\ \A j \in Paths : j # p => m[j] = n[j]
  OBVIOUS
<1>2. /\ Takes(Paths, Row, ToldStock, n, m, p, Head(n[p]))
      /\ Takes(Paths, Row, ToldJackpot, n, m, p, Head(n[p]))
  BY <1>1, ValuesTyped, PathsFinite DEF Takes, OneChanges, Valued
<1>3. AllMapped(ToldStock, m) = AllMapped(ToldStock, n) - ToldStock[Head(n[p])]
  BY <1>2, AllMappedTail
<1>4. AllMapped(ToldJackpot, m) = AllMapped(ToldJackpot, n) - ToldJackpot[Head(n[p])]
  BY <1>2, AllMappedTail
<1> QED
  BY <1>3, <1>4

LEMMA ToldEmpty ==
    ASSUME NEW n, DOMAIN n = Paths, \A p \in Paths : n[p] = <<>>
    PROVE  AllMapped(ToldStock, n) = 0 /\ AllMapped(ToldJackpot, n) = 0
  BY PathsFinite, AllMappedEmpty

\* The numbers a step works with.
Numbers ==
    /\ stock \in Int /\ jackpot \in Int /\ books \in Int
    /\ row.stock \in Int /\ row.jackpot \in Int
    /\ Written(StockOf, queue) \in Int /\ Written(JackpotOf, queue) \in Int
    /\ AllMapped(ToldStock, net) \in Int /\ AllMapped(ToldJackpot, net) \in Int

LEMMA PotsTyped ==
    ASSUME StockInv
    PROVE  /\ Numbers
           /\ row \in Row /\ row.stock \in Int /\ row.jackpot \in Int
           /\ queue \in Seq(Delta) /\ net \in [Paths -> Seq(Row)]
<1>1. /\ stock \in Int /\ jackpot \in Int /\ books \in Int /\ row \in Row
      /\ queue \in Seq(Delta) /\ net \in [Paths -> Seq(Row)]
  BY DEF StockInv, TypeOK
<1> QED
  BY <1>1, RowFields, WrittenFacts, ToldInt DEF Numbers

LEMMA PotsInit == Init => PotsInv
<1> SUFFICES ASSUME Init PROVE PotsInv
  OBVIOUS
<1>1. StockInv
  BY StockInit
<1>2. DOMAIN net = Paths /\ \A p \in Paths : net[p] = <<>>
  BY DEF Init
<1>3. AllMapped(ToldStock, net) = 0 /\ AllMapped(ToldJackpot, net) = 0
  BY <1>2, ToldEmpty
<1>4. Written(StockOf, queue) = 0 /\ Written(JackpotOf, queue) = 0
  BY WrittenEmpty DEF Init
<1>5. row.stock \in Int /\ row.jackpot \in Int
  BY <1>1, PotsTyped
<1>6. stock = row.stock /\ jackpot = row.jackpot /\ books = row.stock + row.jackpot
  BY DEF Init
<1>7. Balanced /\ BooksKept
  BY <1>3, <1>4, <1>5, <1>6 DEF Balanced, BooksKept
<1> QED
  BY <1>1, <1>7 DEF PotsInv, Init

\* The process and its database thread.
LEMMA PotsProcess ==
    ASSUME PotsInv, StockInv', Start \/ StopRun \/ DoRetire \/ Crash \/ Database
    PROVE  PotsInv'
<1>0. StockInv
  BY DEF PotsInv
<1>1. CASE Start
  <2>1. /\ queue' = <<>> /\ proc' = "up" /\ net' = net /\ row' = row /\ faulty' = FALSE
        /\ stock' = row.stock /\ jackpot' = row.jackpot /\ books' = row.stock + row.jackpot
    BY <1>1 DEF Start, LoadRow, site
  <2>2. DOMAIN net = Paths /\ \A p \in Paths : net[p] = <<>>
    BY <1>0, <1>1 DEF Start, PotsInv, StockInv, TypeOK
  <2>3. AllMapped(ToldStock, net') = 0 /\ AllMapped(ToldJackpot, net') = 0
    BY <2>1, <2>2, ToldEmpty
  <2>4. Written(StockOf, queue') = 0 /\ Written(JackpotOf, queue') = 0
    BY <2>1, WrittenEmpty
  <2>5. row.stock \in Int /\ row.jackpot \in Int
    BY <1>0, PotsTyped
  <2>6. Balanced' /\ BooksKept'
    BY <2>1, <2>3, <2>4, <2>5 DEF Balanced, BooksKept
  <2> QED
    BY <2>1, <2>6 DEF PotsInv
<1>2. CASE DoRetire \/ Crash
  BY <1>2 DEF DoRetire, Crash, Leave, PotsInv
<1>3. CASE StopRun
  <2>1. /\ proc = "up" /\ proc' = "stopping" /\ \A p \in Paths : net'[p] = <<>>
        /\ UNCHANGED <<row, queue, books, faulty>>
    BY <1>3 DEF StopRun, Leave
  <2>2. BooksKept => BooksKept'
    BY <2>1 DEF BooksKept
  <2> QED
    BY <2>1, <2>2 DEF PotsInv
<1>4. CASE DbThreadStart
  <2>1. UNCHANGED <<stock, jackpot, row, queue, net, proc, books, faulty>>
    BY <1>4 DEF DbThreadStart, pots, site
  <2>2. (Balanced => Balanced') /\ (BooksKept => BooksKept')
    BY <2>1 DEF Balanced, BooksKept
  <2> QED
    BY <2>1, <2>2 DEF PotsInv
<1>5. CASE DbThreadEnd
  <2>1. /\ proc = "stopping" /\ proc' = "stopped" /\ queue = <<>>
        /\ UNCHANGED <<row, queue, net, books, faulty>>
    BY <1>5 DEF DbThreadEnd, site, db
  <2>2. BooksKept => BooksKept'
    BY <2>1 DEF BooksKept
  <2> QED
    BY <2>1, <2>2 DEF PotsInv
<1>6. CASE DbWriteFails
  <2>1. /\ proc \in {"up", "stopping"} /\ faulty' = TRUE /\ UNCHANGED <<proc, net>>
    BY <1>6 DEF DbWriteFails, site
  <2> QED
    BY <2>1 DEF PotsInv
<1>7. CASE DbWrite
  <2> DEFINE d == Head(queue)
  <2>1. /\ proc \in {"up", "stopping"} /\ queue # <<>> /\ queue' = Tail(queue)
        /\ row' = [row EXCEPT !.stock = @ + d.stock, !.jackpot = @ + d.jackpot]
        /\ UNCHANGED <<stock, jackpot, net, proc, books, faulty>>
    BY <1>7 DEF DbWrite, pots
  <2>2. d \in Delta /\ d.stock \in Int /\ d.jackpot \in Int
    <3>1. queue \in Seq(Delta)
      BY <1>0, PotsTyped
    <3>2. d \in Delta
      BY <2>1, <3>1
    <3> QED
      BY <3>2 DEF Delta
  <2>3. row'.stock = row.stock + d.stock /\ row'.jackpot = row.jackpot + d.jackpot
    BY <1>0, <2>1, PotsTyped DEF Row
  <2>4. /\ Written(StockOf, queue') = Written(StockOf, queue) - d.stock
        /\ Written(JackpotOf, queue') = Written(JackpotOf, queue) - d.jackpot
    BY <1>0, <2>1, PotsTyped, WrittenFacts
  <2> HIDE DEF d
  <2>5. Numbers
    BY <1>0, PotsTyped
  <2>6. stock' = stock /\ jackpot' = jackpot /\ net' = net /\ books' = books
    BY <2>1
  <2>7. Balanced => Balanced'
    BY <2>2, <2>3, <2>4, <2>5, <2>6 DEF Balanced, Numbers
  <2>8. BooksKept => BooksKept'
    BY <2>2, <2>3, <2>4, <2>5, <2>6 DEF BooksKept, Numbers
  <2> QED
    BY <2>1, <2>7, <2>8 DEF PotsInv
<1> QED
  BY <1>1, <1>2, <1>3, <1>4, <1>5, <1>6, <1>7 DEF Database

\* A settlement books the same in memory and in the queue, unless the queue
\* throws it away; and what it books is what the humans won, turned round.
LEMMA PotsEnd ==
    ASSUME PotsInv, StockInv', NEW t \in Tables, NEW fee \in Fees, EndRound(t, fee)
    PROVE  PotsInv'
<1> DEFINE w == round[t].win - fee
           d == IF round[t].mixed /\ w # 0 THEN Booking(w) ELSE Nothing
<1>0. StockInv
  BY DEF PotsInv
<1>1. round[t] \in Dealt
  BY <1>0 DEF EndRound, StockInv, TypeOK
<1>2. w \in Int /\ round[t].mixed \in BOOLEAN
  BY <1>1, DealtFields
<1>3. /\ d \in Delta
      /\ round[t].mixed => d.stock + d.jackpot = -w
      /\ ~round[t].mixed => d = Nothing
  BY <1>0, <1>2, BookingBounds DEF StockInv, Nothing, Delta
<1>4. d.stock \in Int /\ d.jackpot \in Int
  BY <1>3 DEF Delta
<1>5. /\ stock' = stock + d.stock
      /\ jackpot' = jackpot + d.jackpot
      /\ queue' = IF d # Nothing /\ dbRun THEN Append(queue, d) ELSE queue
      /\ faulty' = (faulty \/ (d # Nothing /\ ~dbRun))
      /\ books' = IF round[t].mixed THEN books - w ELSE books
      /\ proc = "up" /\ UNCHANGED <<row, net, proc>>
  BY DEF EndRound, site
<1>6. d = Nothing => d.stock = 0 /\ d.jackpot = 0
  BY DEF Nothing
<1> HIDE DEF d, w
<1>7. ASSUME ~faulty'
      PROVE  /\ Written(StockOf, queue') = Written(StockOf, queue) + d.stock
             /\ Written(JackpotOf, queue') = Written(JackpotOf, queue) + d.jackpot
  <2>1. queue \in Seq(Delta)
    BY <1>0, PotsTyped
  <2>2. CASE d = Nothing
    <3>1. queue' = queue /\ d.stock = 0 /\ d.jackpot = 0
      BY <1>5, <1>6, <2>2
    <3>2. Written(StockOf, queue) \in Int /\ Written(JackpotOf, queue) \in Int
      BY <2>1, WrittenFacts
    <3> QED
      BY <3>1, <3>2
  <2>3. CASE d # Nothing
    <3>1. queue' = Append(queue, d)
      BY <1>5, <1>7, <2>3
    <3> QED
      BY <1>3, <2>1, <3>1, WrittenFacts
  <2> QED
    BY <2>2, <2>3
<1>8. ASSUME ~faulty', Balanced, BooksKept
      PROVE  Balanced' /\ BooksKept'
  <2>0. Numbers
    BY <1>0, PotsTyped
  <2> DEFINE x == d.stock
             y == d.jackpot
  <2>1. x \in Int /\ y \in Int /\ stock' = stock + x /\ jackpot' = jackpot + y /\ row' = row
    BY <1>4, <1>5
  <2>2. /\ Written(StockOf, queue') = Written(StockOf, queue) + x
        /\ Written(JackpotOf, queue') = Written(JackpotOf, queue) + y
        /\ net' = net
    BY <1>5, <1>7, <1>8
  <2>3. books' = books + x + y
    <3>1. books \in Int
      BY <2>0 DEF Numbers
    <3>2. CASE round[t].mixed
      <4>1. x + y = -w /\ books' = books - w
        BY <1>3, <1>5, <3>2
      <4> HIDE DEF x, y
      <4> QED
        BY <1>2, <2>1, <3>1, <4>1
    <3>3. CASE ~round[t].mixed
      <4>1. x = 0 /\ y = 0 /\ books' = books
        BY <1>3, <1>5, <1>6, <3>3
      <4> HIDE DEF x, y
      <4> QED
        BY <3>1, <4>1
    <3> QED
      BY <3>2, <3>3
  <2> HIDE DEF x, y
  <2>4. Balanced'
    BY <1>8, <2>0, <2>1, <2>2 DEF Balanced, Numbers
  <2>5. BooksKept'
    BY <1>8, <2>0, <2>1, <2>2, <2>3 DEF BooksKept, Numbers
  <2> QED
    BY <2>4, <2>5
<1>9. ~faulty' => ~faulty
  BY <1>5
<1> QED
  BY <1>5, <1>8, <1>9 DEF PotsInv

\* The site changes the row and sends the room the same, or the change is lost.
LEMMA PotsSite ==
    ASSUME PotsInv, StockInv', NEW req \in Requests, NEW p \in Paths, SiteChange(req, p)
    PROVE  PotsInv'
<1> DEFINE r == Told(req, p)
           a == ToldStock[r]
           b == ToldJackpot[r]
<1>0. StockInv
  BY DEF PotsInv
<1>1. /\ r \in Row /\ Added(req, p) = r.stock + r.jackpot
      /\ Stored(req, p).stock = row.stock + r.stock
      /\ Stored(req, p).jackpot = row.jackpot + r.jackpot
      /\ r.stock \in Int /\ r.jackpot \in Int
  BY <1>0, RequestRows, RowFields
<1>2. /\ a = IF ValidCfg(r.cfg) THEN r.stock ELSE 0
      /\ b = IF ValidCfg(r.cfg) THEN r.jackpot ELSE 0
      /\ a \in Int /\ b \in Int
  BY <1>1 DEF ToldStock, ToldJackpot
<1>3. /\ IF ValidCfg(r.cfg)
         THEN row' = Stored(req, p) /\ books' = books + Added(req, p)
         ELSE UNCHANGED <<row, books>>
      /\ UNCHANGED <<stock, jackpot, queue, proc>>
  BY DEF SiteChange, pots, db
<1>4. row'.stock = row.stock + a /\ row'.jackpot = row.jackpot + b /\ books' = books + a + b
  <2>1. row.stock \in Int /\ row.jackpot \in Int /\ books \in Int
    BY <1>0, PotsTyped DEF Numbers
  <2>2. CASE ValidCfg(r.cfg)
    <3>1. /\ row'.stock = row.stock + r.stock /\ row'.jackpot = row.jackpot + r.jackpot
          /\ books' = books + (r.stock + r.jackpot)
      BY <1>1, <1>3, <2>2
    <3>2. a = r.stock /\ b = r.jackpot
      BY <1>2, <2>2
    <3> HIDE DEF a, b, r
    <3> QED
      BY <1>2, <2>1, <3>1, <3>2
  <2>3. CASE ~ValidCfg(r.cfg)
    <3>1. row' = row /\ books' = books /\ a = 0 /\ b = 0
      BY <1>2, <1>3, <2>3
    <3> HIDE DEF a, b, r
    <3> QED
      BY <2>1, <3>1
  <2> QED
    BY <2>2, <2>3
<1>8. Numbers
  BY <1>0, PotsTyped
<1> HIDE DEF a, b
<1>5. BooksKept => BooksKept'
  BY <1>2, <1>3, <1>4, <1>8 DEF BooksKept, Numbers
<1>6. CASE proc = "up" /\ net' = [net EXCEPT ![p] = Append(@, r)] /\ UNCHANGED faulty
  <2>1. /\ AllMapped(ToldStock, net') = AllMapped(ToldStock, net) + a
        /\ AllMapped(ToldJackpot, net') = AllMapped(ToldJackpot, net) + b
    BY <1>0, <1>1, <1>6, PotsTyped, ToldAppend DEF a, b
  <2>2. Balanced => Balanced'
    BY <1>2, <1>3, <1>4, <1>8, <2>1 DEF Balanced, Numbers
  <2> QED
    BY <1>3, <1>5, <1>6, <2>2 DEF PotsInv
<1>7. CASE faulty' = (faulty \/ proc = "up") /\ UNCHANGED net
  BY <1>3, <1>5, <1>7 DEF PotsInv
<1> QED
  BY <1>6, <1>7 DEF SiteChange

\* The room takes over what the row has already.
LEMMA PotsChange ==
    ASSUME PotsInv, StockInv', NEW p \in Paths, ChangeRoomStockCfg(p)
    PROVE  PotsInv'
<1> DEFINE r == Head(net[p])
           a == ToldStock[r]
           b == ToldJackpot[r]
<1>0. StockInv
  BY DEF PotsInv
<1>1. /\ proc = "up" /\ net[p] # <<>> /\ net' = [net EXCEPT ![p] = Tail(@)]
      /\ IF ValidCfg(r.cfg)
         THEN stock' = stock + r.stock /\ jackpot' = jackpot + r.jackpot
         ELSE UNCHANGED pots
      /\ UNCHANGED <<row, queue, proc, books, faulty>>
  BY DEF ChangeRoomStockCfg, db
<1>2. r \in Row
  <2>1. net[p] \in Seq(Row)
    BY <1>0, PotsTyped
  <2> QED
    BY <1>1, <2>1
<1>3. /\ a = IF ValidCfg(r.cfg) THEN r.stock ELSE 0
      /\ b = IF ValidCfg(r.cfg) THEN r.jackpot ELSE 0
      /\ a \in Int /\ b \in Int
  BY <1>2, RowFields DEF ToldStock, ToldJackpot
<1>4. stock' = stock + a /\ jackpot' = jackpot + b
  <2>1. stock \in Int /\ jackpot \in Int
    BY <1>0, PotsTyped DEF Numbers
  <2>2. CASE ValidCfg(r.cfg)
    BY <1>1, <1>3, <2>2
  <2>3. CASE ~ValidCfg(r.cfg)
    <3>1. stock' = stock /\ jackpot' = jackpot /\ a = 0 /\ b = 0
      BY <1>1, <1>3, <2>3 DEF pots
    <3> HIDE DEF a, b, r
    <3> QED
      BY <2>1, <3>1
  <2> QED
    BY <2>2, <2>3
<1>5. /\ AllMapped(ToldStock, net') = AllMapped(ToldStock, net) - a
      /\ AllMapped(ToldJackpot, net') = AllMapped(ToldJackpot, net) - b
  BY <1>0, <1>1, PotsTyped, ToldTail
<1> HIDE DEF a, b
<1>6. (Balanced => Balanced') /\ (BooksKept => BooksKept')
  <2>1. Numbers
    BY <1>0, PotsTyped
  <2>2. UNCHANGED <<row, queue, books>>
    BY <1>1
  <2>3. Balanced => Balanced'
    BY <1>3, <1>4, <1>5, <2>1, <2>2 DEF Balanced, Numbers
  <2>4. BooksKept => BooksKept'
    BY <2>2 DEF BooksKept
  <2> QED
    BY <2>3, <2>4
<1> QED
  BY <1>1, <1>6 DEF PotsInv

LEMMA PotsNext == PotsInv /\ [Next]_vars => PotsInv'
<1> SUFFICES ASSUME PotsInv, [Next]_vars PROVE PotsInv'
  OBVIOUS
<1>0. StockInv'
  BY StockNext DEF PotsInv
<1>1. CASE Start \/ StopRun \/ DoRetire \/ Crash \/ Database
  BY <1>0, <1>1, PotsProcess
<1>2. CASE UNCHANGED <<stock, jackpot, row, queue, net, proc, books, faulty>>
  <2>1. (Balanced => Balanced') /\ (BooksKept => BooksKept')
    BY <1>2 DEF Balanced, BooksKept
  <2> QED
    BY <1>0, <1>2, <2>1 DEF PotsInv
<1>3. CASE \E t \in Tables, w \in Scores, mixed \in BOOLEAN : DealRound(t, w, mixed)
  BY <1>2, <1>3 DEF DealRound, pots, site, db
<1>4. CASE \E t \in Tables, fee \in Fees : EndRound(t, fee)
  BY <1>0, <1>4, PotsEnd
<1>5. CASE \E t \in Tables : DismissRound(t)
  BY <1>2, <1>5 DEF DismissRound, pots, site, db
<1>6. CASE \E req \in Requests, p \in Paths : SiteChange(req, p)
  BY <1>0, <1>6, PotsSite
<1>7. CASE \E p \in Paths : ChangeRoomStockCfg(p)
  BY <1>0, <1>7, PotsChange
<1>8. CASE UNCHANGED vars
  BY <1>2, <1>8 DEF vars
<1> QED
  BY <1>1, <1>3, <1>4, <1>5, <1>6, <1>7, <1>8 DEF Next, Database

\* The pots of memory and row are tied together in every reachable state.
THEOREM PotsCorrect == Spec => []PotsInv
  BY PotsInit, PotsNext, PTL DEF Spec

\* As long as nothing was lost, each pot in memory is the row's, plus what is
\* still to write, less what the room has not been told (UpdateStock, CDBTask,
\* ChangeRoomStockCfg).
THEOREM MemoryIsRowCorrect == Spec => []MemoryIsRow
<1>1. PotsInv => MemoryIsRow
  BY MemoryRestated DEF PotsInv, StockInv
<1> QED
  BY <1>1, PotsCorrect, PTL

\* An orderly stop loses no round (GameServerShutDown, CDBTask::stop).
THEOREM StopSavesAllCorrect == Spec => []StopSavesAll
<1>1. PotsInv => StopSavesAll
  <2> SUFFICES ASSUME PotsInv, proc = "stopped", ~faulty
               PROVE  row.stock + row.jackpot = books
    BY DEF StopSavesAll
  <2>1. BooksKept /\ queue = <<>>
    BY DEF PotsInv
  <2>2. Written(StockOf, queue) = 0 /\ Written(JackpotOf, queue) = 0
    BY <2>1, WrittenEmpty
  <2>3. row.stock \in Int /\ row.jackpot \in Int
    BY PotsTyped DEF PotsInv
  <2> QED
    BY <2>1, <2>2, <2>3 DEF BooksKept
<1> QED
  BY <1>1, PotsCorrect, PTL
=============================================================================
