----------------------------- MODULE BankerTable -----------------------------
(***************************************************************************)
(* A baccarat table: its banker, the queue of those who want to be banker, *)
(* and the bets.                                                           *)
(*                                                                         *)
(* A player who applies has his stake taken from his coins (it is locked)  *)
(* until he leaves the queue: he gives up, is put off, or becomes banker.  *)
(* The stake of the banker is a number of the table only: the coins are    *)
(* his again, and so are the coins that are bet, until the round ends.     *)
(* What keeps them there is what the other handlers refuse.                *)
(*                                                                         *)
(* Seats are left out: what a round brings is paid to everyone at the      *)
(* table, seated or not, once.  Of the eight areas there are two: one that *)
(* pays as much as was bet, and one that pays a multiple.                  *)
(***************************************************************************)
EXTENDS Integers, Sequences, FiniteSets, Functions

CONSTANTS
    Players,     \* who may be at the table, robots included
    Robots,      \* those of them that are robots
    NoPlayer,    \* no banker
    Coins0,      \* what each has
    Base,        \* base score of the room: the least stake
    MostTimes,   \* GetApplyBankerConditionLimit: the most stake, in base scores
    Limit,       \* m_BankerTimeLimit: rounds of a banker
    JettonMin,   \* GetJettonMin: coins that betting must leave
    JumpCost,    \* GetJumpQueueCost
    High,        \* what the second area pays
    FeePart,     \* the house takes one part in FeePart of what is won
    Stakes,      \* stakes that are asked for
    Jettons,     \* bets that are asked for: only 0 is refused
    Moves,       \* coins moved between rounds: safe box, exchange, broadcast
    MaxEvents    \* bound: requests of players

ASSUME BankerAssumption ==
    /\ NoPlayer \notin Players
    /\ IsFiniteSet(Players) /\ Robots \subseteq Players
    /\ {Coins0, JettonMin, JumpCost, MaxEvents} \subseteq Nat
    /\ {Base, MostTimes, Limit, High, FeePart} \subseteq Nat \ {0}
    /\ Stakes \subseteq Nat \ {0}
    /\ Jettons \subseteq Int \ {0}
    /\ Moves \subseteq Int

Areas == {"even", "high"}

Multiple == [even |-> 1, high |-> High]

\* What a hand makes of an area (m_cbWinArea).
Outcomes == [Areas -> {"won", "lost", "tie"}]

VARIABLES
    state,    \* "free", "jetton" (bets are taken) or "end" (the hand is shown)
    here,     \* who is at the table
    online,   \* whose net state is not 0
    coin,     \* coins on the game server
    queue,    \* m_ApplyUserArray
    lock,     \* m_ApplyUserScore: kept when the stake is paid back
    auto,     \* m_mpApplyUserInfo: whether he wants his stake topped up
    bank,     \* the banker, his stake and his term
    bets,     \* m_userJettonScore
    all,      \* m_allJettonScore
    due,      \* ghost: what a player would have if nothing were locked
    taken,    \* ghost: what was taken from a player's coins while they were at stake
    below,    \* ghost: a bet below zero was taken this round
    events    \* requests so far

vars == <<state, here, online, coin, queue, lock, auto, bank, bets, all, due, taken, below, events>>

NoBank == [who |-> NoPlayer, score |-> 0, initial |-> 0, refill |-> FALSE,
           leave |-> FALSE, times |-> 0]

NoBets == [a \in Areas |-> 0]

TypeOK ==
    /\ state \in {"free", "jetton", "end"}
    /\ {here, online} \subseteq SUBSET Players
    /\ coin \in [Players -> Nat]
    /\ queue \in Seq(Players)
    /\ lock \in [Players -> Nat]
    /\ auto \in [Players -> BOOLEAN]
    /\ bank \in [who : Players \cup {NoPlayer}, score : Int, initial : Nat,
                 refill : BOOLEAN, leave : BOOLEAN, times : 0 .. Limit]
    /\ bets \in [Players -> [Areas -> Int]]
    /\ all \in [Areas -> Int]
    /\ due \in [Players -> Int]
    /\ taken \in [Players -> Nat]
    /\ below \in BOOLEAN
    /\ events \in 0 .. MaxEvents

-----------------------------------------------------------------------------
(* What several handlers do.  Operators named Broken... are seeded bugs:   *)
(* nothing uses them but the tests of the properties.                      *)

BrokenNoFloor(n) == n

Least0(n) == IF n < 0 THEN 0 ELSE n

Smaller(m, n) == IF m < n THEN m ELSE n

Total(f) == f["even"] + f["high"]

Queued(p) == \E i \in DOMAIN queue : queue[i] = p

\* IsSetJetton: once the hand is shown a bet holds nobody.
IsSetJetton(p) == state # "end" /\ \E a \in Areas : bets[p][a] > 0

BrokenBankerLeaves(p) == ~IsSetJetton(p) /\ ~Queued(p)

\* Neither a banker, nor a player with a bet, nor one in the queue may leave.
CanLeaveTable(p) == bank.who # p /\ ~IsSetJetton(p) /\ ~Queued(p)

\* A sequence without its i-th element.
Without(q, i) == [j \in 1 .. Len(q) - 1 |-> q[IF j < i THEN j ELSE j + 1]]

BrokenPaysTwice(p) ==
    IF Queued(p)
      THEN \E i \in DOMAIN queue :
             /\ queue[i] = p
             /\ queue' = Without(queue, i)
             /\ coin' = [coin EXCEPT ![p] = @ + lock[p]]
      ELSE /\ coin' = [coin EXCEPT ![p] = @ + lock[p]]
           /\ UNCHANGED queue

\* RemoveApplyBanker: the stake of a player in the queue is paid back.
RemoveApplyBanker(p) ==
    \/ /\ ~Queued(p)
       /\ UNCHANGED <<queue, coin>>
    \/ \E i \in DOMAIN queue :
         /\ queue[i] = p
         /\ queue' = Without(queue, i)
         /\ coin' = [coin EXCEPT ![p] = @ + lock[p]]

\* OnUserCancelBanker: a banker stays until the round is over; one who is
\* banker between two rounds is not heard.
CancelBanker(p) ==
    /\ bank' = IF bank.who = p /\ state # "free" THEN [bank EXCEPT !.leave = TRUE] ELSE bank
    /\ RemoveApplyBanker(p)

\* The banker's stake is topped up to what he began with, from the coins
\* that are not in it.
AutoAdded(c) ==
    LET more == Smaller(bank.initial - bank.score, c[bank.who] - bank.score)
    IN  IF /\ bank.refill /\ ~bank.leave /\ bank.times < Limit
           /\ more > 0
           /\ bank.score + more >= Base
          THEN [bank EXCEPT !.score = @ + more]
          ELSE bank

\* The banker's term is over.
TermEnds(b) == b.leave \/ Limit <= b.times \/ b.score < Base

\* TakeTurns at a free table, for the queue q and the coins c.  Every stake in
\* the queue is at least Base (OnUserApplyBanker, and QueueSound below): the
\* first who is online becomes banker, those before him are put off, and all
\* of them are paid back.
TakeTurns(q, c) ==
    \E k \in 0 .. Len(q) :
      /\ \A i \in 1 .. k - 1 : q[i] \notin online
      /\ k < Len(q) => k > 0 /\ q[k] \in online
      /\ queue' = [j \in 1 .. Len(q) - k |-> q[j + k]]
      /\ coin' = [p \in Players |->
                    IF \E i \in 1 .. k : q[i] = p THEN c[p] + lock'[p] ELSE c[p]]
      /\ bank' = IF k > 0 /\ q[k] \in online
                   THEN [who |-> q[k], score |-> lock'[q[k]], initial |-> lock'[q[k]],
                         refill |-> auto'[q[k]], leave |-> FALSE, times |-> 0]
                   ELSE NoBank

\* ChangeBanker(false) and CalcBankerScore: only a free table gets a new
\* banker, so that at the end of a round a banker may go and none come.
ChangeBanker(q, c) ==
    \/ /\ bank.who # NoPlayer
       /\ ~TermEnds(AutoAdded(c))
       /\ bank' = AutoAdded(c)
       /\ queue' = q
       /\ coin' = c
    \/ /\ bank.who = NoPlayer \/ TermEnds(AutoAdded(c))
       /\ \/ state = "free" /\ TakeTurns(q, c)
          \/ state # "free" /\ bank' = NoBank /\ queue' = q /\ coin' = c

\* Between two rounds only the banker has a stake; a new one has lost nothing
\* of it yet.
StillTaken ==
    taken' = [p \in Players |-> IF p = bank.who /\ p = bank'.who THEN taken[p] ELSE 0]

\* What a round brings a player.
Won(p, out) ==
    LET part(a) == CASE out[a] = "won"  -> bets[p][a] * Multiple[a]
                     [] out[a] = "lost" -> -bets[p][a]
                     [] out[a] = "tie"  -> 0
    IN  part("even") + part("high")

\* What the players' results take from the banker or bring him.  A player who
\* is gone has no bets any more (OnPlayerJoin), though m_allJettonScore still
\* has them.
BankerWon(out) == -SumFunction([p \in Players |-> Won(p, out)])

\* What the house leaves of it (DeducEndFee).
AfterFee(n) == IF n > 0 THEN n - (n \div FeePart) ELSE n

BrokenUncounted(out) == [bank EXCEPT !.score = @ + AfterFee(BankerWon(out))]

\* The banker's part of the end of a round.
Played(out) ==
    [bank EXCEPT !.score = @ + AfterFee(BankerWon(out)), !.times = @ + 1]

BrokenRoom(p, n) == n <= Least0(coin[p] - Total(bets[p]))

\* GetUserMaxJetton: a player's own coins, and what the bets so far leave of
\* the banker's stake.  The new bet counts once, whatever its area pays.
RoomForBet(p, n) ==
    n <= Least0(Smaller(coin[p] - Total(bets[p]),
                        bank.score - (all["even"] + all["high"] * High)))

RobotLists ==
    {s \in UNION {[1 .. n -> Robots] : n \in 0 .. Cardinality(Robots)} :
        \A i, j \in DOMAIN s : s[i] = s[j] => i = j}

RobotStakes == Stakes \cup Base .. 2 * Base

\* CheckRobotApplyBanker: a robot with little offers all of it, another one
\* twice the base score or more, topped up.
RobotMayApply(r, n) ==
    /\ r \in here /\ ~Queued(r)
    /\ IF coin[r] < 2 * Base THEN n = coin[r] ELSE 2 * Base <= n
    /\ n <= coin[r] /\ Base <= n /\ n <= MostTimes * Base

Request == events < MaxEvents /\ events' = events + 1

\* The player p is gone from the table (OnPlayerJoin).
Gone(p) ==
    /\ here' = here \ {p}
    /\ CancelBanker(p)
    /\ bets' = [bets EXCEPT ![p] = NoBets]
    /\ UNCHANGED <<state, lock, auto, all, due, taken, below>>

-----------------------------------------------------------------------------
(* The table's clock (OnTimeTick).                                         *)

\* OnGameStart with a banker: bets are taken.
StartRound ==
    /\ state = "free" /\ bank.who # NoPlayer
    /\ state' = "jetton"
    /\ UNCHANGED <<here, online, coin, queue, lock, auto, bank, bets, all, due, taken, below, events>>

\* OnGameStart without a banker: robots apply (CheckRobotApplyBanker; which
\* and how many hangs on who sits, and on a random number), and the queue is
\* served.  A robot's ChangeBanker comes to the same as the one at the end.
FindBanker ==
    /\ state = "free" /\ bank.who = NoPlayer
    /\ \E rs \in RobotLists, st \in [Robots -> RobotStakes] :
         LET applies(p) == \E i \in DOMAIN rs : rs[i] = p
         IN  /\ \A r \in Robots : applies(r) => RobotMayApply(r, st[r])
             /\ lock' = [p \in Players |-> IF applies(p) THEN st[p] ELSE lock[p]]
             /\ auto' = [p \in Players |-> IF applies(p) THEN coin[p] >= 2 * Base ELSE auto[p]]
             /\ ChangeBanker(queue \o rs,
                  [p \in Players |-> IF applies(p) THEN coin[p] - st[p] ELSE coin[p]])
    /\ StillTaken
    /\ UNCHANGED <<state, here, online, bets, all, due, below, events>>

\* The hand is dealt, and the round paid (OnGameEnd): the banker, then everyone
\* at the table.  A loss takes no more than there is.
EndRound ==
    /\ state = "jetton"
    /\ state' = "end"
    /\ \E out \in Outcomes :
         /\ bank' = Played(out)
         /\ coin' = [p \in Players |->
                       IF p = bank.who THEN Least0(coin[p] + AfterFee(BankerWon(out)))
                       ELSE IF p \in here THEN Least0(coin[p] + AfterFee(Won(p, out)))
                       ELSE coin[p]]
    /\ due' = [p \in Players |-> due[p] + coin'[p] - coin[p]]
    /\ UNCHANGED <<here, online, queue, lock, auto, bets, all, taken, below, events>>

\* ClearTurnGameData, and the banker's term.
ClearTable ==
    /\ state = "end"
    /\ state' = "free"
    /\ bets' = [p \in Players |-> NoBets]
    /\ all' = NoBets
    /\ below' = FALSE
    /\ UNCHANGED <<here, online, lock, auto, due, events>>
    /\ ChangeBanker(queue, coin)
    /\ StillTaken

OnTimeTick == StartRound \/ FindBanker \/ EndRound \/ ClearTable

-----------------------------------------------------------------------------
(* Players.                                                                *)

EnterTable(p) ==
    /\ Request
    /\ p \notin here
    /\ here' = here \cup {p}
    /\ online' = online \cup {p}
    /\ UNCHANGED <<state, coin, queue, lock, auto, bank, bets, all, due, taken, below>>

LeaveTable(p) ==
    /\ Request
    /\ p \in here /\ CanLeaveTable(p)
    /\ Gone(p)
    /\ UNCHANGED online

\* SetNetState(0): one who may not leave stays, and plays on.
GoOffline(p) ==
    /\ Request
    /\ p \in online
    /\ online' = online \ {p}
    /\ \/ p \in here /\ CanLeaveTable(p) /\ Gone(p)
       \/ /\ p \notin here \/ ~CanLeaveTable(p)
          /\ UNCHANGED <<state, here, coin, queue, lock, auto, bank, bets, all, due, taken, below>>

GoOnline(p) ==
    /\ Request
    /\ p \in here \ online
    /\ online' = online \cup {p}
    /\ UNCHANGED <<state, here, coin, queue, lock, auto, bank, bets, all, due, taken, below>>

\* OnUserApplyBanker: at a free table the first in the queue need not wait.
ApplyBanker(p, n, refill) ==
    /\ Request
    /\ p \in here
    /\ bank.who # p /\ ~IsSetJetton(p) /\ ~Queued(p)
    /\ n <= coin[p] /\ Base <= n /\ n <= MostTimes * Base
    /\ lock' = [lock EXCEPT ![p] = n]
    /\ auto' = [auto EXCEPT ![p] = refill]
    /\ LET q == Append(queue, p)
           c == [coin EXCEPT ![p] = @ - n]
       IN  IF state = "free" /\ Len(q) = 1
             THEN ChangeBanker(q, c) /\ StillTaken
             ELSE queue' = q /\ coin' = c /\ UNCHANGED <<bank, taken>>
    /\ UNCHANGED <<state, here, online, bets, all, due, below>>

\* OnUserJumpApplyQueue: to the head of the queue, for money.
JumpQueue(p) ==
    /\ Request
    /\ p \in here
    /\ coin[p] >= JumpCost
    /\ \E i \in 2 .. Len(queue) :
         /\ queue[i] = p
         /\ queue' = <<p>> \o Without(queue, i)
    /\ coin' = [coin EXCEPT ![p] = @ - JumpCost]
    /\ due' = [due EXCEPT ![p] = @ - JumpCost]
    /\ taken' = IF Total(bets[p]) > 0 THEN [taken EXCEPT ![p] = @ + JumpCost] ELSE taken
    /\ UNCHANGED <<state, here, online, lock, auto, bank, bets, all, below>>

GiveUpBanker(p) ==
    /\ Request
    /\ p \in here
    /\ CancelBanker(p)
    /\ UNCHANGED <<state, here, online, lock, auto, bets, all, due, taken, below>>

\* OnBrcControlApplePlayer: p puts off the player t; what p may do decides only
\* what he is answered.
ForceLeaveBanker(p, t) ==
    /\ Request
    /\ p \in here
    /\ CancelBanker(t)
    /\ UNCHANGED <<state, here, online, lock, auto, bets, all, due, taken, below>>

\* OnUserPlaceJetton.  One who waits in the queue may bet.  Of the amounts only
\* 0 is refused.
PlaceJetton(p, a, n) ==
    /\ Request
    /\ p \in here
    /\ state = "jetton" /\ bank.who # p
    /\ n + Total(bets[p]) <= coin[p]
    /\ JettonMin + n + Total(bets[p]) <= coin[p]
    /\ RoomForBet(p, n)
    /\ bets' = [bets EXCEPT ![p][a] = @ + n]
    /\ all' = [all EXCEPT ![a] = @ + n]
    /\ below' = (below \/ n < 0)
    /\ UNCHANGED <<state, here, online, coin, queue, lock, auto, bank, due, taken>>

\* OnUserContinuousPressure: several bets at once, each above zero, and nothing
\* need be left.
ContinuousPressure(p, f) ==
    /\ Request
    /\ p \in here
    /\ state = "jetton" /\ bank.who # p
    /\ (\A a \in Areas : f[a] >= 0) /\ Total(f) > 0
    /\ Total(f) + Total(bets[p]) <= coin[p]
    /\ RoomForBet(p, Total(f))
    /\ bets' = [bets EXCEPT ![p] = [a \in Areas |-> @[a] + f[a]]]
    /\ all' = [a \in Areas |-> all[a] + f[a]]
    /\ UNCHANGED <<state, here, online, coin, queue, lock, auto, bank, due, taken, below>>

\* The lobby's messages that move coins: refused only while a round is played
\* at the player's table (IsInGamePlaying), so a banker's go through between
\* two rounds.
MoveCoins(p, m) ==
    /\ Request
    /\ p \in here => state = "free"
    /\ coin[p] + m >= 0
    /\ coin' = [coin EXCEPT ![p] = @ + m]
    /\ due' = [due EXCEPT ![p] = @ + m]
    /\ taken' = IF bank.who = p /\ m < 0 THEN [taken EXCEPT ![p] = @ - m] ELSE taken
    /\ UNCHANGED <<state, here, online, queue, lock, auto, bank, bets, all, below>>

Init ==
    /\ state = "free"
    /\ here = Players /\ online = Players
    /\ coin = [p \in Players |-> Coins0]
    /\ queue = <<>>
    /\ lock = [p \in Players |-> 0]
    /\ auto = [p \in Players |-> FALSE]
    /\ bank = NoBank
    /\ bets = [p \in Players |-> NoBets] /\ all = NoBets
    /\ due = coin
    /\ taken = [p \in Players |-> 0]
    /\ below = FALSE
    /\ events = 0

Player(p) ==
    \/ EnterTable(p) \/ LeaveTable(p)
    \/ \E a \in Areas, n \in Jettons : (p \in Robots => n > 0) /\ PlaceJetton(p, a, n)

Client(p) ==
    \/ GoOffline(p) \/ GoOnline(p)
    \/ \E n \in Stakes, refill \in BOOLEAN : ApplyBanker(p, n, refill)
    \/ JumpQueue(p) \/ GiveUpBanker(p) \/ \E t \in Players : ForceLeaveBanker(p, t)
    \/ \E f \in [Areas -> Jettons \cup {0}] : ContinuousPressure(p, f)
    \/ \E m \in Moves : MoveCoins(p, m)

Next ==
    \/ OnTimeTick
    \/ \E p \in Players : Player(p)
    \/ \E p \in Players \ Robots : Client(p)

\* The room ticks its tables again and again.
Spec == Init /\ [][Next]_vars /\ WF_vars(OnTimeTick)

-----------------------------------------------------------------------------
(* Properties.                                                             *)

\* The queue is sound whatever the order in which players apply, jump, give
\* up, are put off, lose their connection and leave: nobody waits twice, the
\* banker does not wait or bet, everyone with a stake or a bet is at the table,
\* and every stake in the queue suffices (what TakeTurns relies on).
QueueSound ==
    /\ \A i, j \in DOMAIN queue : queue[i] = queue[j] => i = j
    /\ \A i \in DOMAIN queue : queue[i] \in here /\ lock[queue[i]] >= Base
    /\ ~Queued(bank.who)
    /\ bank.who \in here \cup {NoPlayer}
    /\ \A p \in Players : bets[p] # NoBets =>
         state # "free" /\ p # bank.who /\ p \in here

\* A stake that was locked is paid back once: with the stake of a player who
\* waits, everyone has what he came with and what play, price and moves made
\* of it.  The record of a stake stays when it has been paid back, so paying
\* once hangs on who is in the queue (UnLockApplyScore).
LocksPaidBack ==
    \A p \in Players : coin[p] + (IF Queued(p) THEN lock[p] ELSE 0) = due[p]

\* What is at stake is there, but for what was taken of it meanwhile: the
\* banker is short of his stake by no more than was moved from his coins since
\* he became banker (MoveCoins between two rounds), and a player of his bets by
\* no more than he paid to jump the queue with them on the table (JumpQueue).
\* The bets are the players', and the stake covers each of them once
\* (GetUserMaxJetton), though not what the last of them may win: that is so
\* until a bet below zero is taken, which counts against the others.
StakesBacked ==
    /\ bank.who \in Players => bank.score <= coin[bank.who] + taken[bank.who]
    /\ state = "jetton" =>
         /\ \A p \in Players : Total(bets[p]) <= coin[p] + taken[p]
         /\ ~below => Total(all) <= bank.score

\* Who waits is served: he becomes banker, is put off, or gives up.  A banker's
\* rounds are limited, and an offline player at the head does not block.
Served == \A p \in Players : []<>~Queued(p)
=============================================================================
