----------------------------- MODULE MCRoomStock -----------------------------
(***************************************************************************)
(* Instances of RoomStock for TLC.  The amounts are small and the rates    *)
(* are chosen so that every division truncates, the stock crosses its      *)
(* ceiling, and the jackpot visits all four zones of IsStockChangeCard:    *)
(* negative, below the kill line, below the trigger, above it.             *)
(***************************************************************************)
EXTENDS RoomStock, TLC

BaseCfg == [stockMax |-> 10, conversion |-> 5000, jackpotMin |-> 10, maxRate |-> 5000,
            rate |-> 2000, coefficient |-> 30, extract |-> 3000, killLine |-> 4,
            winRate |-> 3000]

\* A room whose jackpot is 11 above its trigger: a limit of 5.
MCRow0 == [cfg |-> BaseCfg, stock |-> 8, jackpot |-> 21]

\* A change that pours the stock out and drains the jackpot, one that the game
\* server has to refuse (with coefficient 0 the next deal would divide by zero,
\* with conversion 20000 the stock would fall through its ceiling), and one that
\* it refuses from the lobby and takes over from the dispatch server.
Tighter == [cfg |-> [BaseCfg EXCEPT !.stockMax = 3, !.conversion = 10000, !.killLine = 20],
            stock |-> 5, jackpot |-> -2]
Absurd  == [cfg |-> [BaseCfg EXCEPT !.coefficient = 0, !.conversion = 20000],
            stock |-> 1, jackpot |-> 1]

Lucky   == [cfg |-> [BaseCfg EXCEPT !.winRate = 20000], stock |-> 1, jackpot |-> 1]

MCRequests == {Tighter, Absurd, Lucky}

\* Losing a lot or a little, winning within a limit or above it.
MCScores == {-25, 5, 13}

Symm == Permutations(Tables)
=============================================================================
