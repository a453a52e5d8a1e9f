--------------------------- MODULE PlayerAccount ---------------------------
(***************************************************************************)
(* The coins of the players, which are kept in up to four places.          *)
(*                                                                         *)
(* The row in the database is what counts.  Every lobby that holds an      *)
(* object of the player keeps a copy of it (mem), read once at his login;  *)
(* a game server keeps another (game), made from the copy his lobby sends  *)
(* when he enters.  Games change their copy at once and send the change to *)
(* the lobby he belongs to; lobbies change the row and their copy; a gift  *)
(* to a player at another lobby goes there over the dispatch server.       *)
(* Whether a player has enough is mostly checked on a copy, while a change *)
(* of the row is refused when the row does not cover it.                   *)
(*                                                                         *)
(* Two of the six amounts of an account are modelled, the coins and the    *)
(* coins in the safe box, and one game server.                             *)
(***************************************************************************)
EXTENDS Integers, Sequences, FiniteSets, Functions

CONSTANTS
    Players,
    Lobbies,
    NoLobby,     \* redis names no lobby
    Null,        \* no copy at the game server, no row read
    Row0,        \* what every player has at first
    Gifts,       \* the gifts asked for
    MinGift,     \* the smallest gift, 100 in the code
    Tax,         \* what a gift is taxed (GetGiveTax)
    Results,     \* what a game may do to a player's coins
    Issues,      \* changes the web site asks for
    Boxes,       \* coins taken from the safe box, or put there when negative
    MaxEvents    \* bound: requests of players and site, results, lost messages

Account == [coin : Nat, safe : Nat]
Delta   == [coin : Int, safe : Int]

ASSUME AccountAssumption ==
    /\ NoLobby \notin Lobbies /\ IsFiniteSet(Lobbies)
    /\ Null \notin Account
    /\ Null \notin [acc : Account, belong : Lobbies]
    /\ Row0 \in Account
    /\ Gifts \subseteq Nat /\ MinGift \in Nat
    /\ Tax \in [Gifts -> Nat] /\ \A g \in Gifts : Tax[g] <= g
    /\ Results \subseteq Int /\ Boxes \subseteq Int /\ Issues \subseteq Delta
    /\ MaxEvents \in Nat

VARIABLES
    row,       \* account<n> in the database
    record,    \* OLLOBBY: the lobby redis names for a player
    phase,     \* m_bPlayerState of a lobby's object; "filled": the row has come
    mem,       \* its copy of the row
    cur,       \* m_curSvrID # 0: the lobby takes him to be in a game
    asks,      \* queries of the row under way at a lobby
    read,      \* a row read for a lobby and not delivered yet
    game,      \* the game server's copy, and the lobby he belongs to
    toGame,    \* messages from a lobby to the game server, in order
    toLobby,   \* messages from the game server to a lobby, in order
    mail,      \* gifts sent to a lobby over the dispatch server
    owed,      \* ghost: sum of the changes under way to the lobbies
    posted,    \* ghost: sum of the gifts under way
    house, site, tax, unpaid, dropped,   \* ghosts: the books (module Ledger)
    apart,     \* ghost: who had a change go past a copy, or a copy out of date
    events

lobby == <<phase, mem, cur, asks, read>>
links == <<toGame, toLobby, mail>>
books == <<house, site, tax, unpaid, dropped>>
vars  == <<row, record, lobby, game, links, owed, posted, books, apart, events>>

Sum(d) == d.coin + d.safe

Lowers(d) == d.coin < 0 \/ d.safe < 0

\* A change that takes anything takes at least as much as it brings.
Change == {d \in Delta : Lowers(d) => Sum(d) <= 0}

\* A change that moves coins to or from the safe box.
Swap == {d \in Delta : Sum(d) = 0}

GameMessage ==
    [type : {"enter"}, who : Players, acc : Account]
        \cup [type : {"flush"}, who : Players, acc : Delta]
        \cup [type : {"box"}, who : Players, acc : Swap]

LobbyMessage ==
    [type : {"change"}, who : Players, acc : Change]
        \cup [type : {"leave"}, who : Players, acc : Swap]

Present == [who : Players, coin : Nat]

TypeOK ==
    /\ row \in [Players -> Account]
    /\ record \in [Players -> Lobbies \cup {NoLobby}]
    /\ phase \in [Lobbies -> [Players -> {"none", "load", "filled", "play"}]]
    /\ mem \in [Lobbies -> [Players -> Account]]
    /\ cur \in [Lobbies -> [Players -> BOOLEAN]]
    /\ asks \in [Lobbies -> [Players -> Nat]]
    /\ read \in [Lobbies -> [Players -> Account \cup {Null}]]
    /\ game \in [Players -> [acc : Account, belong : Lobbies] \cup {Null}]
    /\ toGame \in [Lobbies -> Seq(GameMessage)]
    /\ toLobby \in [Lobbies -> Seq(LobbyMessage)]
    /\ mail \in [Lobbies -> Seq(Present)]
    /\ owed \in [Players -> Delta]
    /\ posted \in [Players -> Int]
    /\ {house, site, tax, unpaid, dropped} \subseteq Int
    /\ apart \subseteq Players
    /\ events \in 0 .. MaxEvents

-----------------------------------------------------------------------------
(* What several handlers do.  Operators named Broken... are seeded bugs:   *)
(* nothing uses them but the tests of the properties.                      *)

Plus(a, d) == [coin |-> a.coin + d.coin, safe |-> a.safe + d.safe]

Minus(a, d) == [coin |-> a.coin - d.coin, safe |-> a.safe - d.safe]

Least0(n) == IF n < 0 THEN 0 ELSE n

\* CPlayerBase::ChangeAccountValue on a copy: no amount goes below 0.
Clamped(a, d) == [coin |-> Least0(a.coin + d.coin), safe |-> Least0(a.safe + d.safe)]

BrokenForgetsSafe(a, d) == a.coin + d.coin >= 0

\* CanChangeAccountValue on a copy, and the WHERE of the update of the row.
Covers(a, d) == a.coin + d.coin >= 0 /\ a.safe + d.safe >= 0

BrokenTakesWhatItCan(r, p, d) == [r EXCEPT ![p] = Clamped(@, d)]

\* AtomChangeAccountValue of CDBMysqlMgr: one statement, all or nothing.
RowChanged(r, p, d) == [r EXCEPT ![p] = IF Covers(@, d) THEN Plus(@, d) ELSE @]

\* CPlayer::SyncChangeAccountValue: the copy follows when the row was changed.
MemChanged(m, r, l, p, d) ==
    [m EXCEPT ![l][p] = IF Covers(r[p], d) THEN Clamped(@, d) ELSE @]

\* Changes of p are under way to the lobbies L.
UnderWay(p, L) ==
    \E k \in L : \E i \in DOMAIN toLobby[k] :
        toLobby[k][i].type = "change" /\ toLobby[k][i].who = p

\* Lowering what p has in the row and at lobby l goes past another copy.
PastLobbies(p, l) ==
    \E k \in Lobbies : read[k][p] # Null \/ (k # l /\ phase[k][p] # "none")

PastGame(p) == game[p] # Null \/ UnderWay(p, Lobbies)

\* The copies of p's account may disagree from now on.
MarkApart(p, why) == apart' = IF why THEN apart \cup {p} ELSE apart

\* The row is changed by d through lobby l, or by no lobby's object.
Lowered(p, d, l) ==
    MarkApart(p, Lowers(d) /\ (PastLobbies(p, l) \/ PastGame(p)))

Coins(n) == [coin |-> n, safe |-> 0]
Safe(n)  == [coin |-> 0, safe |-> n]
Zero     == Coins(0)

\* What every request and every game needs.
Event ==
    /\ events < MaxEvents
    /\ events' = events + 1

-----------------------------------------------------------------------------
(* Login, and the row that is read for it.                                 *)

\* handle_msg_login: a player whose object plays is only recorded here again.
Login(l, p) ==
    /\ Event
    /\ record' = [record EXCEPT ![p] = l]
    /\ \/ phase[l][p] = "play" /\ UNCHANGED <<phase, asks>>
       \/ phase[l][p] # "play"
          /\ phase' = [phase EXCEPT ![l][p] = IF @ = "none" THEN "load" ELSE @]
          /\ asks' = [asks EXCEPT ![l][p] = @ + 1]
    /\ UNCHANGED <<row, mem, cur, read, game, links, owed, posted, books, apart>>

\* The lobby's database thread reads the row ...
LoadReads(l, p) ==
    /\ asks[l][p] > 0 /\ read[l][p] = Null
    /\ asks' = [asks EXCEPT ![l][p] = @ - 1]
    /\ read' = [read EXCEPT ![l][p] = row[p]]
    /\ UNCHANGED <<row, record, phase, mem, cur, game, links, owed, posted, books,
                   apart, events>>

\* ... and its answer replaces the copy of an object that still loads.
LoadAnswer(l, p) ==
    /\ read[l][p] # Null
    /\ read' = [read EXCEPT ![l][p] = Null]
    /\ \/ phase[l][p] \in {"load", "filled"}
          /\ mem' = [mem EXCEPT ![l][p] = read[l][p]]
          /\ phase' = [phase EXCEPT ![l][p] = "filled"]
       \/ phase[l][p] \notin {"load", "filled"} /\ UNCHANGED <<mem, phase>>
    /\ UNCHANGED <<row, record, cur, asks, game, links, owed, posted, books, apart,
                   events>>

\* OnGetAllData, once the other parts have come too: redis knows whether he is
\* in a game.
GetAllData(l, p) ==
    /\ phase[l][p] = "filled"
    /\ phase' = [phase EXCEPT ![l][p] = "play"]
    /\ cur' = [cur EXCEPT ![l][p] = game[p] # Null]
    /\ UNCHANGED <<row, record, mem, asks, read, game, links, owed, posted, books,
                   apart, events>>

\* CheckRecoverPlayer.  When an object has to go is a matter of its session
\* (LobbySession); here it may at any time.
Recover(l, p) ==
    /\ phase[l][p] # "none"
    /\ phase' = [phase EXCEPT ![l][p] = "none"]
    /\ mem' = [mem EXCEPT ![l][p] = Zero]
    /\ cur' = [cur EXCEPT ![l][p] = FALSE]
    /\ record' = [record EXCEPT ![p] =
          IF phase[l][p] = "play" /\ @ = l THEN NoLobby ELSE @]
    /\ UNCHANGED <<row, asks, read, game, links, owed, posted, books, apart, events>>

-----------------------------------------------------------------------------
(* In and out of a game, and what games do.                                *)

\* EnterGameSvr: the copy goes along.  A player in the game may enter again.
EnterGame(l, p) ==
    /\ Event
    /\ phase[l][p] = "play"
    /\ cur' = [cur EXCEPT ![l][p] = TRUE]
    /\ toGame' = [toGame EXCEPT ![l] =
          Append(@, [type |-> "enter", who |-> p, acc |-> mem[l][p]])]
    /\ UNCHANGED <<row, record, phase, mem, asks, read, game, toLobby, mail, owed,
                   posted, books, apart>>

\* The game server's copy of p says more than the row will when everything under
\* way has arrived.
Ahead(p, a) ==
    \/ a.coin > row[p].coin + owed[p].coin
    \/ a.safe > row[p].safe + owed[p].safe

BrokenFreshCopy(l) ==
    /\ toGame[l] # <<>> /\ Head(toGame[l]).type = "enter"
    /\ toGame' = [toGame EXCEPT ![l] = Tail(@)]
    /\ LET p == Head(toGame[l]).who
           a == Head(toGame[l]).acc
       IN  /\ game' = [game EXCEPT ![p] = [acc |-> a, belong |-> l]]
           /\ MarkApart(p, UnderWay(p, Lobbies \ {l}) \/ (game[p] = Null /\ Ahead(p, a)))
    /\ UNCHANGED <<row, record, lobby, toLobby, mail, owed, posted, books, events>>

\* handle_msg_enter_svr: a copy that is there stays, and he belongs to the lobby
\* he came from last.
TakeEnter(l) ==
    /\ toGame[l] # <<>> /\ Head(toGame[l]).type = "enter"
    /\ toGame' = [toGame EXCEPT ![l] = Tail(@)]
    /\ LET p == Head(toGame[l]).who
           a == Head(toGame[l]).acc
       IN  /\ game' = [game EXCEPT ![p] =
                 [acc |-> IF @ = Null THEN a ELSE @.acc, belong |-> l]]
           /\ MarkApart(p, UnderWay(p, Lobbies \ {l}) \/ (game[p] = Null /\ Ahead(p, a)))
    /\ UNCHANGED <<row, record, lobby, toLobby, mail, owed, posted, books, events>>

\* A game settles: SyncChangeAccountValue of CGamePlayer takes no more than the
\* copy holds, and sends the change to the lobby.
GameResult(p, r) ==
    /\ Event
    /\ game[p] # Null
    /\ LET acc == game[p].acc
           won == IF acc.coin + r < 0 THEN -acc.coin ELSE r
           to  == game[p].belong
       IN  /\ game' = [game EXCEPT ![p].acc = Plus(acc, Coins(won))]
           /\ toLobby' = [toLobby EXCEPT ![to] =
                 Append(@, [type |-> "change", who |-> p, acc |-> Coins(won)])]
           /\ owed' = [owed EXCEPT ![p] = Plus(@, Coins(won))]
           /\ house' = house - won
    /\ UNCHANGED <<row, record, lobby, toGame, mail, posted, site, tax, unpaid,
                   dropped, apart>>

\* OnLoginOut of CGamePlayer; when he may leave is the game's matter.
LeaveGame(p) ==
    /\ game[p] # Null
    /\ game' = [game EXCEPT ![p] = Null]
    /\ toLobby' = [toLobby EXCEPT ![game[p].belong] =
          Append(@, [type |-> "leave", who |-> p, acc |-> Zero])]
    /\ UNCHANGED <<row, record, lobby, toGame, mail, owed, posted, books, apart,
                   events>>

\* handle_msg_leave_svr
TakeLeave(l) ==
    /\ toLobby[l] # <<>> /\ Head(toLobby[l]).type = "leave"
    /\ toLobby' = [toLobby EXCEPT ![l] = Tail(@)]
    /\ cur' = [cur EXCEPT ![l][Head(toLobby[l]).who] = FALSE]
    /\ UNCHANGED <<row, record, phase, mem, asks, read, game, toGame, mail, owed,
                   posted, books, apart, events>>

BrokenTakesTwice(l) ==
    /\ toLobby[l] # <<>> /\ Head(toLobby[l]).type = "change"
    /\ UNCHANGED toLobby
    /\ LET p  == Head(toLobby[l]).who
           d  == Head(toLobby[l]).acc
       IN  /\ row' = RowChanged(row, p, d)
           /\ mem' = MemChanged(mem, row, l, p, d)
           /\ unpaid' = unpaid
           /\ owed' = [owed EXCEPT ![p] = Minus(@, d)]
           /\ apart' = apart
    /\ UNCHANGED <<record, phase, cur, asks, read, game, toGame, mail, posted, house,
                   site, tax, dropped, events>>

\* handle_msg_notify_change_account_data: through the object when it plays, else
\* past it.
TakeChange(l) ==
    /\ toLobby[l] # <<>> /\ Head(toLobby[l]).type = "change"
    /\ toLobby' = [toLobby EXCEPT ![l] = Tail(@)]
    /\ LET p  == Head(toLobby[l]).who
           d  == Head(toLobby[l]).acc
           on == phase[l][p] = "play"
       IN  /\ row' = RowChanged(row, p, d)
           /\ mem' = IF on THEN MemChanged(mem, row, l, p, d) ELSE mem
           /\ unpaid' = IF Covers(row[p], d) THEN unpaid ELSE unpaid - Sum(d)
           /\ owed' = [owed EXCEPT ![p] = Minus(@, d)]
           /\ MarkApart(p, Lowers(d) /\ PastLobbies(p, IF on THEN l ELSE NoLobby))
    /\ UNCHANGED <<record, phase, cur, asks, read, game, toGame, mail, posted, house,
                   site, tax, dropped, events>>

\* The link to the lobby is down: nobody looks at the result of sending.
LoseChange(l) ==
    /\ Event
    /\ toLobby[l] # <<>> /\ Head(toLobby[l]).type = "change"
    /\ toLobby' = [toLobby EXCEPT ![l] = Tail(@)]
    /\ LET p == Head(toLobby[l]).who
           d == Head(toLobby[l]).acc
       IN  /\ owed' = [owed EXCEPT ![p] = Minus(@, d)]
           /\ dropped' = dropped + Sum(d)
           /\ MarkApart(p, d.coin > 0 \/ d.safe > 0)
    /\ UNCHANGED <<row, record, lobby, game, toGame, mail, posted, house, site, tax,
                   unpaid>>

-----------------------------------------------------------------------------
(* The safe box.                                                           *)

Box(t) == [coin |-> t, safe |-> -t]

\* handle_msg_take_safebox of a lobby: the copy decides, the result of changing
\* the row is ignored.
BoxInLobby(l, p, t) ==
    /\ Event
    /\ phase[l][p] = "play" /\ ~cur[l][p]
    /\ Covers(mem[l][p], Box(t))
    /\ row' = RowChanged(row, p, Box(t))
    /\ mem' = MemChanged(mem, row, l, p, Box(t))
    /\ Lowered(p, Box(t), l)
    /\ UNCHANGED <<record, phase, cur, asks, read, game, links, owed, posted, books>>

\* A player in a game: the request goes on to the game server.
BoxInGame(l, p, t) ==
    /\ Event
    /\ phase[l][p] = "play" /\ cur[l][p]
    /\ toGame' = [toGame EXCEPT ![l] =
          Append(@, [type |-> "box", who |-> p, acc |-> Box(t)])]
    /\ UNCHANGED <<row, record, lobby, game, toLobby, mail, owed, posted, books, apart>>

\* handle_msg_take_safebox of the game server: refused while he plays (open
\* here), for an absent player, or when its copy does not cover it.
TakeBox(l) ==
    /\ toGame[l] # <<>> /\ Head(toGame[l]).type = "box"
    /\ toGame' = [toGame EXCEPT ![l] = Tail(@)]
    /\ LET p == Head(toGame[l]).who
           d == Head(toGame[l]).acc
       IN  \/ UNCHANGED <<game, toLobby, owed>>
           \/ /\ game[p] # Null
              /\ Covers(game[p].acc, d)
              /\ game' = [game EXCEPT ![p].acc = Plus(@, d)]
              /\ toLobby' = [toLobby EXCEPT ![game[p].belong] =
                    Append(@, [type |-> "change", who |-> p, acc |-> d])]
              /\ owed' = [owed EXCEPT ![p] = Plus(@, d)]
    /\ UNCHANGED <<row, record, lobby, mail, posted, books, apart, events>>

-----------------------------------------------------------------------------
(* The web site.                                                           *)

\* handle_php_change_accvalue for a player with an object here, playing or not:
\* copy and row must both cover it, and nothing is taken from a player in a game.
SiteChange(l, p, d) ==
    /\ Event
    /\ phase[l][p] # "none"
    /\ Lowers(d) => ~cur[l][p]
    /\ Covers(mem[l][p], d) /\ Covers(row[p], d)
    /\ row' = RowChanged(row, p, d)
    /\ mem' = MemChanged(mem, row, l, p, d)
    /\ toGame' = IF cur[l][p]
                 THEN [toGame EXCEPT ![l] =
                        Append(@, [type |-> "flush", who |-> p, acc |-> d])]
                 ELSE toGame
    /\ site' = site - Sum(d)
    /\ Lowered(p, d, l)
    /\ UNCHANGED <<record, phase, cur, asks, read, game, toLobby, mail, owed, posted,
                   house, tax, unpaid, dropped>>

\* The same for a player without one: the row alone.
SiteChangeAbsent(l, p, d) ==
    /\ Event
    /\ phase[l][p] = "none"
    /\ Covers(row[p], d)
    /\ row' = RowChanged(row, p, d)
    /\ site' = site - Sum(d)
    /\ Lowered(p, d, NoLobby)
    /\ UNCHANGED <<record, lobby, game, links, owed, posted, house, tax, unpaid,
                   dropped>>

\* handle_msg_flush_change_acc_data: an absent player's is ignored.
TakeFlush(l) ==
    /\ toGame[l] # <<>> /\ Head(toGame[l]).type = "flush"
    /\ toGame' = [toGame EXCEPT ![l] = Tail(@)]
    /\ LET p == Head(toGame[l]).who
           a == Clamped(game[p].acc, Head(toGame[l]).acc)
       IN  \/ game[p] = Null /\ UNCHANGED <<game, apart>>
           \/ game[p] # Null
              /\ game' = [game EXCEPT ![p].acc = a]
              /\ MarkApart(p, Ahead(p, a))
    /\ UNCHANGED <<row, record, lobby, toLobby, mail, owed, posted, books, events>>

-----------------------------------------------------------------------------
(* Gifts out of the safe box: handle_msg_give_safebox.  The copy decides,  *)
(* the result of changing the giver's row is ignored.                      *)

BrokenGiftTakes(l, p, g) ==
    /\ Event
    /\ phase[l][p] = "play" /\ ~cur[l][p]
    /\ g >= MinGift
    /\ tax' = tax + Tax[g]
    /\ unpaid' = IF Covers(row[p], Safe(-g)) THEN unpaid ELSE unpaid + g
    /\ Lowered(p, Safe(-g), l)
    /\ UNCHANGED <<record, phase, cur, asks, read, game, toGame, toLobby, owed, house,
                   site, dropped>>

GiftTakes(l, p, g) ==
    /\ Event
    /\ phase[l][p] = "play" /\ ~cur[l][p]
    /\ g >= MinGift /\ mem[l][p].safe >= g
    /\ tax' = tax + Tax[g]
    /\ unpaid' = IF Covers(row[p], Safe(-g)) THEN unpaid ELSE unpaid + g
    /\ Lowered(p, Safe(-g), l)
    /\ UNCHANGED <<record, phase, cur, asks, read, game, toGame, toLobby, owed, house,
                   site, dropped>>

\* The receiver has an object here, in whatever state.
GiftHere(l, p, q, g) ==
    /\ GiftTakes(l, p, g)
    /\ phase[l][q] # "none"
    /\ LET paid == RowChanged(row, p, Safe(-g))
           gift == Safe(g - Tax[g])
       IN  /\ row' = RowChanged(paid, q, gift)
           /\ mem' = MemChanged(MemChanged(mem, row, l, p, Safe(-g)), paid, l, q, gift)
    /\ UNCHANGED <<mail, posted>>

\* redis names another lobby for him: the gift goes there.
GiftElsewhere(l, p, q, g) ==
    /\ GiftTakes(l, p, g)
    /\ phase[l][q] = "none" /\ record[q] \notin {NoLobby, l}
    /\ row' = RowChanged(row, p, Safe(-g))
    /\ mem' = MemChanged(mem, row, l, p, Safe(-g))
    /\ mail' = [mail EXCEPT ![record[q]] = Append(@, [who |-> q, coin |-> g - Tax[g]])]
    /\ posted' = [posted EXCEPT ![q] = @ + (g - Tax[g])]

\* He is nowhere: the gift goes to his row.
GiftAbsent(l, p, q, g) ==
    /\ GiftTakes(l, p, g)
    /\ phase[l][q] = "none" /\ record[q] \in {NoLobby, l}
    /\ row' = RowChanged(RowChanged(row, p, Safe(-g)), q, Safe(g - Tax[g]))
    /\ mem' = MemChanged(mem, row, l, p, Safe(-g))
    /\ UNCHANGED <<mail, posted>>

\* handle_broadcast_give_safebox: dropped when the receiver has no object here
\* any more, or when the tax has made the gift too small.
GiftArrives(l) ==
    /\ mail[l] # <<>>
    /\ mail' = [mail EXCEPT ![l] = Tail(@)]
    /\ LET q == Head(mail[l]).who
           n == Head(mail[l]).coin
           ok == phase[l][q] # "none" /\ n >= MinGift
       IN  /\ posted' = [posted EXCEPT ![q] = @ - n]
           /\ row' = IF ok THEN RowChanged(row, q, Safe(n)) ELSE row
           /\ mem' = IF ok THEN MemChanged(mem, row, l, q, Safe(n)) ELSE mem
           /\ dropped' = IF ok THEN dropped ELSE dropped + n
    /\ UNCHANGED <<record, phase, cur, asks, read, game, toGame, toLobby, owed, house,
                   site, tax, unpaid, apart, events>>

-----------------------------------------------------------------------------
\* A quiet moment: every player is away, or plays at one lobby.
Init ==
    /\ row = [p \in Players |-> Row0]
    /\ record \in [Players -> Lobbies \cup {NoLobby}]
    /\ phase = [l \in Lobbies |-> [p \in Players |->
          IF record[p] = l THEN "play" ELSE "none"]]
    /\ mem = [l \in Lobbies |-> [p \in Players |->
          IF record[p] = l THEN Row0 ELSE Zero]]
    /\ cur = [l \in Lobbies |-> [p \in Players |-> FALSE]]
    /\ asks = [l \in Lobbies |-> [p \in Players |-> 0]]
    /\ read = [l \in Lobbies |-> [p \in Players |-> Null]]
    /\ game = [p \in Players |-> Null]
    /\ toGame = [l \in Lobbies |-> <<>>]
    /\ toLobby = [l \in Lobbies |-> <<>>]
    /\ mail = [l \in Lobbies |-> <<>>]
    /\ owed = [p \in Players |-> Zero]
    /\ posted = [p \in Players |-> 0]
    /\ house = 0 /\ site = 0 /\ tax = 0 /\ unpaid = 0 /\ dropped = 0
    /\ apart = {}
    /\ events = 0

Next ==
    \/ \E l \in Lobbies, p \in Players :
          \/ Login(l, p) \/ LoadReads(l, p) \/ LoadAnswer(l, p) \/ GetAllData(l, p)
          \/ Recover(l, p) \/ EnterGame(l, p)
          \/ \E t \in Boxes : BoxInLobby(l, p, t) \/ BoxInGame(l, p, t)
          \/ \E d \in Issues : SiteChange(l, p, d) \/ SiteChangeAbsent(l, p, d)
          \/ \E q \in Players, g \in Gifts :
                GiftHere(l, p, q, g) \/ GiftElsewhere(l, p, q, g) \/ GiftAbsent(l, p, q, g)
    \/ \E p \in Players : LeaveGame(p) \/ (\E r \in Results : GameResult(p, r))
    \/ \E l \in Lobbies :
          \/ TakeEnter(l) \/ TakeBox(l) \/ TakeFlush(l)
          \/ TakeLeave(l) \/ TakeChange(l) \/ LoseChange(l)
          \/ GiftArrives(l)

Spec == Init /\ [][Next]_vars

-----------------------------------------------------------------------------
(* Properties.                                                             *)

\* What a player has once everything under way has arrived.
Worth(p) == Sum(row[p]) + Sum(owed[p]) + posted[p]

L == INSTANCE Ledger WITH worth <- [p \in Players |-> Worth(p)]

\* What a message from the game server brings p, and one between lobbies.
Brings(m, p) == IF m.type = "change" /\ m.who = p THEN m.acc ELSE Zero

Gives(m, p) == IF m.who = p THEN m.coin ELSE 0

\* What is under way to p is what the messages carry, one by one: owed and posted
\* count nothing twice, and nothing that is not there (NotifyLobbyChangeAccValue,
\* Broadcast2OtherLobby).
UnderWayCounted ==
    \A p \in Players :
        /\ owed[p].coin = SumFunction([k \in Lobbies |-> SumFunction(
              [i \in DOMAIN toLobby[k] |-> Brings(toLobby[k][i], p).coin])])
        /\ owed[p].safe = SumFunction([k \in Lobbies |-> SumFunction(
              [i \in DOMAIN toLobby[k] |-> Brings(toLobby[k][i], p).safe])])
        /\ posted[p] = SumFunction([k \in Lobbies |-> SumFunction(
              [i \in DOMAIN mail[k] |-> Gives(mail[k][i], p)])])

\* Every step books what it does to a player's worth against somebody, once: a
\* change is applied once wherever the player is by then, a gift is given once,
\* and what could not be taken shows in the books (SyncChangeAccountValue,
\* AtomChangeOfflineAccData, handle_msg_give_safebox).
LedgerSpec == L!Spec

\* No copy says more than the row will, unless the row was lowered past it or what
\* a lobby sent the game was out of date: what is checked on a copy is covered.
CopiesBehind ==
    \A p \in Players : p \notin apart =>
        /\ game[p] # Null => ~Ahead(p, game[p].acc)
        /\ \A l \in Lobbies :
              mem[l][p].coin <= row[p].coin /\ mem[l][p].safe <= row[p].safe

\* Only then can a gift that was given, or a loss that was booked, fail to be
\* taken from the player.
UnpaidNeedsApart ==
    [][unpaid' # unpaid => apart # {}]_vars
=============================================================================
