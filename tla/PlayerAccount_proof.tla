------------------------ MODULE PlayerAccount_proof ------------------------
(***************************************************************************)
(* Proofs about PlayerAccount, for any players, lobbies, gifts, results    *)
(* and changes: its types, with no amount below 0 anywhere; that every     *)
(* step is a step of the ledger, so that PlayerAccount implements it; that *)
(* what is owed is what the messages carry; and that only a player who was *)
(* marked can have a copy that says more than his row.                     *)
(*                                                                         *)
(* The last needs more than it says (AccountInv).  The row has to cover    *)
(* what is on the way to a lobby in the order it is on the way, one change *)
(* after the other (Solvent, of Sums_proof), since any of them can be the  *)
(* next one applied; his changes have to be on the way to one lobby, since *)
(* those of two arrive in no order; and no row that was read and not       *)
(* delivered may say more than the row does now.                           *)
(***************************************************************************)
EXTENDS PlayerAccount, Sums_proof, TLAPS

-----------------------------------------------------------------------------
(* Accounts and changes.                                                   *)

\* A change that is covered leaves no amount below 0, and a copy never does.
LEMMA ChangedAccount ==
    ASSUME NEW a \in Account, NEW d \in Delta
    PROVE  /\ Covers(a, d) \in BOOLEAN
           /\ Covers(a, d) => Plus(a, d) \in Account
           /\ Covers(a, d) => Sum(Plus(a, d)) = Sum(a) + Sum(d)
           /\ Clamped(a, d) \in Account
BY DEF Account, Delta, Covers, Plus, Clamped, Least0, Sum

\* The row of one player changes by all of d or not at all.
LEMMA RowChangedFacts ==
    ASSUME NEW r \in [Players -> Account], NEW p \in Players, NEW d \in Delta
    PROVE  /\ RowChanged(r, p, d) \in [Players -> Account]
           /\ \A q \in Players \ {p} : RowChanged(r, p, d)[q] = r[q]
           /\ Covers(r[p], d) => RowChanged(r, p, d)[p] = Plus(r[p], d)
           /\ ~Covers(r[p], d) => RowChanged(r, p, d)[p] = r[p]
BY ChangedAccount DEF RowChanged

\* And his copy at one lobby.
LEMMA MemChangedFacts ==
    ASSUME NEW m \in [Lobbies -> [Players -> Account]], NEW r \in [Players -> Account],
           NEW l \in Lobbies, NEW p \in Players, NEW d \in Delta
    PROVE  /\ MemChanged(m, r, l, p, d) \in [Lobbies -> [Players -> Account]]
           /\ \A k \in Lobbies, q \in Players :
                 k # l \/ q # p => MemChanged(m, r, l, p, d)[k][q] = m[k][q]
           /\ Covers(r[p], d) => MemChanged(m, r, l, p, d)[l][p] = Clamped(m[l][p], d)
           /\ ~Covers(r[p], d) => MemChanged(m, r, l, p, d)[l][p] = m[l][p]
<1>1. Clamped(m[l][p], d) \in Account
  BY ChangedAccount
<1> QED
  BY <1>1 DEF MemChanged

\* What the messages carry.
LEMMA Amounts ==
    /\ Zero \in Account /\ Zero \in Swap /\ Sum(Zero) = 0
    /\ Account \subseteq Delta /\ Swap \subseteq Change /\ Change \subseteq Delta
    /\ \A n \in Int : /\ Coins(n) \in Change /\ Coins(n) \in Delta /\ Sum(Coins(n)) = n
                      /\ Safe(n) \in Delta /\ Sum(Safe(n)) = n
                      /\ Box(n) \in Swap /\ Sum(Box(n)) = 0
    /\ \A d \in Delta : Sum(d) \in Int
BY DEF Account, Delta, Change, Swap, Lowers, Sum, Zero, Coins, Safe, Box

\* Sums and differences of changes.
LEMMA DeltaSum ==
    ASSUME NEW c \in Delta, NEW d \in Delta
    PROVE  /\ Plus(c, d) \in Delta /\ Sum(Plus(c, d)) = Sum(c) + Sum(d)
           /\ Minus(c, d) \in Delta /\ Sum(Minus(c, d)) = Sum(c) - Sum(d)
BY DEF Delta, Plus, Minus, Sum

\* The first message of a link, and the ones behind it.
LEMMA Heads ==
    ASSUME TypeOK, NEW l \in Lobbies
    PROVE  /\ toGame[l] # <<>> => /\ Head(toGame[l]) \in GameMessage
                                  /\ Tail(toGame[l]) \in Seq(GameMessage)
           /\ toLobby[l] # <<>> => /\ Head(toLobby[l]) \in LobbyMessage
                                   /\ Tail(toLobby[l]) \in Seq(LobbyMessage)
           /\ mail[l] # <<>> => /\ Head(mail[l]) \in Present
                                /\ Tail(mail[l]) \in Seq(Present)
BY DEF TypeOK

\* What the first message is about.
LEMMA GameHead ==
    ASSUME TypeOK, NEW l \in Lobbies, toGame[l] # <<>>
    PROVE  /\ Head(toGame[l]).who \in Players
           /\ Head(toGame[l]).acc \in Delta
           /\ Head(toGame[l]).type = "enter" => Head(toGame[l]).acc \in Account
           /\ Head(toGame[l]).type = "box" => Head(toGame[l]).acc \in Swap
           /\ [toGame EXCEPT ![l] = Tail(@)] \in [Lobbies -> Seq(GameMessage)]
<1>1. Head(toGame[l]) \in GameMessage /\ Tail(toGame[l]) \in Seq(GameMessage)
  BY Heads
<1> QED
  BY <1>1, Amounts DEF GameMessage, TypeOK

LEMMA LobbyHead ==
    ASSUME TypeOK, NEW l \in Lobbies, toLobby[l] # <<>>
    PROVE  /\ Head(toLobby[l]).who \in Players
           /\ Head(toLobby[l]).acc \in Delta
           /\ Head(toLobby[l]).type = "change" => Head(toLobby[l]).acc \in Change
           /\ [toLobby EXCEPT ![l] = Tail(@)] \in [Lobbies -> Seq(LobbyMessage)]
<1>1. Head(toLobby[l]) \in LobbyMessage /\ Tail(toLobby[l]) \in Seq(LobbyMessage)
  BY Heads
<1> QED
  BY <1>1, Amounts DEF LobbyMessage, TypeOK

LEMMA MailHead ==
    ASSUME TypeOK, NEW l \in Lobbies, mail[l] # <<>>
    PROVE  /\ Head(mail[l]).who \in Players
           /\ Head(mail[l]).coin \in Nat
           /\ [mail EXCEPT ![l] = Tail(@)] \in [Lobbies -> Seq(Present)]
<1>1. Head(mail[l]) \in Present /\ Tail(mail[l]) \in Seq(Present)
  BY Heads
<1> QED
  BY <1>1 DEF Present, TypeOK

\* One message more.
LEMMA Sent ==
    ASSUME TypeOK, NEW l \in Lobbies
    PROVE  /\ \A m \in GameMessage :
                 [toGame EXCEPT ![l] = Append(@, m)] \in [Lobbies -> Seq(GameMessage)]
           /\ \A m \in LobbyMessage :
                 [toLobby EXCEPT ![l] = Append(@, m)] \in [Lobbies -> Seq(LobbyMessage)]
           /\ \A m \in Present :
                 [mail EXCEPT ![l] = Append(@, m)] \in [Lobbies -> Seq(Present)]
BY DEF TypeOK

-----------------------------------------------------------------------------
(* Types.                                                                  *)

\* The constants, where they are used.
LEMMA Constants ==
    /\ Row0 \in Account /\ NoLobby \notin Lobbies
    /\ \A t \in Boxes : t \in Int
    /\ \A r \in Results : r \in Int
    /\ \A d \in Issues : d \in Delta
    /\ \A g \in Gifts : g \in Nat /\ Tax[g] \in Nat /\ Tax[g] <= g
    /\ \A x : x = Null => x \notin Account /\ x \notin [acc : Account, belong : Lobbies]
BY AccountAssumption

LEMMA TypeInit == Init => TypeOK
<1> SUFFICES ASSUME Init PROVE TypeOK
  OBVIOUS
<1>1. /\ row \in [Players -> Account]
      /\ record \in [Players -> Lobbies \cup {NoLobby}]
      /\ phase \in [Lobbies -> [Players -> {"none", "load", "filled", "play"}]]
      /\ mem \in [Lobbies -> [Players -> Account]]
      /\ cur \in [Lobbies -> [Players -> BOOLEAN]]
      /\ asks \in [Lobbies -> [Players -> Nat]]
      /\ read \in [Lobbies -> [Players -> Account \cup {Null}]]
  BY Constants, Amounts DEF Init
<1>2. /\ game \in [Players -> [acc : Account, belong : Lobbies] \cup {Null}]
      /\ toGame \in [Lobbies -> Seq(GameMessage)]
      /\ toLobby \in [Lobbies -> Seq(LobbyMessage)]
      /\ mail \in [Lobbies -> Seq(Present)]
      /\ owed \in [Players -> Delta]
      /\ posted \in [Players -> Int]
  BY Amounts DEF Init
<1> QED
  BY <1>1, <1>2, AccountAssumption DEF Init, TypeOK

LEMMA EventType == ASSUME TypeOK, Event PROVE events' \in 0 .. MaxEvents
<1>1. MaxEvents \in Nat /\ events \in 0 .. MaxEvents
  BY AccountAssumption DEF TypeOK
<1> QED
  BY <1>1 DEF Event

\* The parts of the state that most actions leave alone.
LEMMA TypeUnchanged ==
    ASSUME TypeOK, UNCHANGED vars
    PROVE  TypeOK'
BY DEF TypeOK, vars, lobby, links, books

\* What a gift takes from the giver.
LEMMA GiftTypes ==
    ASSUME TypeOK, NEW l \in Lobbies, NEW p \in Players, NEW g \in Gifts,
           GiftTakes(l, p, g)
    PROVE  /\ g - Tax[g] \in Nat /\ g - Tax[g] \in Int /\ -g \in Int
           /\ tax' \in Int /\ unpaid' \in Int /\ apart' \subseteq Players
           /\ events' \in 0 .. MaxEvents
           /\ UNCHANGED <<record, phase, cur, asks, read, game, toGame, toLobby, owed,
                          house, site, dropped>>
<1>1. g \in Nat /\ Tax[g] \in Nat /\ Tax[g] <= g
  BY Constants
<1> QED
  BY <1>1, AccountAssumption
     DEF TypeOK, GiftTakes, Event, Lowered, MarkApart

\* Every step keeps the types.
LEMMA TypeStep == ASSUME TypeOK, [Next]_vars PROVE TypeOK'
<1>1. /\ row \in [Players -> Account] /\ mem \in [Lobbies -> [Players -> Account]]
      /\ phase \in [Lobbies -> [Players -> {"none", "load", "filled", "play"}]]
      /\ asks \in [Lobbies -> [Players -> Nat]]
      /\ read \in [Lobbies -> [Players -> Account \cup {Null}]]
      /\ posted \in [Players -> Int]
  BY DEF TypeOK
<1>2. ASSUME NEW l \in Lobbies, NEW p \in Players,
             Login(l, p)
      PROVE  TypeOK'
  <2>1. /\ phase' \in [Lobbies -> [Players -> {"none", "load", "filled", "play"}]]
        /\ asks' \in [Lobbies -> [Players -> Nat]]
    <3>1. CASE phase[l][p] = "play"
      BY <1>1, <3>1, <1>2 DEF Login
    <3>2. CASE phase[l][p] # "play"
      <4>1. /\ phase' = [phase EXCEPT ![l][p] = IF @ = "none" THEN "load" ELSE @]
            /\ asks' = [asks EXCEPT ![l][p] = @ + 1]
        BY <3>2, <1>2 DEF Login
      <4> QED
        BY <1>1, <4>1
    <3> QED
      BY <3>1, <3>2
  <2>2. /\ record' = [record EXCEPT ![p] = l]
        /\ events' \in 0 .. MaxEvents
        /\ UNCHANGED <<row, mem, cur, read, game, links, owed, posted, books, apart>>
    BY <1>2, EventType DEF Login
  <2> QED
    BY <2>1, <2>2 DEF TypeOK, links, books
<1>3. ASSUME NEW l \in Lobbies, NEW p \in Players,
             LoadReads(l, p)
      PROVE  TypeOK'
  <2>1. asks[l][p] - 1 \in Nat /\ row[p] \in Account
    BY <1>1, <1>3 DEF LoadReads
  <2>2. /\ asks' \in [Lobbies -> [Players -> Nat]]
        /\ read' \in [Lobbies -> [Players -> Account \cup {Null}]]
    BY <1>1, <2>1, <1>3 DEF LoadReads
  <2> QED
    BY <2>2, <1>3 DEF TypeOK, LoadReads, links, books
<1>4. ASSUME NEW l \in Lobbies, NEW p \in Players,
             LoadAnswer(l, p)
      PROVE  TypeOK'
  <2>1. read[l][p] \in Account
    BY <1>1, <1>4 DEF LoadAnswer
  <2>2. /\ mem' \in [Lobbies -> [Players -> Account]]
        /\ phase' \in [Lobbies -> [Players -> {"none", "load", "filled", "play"}]]
        /\ read' \in [Lobbies -> [Players -> Account \cup {Null}]]
    <3>1. read' = [read EXCEPT ![l][p] = Null]
      BY <1>4 DEF LoadAnswer
    <3>2. \/ UNCHANGED <<mem, phase>>
          \/ /\ mem' = [mem EXCEPT ![l][p] = read[l][p]]
             /\ phase' = [phase EXCEPT ![l][p] = "filled"]
      BY <1>4 DEF LoadAnswer
    <3>3. mem' \in [Lobbies -> [Players -> Account]]
      <4>1. mem \in [Lobbies -> [Players -> Account]]
        BY <1>1
      <4> QED
        BY <2>1, <3>2, <4>1
    <3>4. phase' \in [Lobbies -> [Players -> {"none", "load", "filled", "play"}]]
      <4>1. phase \in [Lobbies -> [Players -> {"none", "load", "filled", "play"}]]
        BY <1>1
      <4>2. [phase EXCEPT ![l][p] = "filled"]
               \in [Lobbies -> [Players -> {"none", "load", "filled", "play"}]]
        BY <4>1
      <4> QED
        BY <3>2, <4>1, <4>2
    <3>5. read' \in [Lobbies -> [Players -> Account \cup {Null}]]
      <4>1. read \in [Lobbies -> [Players -> Account \cup {Null}]]
        BY <1>1
      <4> QED
        BY <3>1, <4>1
    <3> QED
      BY <3>3, <3>4, <3>5
  <2>3. UNCHANGED <<row, record, cur, asks, game, links, owed, posted, books, apart,
                    events>>
    BY <1>4 DEF LoadAnswer
  <2> QED
    BY <2>2, <2>3 DEF TypeOK, links, books
<1>5. ASSUME NEW l \in Lobbies, NEW p \in Players,
             GetAllData(l, p)
      PROVE  TypeOK'
  <2>1. /\ phase' = [phase EXCEPT ![l][p] = "play"]
        /\ cur' = [cur EXCEPT ![l][p] = game[p] # Null]
        /\ UNCHANGED <<row, record, mem, asks, read, game, toGame, toLobby, mail, owed,
                       posted, house, site, tax, unpaid, dropped, apart, events>>
    BY <1>5 DEF GetAllData, links, books
  <2>2. phase' \in [Lobbies -> [Players -> {"none", "load", "filled", "play"}]]
    BY <2>1 DEF TypeOK
  <2>3. cur' \in [Lobbies -> [Players -> BOOLEAN]]
    BY <2>1, Zenon DEF TypeOK
  <2> QED
    BY <2>1, <2>2, <2>3 DEF TypeOK
<1>6. ASSUME NEW l \in Lobbies, NEW p \in Players,
             Recover(l, p)
      PROVE  TypeOK'
  <2>1. /\ phase' = [phase EXCEPT ![l][p] = "none"]
        /\ mem' = [mem EXCEPT ![l][p] = Zero]
        /\ cur' = [cur EXCEPT ![l][p] = FALSE]
        /\ record' \in {record, [record EXCEPT ![p] = NoLobby]}
        /\ UNCHANGED <<row, asks, read, game, toGame, toLobby, mail, owed, posted, house,
                       site, tax, unpaid, dropped, apart, events>>
    <3>1. record' = [record EXCEPT ![p] =
             IF phase[l][p] = "play" /\ @ = l THEN NoLobby ELSE @]
      BY <1>6 DEF Recover
    <3>2. record \in [Players -> Lobbies \cup {NoLobby}]
      BY DEF TypeOK
    <3>3. record' \in {record, [record EXCEPT ![p] = NoLobby]}
      BY <3>1, <3>2
    <3> QED
      BY <1>6, <3>3 DEF Recover, links, books
  <2>2. /\ phase' \in [Lobbies -> [Players -> {"none", "load", "filled", "play"}]]
        /\ record' \in [Players -> Lobbies \cup {NoLobby}]
    BY <2>1 DEF TypeOK
  <2>3. mem' \in [Lobbies -> [Players -> Account]]
    BY <1>1, <2>1, Amounts
  <2>4. cur' \in [Lobbies -> [Players -> BOOLEAN]]
    BY <2>1, Zenon DEF TypeOK
  <2> QED
    BY <2>1, <2>2, <2>3, <2>4 DEF TypeOK
<1>7. ASSUME NEW l \in Lobbies, NEW p \in Players,
             EnterGame(l, p)
      PROVE  TypeOK'
  <2>1. [type |-> "enter", who |-> p, acc |-> mem[l][p]] \in GameMessage
    BY <1>1, <1>7 DEF GameMessage, TypeOK
  <2>2. toGame' \in [Lobbies -> Seq(GameMessage)]
    BY <2>1, <1>7, Sent DEF EnterGame
  <2> QED
    <3>1. /\ cur' = [cur EXCEPT ![l][p] = TRUE]
          /\ events' \in 0 .. MaxEvents
          /\ UNCHANGED <<row, record, phase, mem, asks, read, game, toLobby, mail, owed,
                         posted, house, site, tax, unpaid, dropped, apart>>
      BY <1>7, EventType DEF EnterGame, books
    <3>2. cur' \in [Lobbies -> [Players -> BOOLEAN]]
      BY <3>1, Zenon DEF TypeOK
    <3> QED
      BY <2>2, <3>1, <3>2 DEF TypeOK
<1>8. ASSUME NEW l \in Lobbies, NEW p \in Players, NEW t \in Boxes,
             BoxInLobby(l, p, t)
      PROVE  TypeOK'
  <2>1. Box(t) \in Delta
    BY Constants, Amounts
  <2>2. row' \in [Players -> Account] /\ mem' \in [Lobbies -> [Players -> Account]]
    BY <1>1, <2>1, <1>8, RowChangedFacts, MemChangedFacts DEF BoxInLobby
  <2> QED
    <3>1. /\ apart' \in {apart, apart \cup {p}}
          /\ events' \in 0 .. MaxEvents
          /\ UNCHANGED <<record, phase, cur, asks, read, game, toGame, toLobby, mail, owed,
                         posted, house, site, tax, unpaid, dropped>>
      BY <1>8, EventType DEF BoxInLobby, Lowered, MarkApart, links, books
    <3> QED
      BY <2>2, <3>1 DEF TypeOK
<1>9. ASSUME NEW l \in Lobbies, NEW p \in Players, NEW t \in Boxes,
             BoxInGame(l, p, t)
      PROVE  TypeOK'
  <2>1. [type |-> "box", who |-> p, acc |-> Box(t)] \in GameMessage
    BY Constants, Amounts DEF GameMessage
  <2>2. toGame' \in [Lobbies -> Seq(GameMessage)]
    BY <2>1, <1>9, Sent DEF BoxInGame
  <2> QED
    <3>1. /\ events' \in 0 .. MaxEvents
          /\ UNCHANGED <<row, record, phase, mem, cur, asks, read, game, toLobby, mail, owed,
                         posted, house, site, tax, unpaid, dropped, apart>>
      BY <1>9, EventType DEF BoxInGame, lobby, books
    <3> QED
      BY <2>2, <3>1 DEF TypeOK
<1>10. ASSUME NEW l \in Lobbies, NEW p \in Players, NEW d \in Issues,
             SiteChange(l, p, d)
      PROVE  TypeOK'
  <2>1. d \in Delta /\ Sum(d) \in Int
    BY Constants, Amounts
  <2>2. row' \in [Players -> Account] /\ mem' \in [Lobbies -> [Players -> Account]]
    BY <1>1, <2>1, <1>10, RowChangedFacts, MemChangedFacts DEF SiteChange
  <2>3. [type |-> "flush", who |-> p, acc |-> d] \in GameMessage
    BY <2>1 DEF GameMessage
  <2>4. toGame' \in [Lobbies -> Seq(GameMessage)]
    BY <1>1, <2>3, <1>10, Sent DEF SiteChange, TypeOK
  <2> QED
    <3>1. /\ site' = site - Sum(d)
          /\ apart' \in {apart, apart \cup {p}}
          /\ events' \in 0 .. MaxEvents
          /\ UNCHANGED <<record, phase, cur, asks, read, game, toLobby, mail, owed, posted,
                         house, tax, unpaid, dropped>>
      BY <1>10, EventType DEF SiteChange, Lowered, MarkApart
    <3>2. site' \in Int
      BY <2>1, <3>1 DEF TypeOK
    <3> QED
      BY <2>2, <2>4, <3>1, <3>2 DEF TypeOK
<1>11. ASSUME NEW l \in Lobbies, NEW p \in Players, NEW d \in Issues,
             SiteChangeAbsent(l, p, d)
      PROVE  TypeOK'
  <2>1. d \in Delta /\ Sum(d) \in Int
    BY Constants, Amounts
  <2>2. row' \in [Players -> Account]
    BY <1>1, <2>1, <1>11, RowChangedFacts DEF SiteChangeAbsent
  <2> QED
    <3>1. /\ site' = site - Sum(d)
          /\ apart' \in {apart, apart \cup {p}}
          /\ events' \in 0 .. MaxEvents
          /\ UNCHANGED <<record, phase, mem, cur, asks, read, game, toGame, toLobby, mail,
                         owed, posted, house, tax, unpaid, dropped>>
      BY <1>11, EventType DEF SiteChangeAbsent, Lowered, MarkApart, lobby, links
    <3>2. site' \in Int
      BY <2>1, <3>1 DEF TypeOK
    <3> QED
      BY <2>2, <3>1, <3>2 DEF TypeOK
<1>12. ASSUME NEW l \in Lobbies, NEW p \in Players, NEW q \in Players, NEW g \in Gifts,
             GiftHere(l, p, q, g)
      PROVE  TypeOK'
  <2> DEFINE paid == RowChanged(row, p, Safe(-g))
             once == MemChanged(mem, row, l, p, Safe(-g))
  <2>1. GiftTakes(l, p, g) /\ UNCHANGED <<mail, posted>>
    BY <1>12 DEF GiftHere
  <2>2. Safe(-g) \in Delta /\ Safe(g - Tax[g]) \in Delta
    BY <2>1, GiftTypes, Amounts
  <2>3. paid \in [Players -> Account] /\ once \in [Lobbies -> [Players -> Account]]
    BY <1>1, <2>2, RowChangedFacts, MemChangedFacts
  <2>4. /\ row' = RowChanged(paid, q, Safe(g - Tax[g]))
        /\ mem' = MemChanged(once, paid, l, q, Safe(g - Tax[g]))
    BY <1>12 DEF GiftHere
  <2> HIDE DEF paid, once
  <2>5. row' \in [Players -> Account] /\ mem' \in [Lobbies -> [Players -> Account]]
    BY <2>2, <2>3, <2>4, RowChangedFacts, MemChangedFacts
  <2> QED
    BY <2>1, <2>5, GiftTypes DEF TypeOK
<1>13. ASSUME NEW l \in Lobbies, NEW p \in Players, NEW q \in Players, NEW g \in Gifts,
             GiftElsewhere(l, p, q, g)
      PROVE  TypeOK'
  <2>1. /\ GiftTakes(l, p, g)
        /\ row' = RowChanged(row, p, Safe(-g))
        /\ mem' = MemChanged(mem, row, l, p, Safe(-g))
        /\ record[q] \in Lobbies
        /\ mail' = [mail EXCEPT ![record[q]] =
              Append(@, [who |-> q, coin |-> g - Tax[g]])]
        /\ posted' = [posted EXCEPT ![q] = @ + (g - Tax[g])]
    BY <1>1, <1>13 DEF GiftElsewhere, TypeOK
  <2>2. Safe(-g) \in Delta /\ g - Tax[g] \in Nat
    BY <2>1, GiftTypes, Amounts
  <2>3. row' \in [Players -> Account] /\ mem' \in [Lobbies -> [Players -> Account]]
    BY <1>1, <2>1, <2>2, RowChangedFacts, MemChangedFacts
  <2>4. mail' \in [Lobbies -> Seq(Present)]
    <3>1. [who |-> q, coin |-> g - Tax[g]] \in Present
      BY <2>2 DEF Present
    <3> QED
      BY <2>1, <3>1, Sent
  <2>5. posted' \in [Players -> Int]
    BY <1>1, <2>1, <2>2
  <2>6. /\ tax' \in Int /\ unpaid' \in Int /\ apart' \subseteq Players
        /\ events' \in 0 .. MaxEvents
        /\ UNCHANGED <<record, phase, cur, asks, read, game, toGame, toLobby, owed, house,
                       site, dropped>>
    BY <2>1, GiftTypes
  <2> QED
    BY <2>3, <2>4, <2>5, <2>6 DEF TypeOK
<1>14. ASSUME NEW l \in Lobbies, NEW p \in Players, NEW q \in Players, NEW g \in Gifts,
             GiftAbsent(l, p, q, g)
      PROVE  TypeOK'
  <2> DEFINE paid == RowChanged(row, p, Safe(-g))
  <2>1. GiftTakes(l, p, g) /\ UNCHANGED <<mail, posted>>
    BY <1>14 DEF GiftAbsent
  <2>2. Safe(-g) \in Delta /\ Safe(g - Tax[g]) \in Delta
    BY <2>1, GiftTypes, Amounts
  <2>3. paid \in [Players -> Account]
    BY <1>1, <2>2, RowChangedFacts
  <2>4. /\ row' = RowChanged(paid, q, Safe(g - Tax[g]))
        /\ mem' = MemChanged(mem, row, l, p, Safe(-g))
    BY <1>14 DEF GiftAbsent
  <2> HIDE DEF paid
  <2>5. row' \in [Players -> Account] /\ mem' \in [Lobbies -> [Players -> Account]]
    BY <1>1, <2>2, <2>3, <2>4, RowChangedFacts, MemChangedFacts
  <2> QED
    BY <2>1, <2>5, GiftTypes DEF TypeOK
<1>15. ASSUME NEW p \in Players,
             LeaveGame(p)
      PROVE  TypeOK'
  <2>1. game[p].belong \in Lobbies
    BY <1>1, <1>15 DEF LeaveGame, TypeOK
  <2>2. [type |-> "leave", who |-> p, acc |-> Zero] \in LobbyMessage
    BY Amounts DEF LobbyMessage
  <2>3. toLobby' \in [Lobbies -> Seq(LobbyMessage)]
    BY <2>1, <2>2, <1>15, Sent DEF LeaveGame
  <2> QED
    BY <2>3, <1>15 DEF TypeOK, LeaveGame, lobby, books
<1>16. ASSUME NEW p \in Players, NEW r \in Results,
             GameResult(p, r)
      PROVE  TypeOK'
  <2> DEFINE won == IF game[p].acc.coin + r < 0 THEN -game[p].acc.coin ELSE r
  <2>1. game[p].belong \in Lobbies /\ game[p].acc \in Account /\ r \in Int
    BY <1>1, <1>16, Constants DEF GameResult, TypeOK
  <2>2. won \in Int /\ Plus(game[p].acc, Coins(won)) \in Account
    BY <2>1 DEF Account, Plus, Coins
  <2>3. /\ game' = [game EXCEPT ![p].acc = Plus(game[p].acc, Coins(won))]
        /\ toLobby' = [toLobby EXCEPT ![game[p].belong] =
              Append(@, [type |-> "change", who |-> p, acc |-> Coins(won)])]
        /\ owed' = [owed EXCEPT ![p] = Plus(@, Coins(won))]
        /\ house' = house - won
        /\ game[p] # Null /\ Event
        /\ UNCHANGED <<row, record, lobby, toGame, mail, posted, site, tax, unpaid,
                       dropped, apart>>
    BY <1>16 DEF GameResult
  <2> HIDE DEF won
  <2>4. toLobby' \in [Lobbies -> Seq(LobbyMessage)]
    <3>1. [type |-> "change", who |-> p, acc |-> Coins(won)] \in LobbyMessage
      BY <2>2, Amounts DEF LobbyMessage
    <3> QED
      BY <2>1, <2>3, <3>1, Sent
  <2>5. owed' \in [Players -> Delta]
    <3>1. owed[p] \in Delta /\ Coins(won) \in Delta
      BY <2>2, Amounts DEF TypeOK
    <3>2. Plus(owed[p], Coins(won)) \in Delta
      BY <3>1, DeltaSum
    <3> QED
      BY <2>3, <3>2 DEF TypeOK
  <2>6. game' \in [Players -> [acc : Account, belong : Lobbies] \cup {Null}]
    BY <2>1, <2>2, <2>3 DEF TypeOK
  <2>7. house' \in Int /\ events' \in 0 .. MaxEvents
    BY <2>2, <2>3, EventType DEF TypeOK
  <2>8. UNCHANGED <<row, record, lobby, toGame, mail, posted, site, tax, unpaid, dropped,
                    apart>>
    BY <2>3
  <2> QED
    BY <2>4, <2>5, <2>6, <2>7, <2>8 DEF TypeOK, lobby
<1>17. ASSUME NEW l \in Lobbies,
             TakeEnter(l)
      PROVE  TypeOK'
  <2> DEFINE p == Head(toGame[l]).who
  <2>1. /\ p \in Players /\ Head(toGame[l]).acc \in Account
        /\ toGame' \in [Lobbies -> Seq(GameMessage)]
    BY <1>17, GameHead DEF TakeEnter
  <2>2. game' = [game EXCEPT ![p] =
           [acc |-> IF @ = Null THEN Head(toGame[l]).acc ELSE @.acc, belong |-> l]]
    BY <1>17 DEF TakeEnter
  <2>3. apart' \in {apart, apart \cup {p}}
    BY <1>17 DEF TakeEnter, MarkApart
  <2>4. game' \in [Players -> [acc : Account, belong : Lobbies] \cup {Null}]
    BY <2>1, <2>2 DEF TypeOK
  <2>5. UNCHANGED <<row, record, lobby, toLobby, mail, owed, posted, books, events>>
    BY <1>17 DEF TakeEnter
  <2> QED
    BY <2>1, <2>3, <2>4, <2>5 DEF TypeOK, lobby, books
<1>18. ASSUME NEW l \in Lobbies,
             TakeBox(l)
      PROVE  TypeOK'
  <2> DEFINE p == Head(toGame[l]).who
             d == Head(toGame[l]).acc
  <2>1. /\ p \in Players /\ d \in Swap /\ d \in Change /\ d \in Delta
        /\ toGame' \in [Lobbies -> Seq(GameMessage)]
    BY <1>18, GameHead, Amounts DEF TakeBox
  <2>2. UNCHANGED <<row, record, lobby, mail, posted, books, apart, events>>
    BY <1>18 DEF TakeBox
  <2>3. CASE UNCHANGED <<game, toLobby, owed>>
    BY <2>1, <2>2, <2>3 DEF TypeOK, lobby, books
  <2>4. CASE /\ game[p] # Null
             /\ Covers(game[p].acc, d)
             /\ game' = [game EXCEPT ![p].acc = Plus(@, d)]
             /\ toLobby' = [toLobby EXCEPT ![game[p].belong] =
                   Append(@, [type |-> "change", who |-> p, acc |-> d])]
             /\ owed' = [owed EXCEPT ![p] = Plus(@, d)]
    <3> HIDE DEF p, d
    <3>1. game[p].belong \in Lobbies /\ game[p].acc \in Account
      BY <2>1, <2>4 DEF TypeOK
    <3>2. [type |-> "change", who |-> p, acc |-> d] \in LobbyMessage
      BY <2>1 DEF LobbyMessage
    <3>3. toLobby' \in [Lobbies -> Seq(LobbyMessage)]
      BY <2>4, <3>1, <3>2, Sent
    <3>4. owed' \in [Players -> Delta]
      BY <2>1, <2>4, DeltaSum DEF TypeOK
    <3>5. game' \in [Players -> [acc : Account, belong : Lobbies] \cup {Null}]
      <4>1. Plus(game[p].acc, d) \in Account
        BY <2>1, <2>4, <3>1, ChangedAccount
      <4> QED
        BY <2>1, <2>4, <3>1, <4>1 DEF TypeOK
    <3> QED
      BY <2>1, <2>2, <3>3, <3>4, <3>5 DEF TypeOK, lobby, books
  <2> QED
    BY <1>18, <2>3, <2>4 DEF TakeBox
<1>19. ASSUME NEW l \in Lobbies,
             TakeFlush(l)
      PROVE  TypeOK'
  <2> DEFINE p == Head(toGame[l]).who
             a == Clamped(game[p].acc, Head(toGame[l]).acc)
  <2>1. /\ p \in Players /\ Head(toGame[l]).acc \in Delta
        /\ toGame' \in [Lobbies -> Seq(GameMessage)]
    BY <1>19, GameHead DEF TakeFlush
  <2>2. UNCHANGED <<row, record, lobby, toLobby, mail, owed, posted, books, events>>
    BY <1>19 DEF TakeFlush
  <2>3. CASE UNCHANGED <<game, apart>>
    BY <2>1, <2>2, <2>3 DEF TypeOK, lobby, books
  <2>4. CASE /\ game[p] # Null
             /\ game' = [game EXCEPT ![p].acc = a]
             /\ apart' \in {apart, apart \cup {p}}
    <3>1. game[p].acc \in Account
      BY <2>1, <2>4 DEF TypeOK
    <3>2. a \in Account
      BY <2>1, <3>1, ChangedAccount
    <3>3. game' \in [Players -> [acc : Account, belong : Lobbies] \cup {Null}]
      BY <2>1, <2>4, <3>2 DEF TypeOK
    <3> QED
      BY <2>1, <2>2, <2>4, <3>3 DEF TypeOK, lobby, books
  <2> QED
    BY <1>19, <2>3, <2>4 DEF TakeFlush, MarkApart
<1>20. ASSUME NEW l \in Lobbies,
             TakeLeave(l)
      PROVE  TypeOK'
  <2>1. /\ Head(toLobby[l]).who \in Players
        /\ toLobby' \in [Lobbies -> Seq(LobbyMessage)]
    BY <1>20, LobbyHead DEF TakeLeave
  <2> QED
    BY <2>1, <1>20 DEF TypeOK, TakeLeave, books
<1>21. ASSUME NEW l \in Lobbies,
             TakeChange(l)
      PROVE  TypeOK'
  <2> DEFINE p == Head(toLobby[l]).who
             d == Head(toLobby[l]).acc
  <2>1. /\ p \in Players /\ d \in Delta /\ Sum(d) \in Int
        /\ toLobby' \in [Lobbies -> Seq(LobbyMessage)]
    BY <1>21, LobbyHead, Amounts DEF TakeChange
  <2>2. /\ row' = RowChanged(row, p, d)
        /\ mem' \in {mem, MemChanged(mem, row, l, p, d)}
        /\ unpaid' \in {unpaid, unpaid - Sum(d)}
        /\ owed' = [owed EXCEPT ![p] = Minus(@, d)]
        /\ apart' \in {apart, apart \cup {p}}
        /\ UNCHANGED <<record, phase, cur, asks, read, game, toGame, mail, posted, house,
                       site, tax, dropped, events>>
    BY <1>21 DEF TakeChange, MarkApart
  <2> HIDE DEF p, d
  <2>3. row' \in [Players -> Account] /\ mem' \in [Lobbies -> [Players -> Account]]
    <3>1. /\ RowChanged(row, p, d) \in [Players -> Account]
          /\ MemChanged(mem, row, l, p, d) \in [Lobbies -> [Players -> Account]]
      BY <1>1, <2>1, RowChangedFacts, MemChangedFacts
    <3> QED
      BY <1>1, <2>2, <3>1
  <2>4. owed' \in [Players -> Delta]
    BY <2>1, <2>2, DeltaSum DEF TypeOK
  <2> QED
    BY <2>1, <2>2, <2>3, <2>4 DEF TypeOK
<1>22. ASSUME NEW l \in Lobbies,
             LoseChange(l)
      PROVE  TypeOK'
  <2> DEFINE p == Head(toLobby[l]).who
             d == Head(toLobby[l]).acc
  <2>1. /\ p \in Players /\ d \in Delta /\ Sum(d) \in Int
        /\ toLobby' \in [Lobbies -> Seq(LobbyMessage)]
    BY <1>22, LobbyHead, Amounts DEF LoseChange
  <2>2. /\ owed' = [owed EXCEPT ![p] = Minus(@, d)]
        /\ dropped' = dropped + Sum(d)
        /\ apart' \in {apart, apart \cup {p}}
        /\ Event
        /\ UNCHANGED <<row, record, lobby, game, toGame, mail, posted, house, site, tax,
                       unpaid>>
    BY <1>22 DEF LoseChange, MarkApart
  <2> HIDE DEF p, d
  <2>3. owed' \in [Players -> Delta]
    BY <2>1, <2>2, DeltaSum DEF TypeOK
  <2> QED
    <3>1. events' \in 0 .. MaxEvents
      BY <2>2, EventType
    <3>2. UNCHANGED <<row, record, phase, mem, cur, asks, read, game, toGame, mail, posted,
                      house, site, tax, unpaid>>
      BY <2>2 DEF lobby
    <3>3. dropped' \in Int
      BY <2>1, <2>2 DEF TypeOK
    <3> QED
      BY <2>1, <2>2, <2>3, <3>1, <3>2, <3>3 DEF TypeOK
<1>23. ASSUME NEW l \in Lobbies,
             GiftArrives(l)
      PROVE  TypeOK'
  <2> DEFINE q == Head(mail[l]).who
             n == Head(mail[l]).coin
  <2>1. /\ q \in Players /\ n \in Nat /\ Safe(n) \in Delta
        /\ mail' \in [Lobbies -> Seq(Present)]
    BY <1>23, MailHead, Amounts DEF GiftArrives
  <2>2. /\ posted' = [posted EXCEPT ![q] = @ - n]
        /\ row' \in {row, RowChanged(row, q, Safe(n))}
        /\ mem' \in {mem, MemChanged(mem, row, l, q, Safe(n))}
        /\ dropped' \in {dropped, dropped + n}
        /\ UNCHANGED <<record, phase, cur, asks, read, game, toGame, toLobby, owed, house,
                       site, tax, unpaid, apart, events>>
    BY <1>23 DEF GiftArrives
  <2> HIDE DEF q, n
  <2>3. row' \in [Players -> Account] /\ mem' \in [Lobbies -> [Players -> Account]]
    <3>1. /\ RowChanged(row, q, Safe(n)) \in [Players -> Account]
          /\ MemChanged(mem, row, l, q, Safe(n)) \in [Lobbies -> [Players -> Account]]
      BY <1>1, <2>1, RowChangedFacts, MemChangedFacts
    <3> QED
      BY <1>1, <2>2, <3>1
  <2>4. posted' \in [Players -> Int] /\ dropped' \in Int
    BY <1>1, <2>1, <2>2 DEF TypeOK
  <2>5. mail' \in [Lobbies -> Seq(Present)]
    BY <2>1
  <2>6. UNCHANGED <<record, phase, cur, asks, read, game, toGame, toLobby, owed, house,
                    site, tax, unpaid, apart, events>>
    BY <2>2
  <2> QED
    BY <2>3, <2>4, <2>5, <2>6 DEF TypeOK
<1> QED
  BY TypeUnchanged,
     <1>2, <1>3, <1>4, <1>5, <1>6, <1>7, <1>8, <1>9, <1>10, <1>11, <1>12,
     <1>13, <1>14, <1>15, <1>16, <1>17, <1>18, <1>19, <1>20, <1>21, <1>22,
     <1>23 DEF Next

\* The types hold for any players, lobbies and amounts: neither in the row nor in
\* a lobby's or the game server's copy does an amount ever go below 0.
THEOREM TypeCorrect == Spec => []TypeOK
<1> QED
  BY TypeInit, TypeStep, PTL DEF Spec

-----------------------------------------------------------------------------
(* Every step is a step of the ledger.                                     *)

\* What a player is worth is a number, before a step and after it.
LEMMA WorthInt == ASSUME TypeOK, NEW p \in Players PROVE Worth(p) \in Int
<1>1. row[p] \in Delta /\ owed[p] \in Delta /\ posted[p] \in Int
  BY Amounts DEF TypeOK
<1> QED
  BY <1>1, Amounts DEF Worth

Worths == [p \in Players |-> Worth(p)]

\* The step changes what p is worth by n, and nobody else's.
LEMMA WorthMoves ==
    ASSUME NEW p \in Players, NEW n \in Int, Worth(p)' = Worth(p) + n,
           \A q \in Players \ {p} : Worth(q)' = Worth(q)
    PROVE  Worths' = [Worths EXCEPT ![p] = @ + n]
BY DEF Worths

LEMMA Difference == \A a, b \in Int : b >= a => b - a >= 0
OBVIOUS

\* The four ways to book it.
LEMMA Booked ==
    ASSUME TypeOK, TypeOK', NEW p \in Players, NEW n \in Int,
           Worth(p)' = Worth(p) + n,
           \A q \in Players \ {p} : Worth(q)' = Worth(q)
    PROVE  /\ house' = house - n /\ UNCHANGED <<site, tax, unpaid, dropped>> => L!Next
           /\ site' = site - n /\ UNCHANGED <<house, tax, unpaid, dropped>> => L!Next
           /\ dropped' = dropped - n /\ UNCHANGED <<house, site, tax, unpaid>> => L!Next
           /\ n >= 0 /\ tax' >= tax /\ unpaid' = unpaid + n + (tax' - tax)
                 /\ UNCHANGED <<house, site, dropped>> => L!Next
<1>1. Worths' = [Worths EXCEPT ![p] = @ + n]
  BY WorthMoves
<1>2. /\ house \in Int /\ site \in Int /\ tax \in Int /\ unpaid \in Int /\ dropped \in Int
      /\ tax' \in Int /\ Worths[p] \in Int
  BY WorthInt DEF TypeOK, Worths
<1>3. ASSUME house' = house - n, UNCHANGED <<site, tax, unpaid, dropped>> PROVE L!Next
  <2>1. house - house' = n
    BY <1>2, <1>3
  <2>2. L!Result(p)
    BY <1>1, <1>3, <2>1 DEF L!Result, Worths
  <2> QED
    BY <2>2 DEF L!Next
<1>4. ASSUME site' = site - n, UNCHANGED <<house, tax, unpaid, dropped>> PROVE L!Next
  <2>1. site - site' = n
    BY <1>2, <1>4
  <2>2. L!Issue(p)
    BY <1>1, <1>4, <2>1 DEF L!Issue, Worths
  <2> QED
    BY <2>2 DEF L!Next
<1>5. ASSUME dropped' = dropped - n, UNCHANGED <<house, site, tax, unpaid>> PROVE L!Next
  <2>1. Worths[p] - (dropped' - dropped) = Worths[p] + n
    BY <1>2, <1>5
  <2>2. Worths' = [Worths EXCEPT ![p] = Worths[p] - (dropped' - dropped)]
    BY <1>1, <2>1
  <2>3. L!Drop(p)
    BY <1>5, <2>2 DEF L!Drop, Worths
  <2> QED
    BY <2>3 DEF L!Next
<1>6. ASSUME n >= 0, tax' >= tax, unpaid' = unpaid + n + (tax' - tax),
             UNCHANGED <<house, site, dropped>>
      PROVE  L!Next
  <2>1. /\ unpaid' - unpaid >= tax' - tax
        /\ (unpaid' - unpaid) - (tax' - tax) = n
    <3> DEFINE t == tax' - tax
    <3>1. unpaid' = unpaid + n + t
      BY <1>6
    <3>2. t \in Int /\ t >= 0 /\ unpaid \in Int /\ unpaid + n \in Int
      <4>1. unpaid \in Int /\ unpaid + n \in Int
        BY <1>2
      <4>2. tax \in Int /\ tax' \in Int /\ tax' >= tax
        BY <1>2, <1>6
      <4>3. t \in Int
        BY <4>2
      <4>4. t >= 0
        BY <4>2, Difference
      <4> QED
        BY <4>1, <4>3, <4>4
    <3> HIDE DEF t
    <3>3. n >= 0
      BY <1>6
    <3>4. unpaid' - unpaid = n + t
      BY <3>1, <3>2
    <3>5. unpaid' - unpaid >= t /\ (unpaid' - unpaid) - t = n
      BY <3>2, <3>3, <3>4
    <3> QED
      BY <3>5 DEF t
  <2>2. L!Unpaid(p)
    BY <1>1, <1>6, <2>1 DEF L!Unpaid, Worths
  <2> QED
    BY <2>2 DEF L!Next
<1> QED
  BY <1>3, <1>4, <1>5, <1>6

LEMMA WorthStays ==
    ASSUME \A q \in Players : Worth(q)' = Worth(q), UNCHANGED books
    PROVE  UNCHANGED L!books
BY DEF L!books, books

\* Neither the row nor anything under way changes.
LEMMA NothingMoves ==
    ASSUME UNCHANGED <<row, owed, posted, books>>
    PROVE  UNCHANGED L!books
<1>1. \A q \in Players : Worth(q)' = Worth(q)
  BY DEF Worth
<1> QED
  BY <1>1, WorthStays

\* The sum of a row that is changed, or not.
LEMMA RowSum ==
    ASSUME NEW r \in [Players -> Account], NEW p \in Players, NEW d \in Delta
    PROVE  /\ \A q \in Players : Sum(r[q]) \in Int
           /\ \A q \in Players \ {p} : Sum(RowChanged(r, p, d)[q]) = Sum(r[q])
           /\ Covers(r[p], d) => Sum(RowChanged(r, p, d)[p]) = Sum(r[p]) + Sum(d)
           /\ ~Covers(r[p], d) => Sum(RowChanged(r, p, d)[p]) = Sum(r[p])
<1>1. \A q \in Players : r[q] \in Account /\ r[q] \in Delta
  BY Amounts
<1>2. \A q \in Players : Sum(r[q]) \in Int
  BY <1>1, Amounts
<1>3. Covers(r[p], d) => Sum(Plus(r[p], d)) = Sum(r[p]) + Sum(d)
  BY <1>1, ChangedAccount
<1> QED
  BY <1>2, <1>3, RowChangedFacts

\* p gives g, if his row covers it; q gets n of it, now or later.
LEMMA GiftBooked ==
    ASSUME TypeOK, TypeOK', NEW p \in Players, NEW q \in Players, NEW g \in Nat, NEW n \in Nat,
           NEW paid \in BOOLEAN, n <= g,
           \A x \in Players : Worth(x)' = (Worth(x) - (IF x = p /\ paid THEN g ELSE 0))
                                              + (IF x = q THEN n ELSE 0),
           tax' = tax + (g - n), unpaid' = IF paid THEN unpaid ELSE unpaid + g,
           UNCHANGED <<house, site, dropped>>
    PROVE  L!Next
<1>1. \A x \in Players : Worth(x) \in Int
  BY WorthInt
<1>2. tax \in Int /\ unpaid \in Int
  BY DEF TypeOK
<1>3. CASE ~paid
  <2>1. Worth(q)' = Worth(q) + n /\ \A x \in Players \ {q} : Worth(x)' = Worth(x)
    BY <1>1, <1>3
  <2>2. tax' >= tax /\ unpaid' = unpaid + n + (tax' - tax)
    BY <1>2, <1>3
  <2> QED
    BY <2>1, <2>2, Booked
<1>4. CASE paid /\ p = q
  <2>1. Worths' = [Worths EXCEPT ![p] = @ + (n - g)]
    <3>1. Worth(p)' = Worth(p) + (n - g) /\ \A x \in Players \ {p} : Worth(x)' = Worth(x)
      BY <1>1, <1>4
    <3>2. n - g \in Int
      OBVIOUS
    <3> QED
      BY <3>1, <3>2, WorthMoves
  <2>2. tax' - tax >= 0 /\ tax' - tax = g - n
    BY <1>2
  <2>3. Worths' = [[Worths EXCEPT ![p] = @ - (0 + (tax' - tax))] EXCEPT ![q] = @ + 0]
    <3>1. Worths \in [Players -> Int]
      BY <1>1 DEF Worths
    <3>2. \A w \in Int : w + (n - g) = (w - (0 + (g - n))) + 0
      OBVIOUS
    <3> QED
      BY <1>4, <2>1, <2>2, <3>1, <3>2
  <2>4. L!Gift(p, q)
    BY <1>4, <2>2, <2>3 DEF L!Gift, Worths
  <2> QED
    BY <2>4 DEF L!Next
<1>5. CASE paid /\ p # q
  <2>1. /\ Worth(p)' = Worth(p) - g /\ Worth(q)' = Worth(q) + n
        /\ \A x \in Players \ {p, q} : Worth(x)' = Worth(x)
    BY <1>1, <1>5
  <2>2. Worths'[q] - Worths[q] = n
    BY <1>1, <2>1 DEF Worths
  <2>3. tax' - tax >= 0 /\ n + (tax' - tax) = g
    BY <1>2
  <2>4. Worths' = [[Worths EXCEPT ![p] = @ - (n + (tax' - tax))] EXCEPT ![q] = @ + n]
    <3>1. [[Worths EXCEPT ![p] = @ - g] EXCEPT ![q] = @ + n]
             = [x \in Players |-> IF x = q THEN Worth(x) + n
                                 ELSE IF x = p THEN Worth(x) - g ELSE Worth(x)]
      BY <1>5 DEF Worths
    <3>2. Worths' = [x \in Players |-> IF x = q THEN Worth(x) + n
                                      ELSE IF x = p THEN Worth(x) - g ELSE Worth(x)]
      BY <1>5, <2>1 DEF Worths
    <3> QED
      BY <2>3, <3>1, <3>2
  <2>5. tax' - tax >= 0 /\ n >= 0
    BY <2>3
  <2>6. n = IF p = q THEN 0 ELSE Worths'[q] - Worths[q]
    BY <1>5, <2>2
  <2> DEFINE m == IF p = q THEN 0 ELSE Worths'[q] - Worths[q]
  <2>7. /\ tax' - tax >= 0 /\ m >= 0
        /\ Worths' = [[Worths EXCEPT ![p] = @ - (m + (tax' - tax))] EXCEPT ![q] = @ + m]
        /\ UNCHANGED <<house, site, unpaid, dropped>>
    <3> HIDE DEF m
    <3>1. m = n
      BY <2>6 DEF m
    <3> QED
      BY <1>5, <2>4, <2>5, <3>1
  <2>8. L!Gift(p, q)
    BY <2>7, Zenon DEF L!Gift, Worths
  <2> QED
    BY <2>8 DEF L!Next
<1> QED
  BY <1>3, <1>4, <1>5

LEMMA LedgerInit == Init => L!Init
<1> SUFFICES ASSUME Init PROVE L!Init
  OBVIOUS
<1>1. Row0 \in Account /\ Sum(Row0) \in Nat /\ Sum(Zero) = 0
  BY Constants, Amounts DEF Account, Sum
<1>2. \A p \in Players : Worth(p) = Sum(Row0) + 0 + 0
  BY <1>1 DEF Init, Worth
<1>3. Sum(Row0) + 0 + 0 \in Nat
  BY <1>1
<1>4. \A p \in Players : Worth(p) \in Nat
  BY <1>2, <1>3
<1>5. house = 0 /\ site = 0 /\ tax = 0 /\ unpaid = 0 /\ dropped = 0
  BY DEF Init
<1>6. [p \in Players |-> Worth(p)] \in [Players -> Nat]
  BY <1>4
<1> QED
  BY <1>5, <1>6 DEF L!Init

\* Every step of the accounts is one of the ledger, or none.
LEMMA LedgerStep ==
    ASSUME TypeOK, TypeOK', [Next]_vars
    PROVE  L!Next \/ UNCHANGED L!books
<1>1. /\ row \in [Players -> Account] /\ owed \in [Players -> Delta]
      /\ row' \in [Players -> Account] /\ owed' \in [Players -> Delta]
      /\ posted \in [Players -> Int] /\ posted' \in [Players -> Int]
      /\ house \in Int /\ site \in Int /\ tax \in Int /\ unpaid \in Int
      /\ dropped \in Int
  BY DEF TypeOK
<1>2. ASSUME NEW l \in Lobbies, NEW p \in Players,
             Login(l, p)
      PROVE  L!Next \/ UNCHANGED L!books
  BY <1>2, NothingMoves DEF Login, lobby, links, books
<1>3. ASSUME NEW l \in Lobbies, NEW p \in Players,
             LoadReads(l, p)
      PROVE  L!Next \/ UNCHANGED L!books
  BY <1>3, NothingMoves DEF LoadReads, lobby, links, books
<1>4. ASSUME NEW l \in Lobbies, NEW p \in Players,
             LoadAnswer(l, p)
      PROVE  L!Next \/ UNCHANGED L!books
  BY <1>4, NothingMoves DEF LoadAnswer, lobby, links, books
<1>5. ASSUME NEW l \in Lobbies, NEW p \in Players,
             GetAllData(l, p)
      PROVE  L!Next \/ UNCHANGED L!books
  BY <1>5, NothingMoves DEF GetAllData, lobby, links, books
<1>6. ASSUME NEW l \in Lobbies, NEW p \in Players,
             Recover(l, p)
      PROVE  L!Next \/ UNCHANGED L!books
  BY <1>6, NothingMoves DEF Recover, lobby, links, books
<1>7. ASSUME NEW l \in Lobbies, NEW p \in Players,
             EnterGame(l, p)
      PROVE  L!Next \/ UNCHANGED L!books
  BY <1>7, NothingMoves DEF EnterGame, lobby, links, books
<1>8. ASSUME NEW l \in Lobbies, NEW p \in Players, NEW t \in Boxes,
             BoxInLobby(l, p, t)
      PROVE  L!Next \/ UNCHANGED L!books
  <2>1. Box(t) \in Delta /\ Sum(Box(t)) = 0
    BY Constants, Amounts
  <2>2. row' = RowChanged(row, p, Box(t)) /\ UNCHANGED <<owed, posted, books>>
    BY <1>8 DEF BoxInLobby
  <2>3. \A q \in Players : Sum(row'[q]) = Sum(row[q])
    BY <1>1, <2>1, <2>2, RowSum
  <2> QED
    BY <2>2, <2>3, WorthStays DEF Worth
<1>9. ASSUME NEW l \in Lobbies, NEW p \in Players, NEW t \in Boxes,
             BoxInGame(l, p, t)
      PROVE  L!Next \/ UNCHANGED L!books
  BY <1>9, NothingMoves DEF BoxInGame, lobby, links, books
<1>10. ASSUME NEW l \in Lobbies, NEW p \in Players, NEW d \in Issues,
             SiteChange(l, p, d)
      PROVE  L!Next \/ UNCHANGED L!books
  <2>1. d \in Delta /\ Sum(d) \in Int
    BY Constants, Amounts
  <2>2. /\ row' = RowChanged(row, p, d) /\ Covers(row[p], d)
        /\ site' = site - Sum(d)
        /\ UNCHANGED <<owed, posted, house, tax, unpaid, dropped>>
    BY <1>10 DEF SiteChange
  <2>3. /\ Sum(row'[p]) = Sum(row[p]) + Sum(d)
        /\ \A q \in Players \ {p} : Sum(row'[q]) = Sum(row[q])
    BY <1>1, <2>1, <2>2, RowSum
  <2>4. Worth(p)' = Worth(p) + Sum(d) /\ \A q \in Players \ {p} : Worth(q)' = Worth(q)
    BY <1>1, <2>1, <2>2, <2>3, Amounts DEF Worth
  <2> QED
    BY <2>1, <2>2, <2>4, Booked
<1>11. ASSUME NEW l \in Lobbies, NEW p \in Players, NEW d \in Issues,
             SiteChangeAbsent(l, p, d)
      PROVE  L!Next \/ UNCHANGED L!books
  <2>1. d \in Delta /\ Sum(d) \in Int
    BY Constants, Amounts
  <2>2. /\ row' = RowChanged(row, p, d) /\ Covers(row[p], d)
        /\ site' = site - Sum(d)
        /\ UNCHANGED <<owed, posted, house, tax, unpaid, dropped>>
    BY <1>11 DEF SiteChangeAbsent
  <2>3. /\ Sum(row'[p]) = Sum(row[p]) + Sum(d)
        /\ \A q \in Players \ {p} : Sum(row'[q]) = Sum(row[q])
    BY <1>1, <2>1, <2>2, RowSum
  <2>4. Worth(p)' = Worth(p) + Sum(d) /\ \A q \in Players \ {p} : Worth(q)' = Worth(q)
    BY <1>1, <2>1, <2>2, <2>3, Amounts DEF Worth
  <2> QED
    BY <2>1, <2>2, <2>4, Booked
<1>12. ASSUME NEW l \in Lobbies, NEW p \in Players, NEW q \in Players, NEW g \in Gifts,
             GiftHere(l, p, q, g)
      PROVE  L!Next \/ UNCHANGED L!books
  <2> DEFINE n == g - Tax[g]
             paid == Covers(row[p], Safe(-g))
             once == RowChanged(row, p, Safe(-g))
  <2>1. /\ GiftTakes(l, p, g)
        /\ tax' = tax + Tax[g]
        /\ unpaid' = IF paid THEN unpaid ELSE unpaid + g
        /\ UNCHANGED <<owed, house, site, dropped>>
    BY <1>12 DEF GiftHere, GiftTakes
  <2>2. /\ g \in Nat /\ n \in Nat /\ n <= g /\ Tax[g] = g - n
        /\ Safe(-g) \in Delta /\ Sum(Safe(-g)) = -g
        /\ Safe(n) \in Delta /\ Sum(Safe(n)) = n
    BY Constants, Amounts
  <2>3. paid \in BOOLEAN
    BY DEF Covers
  <2>4. row' = RowChanged(once, q, Safe(n)) /\ UNCHANGED posted
    BY <1>12 DEF GiftHere
  <2>5. /\ once \in [Players -> Account]
        /\ \A x \in Players : Sum(row[x]) \in Int /\ Sum(once[x]) \in Int
        /\ \A x \in Players :
              Sum(once[x]) = Sum(row[x]) - (IF x = p /\ paid THEN g ELSE 0)
    <3>1. once \in [Players -> Account]
      BY <1>1, <2>2, RowChangedFacts
    <3>2. /\ \A x \in Players : Sum(row[x]) \in Int
          /\ \A x \in Players \ {p} : Sum(once[x]) = Sum(row[x])
          /\ paid => Sum(once[p]) = Sum(row[p]) + (-g)
          /\ ~paid => Sum(once[p]) = Sum(row[p])
      <4>1. row \in [Players -> Account]
        BY <1>1
      <4> HIDE DEF n
      <4> QED
        BY <2>2, <4>1, RowSum
    <3> HIDE DEF once, paid, n
    <3> QED
      BY <2>2, <3>1, <3>2
  <2> HIDE DEF once, n, paid
  <2>6. Covers(once[q], Safe(n))
    BY <2>2, <2>5 DEF Covers, Safe, Account
  <2>7. /\ \A x \in Players \ {q} : Sum(row'[x]) = Sum(once[x])
        /\ Sum(row'[q]) = Sum(once[q]) + n
    BY <2>2, <2>4, <2>5, <2>6, RowSum
  <2>8. \A x \in Players : Worth(x)' = (Worth(x) - (IF x = p /\ paid THEN g ELSE 0))
                                            + (IF x = q THEN n ELSE 0)
    BY <1>1, <2>1, <2>2, <2>4, <2>5, <2>7, Amounts DEF Worth
  <2> QED
    BY <2>1, <2>2, <2>3, <2>8, GiftBooked
<1>13. ASSUME NEW l \in Lobbies, NEW p \in Players, NEW q \in Players, NEW g \in Gifts,
             GiftElsewhere(l, p, q, g)
      PROVE  L!Next \/ UNCHANGED L!books
  <2> DEFINE n == g - Tax[g]
             paid == Covers(row[p], Safe(-g))
             once == RowChanged(row, p, Safe(-g))
  <2>1. /\ GiftTakes(l, p, g)
        /\ tax' = tax + Tax[g]
        /\ unpaid' = IF paid THEN unpaid ELSE unpaid + g
        /\ UNCHANGED <<owed, house, site, dropped>>
    BY <1>13 DEF GiftElsewhere, GiftTakes
  <2>2. /\ g \in Nat /\ n \in Nat /\ n <= g /\ Tax[g] = g - n
        /\ Safe(-g) \in Delta /\ Sum(Safe(-g)) = -g
        /\ Safe(n) \in Delta /\ Sum(Safe(n)) = n
    BY Constants, Amounts
  <2>3. paid \in BOOLEAN
    BY DEF Covers
  <2>4. row' = once /\ posted' = [posted EXCEPT ![q] = @ + n]
    BY <1>13 DEF GiftElsewhere
  <2>5. /\ \A x \in Players : Sum(row[x]) \in Int /\ Sum(row'[x]) \in Int
        /\ \A x \in Players :
              Sum(row'[x]) = Sum(row[x]) - (IF x = p /\ paid THEN g ELSE 0)
    <3>1. once \in [Players -> Account]
      BY <1>1, <2>2, RowChangedFacts
    <3>2. /\ \A x \in Players : Sum(row[x]) \in Int
          /\ \A x \in Players \ {p} : Sum(once[x]) = Sum(row[x])
          /\ paid => Sum(once[p]) = Sum(row[p]) + (-g)
          /\ ~paid => Sum(once[p]) = Sum(row[p])
      <4>1. row \in [Players -> Account]
        BY <1>1
      <4> HIDE DEF n
      <4> QED
        BY <2>2, <4>1, RowSum
    <3> HIDE DEF once, paid, n
    <3> QED
      BY <2>2, <2>4, <3>1, <3>2
  <2> HIDE DEF once, n, paid
  <2>8. \A x \in Players : Worth(x)' = (Worth(x) - (IF x = p /\ paid THEN g ELSE 0))
                                            + (IF x = q THEN n ELSE 0)
    BY <1>1, <2>1, <2>2, <2>4, <2>5, Amounts DEF Worth
  <2> QED
    BY <2>1, <2>2, <2>3, <2>8, GiftBooked
<1>14. ASSUME NEW l \in Lobbies, NEW p \in Players, NEW q \in Players, NEW g \in Gifts,
             GiftAbsent(l, p, q, g)
      PROVE  L!Next \/ UNCHANGED L!books
  <2> DEFINE n == g - Tax[g]
             paid == Covers(row[p], Safe(-g))
             once == RowChanged(row, p, Safe(-g))
  <2>1. /\ GiftTakes(l, p, g)
        /\ tax' = tax + Tax[g]
        /\ unpaid' = IF paid THEN unpaid ELSE unpaid + g
        /\ UNCHANGED <<owed, house, site, dropped>>
    BY <1>14 DEF GiftAbsent, GiftTakes
  <2>2. /\ g \in Nat /\ n \in Nat /\ n <= g /\ Tax[g] = g - n
        /\ Safe(-g) \in Delta /\ Sum(Safe(-g)) = -g
        /\ Safe(n) \in Delta /\ Sum(Safe(n)) = n
    BY Constants, Amounts
  <2>3. paid \in BOOLEAN
    BY DEF Covers
  <2>4. row' = RowChanged(once, q, Safe(n)) /\ UNCHANGED posted
    BY <1>14 DEF GiftAbsent
  <2>5. /\ once \in [Players -> Account]
        /\ \A x \in Players : Sum(row[x]) \in Int /\ Sum(once[x]) \in Int
        /\ \A x \in Players :
              Sum(once[x]) = Sum(row[x]) - (IF x = p /\ paid THEN g ELSE 0)
    <3>1. once \in [Players -> Account]
      BY <1>1, <2>2, RowChangedFacts
    <3>2. /\ \A x \in Players : Sum(row[x]) \in Int
          /\ \A x \in Players \ {p} : Sum(once[x]) = Sum(row[x])
          /\ paid => Sum(once[p]) = Sum(row[p]) + (-g)
          /\ ~paid => Sum(once[p]) = Sum(row[p])
      <4>1. row \in [Players -> Account]
        BY <1>1
      <4> HIDE DEF n
      <4> QED
        BY <2>2, <4>1, RowSum
    <3> HIDE DEF once, paid, n
    <3> QED
      BY <2>2, <3>1, <3>2
  <2> HIDE DEF once, n, paid
  <2>6. Covers(once[q], Safe(n))
    BY <2>2, <2>5 DEF Covers, Safe, Account
  <2>7. /\ \A x \in Players \ {q} : Sum(row'[x]) = Sum(once[x])
        /\ Sum(row'[q]) = Sum(once[q]) + n
    BY <2>2, <2>4, <2>5, <2>6, RowSum
  <2>8. \A x \in Players : Worth(x)' = (Worth(x) - (IF x = p /\ paid THEN g ELSE 0))
                                            + (IF x = q THEN n ELSE 0)
    BY <1>1, <2>1, <2>2, <2>4, <2>5, <2>7, Amounts DEF Worth
  <2> QED
    BY <2>1, <2>2, <2>3, <2>8, GiftBooked
<1>15. ASSUME NEW p \in Players,
             LeaveGame(p)
      PROVE  L!Next \/ UNCHANGED L!books
  BY <1>15, NothingMoves DEF LeaveGame, lobby, links, books
<1>16. ASSUME NEW p \in Players, NEW r \in Results,
             GameResult(p, r)
      PROVE  L!Next \/ UNCHANGED L!books
  <2> DEFINE won == IF game[p].acc.coin + r < 0 THEN -game[p].acc.coin ELSE r
  <2>1. /\ owed' = [owed EXCEPT ![p] = Plus(@, Coins(won))]
        /\ house' = house - won
        /\ game[p] # Null
        /\ UNCHANGED <<row, posted, site, tax, unpaid, dropped>>
    BY <1>16 DEF GameResult
  <2>2. won \in Int
    <3>1. game[p].acc \in Account /\ r \in Int
      BY <2>1, Constants DEF TypeOK
    <3> QED
      BY <3>1 DEF Account
  <2> HIDE DEF won
  <2>3. /\ Sum(owed'[p]) = Sum(owed[p]) + won
        /\ \A q \in Players \ {p} : owed'[q] = owed[q]
    BY <1>1, <2>1, <2>2, Amounts, DeltaSum
  <2>4. Worth(p)' = Worth(p) + won /\ \A q \in Players \ {p} : Worth(q)' = Worth(q)
    BY <1>1, <2>1, <2>2, <2>3, Amounts DEF Worth
  <2> QED
    BY <2>1, <2>2, <2>4, Booked
<1>17. ASSUME NEW l \in Lobbies,
             TakeEnter(l)
      PROVE  L!Next \/ UNCHANGED L!books
  BY <1>17, NothingMoves DEF TakeEnter, lobby, links, books
<1>18. ASSUME NEW l \in Lobbies,
             TakeBox(l)
      PROVE  L!Next \/ UNCHANGED L!books
  <2> DEFINE p == Head(toGame[l]).who
             d == Head(toGame[l]).acc
  <2>1. p \in Players /\ d \in Delta /\ Sum(d) = 0
    BY <1>18, GameHead, Amounts DEF TakeBox, Swap
  <2>2. /\ owed' = owed \/ owed' = [owed EXCEPT ![p] = Plus(@, d)]
        /\ UNCHANGED <<row, posted, books>>
    BY <1>18 DEF TakeBox
  <2> HIDE DEF p, d
  <2>3. \A q \in Players : Sum(owed'[q]) = Sum(owed[q])
    <3>1. Sum(Plus(owed[p], d)) = Sum(owed[p])
      BY <1>1, <2>1, Amounts, DeltaSum
    <3> QED
      BY <1>1, <2>1, <2>2, <3>1
  <2> QED
    BY <2>2, <2>3, WorthStays DEF Worth
<1>19. ASSUME NEW l \in Lobbies,
             TakeFlush(l)
      PROVE  L!Next \/ UNCHANGED L!books
  BY <1>19, NothingMoves DEF TakeFlush, lobby, links, books
<1>20. ASSUME NEW l \in Lobbies,
             TakeLeave(l)
      PROVE  L!Next \/ UNCHANGED L!books
  BY <1>20, NothingMoves DEF TakeLeave, lobby, links, books
<1>21. ASSUME NEW l \in Lobbies,
             TakeChange(l)
      PROVE  L!Next \/ UNCHANGED L!books
  <2>1. PICK p \in Players, d \in Delta :
            /\ p = Head(toLobby[l]).who /\ d = Head(toLobby[l]).acc
            /\ d \in Change /\ Sum(d) \in Int
    BY <1>21, LobbyHead, Amounts DEF TakeChange
  <2>2. /\ row' = RowChanged(row, p, d)
        /\ unpaid' = IF Covers(row[p], d) THEN unpaid ELSE unpaid - Sum(d)
        /\ owed' = [owed EXCEPT ![p] = Minus(@, d)]
        /\ UNCHANGED <<posted, house, site, tax, dropped>>
    BY <1>21, <2>1 DEF TakeChange
  <2>3. /\ Sum(owed'[p]) = Sum(owed[p]) - Sum(d)
        /\ \A q \in Players \ {p} : owed'[q] = owed[q]
    BY <1>1, <2>1, <2>2, Amounts, DeltaSum
  <2>4. /\ \A q \in Players \ {p} : Sum(row'[q]) = Sum(row[q])
        /\ Covers(row[p], d) => Sum(row'[p]) = Sum(row[p]) + Sum(d)
        /\ ~Covers(row[p], d) => Sum(row'[p]) = Sum(row[p])
    BY <1>1, <2>1, <2>2, RowSum
  <2>5. \A q \in Players : Sum(row[q]) \in Int /\ Sum(owed[q]) \in Int
    BY <1>1, Amounts
  <2>6. CASE Covers(row[p], d)
    <3>1. \A q \in Players : Worth(q)' = Worth(q)
      BY <1>1, <2>1, <2>2, <2>3, <2>4, <2>5, <2>6 DEF Worth
    <3> QED
      BY <2>2, <2>6, <3>1, WorthStays DEF books
  <2>7. CASE ~Covers(row[p], d)
    <3>1. Sum(d) <= 0
      BY <1>1, <2>1, <2>7 DEF Covers, Change, Lowers, Account, Delta
    <3>2. /\ Worth(p)' = Worth(p) + (-Sum(d))
          /\ \A q \in Players \ {p} : Worth(q)' = Worth(q)
      <4>1. /\ Sum(row'[p]) = Sum(row[p])
            /\ \A q \in Players : posted'[q] = posted[q] /\ posted[q] \in Int
        BY <1>1, <2>2, <2>4, <2>7
      <4> QED
        BY <2>1, <2>3, <2>4, <2>5, <4>1 DEF Worth
    <3>3. /\ tax' >= tax /\ unpaid' = unpaid + (-Sum(d)) + (tax' - tax)
          /\ -Sum(d) >= 0 /\ -Sum(d) \in Int
      BY <1>1, <2>1, <2>2, <2>7, <3>1
    <3> QED
      BY <2>1, <2>2, <3>2, <3>3, Booked
  <2> QED
    BY <2>6, <2>7
<1>22. ASSUME NEW l \in Lobbies,
             LoseChange(l)
      PROVE  L!Next \/ UNCHANGED L!books
  <2>1. PICK p \in Players, d \in Delta :
            /\ p = Head(toLobby[l]).who /\ d = Head(toLobby[l]).acc
            /\ d \in Change /\ Sum(d) \in Int
    BY <1>22, LobbyHead, Amounts DEF LoseChange
  <2>2. /\ owed' = [owed EXCEPT ![p] = Minus(@, d)]
        /\ dropped' = dropped + Sum(d)
        /\ UNCHANGED <<row, posted, house, site, tax, unpaid>>
    BY <1>22, <2>1 DEF LoseChange
  <2>3. /\ Sum(owed'[p]) = Sum(owed[p]) - Sum(d)
        /\ \A q \in Players \ {p} : owed'[q] = owed[q]
    BY <1>1, <2>1, <2>2, Amounts, DeltaSum
  <2>4. /\ Worth(p)' = Worth(p) + (-Sum(d))
        /\ \A q \in Players \ {p} : Worth(q)' = Worth(q)
    <3>1. \A q \in Players : Sum(row[q]) \in Int /\ Sum(owed[q]) \in Int
      BY <1>1, Amounts
    <3>2. \A q \in Players : /\ posted'[q] = posted[q] /\ posted[q] \in Int
                              /\ row'[q] = row[q]
      BY <1>1, <2>2
    <3> QED
      BY <2>1, <2>3, <3>1, <3>2 DEF Worth
  <2>5. dropped' = dropped - (-Sum(d)) /\ -Sum(d) \in Int
    BY <1>1, <2>1, <2>2
  <2> QED
    BY <2>1, <2>2, <2>4, <2>5, Booked
<1>23. ASSUME NEW l \in Lobbies,
             GiftArrives(l)
      PROVE  L!Next \/ UNCHANGED L!books
  <2>1. PICK q \in Players, n \in Nat :
            /\ q = Head(mail[l]).who /\ n = Head(mail[l]).coin
            /\ Safe(n) \in Delta /\ Sum(Safe(n)) = n
    BY <1>23, MailHead, Amounts DEF GiftArrives
  <2> DEFINE ok == phase[l][q] # "none" /\ n >= MinGift
  <2>2. /\ posted' = [posted EXCEPT ![q] = @ - n]
        /\ row' = IF ok THEN RowChanged(row, q, Safe(n)) ELSE row
        /\ dropped' = IF ok THEN dropped ELSE dropped + n
        /\ UNCHANGED <<owed, house, site, tax, unpaid>>
    BY <1>23, <2>1 DEF GiftArrives
  <2> HIDE DEF ok
  <2>3. \A x \in Players : Sum(row[x]) \in Int /\ Sum(owed[x]) \in Int
    BY <1>1, Amounts
  <2>4. CASE ok
    <3>1. Covers(row[q], Safe(n))
      BY <1>1, <2>1 DEF Covers, Safe, Account
    <3>2. /\ Sum(row'[q]) = Sum(row[q]) + n
          /\ \A x \in Players \ {q} : Sum(row'[x]) = Sum(row[x])
      BY <1>1, <2>1, <2>2, <2>4, <3>1, RowSum
    <3>3. \A x \in Players : Worth(x)' = Worth(x)
      BY <1>1, <2>1, <2>2, <2>3, <3>2 DEF Worth
    <3> QED
      BY <2>2, <2>4, <3>3, WorthStays DEF books
  <2>5. CASE ~ok
    <3>1. /\ Worth(q)' = Worth(q) + (-n)
          /\ \A x \in Players \ {q} : Worth(x)' = Worth(x)
      <4>1. /\ posted'[q] = posted[q] - n
            /\ \A x \in Players \ {q} : posted'[x] = posted[x]
            /\ \A x \in Players : /\ posted[x] \in Int
                                  /\ row'[x] = row[x] /\ owed'[x] = owed[x]
        BY <1>1, <2>1, <2>2, <2>5
      <4> QED
        BY <2>1, <2>3, <4>1 DEF Worth
    <3>2. dropped' = dropped - (-n) /\ -n \in Int
      BY <1>1, <2>1, <2>2, <2>5
    <3> QED
      BY <2>1, <2>2, <3>1, <3>2, Booked
  <2> QED
    BY <2>4, <2>5
<1>24. CASE UNCHANGED vars
  BY <1>24, NothingMoves DEF vars
<1> QED
  BY <1>24,
     <1>2, <1>3, <1>4, <1>5, <1>6, <1>7, <1>8, <1>9, <1>10, <1>11, <1>12,
     <1>13, <1>14, <1>15, <1>16, <1>17, <1>18, <1>19, <1>20, <1>21, <1>22,
     <1>23 DEF Next

\* The accounts implement the ledger, for any players, lobbies, gifts and results:
\* whatever is lost, refused or applied late, every change of what a player is
\* worth is booked once, in the step that makes it.
THEOREM LedgerCorrect == Spec => LedgerSpec
<1>1. TypeOK /\ [Next]_vars => [L!Next]_(L!books)
  BY TypeStep, LedgerStep
<1> QED
  BY <1>1, LedgerInit, TypeCorrect, PTL DEF Spec, LedgerSpec, L!Spec

-----------------------------------------------------------------------------
(* What is under way is what the messages carry.                           *)

\* What each message is worth to p.
CoinOf(p)  == [m \in LobbyMessage |-> Brings(m, p).coin]
SafeOf(p)  == [m \in LobbyMessage |-> Brings(m, p).safe]
GivenTo(p) == [m \in Present |-> Gives(m, p)]

Counted ==
    \A p \in Players :
        /\ owed[p].coin = AllMapped(CoinOf(p), toLobby)
        /\ owed[p].safe = AllMapped(SafeOf(p), toLobby)
        /\ posted[p] = AllMapped(GivenTo(p), mail)

LEMMA Brought ==
    ASSUME NEW m \in LobbyMessage, NEW p
    PROVE  Brings(m, p) \in Delta
<1>1. m.acc \in Delta
  BY Amounts DEF LobbyMessage
<1> QED
  BY <1>1, Amounts DEF Brings

LEMMA WorthTypes ==
    ASSUME NEW p
    PROVE  /\ CoinOf(p) \in [LobbyMessage -> Int]
           /\ SafeOf(p) \in [LobbyMessage -> Int]
           /\ GivenTo(p) \in [Present -> Int]
<1>1. \A m \in LobbyMessage : Brings(m, p).coin \in Int /\ Brings(m, p).safe \in Int
  BY Brought DEF Delta
<1>2. \A m \in Present : Gives(m, p) \in Int
  BY DEF Present, Gives
<1> QED
  BY <1>1, <1>2 DEF CoinOf, SafeOf, GivenTo

\* The invariant says what the property says.
LEMMA CountedIs == ASSUME TypeOK, Counted PROVE UnderWayCounted
<1> SUFFICES ASSUME NEW p \in Players
             PROVE  /\ owed[p].coin = SumFunction([k \in Lobbies |-> SumFunction(
                          [i \in DOMAIN toLobby[k] |-> Brings(toLobby[k][i], p).coin])])
                    /\ owed[p].safe = SumFunction([k \in Lobbies |-> SumFunction(
                          [i \in DOMAIN toLobby[k] |-> Brings(toLobby[k][i], p).safe])])
                    /\ posted[p] = SumFunction([k \in Lobbies |-> SumFunction(
                          [i \in DOMAIN mail[k] |-> Gives(mail[k][i], p)])])
  BY DEF UnderWayCounted
<1>1. /\ DOMAIN toLobby = Lobbies /\ DOMAIN mail = Lobbies
      /\ \A k \in Lobbies : toLobby[k] \in Seq(LobbyMessage) /\ mail[k] \in Seq(Present)
  BY DEF TypeOK
<1>2. ASSUME NEW k \in Lobbies
      PROVE  Mapped(CoinOf(p), toLobby[k])
                = [i \in DOMAIN toLobby[k] |-> Brings(toLobby[k][i], p).coin]
  BY <1>1 DEF Mapped, CoinOf
<1>3. ASSUME NEW k \in Lobbies
      PROVE  Mapped(SafeOf(p), toLobby[k])
                = [i \in DOMAIN toLobby[k] |-> Brings(toLobby[k][i], p).safe]
  BY <1>1 DEF Mapped, SafeOf
<1>4. ASSUME NEW k \in Lobbies
      PROVE  Mapped(GivenTo(p), mail[k]) = [i \in DOMAIN mail[k] |-> Gives(mail[k][i], p)]
  BY <1>1 DEF Mapped, GivenTo
<1>5. AllMapped(CoinOf(p), toLobby)
         = SumFunction([k \in Lobbies |-> SumFunction(
              [i \in DOMAIN toLobby[k] |-> Brings(toLobby[k][i], p).coin])])
  BY <1>1, <1>2, Zenon DEF AllMapped
<1>6. AllMapped(SafeOf(p), toLobby)
         = SumFunction([k \in Lobbies |-> SumFunction(
              [i \in DOMAIN toLobby[k] |-> Brings(toLobby[k][i], p).safe])])
  BY <1>1, <1>3, Zenon DEF AllMapped
<1>7. AllMapped(GivenTo(p), mail)
         = SumFunction([k \in Lobbies |-> SumFunction(
              [i \in DOMAIN mail[k] |-> Gives(mail[k][i], p)])])
  BY <1>1, <1>4, Zenon DEF AllMapped
<1> QED
  BY <1>5, <1>6, <1>7 DEF Counted

LEMMA CountedInit == Init => Counted
<1> SUFFICES ASSUME Init, NEW p \in Players
             PROVE  /\ owed[p].coin = AllMapped(CoinOf(p), toLobby)
                    /\ owed[p].safe = AllMapped(SafeOf(p), toLobby)
                    /\ posted[p] = AllMapped(GivenTo(p), mail)
  BY DEF Counted
<1>1. IsFiniteSet(Lobbies)
  BY AccountAssumption
<1>2. /\ DOMAIN toLobby = Lobbies /\ \A k \in Lobbies : toLobby[k] = <<>>
      /\ DOMAIN mail = Lobbies /\ \A k \in Lobbies : mail[k] = <<>>
      /\ owed[p] = Zero /\ posted[p] = 0
  BY DEF Init
<1>3. AllMapped(CoinOf(p), toLobby) = 0
  BY <1>1, <1>2, AllMappedEmpty
<1>4. AllMapped(SafeOf(p), toLobby) = 0
  BY <1>1, <1>2, AllMappedEmpty
<1>5. AllMapped(GivenTo(p), mail) = 0
  BY <1>1, <1>2, AllMappedEmpty
<1>6. owed[p].coin = 0 /\ owed[p].safe = 0
  BY <1>2 DEF Zero, Coins
<1> QED
  BY <1>2, <1>3, <1>4, <1>5, <1>6

\* A message more, for lobby k, and what it brings is owed.
LEMMA CountedSent ==
    ASSUME TypeOK, TypeOK', Counted, NEW k \in Lobbies, NEW m \in LobbyMessage,
           toLobby' = [toLobby EXCEPT ![k] = Append(@, m)],
           \A p \in Players : owed'[p] = Plus(owed[p], Brings(m, p)),
           UNCHANGED <<mail, posted>>
    PROVE  Counted'
<1> SUFFICES ASSUME NEW p \in Players
             PROVE  /\ owed'[p].coin = AllMapped(CoinOf(p), toLobby')
                    /\ owed'[p].safe = AllMapped(SafeOf(p), toLobby')
                    /\ posted'[p] = AllMapped(GivenTo(p), mail')
  BY DEF Counted
<1>1. /\ OneChanges(Lobbies, LobbyMessage, CoinOf(p), toLobby, toLobby', k)
      /\ OneChanges(Lobbies, LobbyMessage, SafeOf(p), toLobby, toLobby', k)
      /\ toLobby'[k] = Append(toLobby[k], m)
  <2>1. /\ toLobby \in [Lobbies -> Seq(LobbyMessage)]
        /\ toLobby' \in [Lobbies -> Seq(LobbyMessage)]
    BY DEF TypeOK
  <2> QED
    BY <2>1, WorthTypes, AccountAssumption DEF OneChanges, Valued
<1>2. AllMapped(CoinOf(p), toLobby') = AllMapped(CoinOf(p), toLobby) + CoinOf(p)[m]
  <2>1. Sends(Lobbies, LobbyMessage, CoinOf(p), toLobby, toLobby', k, m)
    BY <1>1 DEF Sends
  <2> QED
    BY <2>1, AllMappedAppend
<1>3. AllMapped(SafeOf(p), toLobby') = AllMapped(SafeOf(p), toLobby) + SafeOf(p)[m]
  <2>1. Sends(Lobbies, LobbyMessage, SafeOf(p), toLobby, toLobby', k, m)
    BY <1>1 DEF Sends
  <2> QED
    BY <2>1, AllMappedAppend
<1>4. /\ owed'[p].coin = owed[p].coin + CoinOf(p)[m]
      /\ owed'[p].safe = owed[p].safe + SafeOf(p)[m]
  <2>1. owed'[p] = Plus(owed[p], Brings(m, p))
    OBVIOUS
  <2>2. CoinOf(p)[m] = Brings(m, p).coin /\ SafeOf(p)[m] = Brings(m, p).safe
    BY Zenon DEF CoinOf, SafeOf
  <2> QED
    BY <2>1, <2>2 DEF Plus
<1> QED
  BY <1>2, <1>3, <1>4 DEF Counted

\* The first message for lobby k is taken, and no longer owed.
LEMMA CountedTaken ==
    ASSUME TypeOK, TypeOK', Counted, NEW k \in Lobbies, toLobby[k] # <<>>,
           toLobby' = [toLobby EXCEPT ![k] = Tail(@)],
           \A p \in Players : owed'[p] = Minus(owed[p], Brings(Head(toLobby[k]), p)),
           UNCHANGED <<mail, posted>>
    PROVE  Counted'
<1> DEFINE m == Head(toLobby[k])
<1> SUFFICES ASSUME NEW p \in Players
             PROVE  /\ owed'[p].coin = AllMapped(CoinOf(p), toLobby')
                    /\ owed'[p].safe = AllMapped(SafeOf(p), toLobby')
                    /\ posted'[p] = AllMapped(GivenTo(p), mail')
  BY DEF Counted
<1>1. /\ OneChanges(Lobbies, LobbyMessage, CoinOf(p), toLobby, toLobby', k)
      /\ OneChanges(Lobbies, LobbyMessage, SafeOf(p), toLobby, toLobby', k)
      /\ toLobby'[k] = Tail(toLobby[k])
  <2>1. /\ toLobby \in [Lobbies -> Seq(LobbyMessage)]
        /\ toLobby' \in [Lobbies -> Seq(LobbyMessage)]
    BY DEF TypeOK
  <2> QED
    BY <2>1, WorthTypes, AccountAssumption DEF OneChanges, Valued
<1>2. AllMapped(CoinOf(p), toLobby') = AllMapped(CoinOf(p), toLobby) - CoinOf(p)[m]
  <2>1. Takes(Lobbies, LobbyMessage, CoinOf(p), toLobby, toLobby', k, m)
    BY <1>1 DEF Takes
  <2> QED
    BY <2>1, AllMappedTail
<1>3. AllMapped(SafeOf(p), toLobby') = AllMapped(SafeOf(p), toLobby) - SafeOf(p)[m]
  <2>1. Takes(Lobbies, LobbyMessage, SafeOf(p), toLobby, toLobby', k, m)
    BY <1>1 DEF Takes
  <2> QED
    BY <2>1, AllMappedTail
<1>4. m \in LobbyMessage
  BY Heads
<1>5. /\ owed'[p].coin = owed[p].coin - CoinOf(p)[m]
      /\ owed'[p].safe = owed[p].safe - SafeOf(p)[m]
  <2>1. owed'[p] = Minus(owed[p], Brings(m, p))
    OBVIOUS
  <2>2. CoinOf(p)[m] = Brings(m, p).coin /\ SafeOf(p)[m] = Brings(m, p).safe
    BY <1>4, Zenon DEF CoinOf, SafeOf
  <2> QED
    BY <2>1, <2>2 DEF Minus
<1> QED
  BY <1>2, <1>3, <1>5 DEF Counted

\* The same for the gifts between lobbies.
LEMMA CountedPosted ==
    ASSUME TypeOK, TypeOK', Counted, NEW k \in Lobbies, NEW m \in Present,
           mail' = [mail EXCEPT ![k] = Append(@, m)],
           \A p \in Players : posted'[p] = posted[p] + Gives(m, p),
           UNCHANGED <<toLobby, owed>>
    PROVE  Counted'
<1> SUFFICES ASSUME NEW p \in Players
             PROVE  /\ owed'[p].coin = AllMapped(CoinOf(p), toLobby')
                    /\ owed'[p].safe = AllMapped(SafeOf(p), toLobby')
                    /\ posted'[p] = AllMapped(GivenTo(p), mail')
  BY DEF Counted
<1>1. Sends(Lobbies, Present, GivenTo(p), mail, mail', k, m)
  <2>1. mail \in [Lobbies -> Seq(Present)] /\ mail' \in [Lobbies -> Seq(Present)]
    BY DEF TypeOK
  <2> QED
    BY <2>1, WorthTypes, AccountAssumption DEF Sends, OneChanges, Valued
<1>2. AllMapped(GivenTo(p), mail') = AllMapped(GivenTo(p), mail) + GivenTo(p)[m]
  BY <1>1, AllMappedAppend
<1> QED
  BY <1>2 DEF Counted, GivenTo

LEMMA CountedDelivered ==
    ASSUME TypeOK, TypeOK', Counted, NEW k \in Lobbies, mail[k] # <<>>,
           mail' = [mail EXCEPT ![k] = Tail(@)],
           \A p \in Players : posted'[p] = posted[p] - Gives(Head(mail[k]), p),
           UNCHANGED <<toLobby, owed>>
    PROVE  Counted'
<1> DEFINE m == Head(mail[k])
<1> SUFFICES ASSUME NEW p \in Players
             PROVE  /\ owed'[p].coin = AllMapped(CoinOf(p), toLobby')
                    /\ owed'[p].safe = AllMapped(SafeOf(p), toLobby')
                    /\ posted'[p] = AllMapped(GivenTo(p), mail')
  BY DEF Counted
<1>1. Takes(Lobbies, Present, GivenTo(p), mail, mail', k, m)
  <2>1. mail \in [Lobbies -> Seq(Present)] /\ mail' \in [Lobbies -> Seq(Present)]
    BY DEF TypeOK
  <2> QED
    BY <2>1, WorthTypes, AccountAssumption DEF Takes, OneChanges, Valued
<1>2. AllMapped(GivenTo(p), mail') = AllMapped(GivenTo(p), mail) - GivenTo(p)[m]
  BY <1>1, AllMappedTail
<1>3. m \in Present
  BY Heads
<1> QED
  BY <1>2, <1>3 DEF Counted, GivenTo

\* Most steps leave the messages that count alone.
LEMMA CountedStays ==
    ASSUME Counted, UNCHANGED <<toLobby, mail, owed, posted>>
    PROVE  Counted'
BY DEF Counted

LEMMA NothingOwed ==
    ASSUME NEW d \in Delta
    PROVE  Plus(d, Zero) = d /\ Minus(d, Zero) = d
BY DEF Delta, Plus, Minus, Zero, Coins

\* The message that brings p the change d.
ChangeOf(p, d) == [type |-> "change", who |-> p, acc |-> d]

OwesMore(m) ==
    /\ m.type = "change" /\ m.who \in Players /\ m.acc \in Delta
    /\ owed' = [owed EXCEPT ![m.who] = Plus(@, m.acc)]

LEMMA OwedMore ==
    ASSUME TypeOK, NEW m, OwesMore(m)
    PROVE  \A x \in Players : owed'[x] = Plus(owed[x], Brings(m, x))
<1>1. owed \in [Players -> Delta]
  BY DEF TypeOK
<1>2. ASSUME NEW x \in Players, x # m.who
      PROVE  owed'[x] = Plus(owed[x], Brings(m, x))
  <2>1. Brings(m, x) = Zero
    BY <1>2 DEF Brings
  <2> QED
    BY <1>1, <1>2, <2>1, NothingOwed DEF OwesMore
<1>3. owed'[m.who] = Plus(owed[m.who], Brings(m, m.who))
  <2>1. Brings(m, m.who) = m.acc
    BY DEF Brings, OwesMore
  <2> QED
    BY <1>1, <2>1 DEF OwesMore
<1> QED
  BY <1>2, <1>3

OwesLess(m) ==
    /\ m.type = "change" /\ m.who \in Players /\ m.acc \in Delta
    /\ owed' = [owed EXCEPT ![m.who] = Minus(@, m.acc)]

LEMMA OwedLess ==
    ASSUME TypeOK, NEW m, OwesLess(m)
    PROVE  \A x \in Players : owed'[x] = Minus(owed[x], Brings(m, x))
<1>1. owed \in [Players -> Delta]
  BY DEF TypeOK
<1>2. ASSUME NEW x \in Players, x # m.who
      PROVE  owed'[x] = Minus(owed[x], Brings(m, x))
  <2>1. Brings(m, x) = Zero
    BY <1>2 DEF Brings
  <2> QED
    BY <1>1, <1>2, <2>1, NothingOwed DEF OwesLess
<1>3. owed'[m.who] = Minus(owed[m.who], Brings(m, m.who))
  <2>1. Brings(m, m.who) = m.acc
    BY DEF Brings, OwesLess
  <2> QED
    BY <1>1, <2>1 DEF OwesLess
<1> QED
  BY <1>2, <1>3

\* Either way a game changes an account: its result, or coins from the safe box.
GamePays(p, d) ==
    /\ p \in Players /\ d \in Change
    /\ game[p] # Null /\ Covers(game[p].acc, d)
    /\ game' = [game EXCEPT ![p].acc = Plus(@, d)]
    /\ toLobby' = [toLobby EXCEPT ![game[p].belong] = Append(@, ChangeOf(p, d))]
    /\ owed' = [owed EXCEPT ![p] = Plus(@, d)]
    /\ UNCHANGED <<row, phase, mem, read, mail, posted, unpaid, apart>>

LEMMA ResultPays ==
    ASSUME TypeOK, NEW p \in Players, NEW r \in Results, GameResult(p, r)
    PROVE  \E d : GamePays(p, d)
<1> DEFINE won == IF game[p].acc.coin + r < 0 THEN -game[p].acc.coin ELSE r
<1>1. /\ game[p] # Null
      /\ game' = [game EXCEPT ![p].acc = Plus(game[p].acc, Coins(won))]
      /\ toLobby' = [toLobby EXCEPT ![game[p].belong] =
            Append(@, ChangeOf(p, Coins(won)))]
      /\ owed' = [owed EXCEPT ![p] = Plus(@, Coins(won))]
      /\ UNCHANGED <<row, phase, mem, read, mail, posted, unpaid, apart>>
  BY DEF GameResult, ChangeOf, lobby
<1>2. game[p].acc \in Account /\ r \in Int
  BY <1>1, Constants DEF TypeOK
<1>3. won \in Int /\ Covers(game[p].acc, Coins(won))
  BY <1>2 DEF Account, Covers, Coins
<1>4. Coins(won) \in Change
  BY <1>3, Amounts
<1> HIDE DEF won
<1>5. game' = [game EXCEPT ![p].acc = Plus(@, Coins(won))]
  BY <1>1
<1>6. GamePays(p, Coins(won))
  BY <1>1, <1>3, <1>4, <1>5 DEF GamePays
<1> QED
  BY <1>6

LEMMA BoxPays ==
    ASSUME TypeOK, NEW l \in Lobbies, TakeBox(l)
    PROVE  \/ UNCHANGED <<row, phase, mem, read, game, toLobby, mail, owed, posted,
                          unpaid, apart>>
           \/ \E p, d : GamePays(p, d)
<1> DEFINE p == Head(toGame[l]).who
           d == Head(toGame[l]).acc
<1>1. p \in Players /\ d \in Change
  BY GameHead, Amounts DEF TakeBox
<1>2. UNCHANGED <<row, phase, mem, read, mail, posted, unpaid, apart>>
  BY DEF TakeBox, lobby, books
<1>3. \/ UNCHANGED <<game, toLobby, owed>>
      \/ /\ game[p] # Null /\ Covers(game[p].acc, d)
         /\ game' = [game EXCEPT ![p].acc = Plus(@, d)]
         /\ toLobby' = [toLobby EXCEPT ![game[p].belong] = Append(@, ChangeOf(p, d))]
         /\ owed' = [owed EXCEPT ![p] = Plus(@, d)]
  BY DEF TakeBox, ChangeOf
<1> HIDE DEF p, d
<1>4. CASE UNCHANGED <<game, toLobby, owed>>
  BY <1>2, <1>4
<1>5. CASE ~UNCHANGED <<game, toLobby, owed>>
  <2>1. GamePays(p, d)
    BY <1>1, <1>2, <1>3, <1>5 DEF GamePays
  <2> QED
    BY <2>1
<1> QED
  BY <1>4, <1>5

LEMMA PaidMessage ==
    ASSUME NEW p \in Players, NEW d \in Change
    PROVE  /\ ChangeOf(p, d) \in LobbyMessage
           /\ ChangeOf(p, d).type = "change" /\ ChangeOf(p, d).who = p
           /\ ChangeOf(p, d).acc = d
BY DEF ChangeOf, LobbyMessage

LEMMA CountedPays ==
    ASSUME TypeOK, TypeOK', Counted, NEW p, NEW d, GamePays(p, d)
    PROVE  Counted'
<1>1. /\ p \in Players /\ d \in Change
      /\ game[p] # Null
      /\ toLobby' = [toLobby EXCEPT ![game[p].belong] = Append(@, ChangeOf(p, d))]
      /\ owed' = [owed EXCEPT ![p] = Plus(@, d)]
      /\ UNCHANGED <<mail, posted>>
  BY DEF GamePays
<1>2. game[p].belong \in Lobbies /\ d \in Delta
  BY <1>1, Amounts DEF TypeOK
<1>3. \A x \in Players : owed'[x] = Plus(owed[x], Brings(ChangeOf(p, d), x))
  <2> DEFINE m == ChangeOf(p, d)
  <2>1. m.type = "change" /\ m.who = p /\ m.acc = d
    BY <1>1, PaidMessage
  <2> HIDE DEF m
  <2>2. \A x \in Players : owed'[x] = Plus(owed[x], Brings(m, x))
    <3>1. OwesMore(m)
      BY <1>1, <1>2, <2>1 DEF OwesMore
    <3> QED
      BY <3>1, OwedMore
  <2> QED
    BY <2>2 DEF m
<1>4. ChangeOf(p, d) \in LobbyMessage
  BY <1>1, PaidMessage
<1> QED
  BY <1>1, <1>2, <1>3, <1>4, CountedSent

\* Every step keeps the count.
LEMMA CountedStep == ASSUME TypeOK, TypeOK', Counted, [Next]_vars PROVE Counted'
<1>1. ASSUME NEW l \in Lobbies, NEW p \in Players,
             \/ Login(l, p) \/ LoadReads(l, p) \/ LoadAnswer(l, p) \/ GetAllData(l, p)
             \/ Recover(l, p) \/ EnterGame(l, p)
             \/ \E t \in Boxes : BoxInLobby(l, p, t) \/ BoxInGame(l, p, t)
             \/ \E d \in Issues : SiteChange(l, p, d) \/ SiteChangeAbsent(l, p, d)
             \/ \E q \in Players, g \in Gifts : GiftHere(l, p, q, g) \/ GiftAbsent(l, p, q, g)
      PROVE  Counted'
  BY <1>1, CountedStays
     DEF Login, LoadReads, LoadAnswer, GetAllData, Recover, EnterGame, BoxInLobby,
         BoxInGame, SiteChange, SiteChangeAbsent, GiftHere, GiftAbsent, GiftTakes, links
<1>2. ASSUME NEW l \in Lobbies, TakeEnter(l) \/ TakeFlush(l)
      PROVE  Counted'
  BY <1>2, CountedStays DEF TakeEnter, TakeFlush
<1>3. ASSUME NEW l \in Lobbies, NEW p \in Players, NEW q \in Players, NEW g \in Gifts,
             GiftElsewhere(l, p, q, g)
      PROVE  Counted'
  <2> DEFINE m == [who |-> q, coin |-> g - Tax[g]]
  <2>1. /\ record[q] \in Lobbies
        /\ mail' = [mail EXCEPT ![record[q]] = Append(@, m)]
        /\ posted' = [posted EXCEPT ![q] = @ + (g - Tax[g])]
        /\ UNCHANGED <<toLobby, owed>>
    BY <1>3 DEF GiftElsewhere, GiftTakes, TypeOK
  <2>2. m \in Present
    BY Constants DEF Present
  <2>3. \A x \in Players : posted'[x] = posted[x] + Gives(m, x)
    <3>1. posted \in [Players -> Int]
      BY DEF TypeOK
    <3>2. Gives(m, q) = g - Tax[g] /\ \A x : x # q => Gives(m, x) = 0
      BY DEF Gives
    <3> QED
      BY <2>1, <3>1, <3>2
  <2> QED
    BY <2>1, <2>2, <2>3, CountedPosted
<1>4. ASSUME NEW p \in Players, LeaveGame(p)
      PROVE  Counted'
  <2> DEFINE m == [type |-> "leave", who |-> p, acc |-> Zero]
  <2>1. /\ game[p].belong \in Lobbies
        /\ toLobby' = [toLobby EXCEPT ![game[p].belong] = Append(@, m)]
        /\ UNCHANGED <<mail, owed, posted>>
    BY <1>4 DEF LeaveGame, TypeOK
  <2>2. m \in LobbyMessage
    BY Amounts DEF LobbyMessage
  <2>3. \A x \in Players : owed'[x] = Plus(owed[x], Brings(m, x))
    <3>1. owed \in [Players -> Delta] /\ \A x : Brings(m, x) = Zero
      BY DEF TypeOK, Brings
    <3> QED
      BY <2>1, <3>1, NothingOwed
  <2> QED
    BY <2>1, <2>2, <2>3, CountedSent
<1>5. ASSUME NEW p \in Players, NEW r \in Results, GameResult(p, r)
      PROVE  Counted'
  BY <1>5, ResultPays, CountedPays
<1>6. ASSUME NEW l \in Lobbies, TakeBox(l)
      PROVE  Counted'
  BY <1>6, BoxPays, CountedPays, CountedStays
<1>7. ASSUME NEW l \in Lobbies, TakeLeave(l)
      PROVE  Counted'
  <2> DEFINE m == Head(toLobby[l])
  <2>1. /\ toLobby[l] # <<>> /\ m.type = "leave"
        /\ toLobby' = [toLobby EXCEPT ![l] = Tail(@)]
        /\ UNCHANGED <<mail, owed, posted>>
    BY <1>7 DEF TakeLeave
  <2>2. \A x \in Players : owed'[x] = Minus(owed[x], Brings(m, x))
    <3>1. owed \in [Players -> Delta] /\ \A x : Brings(m, x) = Zero
      BY <2>1 DEF TypeOK, Brings
    <3> QED
      BY <2>1, <3>1, NothingOwed
  <2> QED
    BY <2>1, <2>2, CountedTaken
<1>8. ASSUME NEW l \in Lobbies, TakeChange(l) \/ LoseChange(l)
      PROVE  Counted'
  <2> DEFINE m == Head(toLobby[l])
  <2>1. /\ toLobby[l] # <<>> /\ m.type = "change"
        /\ toLobby' = [toLobby EXCEPT ![l] = Tail(@)]
        /\ owed' = [owed EXCEPT ![m.who] = Minus(@, m.acc)]
        /\ UNCHANGED <<mail, posted>>
    BY <1>8 DEF TakeChange, LoseChange
  <2>2. m.who \in Players /\ m.acc \in Delta
    BY <2>1, LobbyHead
  <2> HIDE DEF m
  <2>3. \A x \in Players : owed'[x] = Minus(owed[x], Brings(m, x))
    <3>1. OwesLess(m)
      BY <2>1, <2>2 DEF OwesLess
    <3> QED
      BY <3>1, OwedLess
  <2>4. /\ toLobby[l] # <<>> /\ toLobby' = [toLobby EXCEPT ![l] = Tail(@)]
        /\ UNCHANGED <<mail, posted>>
    BY <2>1
  <2>5. \A x \in Players : owed'[x] = Minus(owed[x], Brings(Head(toLobby[l]), x))
    BY <2>3 DEF m
  <2> QED
    BY <2>4, <2>5, CountedTaken
<1>9. ASSUME NEW l \in Lobbies, GiftArrives(l)
      PROVE  Counted'
  <2> DEFINE m == Head(mail[l])
  <2>1. /\ mail[l] # <<>>
        /\ mail' = [mail EXCEPT ![l] = Tail(@)]
        /\ posted' = [posted EXCEPT ![m.who] = @ - m.coin]
        /\ UNCHANGED <<toLobby, owed>>
    BY <1>9 DEF GiftArrives
  <2>2. m.who \in Players /\ m.coin \in Nat
    BY <2>1, MailHead
  <2>3. \A x \in Players : posted'[x] = posted[x] - Gives(m, x)
    <3>1. posted \in [Players -> Int]
      BY DEF TypeOK
    <3> HIDE DEF m
    <3>2. Gives(m, m.who) = m.coin /\ \A x : x # m.who => Gives(m, x) = 0
      BY DEF Gives
    <3> QED
      BY <2>1, <2>2, <3>1, <3>2
  <2> QED
    BY <2>1, <2>3, CountedDelivered
<1>10. CASE UNCHANGED vars
  BY <1>10, CountedStays DEF vars, links
<1> QED
  BY <1>1, <1>2, <1>3, <1>4, <1>5, <1>6, <1>7, <1>8, <1>9, <1>10 DEF Next

\* Whatever messages are sent, lost and taken, in whatever order: what is owed to a
\* player is what the messages on the way to the lobbies bring him, and what is
\* posted what the gifts on their way do.
THEOREM UnderWayCountedCorrect == Spec => []UnderWayCounted
<1>1. Init => Counted
  BY CountedInit
<1>2. TypeOK /\ TypeOK' /\ Counted /\ [Next]_vars => Counted'
  BY CountedStep
<1>3. TypeOK /\ Counted => UnderWayCounted
  BY CountedIs
<1> QED
  BY <1>1, <1>2, <1>3, TypeCorrect, PTL DEF Spec

-----------------------------------------------------------------------------
(* The changes under way to p, seen from what p has in the row.            *)

\* Nothing in q changes p's account.
Still(q, p) == \A i \in DOMAIN q : ~(q[i].type = "change" /\ q[i].who = p)

\* Nobody but k has a change of p to take.
Only(p, n, k) == \A j \in Lobbies \ {k} : Still(n[j], p)

\* Changes of p are under way to one lobby at most, and the account r covers them,
\* one after the other.
Way(p, n, r) ==
    /\ n \in [Lobbies -> Seq(LobbyMessage)] /\ r \in Account
    /\ \A j, k \in Lobbies : ~Still(n[j], p) /\ ~Still(n[k], p) => j = k
    /\ \A k \in Lobbies : /\ Solvent(LobbyMessage, CoinOf(p), n[k], r.coin)
                          /\ Solvent(LobbyMessage, SafeOf(p), n[k], r.safe)

Within(a, b) == a.coin <= b.coin /\ a.safe <= b.safe

LEMMA StillBrings ==
    ASSUME NEW p, NEW q \in Seq(LobbyMessage), Still(q, p)
    PROVE  /\ \A i \in DOMAIN q : CoinOf(p)[q[i]] = 0
           /\ \A i \in DOMAIN q : SafeOf(p)[q[i]] = 0
<1>1. ASSUME NEW i \in DOMAIN q PROVE q[i] \in LobbyMessage /\ Brings(q[i], p) = Zero
  BY DEF Still, Brings
<1>2. Zero.coin = 0 /\ Zero.safe = 0
  BY DEF Zero, Coins
<1> QED
  BY <1>1, <1>2, Zenon DEF CoinOf, SafeOf

LEMMA StillSolvent ==
    ASSUME NEW p, NEW q \in Seq(LobbyMessage), Still(q, p), NEW r \in Account
    PROVE  /\ Solvent(LobbyMessage, CoinOf(p), q, r.coin)
           /\ Solvent(LobbyMessage, SafeOf(p), q, r.safe)
<1>1. r.coin \in Int /\ r.coin >= 0 /\ r.safe \in Int /\ r.safe >= 0
  BY DEF Account
<1>2. Bill(LobbyMessage, CoinOf(p), q) /\ Bill(LobbyMessage, SafeOf(p), q)
  BY WorthTypes DEF Bill
<1>3. \A i \in DOMAIN q : CoinOf(p)[q[i]] = 0
  BY StillBrings
<1>4. \A i \in DOMAIN q : SafeOf(p)[q[i]] = 0
  BY StillBrings
<1>5. Solvent(LobbyMessage, CoinOf(p), q, r.coin)
  BY <1>1, <1>2, <1>3, SolventNone
<1>6. Solvent(LobbyMessage, SafeOf(p), q, r.safe)
  BY <1>1, <1>2, <1>4, SolventNone
<1> QED
  BY <1>5, <1>6

LEMMA StillAppend ==
    ASSUME NEW p, NEW q \in Seq(LobbyMessage), NEW m \in LobbyMessage
    PROVE  /\ Still(Append(q, m), p) => Still(q, p)
           /\ ~(m.type = "change" /\ m.who = p) /\ Still(q, p) => Still(Append(q, m), p)
BY DEF Still

LEMMA StillTail ==
    ASSUME NEW p, NEW q \in Seq(LobbyMessage), q # <<>>, Still(q, p)
    PROVE  Still(Tail(q), p)
BY DEF Still

\* Nothing is under way.
LEMMA WayEmpty ==
    ASSUME NEW p, NEW n \in [Lobbies -> Seq(LobbyMessage)], NEW r \in Account,
           \A k \in Lobbies : Still(n[k], p)
    PROVE  Way(p, n, r)
BY StillSolvent DEF Way

\* The account holds more.
LEMMA WayMore ==
    ASSUME NEW p, NEW n, NEW r, Way(p, n, r), NEW s \in Account, Within(r, s)
    PROVE  Way(p, n, s)
<1>1. /\ s.coin \in Int /\ s.coin >= r.coin
      /\ s.safe \in Int /\ s.safe >= r.safe
  BY DEF Account, Way, Within
<1>2. ASSUME NEW k \in Lobbies PROVE Solvent(LobbyMessage, CoinOf(p), n[k], s.coin)
  <2>1. Solvent(LobbyMessage, CoinOf(p), n[k], r.coin)
    BY DEF Way
  <2> QED
    BY <1>1, <2>1, SolventMore
<1>3. ASSUME NEW k \in Lobbies PROVE Solvent(LobbyMessage, SafeOf(p), n[k], s.safe)
  <2>1. Solvent(LobbyMessage, SafeOf(p), n[k], r.safe)
    BY DEF Way
  <2> QED
    BY <1>1, <2>1, SolventMore
<1> QED
  BY <1>2, <1>3 DEF Way

\* What changes at lobby k, between n and m, can be looked at alone.
Moves(n, m, k) ==
    /\ k \in Lobbies
    /\ n \in [Lobbies -> Seq(LobbyMessage)] /\ m \in [Lobbies -> Seq(LobbyMessage)]
    /\ \A j \in Lobbies : j # k => m[j] = n[j]

LEMMA WayMoves ==
    ASSUME NEW p, NEW n, NEW m, NEW k, Moves(n, m, k), NEW r, Way(p, n, r),
           Still(n[k], p) => Still(m[k], p),
           Solvent(LobbyMessage, CoinOf(p), m[k], r.coin),
           Solvent(LobbyMessage, SafeOf(p), m[k], r.safe)
    PROVE  /\ Way(p, m, r)
           /\ \A j : Only(p, n, j) => Only(p, m, j)
<1>1. \A j \in Lobbies : Still(n[j], p) => Still(m[j], p)
  BY DEF Moves
<1>2. \A j \in Lobbies : /\ Solvent(LobbyMessage, CoinOf(p), m[j], r.coin)
                         /\ Solvent(LobbyMessage, SafeOf(p), m[j], r.safe)
  BY DEF Moves, Way
<1>3. m \in [Lobbies -> Seq(LobbyMessage)]
  BY DEF Moves
<1> QED
  BY <1>1, <1>2, <1>3 DEF Way, Only

\* A message that changes nothing of p's goes, or comes.
LEMMA WayAppendOther ==
    ASSUME NEW p, NEW n, NEW m, NEW k, Moves(n, m, k), NEW r, Way(p, n, r),
           NEW e \in LobbyMessage, m[k] = Append(n[k], e),
           ~(e.type = "change" /\ e.who = p)
    PROVE  /\ Way(p, m, r)
           /\ \A j : Only(p, n, j) => Only(p, m, j)
<1>1. n[k] \in Seq(LobbyMessage) /\ r.coin \in Int /\ r.safe \in Int
  BY DEF Moves, Way, Account
<1>2. /\ Solvent(LobbyMessage, CoinOf(p), n[k], r.coin)
      /\ Solvent(LobbyMessage, SafeOf(p), n[k], r.safe)
  BY DEF Moves, Way
<1>3. CoinOf(p)[e] = 0 /\ SafeOf(p)[e] = 0
  <2>1. Brings(e, p) = Zero /\ Zero.coin = 0 /\ Zero.safe = 0
    BY DEF Brings, Zero, Coins
  <2> QED
    BY <2>1, Zenon DEF CoinOf, SafeOf
<1>4. Solvent(LobbyMessage, CoinOf(p), m[k], r.coin)
  <2>1. /\ r.coin + SumFunction(Mapped(CoinOf(p), n[k])) >= 0
        /\ SumFunction(Mapped(CoinOf(p), n[k])) \in Int
    BY <1>1, <1>2, SolventNow, MappedInt, WorthTypes
  <2>2. r.coin + SumFunction(Mapped(CoinOf(p), n[k])) + CoinOf(p)[e] >= 0
    BY <1>1, <1>3, <2>1
  <2> QED
    BY <1>2, <2>2, SolventAppend
<1>5. Solvent(LobbyMessage, SafeOf(p), m[k], r.safe)
  <2>1. /\ r.safe + SumFunction(Mapped(SafeOf(p), n[k])) >= 0
        /\ SumFunction(Mapped(SafeOf(p), n[k])) \in Int
    BY <1>1, <1>2, SolventNow, MappedInt, WorthTypes
  <2>2. r.safe + SumFunction(Mapped(SafeOf(p), n[k])) + SafeOf(p)[e] >= 0
    BY <1>1, <1>3, <2>1
  <2> QED
    BY <1>2, <2>2, SolventAppend
<1>6. Still(n[k], p) => Still(m[k], p)
  BY <1>1, StillAppend
<1> QED
  BY <1>4, <1>5, <1>6, WayMoves

LEMMA WayTailOther ==
    ASSUME NEW p, NEW n, NEW m, NEW k, Moves(n, m, k), NEW r, Way(p, n, r),
           n[k] # <<>>, m[k] = Tail(n[k]),
           ~(Head(n[k]).type = "change" /\ Head(n[k]).who = p)
    PROVE  /\ Way(p, m, r)
           /\ \A j : Only(p, n, j) => Only(p, m, j)
<1> DEFINE e == Head(n[k])
<1>1. /\ n[k] \in Seq(LobbyMessage) /\ e \in LobbyMessage
      /\ r.coin \in Int /\ r.safe \in Int
  BY DEF Moves, Way, Account
<1>2. /\ Solvent(LobbyMessage, CoinOf(p), n[k], r.coin)
      /\ Solvent(LobbyMessage, SafeOf(p), n[k], r.safe)
  BY DEF Moves, Way
<1>3. CoinOf(p)[e] = 0 /\ SafeOf(p)[e] = 0
  <2>1. Brings(e, p) = Zero /\ Zero.coin = 0 /\ Zero.safe = 0
    BY DEF Brings, Zero, Coins
  <2> QED
    BY <1>1, <2>1, Zenon DEF CoinOf, SafeOf
<1>4. r.coin >= r.coin + CoinOf(p)[e] /\ r.safe >= r.safe + SafeOf(p)[e]
  BY <1>1, <1>3
<1>5. Solvent(LobbyMessage, CoinOf(p), m[k], r.coin)
  BY <1>1, <1>2, <1>4, SolventTail
<1>6. Solvent(LobbyMessage, SafeOf(p), m[k], r.safe)
  BY <1>1, <1>2, <1>4, SolventTail
<1>7. Still(n[k], p) => Still(m[k], p)
  BY <1>1, StillTail
<1> QED
  BY <1>5, <1>6, <1>7, WayMoves

\* A change of p is sent where all of his are, when the account covers it and all
\* that is under way.
LEMMA WayAppend ==
    ASSUME NEW p, NEW n, NEW m, NEW k, Moves(n, m, k), NEW r, Way(p, n, r), Only(p, n, k),
           NEW e \in LobbyMessage, m[k] = Append(n[k], e),
           e.type = "change", e.who = p,
           r.coin + AllMapped(CoinOf(p), n) + e.acc.coin >= 0,
           r.safe + AllMapped(SafeOf(p), n) + e.acc.safe >= 0
    PROVE  Way(p, m, r) /\ Only(p, m, k)
<1>1. Only(p, m, k)
  BY DEF Only, Moves
<1>2. \A j \in Lobbies \ {k} : Still(n[j], p) /\ n[j] \in Seq(LobbyMessage)
  BY DEF Only, Moves
<1>3. /\ Valued(Lobbies, LobbyMessage, CoinOf(p), n)
      /\ Valued(Lobbies, LobbyMessage, SafeOf(p), n)
      /\ k \in Lobbies
  BY WorthTypes, AccountAssumption DEF Valued, Moves
<1>4. AllMapped(CoinOf(p), n) = SumFunction(Mapped(CoinOf(p), n[k]))
  <2>1. \A j \in Lobbies \ {k} : \A i \in DOMAIN n[j] : CoinOf(p)[n[j][i]] = 0
    BY <1>2, StillBrings
  <2> QED
    BY <1>3, <2>1, AllMappedOnly
<1>5. AllMapped(SafeOf(p), n) = SumFunction(Mapped(SafeOf(p), n[k]))
  <2>1. \A j \in Lobbies \ {k} : \A i \in DOMAIN n[j] : SafeOf(p)[n[j][i]] = 0
    BY <1>2, StillBrings
  <2> QED
    BY <1>3, <2>1, AllMappedOnly
<1>6. CoinOf(p)[e] = e.acc.coin /\ SafeOf(p)[e] = e.acc.safe
  <2>1. Brings(e, p) = e.acc
    BY DEF Brings
  <2> QED
    BY <2>1, Zenon DEF CoinOf, SafeOf
<1>7. /\ Solvent(LobbyMessage, CoinOf(p), n[k], r.coin)
      /\ Solvent(LobbyMessage, SafeOf(p), n[k], r.safe)
  BY DEF Moves, Way
<1>8. Solvent(LobbyMessage, CoinOf(p), m[k], r.coin)
  <2>1. r.coin + SumFunction(Mapped(CoinOf(p), n[k])) + CoinOf(p)[e] >= 0
    BY <1>4, <1>6
  <2> QED
    BY <1>7, <2>1, SolventAppend
<1>9. Solvent(LobbyMessage, SafeOf(p), m[k], r.safe)
  <2>1. r.safe + SumFunction(Mapped(SafeOf(p), n[k])) + SafeOf(p)[e] >= 0
    BY <1>5, <1>6
  <2> QED
    BY <1>7, <2>1, SolventAppend
<1>10. \A j \in Lobbies : /\ Solvent(LobbyMessage, CoinOf(p), m[j], r.coin)
                          /\ Solvent(LobbyMessage, SafeOf(p), m[j], r.safe)
  BY <1>8, <1>9 DEF Moves, Way
<1>11. \A i, j \in Lobbies : ~Still(m[i], p) /\ ~Still(m[j], p) => i = j
  BY <1>1 DEF Only
<1> QED
  BY <1>1, <1>10, <1>11 DEF Way, Moves

\* The first message for lobby k is the change d of p.
FirstIs(n, k, p, d) ==
    /\ n[k] # <<>>
    /\ Head(n[k]).type = "change" /\ Head(n[k]).who = p /\ Head(n[k]).acc = d

\* His first change is covered; and when the account then holds no less than that
\* leaves, it covers the others.
LEMMA WayHead ==
    ASSUME NEW p, NEW n, NEW k \in Lobbies, NEW r, Way(p, n, r),
           NEW d, FirstIs(n, k, p, d)
    PROVE  Covers(r, d)
<1> DEFINE e == Head(n[k])
<1>1. e \in LobbyMessage /\ e.type = "change" /\ e.who = p /\ e.acc = d /\ n[k] # <<>>
  BY DEF Way, FirstIs
<1>2. CoinOf(p)[e] = e.acc.coin /\ SafeOf(p)[e] = e.acc.safe
  <2>1. Brings(e, p) = e.acc
    BY <1>1 DEF Brings
  <2> QED
    BY <1>1, <2>1, Zenon DEF CoinOf, SafeOf
<1>3. /\ Solvent(LobbyMessage, CoinOf(p), n[k], r.coin)
      /\ Solvent(LobbyMessage, SafeOf(p), n[k], r.safe)
  BY DEF Way
<1>4. r.coin + CoinOf(p)[e] >= 0
  BY <1>1, <1>3, SolventHead
<1>5. r.safe + SafeOf(p)[e] >= 0
  BY <1>1, <1>3, SolventHead
<1> QED
  BY <1>1, <1>2, <1>4, <1>5 DEF Covers

LEMMA WayTail ==
    ASSUME NEW p, NEW n, NEW m, NEW k, Moves(n, m, k), NEW r, Way(p, n, r),
           NEW d, FirstIs(n, k, p, d), m[k] = Tail(n[k]),
           NEW s \in Account, Within(Plus(r, d), s)
    PROVE  /\ Way(p, m, s)
           /\ \A j : Only(p, n, j) => Only(p, m, j)
<1> DEFINE e == Head(n[k])
<1>1. /\ e \in LobbyMessage /\ k \in Lobbies /\ n[k] \in Seq(LobbyMessage)
      /\ e.type = "change" /\ e.who = p /\ e.acc = d /\ n[k] # <<>>
  BY DEF Way, Moves, FirstIs
<1>2. CoinOf(p)[e] = e.acc.coin /\ SafeOf(p)[e] = e.acc.safe
  <2>1. Brings(e, p) = e.acc
    BY <1>1 DEF Brings
  <2> QED
    BY <1>1, <2>1, Zenon DEF CoinOf, SafeOf
<1>3. /\ Solvent(LobbyMessage, CoinOf(p), n[k], r.coin)
      /\ Solvent(LobbyMessage, SafeOf(p), n[k], r.safe)
  BY <1>1 DEF Way
<1>4. /\ s.coin \in Int /\ s.coin >= r.coin + CoinOf(p)[e]
      /\ s.safe \in Int /\ s.safe >= r.safe + SafeOf(p)[e]
  <2>1. e.acc \in Delta /\ r \in Account
    BY <1>1, Amounts DEF LobbyMessage, Way
  <2>2. /\ Plus(r, e.acc).coin = r.coin + e.acc.coin
        /\ Plus(r, e.acc).safe = r.safe + e.acc.safe
    BY DEF Plus
  <2>3. r.coin + e.acc.coin <= s.coin /\ r.safe + e.acc.safe <= s.safe
    BY <1>1, <2>2 DEF Within
  <2>4. s.coin \in Int /\ s.safe \in Int /\ r.coin \in Int /\ r.safe \in Int
        /\ e.acc.coin \in Int /\ e.acc.safe \in Int
    BY <2>1 DEF Account, Delta
  <2> HIDE DEF e
  <2> QED
    BY <1>2, <2>3, <2>4
<1>5. Solvent(LobbyMessage, CoinOf(p), m[k], s.coin)
  BY <1>1, <1>3, <1>4, SolventTail
<1>6. Solvent(LobbyMessage, SafeOf(p), m[k], s.safe)
  BY <1>1, <1>3, <1>4, SolventTail
<1>7. ~Still(n[k], p)
  BY <1>1 DEF Still
<1>8. \A j \in Lobbies \ {k} : Still(n[j], p) /\ m[j] = n[j] /\ m[j] \in Seq(LobbyMessage)
  BY <1>7 DEF Way, Moves
<1>9. \A j \in Lobbies : /\ Solvent(LobbyMessage, CoinOf(p), m[j], s.coin)
                         /\ Solvent(LobbyMessage, SafeOf(p), m[j], s.safe)
  <2>1. \A j \in Lobbies \ {k} : /\ Solvent(LobbyMessage, CoinOf(p), m[j], s.coin)
                                 /\ Solvent(LobbyMessage, SafeOf(p), m[j], s.safe)
    BY <1>8, StillSolvent
  <2> QED
    BY <1>5, <1>6, <2>1
<1>10. m \in [Lobbies -> Seq(LobbyMessage)]
  BY DEF Moves
<1>11. \A i, j \in Lobbies : ~Still(m[i], p) /\ ~Still(m[j], p) => i = j
  BY <1>8
<1>12. Way(p, m, s)
  BY <1>9, <1>10, <1>11 DEF Way
<1>13. ASSUME NEW j, Only(p, n, j) PROVE Only(p, m, j)
  <2>1. Still(n[k], p) => Still(m[k], p)
    BY <1>7
  <2> QED
    BY <1>8, <1>13, <1>7 DEF Only
<1> QED
  BY <1>12, <1>13

-----------------------------------------------------------------------------
(* The copies, seen from what p has in the row.                            *)

Mems  == [Lobbies -> [Players -> Account]]
Reads == [Lobbies -> [Players -> Account \cup {Null}]]
Rows  == [Players -> Account]

\* No lobby's copy of p, and no row read for one, says more than the account r.
Copies(p, m, rd, r) ==
    \A l \in Lobbies : /\ Within(m[l][p], r)
                       /\ rd[l][p] # Null => Within(rd[l][p], r)

LEMMA WithinFacts ==
    /\ \A a \in Account : Within(a, a) /\ Within(Zero, a)
    /\ \A a, b, c \in Delta : Within(a, b) /\ Within(b, c) => Within(a, c)
    /\ \A a, b, d \in Delta : Within(a, b) => Within(Plus(a, d), Plus(b, d))
BY DEF Within, Account, Delta, Zero, Coins, Plus

\* Who only gets something has no less than before.
LEMMA Raised ==
    ASSUME NEW a \in Account, NEW d \in Delta, ~Lowers(d)
    PROVE  Covers(a, d) /\ Within(a, Plus(a, d))
BY DEF Account, Delta, Lowers, Covers, Within, Plus

\* A copy that says no more follows the row.
LEMMA Follows ==
    ASSUME NEW a \in Account, NEW r \in Account, NEW d \in Delta, Within(a, r),
           Covers(r, d)
    PROVE  Within(Clamped(a, d), Plus(r, d))
BY DEF Account, Delta, Within, Covers, Clamped, Least0, Plus

LEMMA RowRaised ==
    ASSUME NEW r \in Rows, NEW q \in Players, NEW d \in Delta, ~Lowers(d), NEW x \in Players
    PROVE  /\ RowChanged(r, q, d) \in Rows
           /\ Within(r[x], RowChanged(r, q, d)[x])
<1>1. /\ RowChanged(r, q, d) \in Rows
      /\ \A y \in Players \ {q} : RowChanged(r, q, d)[y] = r[y]
      /\ Covers(r[q], d) => RowChanged(r, q, d)[q] = Plus(r[q], d)
  BY RowChangedFacts DEF Rows
<1>2. Covers(r[q], d) /\ Within(r[q], Plus(r[q], d)) /\ Within(r[x], r[x])
  BY Raised, WithinFacts DEF Rows
<1> QED
  BY <1>1, <1>2

LEMMA CopiesMore ==
    ASSUME NEW m \in Mems, NEW rd \in Reads, NEW x \in Players, NEW r \in Account,
           NEW s \in Account, Copies(x, m, rd, r), Within(r, s)
    PROVE  Copies(x, m, rd, s)
<1> SUFFICES ASSUME NEW k \in Lobbies
             PROVE  Within(m[k][x], s) /\ (rd[k][x] # Null => Within(rd[k][x], s))
  BY DEF Copies
<1>1. m[k][x] \in Delta /\ r \in Delta /\ s \in Delta
      /\ (rd[k][x] # Null => rd[k][x] \in Delta)
  BY Amounts DEF Mems, Reads
<1>2. Within(m[k][x], r) /\ (rd[k][x] # Null => Within(rd[k][x], r))
  BY DEF Copies
<1> QED
  BY <1>1, <1>2, WithinFacts

\* One lobby's copy follows the row; the others, and what was read, are below it
\* anyway.
LEMMA CopiesFollow ==
    ASSUME NEW m \in Mems, NEW rd \in Reads, NEW r \in Rows, NEW l \in Lobbies,
           NEW q \in Players, NEW d \in Delta, NEW x \in Players,
           Copies(x, m, rd, r[x]),
           x = q => ~Lowers(d) \/ \A k \in Lobbies : rd[k][x] = Null
                                                     /\ (k # l => m[k][x] = Zero)
    PROVE  Copies(x, MemChanged(m, r, l, q, d), rd, RowChanged(r, q, d)[x])
<1> DEFINE n == MemChanged(m, r, l, q, d)
           s == RowChanged(r, q, d)
<1>1. /\ n \in Mems
      /\ \A k \in Lobbies, y \in Players : k # l \/ y # q => n[k][y] = m[k][y]
      /\ Covers(r[q], d) => n[l][q] = Clamped(m[l][q], d)
      /\ ~Covers(r[q], d) => n[l][q] = m[l][q]
  <2>1. m \in [Lobbies -> [Players -> Account]] /\ r \in [Players -> Account]
    BY DEF Mems, Rows
  <2>2. n \in [Lobbies -> [Players -> Account]]
    BY <2>1, MemChangedFacts
  <2>3. \A k \in Lobbies, y \in Players : k # l \/ y # q => n[k][y] = m[k][y]
    BY <2>1 DEF MemChanged
  <2>4. /\ Covers(r[q], d) => n[l][q] = Clamped(m[l][q], d)
        /\ ~Covers(r[q], d) => n[l][q] = m[l][q]
    BY <2>1, MemChangedFacts
  <2> QED
    BY <2>2, <2>3, <2>4 DEF Mems
<1>2. /\ s \in Rows
      /\ \A y \in Players \ {q} : s[y] = r[y]
      /\ Covers(r[q], d) => s[q] = Plus(r[q], d)
      /\ ~Covers(r[q], d) => s[q] = r[q]
  BY RowChangedFacts DEF Rows
<1>3. s[x] \in Account /\ r[x] \in Account
  BY <1>2 DEF Rows
<1> HIDE DEF n, s
<1>4. CASE x # q
  BY <1>1, <1>2, <1>4 DEF Copies, n, s
<1>5. CASE x = q /\ ~Covers(r[q], d)
  <2>1. s[x] = r[x] /\ \A k \in Lobbies : n[k][x] = m[k][x]
    BY <1>1, <1>2, <1>5
  <2> QED
    BY <2>1 DEF Copies, n, s
<1>6. CASE x = q /\ Covers(r[q], d)
  <2>1. s[x] = Plus(r[x], d) /\ n[l][x] = Clamped(m[l][x], d)
    BY <1>1, <1>2, <1>6
  <2>2. Within(n[l][x], s[x])
    <3>1. m[l][x] \in Account /\ Within(m[l][x], r[x])
      BY DEF Mems, Copies
    <3> QED
      BY <1>3, <1>6, <2>1, <3>1, Follows
  <2>3. CASE ~Lowers(d)
    <3>1. Copies(x, m, rd, s[x])
      BY <1>3, <2>1, <2>3, Raised, CopiesMore
    <3> QED
      BY <1>1, <2>2, <3>1 DEF Copies, n, s
  <2>4. CASE Lowers(d)
    <3>1. \A k \in Lobbies : rd[k][x] = Null /\ (k # l => n[k][x] = Zero)
      BY <1>1, <1>6, <2>4
    <3>2. Within(Zero, s[x])
      BY <1>3, WithinFacts
    <3> QED
      BY <2>2, <3>1, <3>2 DEF Copies, n, s
  <2> QED
    BY <2>3, <2>4
<1> QED
  BY <1>4, <1>5, <1>6

\* The row alone changes.
LEMMA CopiesAlone ==
    ASSUME NEW m \in Mems, NEW rd \in Reads, NEW r \in Rows,
           NEW q \in Players, NEW d \in Delta, NEW x \in Players,
           Copies(x, m, rd, r[x]),
           x = q => ~Lowers(d) \/ \A k \in Lobbies : rd[k][x] = Null /\ m[k][x] = Zero
    PROVE  Copies(x, m, rd, RowChanged(r, q, d)[x])
<1> DEFINE s == RowChanged(r, q, d)
<1>1. s \in Rows /\ \A y \in Players \ {q} : s[y] = r[y]
  BY RowChangedFacts DEF Rows
<1>2. s[x] \in Account /\ r[x] \in Account
  BY <1>1 DEF Rows
<1>3. CASE x # q
  BY <1>1, <1>3
<1>4. CASE ~Lowers(d)
  <2>1. Within(r[x], s[x])
    BY <1>4, RowRaised
  <2> HIDE DEF s
  <2>2. Copies(x, m, rd, s[x])
    BY <1>2, <2>1, CopiesMore
  <2> QED
    BY <2>2 DEF s
<1>5. CASE x = q /\ Lowers(d)
  <2>1. \A k \in Lobbies : rd[k][x] = Null /\ m[k][x] = Zero
    BY <1>5
  <2> QED
    BY <1>2, <2>1, WithinFacts DEF Copies
<1> QED
  BY <1>3, <1>4, <1>5

-----------------------------------------------------------------------------
(* The copies agree with the row.                                          *)

\* Where there is no object there is no copy.
Gone ==
    \A l \in Lobbies, p \in Players : phase[l][p] = "none" => mem[l][p] = Zero

\* With the copies m at the lobbies and the account r in the row, no copy of x says
\* more than the row does or will, and the row covers what is under way.
Agree(x, m, r) ==
    /\ Copies(x, m, read, r)
    /\ Way(x, toLobby, r)
    /\ game[x] # Null => /\ Within(game[x].acc, Plus(r, owed[x]))
                         /\ Only(x, toLobby, game[x].belong)

Agreed == \A x \in Players \ apart : Agree(x, mem, row[x])

LEMMA StateTypes ==
    ASSUME TypeOK
    PROVE  /\ mem \in Mems /\ read \in Reads /\ row \in Rows
           /\ \A x \in Players : row[x] \in Account /\ owed[x] \in Delta
           /\ toLobby \in [Lobbies -> Seq(LobbyMessage)]
           /\ \A x \in Players : game[x] # Null => /\ game[x].acc \in Account
                                                   /\ game[x].belong \in Lobbies
BY DEF TypeOK, Mems, Reads, Rows

\* When the row holds more, nothing that agreed with it does not.
LEMMA AgreeGiven ==
    ASSUME TypeOK, NEW m \in Mems, NEW r \in Rows, NEW q \in Players, NEW d \in Delta,
           ~Lowers(d), NEW x \in Players, Agree(x, m, r[x])
    PROVE  /\ Agree(x, m, RowChanged(r, q, d)[x])
           /\ \A l \in Lobbies :
                 Agree(x, MemChanged(m, r, l, q, d), RowChanged(r, q, d)[x])
<1> DEFINE s == RowChanged(r, q, d)
<1>1. read \in Reads /\ owed[x] \in Delta /\ r[x] \in Account
  BY StateTypes DEF Rows
<1>2. s \in Rows /\ Within(r[x], s[x])
  BY RowRaised
<1>3. s[x] \in Account
  BY <1>2 DEF Rows
<1>4. Way(x, toLobby, s[x])
  <2>1. Way(x, toLobby, r[x])
    BY DEF Agree
  <2> QED
    BY <1>2, <1>3, <2>1, WayMore
<1>5. ASSUME game[x] # Null PROVE Within(game[x].acc, Plus(s[x], owed[x]))
  <2>1. /\ game[x].acc \in Delta /\ r[x] \in Delta /\ s[x] \in Delta
        /\ Plus(r[x], owed[x]) \in Delta /\ Plus(s[x], owed[x]) \in Delta
    BY <1>1, <1>3, <1>5, StateTypes, Amounts, DeltaSum
  <2>2. Within(game[x].acc, Plus(r[x], owed[x]))
    BY <1>5 DEF Agree
  <2>3. Within(Plus(r[x], owed[x]), Plus(s[x], owed[x]))
    BY <1>1, <1>2, <2>1, WithinFacts
  <2> QED
    BY <2>1, <2>2, <2>3, WithinFacts
<1>6. Copies(x, m, read, r[x])
  BY DEF Agree
<1>7. Copies(x, m, read, s[x])
  BY <1>1, <1>6, CopiesAlone
<1>8. ASSUME NEW l \in Lobbies PROVE Copies(x, MemChanged(m, r, l, q, d), read, s[x])
  BY <1>1, <1>6, CopiesFollow
<1> HIDE DEF s
<1>9. Agree(x, m, s[x]) /\ \A l \in Lobbies : Agree(x, MemChanged(m, r, l, q, d), s[x])
  BY <1>4, <1>5, <1>7, <1>8 DEF Agree
<1> QED
  BY <1>9 DEF s

\* Who is lowered and not marked has no other copy, and nothing under way.
LEMMA LoweredFacts ==
    ASSUME TypeOK, Gone, NEW p \in Players, NEW l, NEW d, Lowered(p, d, l),
           NEW x \in Players \ apart'
    PROVE  /\ x \notin apart
           /\ x = p /\ Lowers(d) =>
                /\ \A k \in Lobbies : read[k][x] = Null /\ (k # l => mem[k][x] = Zero)
                /\ game[x] = Null
                /\ \A k \in Lobbies : Still(toLobby[k], x)
<1>1. x \notin apart /\ (x = p => ~(Lowers(d) /\ (PastLobbies(p, l) \/ PastGame(p))))
  BY DEF Lowered, MarkApart
<1>2. ASSUME x = p, Lowers(d) PROVE ~PastLobbies(x, l) /\ ~PastGame(x)
  BY <1>1, <1>2
<1>3. ASSUME x = p, Lowers(d)
      PROVE  \A k \in Lobbies : read[k][x] = Null /\ (k # l => mem[k][x] = Zero)
  BY <1>2, <1>3 DEF PastLobbies, Gone
<1>4. ASSUME x = p, Lowers(d)
      PROVE  game[x] = Null /\ \A k \in Lobbies : Still(toLobby[k], x)
  BY <1>2, <1>4 DEF PastGame, UnderWay, Still
<1> QED
  BY <1>1, <1>3, <1>4

\* The row is changed, and one lobby's copy.
LEMMA AgreeTaken ==
    ASSUME TypeOK, Gone, Agreed, NEW p \in Players, NEW l \in Lobbies, NEW d \in Delta,
           Lowered(p, d, l), NEW x \in Players \ apart'
    PROVE  Agree(x, MemChanged(mem, row, l, p, d), RowChanged(row, p, d)[x])
<1> DEFINE s == RowChanged(row, p, d)
           n == MemChanged(mem, row, l, p, d)
<1>1. mem \in Mems /\ read \in Reads /\ row \in Rows /\ row[x] \in Account
  BY StateTypes
<1>2. /\ x \notin apart
      /\ x = p /\ Lowers(d) =>
           /\ \A k \in Lobbies : read[k][x] = Null /\ (k # l => mem[k][x] = Zero)
           /\ game[x] = Null
           /\ \A k \in Lobbies : Still(toLobby[k], x)
  BY LoweredFacts
<1>3. Agree(x, mem, row[x])
  BY <1>2 DEF Agreed
<1>4. CASE ~Lowers(d)
  BY <1>1, <1>3, <1>4, AgreeGiven
<1>5. CASE Lowers(d)
  <2>1. Copies(x, n, read, s[x])
    <3>1. Copies(x, mem, read, row[x])
      BY <1>3 DEF Agree
    <3> QED
      BY <1>1, <1>2, <3>1, CopiesFollow
  <2>2. s \in Rows /\ (x # p => s[x] = row[x])
    BY <1>1, RowChangedFacts DEF Rows
  <2> HIDE DEF s, n
  <2>3. CASE x # p
    BY <1>3, <2>1, <2>2, <2>3 DEF Agree, s, n
  <2>4. CASE x = p
    <3>1. game[x] = Null /\ \A k \in Lobbies : Still(toLobby[k], x)
      BY <1>2, <1>5, <2>4
    <3>2. s[x] \in Account /\ toLobby \in [Lobbies -> Seq(LobbyMessage)]
      BY <2>2, StateTypes DEF Rows
    <3>3. Way(x, toLobby, s[x])
      BY <3>1, <3>2, WayEmpty
    <3> QED
      BY <2>1, <3>1, <3>3 DEF Agree, s, n
  <2> QED
    BY <2>3, <2>4
<1> QED
  BY <1>4, <1>5

\* The row is changed, and no copy.
LEMMA AgreeTakenAlone ==
    ASSUME TypeOK, Gone, Agreed, NEW p \in Players, NEW d \in Delta,
           Lowered(p, d, NoLobby), NEW x \in Players \ apart'
    PROVE  Agree(x, mem, RowChanged(row, p, d)[x])
<1> DEFINE s == RowChanged(row, p, d)
<1>1. mem \in Mems /\ read \in Reads /\ row \in Rows /\ row[x] \in Account
  BY StateTypes
<1>2. /\ x \notin apart
      /\ x = p /\ Lowers(d) =>
           /\ \A k \in Lobbies : read[k][x] = Null /\ mem[k][x] = Zero
           /\ game[x] = Null
           /\ \A k \in Lobbies : Still(toLobby[k], x)
  BY LoweredFacts, Constants
<1>3. Agree(x, mem, row[x])
  BY <1>2 DEF Agreed
<1>4. CASE ~Lowers(d)
  BY <1>1, <1>3, <1>4, AgreeGiven
<1>5. CASE Lowers(d)
  <2>1. Copies(x, mem, read, s[x])
    <3>1. Copies(x, mem, read, row[x])
      BY <1>3 DEF Agree
    <3> QED
      BY <1>1, <1>2, <3>1, CopiesAlone
  <2>2. s \in Rows /\ (x # p => s[x] = row[x])
    BY <1>1, RowChangedFacts DEF Rows
  <2> HIDE DEF s
  <2>3. CASE x # p
    BY <1>3, <2>1, <2>2, <2>3 DEF Agree, s
  <2>4. CASE x = p
    <3>1. game[x] = Null /\ \A k \in Lobbies : Still(toLobby[k], x)
      BY <1>2, <1>5, <2>4
    <3>2. s[x] \in Account /\ toLobby \in [Lobbies -> Seq(LobbyMessage)]
      BY <2>2, StateTypes DEF Rows
    <3>3. Way(x, toLobby, s[x])
      BY <3>1, <3>2, WayEmpty
    <3> QED
      BY <2>1, <3>1, <3>3 DEF Agree, s
  <2> QED
    BY <2>3, <2>4
<1> QED
  BY <1>4, <1>5

LEMMA CopiesInit == Init => Gone /\ Agreed
<1> SUFFICES ASSUME Init PROVE Gone /\ Agreed
  OBVIOUS
<1>1. Gone
  BY DEF Init, Gone
<1>2. ASSUME NEW x \in Players PROVE Agree(x, mem, row[x])
  <2>1. /\ row[x] = Row0 /\ Row0 \in Account /\ game[x] = Null
        /\ \A l \in Lobbies : mem[l][x] \in {Row0, Zero} /\ read[l][x] = Null
    BY Constants DEF Init
  <2>2. Copies(x, mem, read, row[x])
    BY <2>1, WithinFacts DEF Copies
  <2>3. \A k \in Lobbies : toLobby[k] = <<>> /\ Still(toLobby[k], x)
    BY DEF Init, Still
  <2>4. toLobby \in [Lobbies -> Seq(LobbyMessage)]
    BY DEF Init
  <2>5. Way(x, toLobby, row[x])
    BY <2>1, <2>3, <2>4, WayEmpty
  <2> QED
    BY <2>1, <2>2, <2>5 DEF Agree
<1> QED
  BY <1>1, <1>2 DEF Agreed

\* What a step leaves behind, when it moves no message and no game's copy.
LEMMA AgreedNext ==
    ASSUME NEW m, NEW r, mem' = m, row' = r, UNCHANGED <<read, toLobby, game, owed>>,
           \A x \in Players \ apart' : Agree(x, m, r[x])
    PROVE  Agreed'
BY DEF Agreed, Agree

LEMMA AgreedStays ==
    ASSUME Agreed, UNCHANGED <<mem, row, read, toLobby, game, owed, apart>>
    PROVE  Agreed'
BY DEF Agreed, Agree

LEMMA ApartGrows ==
    ASSUME NEW p, NEW why, MarkApart(p, why)
    PROVE  apart \subseteq apart'
BY DEF MarkApart

\* A lobby's copy changes where there is an object.
NoCopy(m) == \A l \in Lobbies, p \in Players : phase[l][p] = "none" => m[l][p] = Zero

LEMMA GoneFollows ==
    ASSUME NEW m \in Mems, NEW r \in Rows, NEW l \in Lobbies, NEW p \in Players,
           NEW d \in Delta, NoCopy(m), phase[l][p] # "none"
    PROVE  NoCopy(MemChanged(m, r, l, p, d)) /\ MemChanged(m, r, l, p, d) \in Mems
<1>1. m \in [Lobbies -> [Players -> Account]] /\ r \in [Players -> Account]
  BY DEF Mems, Rows
<1>2. MemChanged(m, r, l, p, d) \in Mems
  BY <1>1, MemChangedFacts DEF Mems
<1>3. \A k \in Lobbies, q \in Players :
         k # l \/ q # p => MemChanged(m, r, l, p, d)[k][q] = m[k][q]
  BY <1>1 DEF MemChanged
<1> QED
  BY <1>2, <1>3 DEF NoCopy

LEMMA GoneNext ==
    ASSUME NEW m, NoCopy(m), mem' = m, UNCHANGED phase
    PROVE  Gone'
BY DEF NoCopy, Gone

LEMMA GoneStays ==
    ASSUME Gone, UNCHANGED <<mem, phase>>
    PROVE  Gone'
BY DEF Gone

\* A game changes an account, which covers it, and so will the row.
LEMMA CopiesPay ==
    ASSUME TypeOK, TypeOK', Counted, Gone, Agreed, NEW p, NEW d, GamePays(p, d)
    PROVE  Gone' /\ Agreed'
<1> DEFINE l == game[p].belong
           e == ChangeOf(p, d)
<1>1. /\ p \in Players /\ d \in Change /\ game[p] # Null /\ Covers(game[p].acc, d)
      /\ game' = [game EXCEPT ![p].acc = Plus(@, d)]
      /\ toLobby' = [toLobby EXCEPT ![l] = Append(@, e)]
      /\ owed' = [owed EXCEPT ![p] = Plus(@, d)]
      /\ UNCHANGED <<row, phase, mem, read, apart>>
  BY DEF GamePays
<1>2. l \in Lobbies /\ d \in Delta /\ game[p].acc \in Account
      /\ row[p] \in Account /\ owed[p] \in Delta
  BY <1>1, StateTypes, Amounts
<1>3. e \in LobbyMessage /\ e.type = "change" /\ e.who = p /\ e.acc = d
  BY <1>1, PaidMessage
<1>4. Moves(toLobby, toLobby', l) /\ toLobby'[l] = Append(toLobby[l], e)
  <2>1. /\ toLobby \in [Lobbies -> Seq(LobbyMessage)]
        /\ toLobby' \in [Lobbies -> Seq(LobbyMessage)]
    BY DEF TypeOK
  <2> HIDE DEF l, e
  <2> QED
    BY <1>1, <1>2, <2>1 DEF Moves
<1>5. /\ game'[p].acc = Plus(game[p].acc, d) /\ game'[p].belong = l
      /\ \A x \in Players \ {p} : game'[x] = game[x]
      /\ owed'[p] = Plus(owed[p], d)
      /\ \A x \in Players \ {p} : owed'[x] = owed[x]
  <2>1. owed \in [Players -> Delta]
        /\ game \in [Players -> [acc : Account, belong : Lobbies] \cup {Null}]
    BY DEF TypeOK
  <2> QED
    BY <1>1, <2>1
<1> HIDE DEF l, e
<1>6. ASSUME NEW x \in Players \ apart', x # p PROVE Agree(x, mem, row[x])'
  <2>1. Agree(x, mem, row[x])
    BY <1>1 DEF Agreed
  <2>2. Way(x, toLobby, row[x])
    BY <2>1 DEF Agree
  <2>3. /\ Way(x, toLobby', row[x])
        /\ \A j : Only(x, toLobby, j) => Only(x, toLobby', j)
    BY <1>3, <1>4, <1>6, <2>2, WayAppendOther
  <2> QED
    BY <1>1, <1>5, <1>6, <2>1, <2>3 DEF Agree
<1>7. ASSUME p \notin apart' PROVE Agree(p, mem, row[p])'
  <2>1. Agree(p, mem, row[p])
    BY <1>1, <1>7 DEF Agreed
  <2>2. /\ Way(p, toLobby, row[p]) /\ Copies(p, mem, read, row[p])
        /\ Only(p, toLobby, l)
        /\ Within(game[p].acc, Plus(row[p], owed[p]))
    BY <1>1, <2>1 DEF Agree, l
  <2>3. /\ row[p].coin + owed[p].coin + d.coin >= 0
        /\ row[p].safe + owed[p].safe + d.safe >= 0
    <3>1. /\ game[p].acc.coin + d.coin >= 0 /\ game[p].acc.safe + d.safe >= 0
          /\ game[p].acc.coin <= row[p].coin + owed[p].coin
          /\ game[p].acc.safe <= row[p].safe + owed[p].safe
      BY <1>1, <2>2 DEF Covers, Within, Plus
    <3>2. /\ game[p].acc.coin \in Int /\ game[p].acc.safe \in Int
          /\ row[p].coin \in Int /\ row[p].safe \in Int
          /\ owed[p].coin \in Int /\ owed[p].safe \in Int
          /\ d.coin \in Int /\ d.safe \in Int
      BY <1>2 DEF Account, Delta
    <3> QED
      BY <3>1, <3>2
  <2>4. /\ row[p].coin + AllMapped(CoinOf(p), toLobby) + e.acc.coin >= 0
        /\ row[p].safe + AllMapped(SafeOf(p), toLobby) + e.acc.safe >= 0
    BY <1>1, <1>3, <2>3 DEF Counted
  <2>5. Way(p, toLobby', row[p]) /\ Only(p, toLobby', l)
    BY <1>3, <1>4, <2>2, <2>4, WayAppend
  <2>6. Within(Plus(game[p].acc, d), Plus(row[p], Plus(owed[p], d)))
    <3>1. Plus(Plus(row[p], owed[p]), d) = Plus(row[p], Plus(owed[p], d))
      BY <1>2 DEF Plus, Account, Delta
    <3>2. game[p].acc \in Delta /\ Plus(row[p], owed[p]) \in Delta
      BY <1>2, Amounts, DeltaSum
    <3> QED
      BY <1>2, <2>2, <3>1, <3>2, WithinFacts
  <2> QED
    BY <1>1, <1>5, <2>2, <2>5, <2>6 DEF Agree
<1>8. Agreed'
  BY <1>6, <1>7 DEF Agreed
<1> QED
  BY <1>1, <1>8, GoneStays

\* A link moves, at lobby l.
LEMMA LinkMoves ==
    ASSUME TypeOK, TypeOK', NEW l \in Lobbies,
           \A k \in Lobbies \ {l} : toLobby'[k] = toLobby[k]
    PROVE  Moves(toLobby, toLobby', l)
BY DEF TypeOK, Moves

\* A change is taken: the row covers it, and the copies follow.
LEMMA CopiesTake ==
    ASSUME TypeOK, TypeOK', Gone, Agreed, NEW l \in Lobbies, TakeChange(l)
    PROVE  Gone' /\ Agreed'
<1>1. PICK p \in Players, d \in Delta : FirstIs(toLobby, l, p, d)
  BY LobbyHead DEF TakeChange, FirstIs
<1> DEFINE on == phase[l][p] = "play"
<1>2. /\ toLobby[l] # <<>>
      /\ toLobby' = [toLobby EXCEPT ![l] = Tail(@)]
      /\ row' = RowChanged(row, p, d)
      /\ mem' = IF on THEN MemChanged(mem, row, l, p, d) ELSE mem
      /\ owed' = [owed EXCEPT ![p] = Minus(@, d)]
      /\ MarkApart(p, Lowers(d) /\ PastLobbies(p, IF on THEN l ELSE NoLobby))
      /\ UNCHANGED <<phase, read, game>>
  BY <1>1 DEF TakeChange, FirstIs
<1>3. /\ mem \in Mems /\ read \in Reads /\ row \in Rows /\ row[p] \in Account
      /\ owed \in [Players -> Delta] /\ owed[p] \in Delta
      /\ \A x \in Players : row[x] \in Account /\ row'[x] \in Account
  BY StateTypes DEF TypeOK
<1>4. Moves(toLobby, toLobby', l) /\ toLobby'[l] = Tail(toLobby[l])
  <2>1. toLobby \in [Lobbies -> Seq(LobbyMessage)]
    BY DEF TypeOK
  <2>2. /\ \A k \in Lobbies \ {l} : toLobby'[k] = toLobby[k]
        /\ toLobby'[l] = Tail(toLobby[l])
    BY <1>2, <2>1
  <2> QED
    BY <2>2, LinkMoves
<1>5. /\ owed'[p] = Minus(owed[p], d)
      /\ \A x \in Players \ {p} : owed'[x] = owed[x]
      /\ \A x \in Players \ {p} : row'[x] = row[x]
  <2>1. \A x \in Players \ {p} : row'[x] = row[x]
    BY <1>2, <1>3, RowChangedFacts DEF Rows
  <2> QED
    BY <1>2, <1>3, <2>1
<1>6. apart \subseteq apart'
  BY <1>2, ApartGrows
<1>7. Gone'
  <2>1. NoCopy(mem)
    BY DEF Gone, NoCopy
  <2>2. CASE on
    <3>1. phase[l][p] # "none"
      BY <2>2
    <3>2. mem' = MemChanged(mem, row, l, p, d)
      BY <1>2, <2>2
    <3> HIDE DEF on
    <3>3. NoCopy(MemChanged(mem, row, l, p, d))
      BY <1>2, <1>3, <2>1, <3>1, GoneFollows
    <3> QED
      BY <1>2, <3>2, <3>3, GoneNext
  <2>3. CASE ~on
    BY <1>2, <2>1, <2>3, GoneNext
  <2> QED
    BY <2>2, <2>3
<1>8. ASSUME NEW x \in Players \ apart', Copies(x, mem, read, row[x])
      PROVE  Copies(x, mem', read, row'[x])
  <2>1. x = p => ~(Lowers(d) /\ PastLobbies(p, IF on THEN l ELSE NoLobby))
    BY <1>2 DEF MarkApart
  <2>2. CASE on
    <3>1. x = p => ~Lowers(d) \/ \A k \in Lobbies : read[k][x] = Null
                                                     /\ (k # l => mem[k][x] = Zero)
      <4>1. x = p => ~Lowers(d) \/ ~PastLobbies(x, l)
        BY <2>1, <2>2
      <4> HIDE DEF on
      <4> QED
        BY <4>1 DEF PastLobbies, Gone
    <3>2. mem' = MemChanged(mem, row, l, p, d)
      BY <1>2, <2>2
    <3> HIDE DEF on
    <3> QED
      BY <1>2, <1>3, <1>8, <3>1, <3>2, CopiesFollow
  <2>3. CASE ~on
    <3>1. x = p => ~Lowers(d) \/ \A k \in Lobbies : read[k][x] = Null /\ mem[k][x] = Zero
      <4>1. x = p => ~Lowers(d) \/ ~PastLobbies(x, NoLobby)
        BY <2>1, <2>3
      <4> HIDE DEF on
      <4> QED
        BY <4>1, Constants DEF PastLobbies, Gone
    <3>2. mem' = mem
      BY <1>2, <2>3
    <3> HIDE DEF on
    <3> QED
      BY <1>2, <1>3, <1>8, <3>1, <3>2, CopiesAlone
  <2> QED
    BY <2>2, <2>3
<1> HIDE DEF on
<1>9. ASSUME NEW x \in Players \ apart', x # p PROVE Agree(x, mem, row[x])'
  <2>1. Agree(x, mem, row[x])
    BY <1>6 DEF Agreed
  <2>2. Way(x, toLobby, row[x]) /\ Copies(x, mem, read, row[x])
    BY <2>1 DEF Agree
  <2>3. ~(Head(toLobby[l]).type = "change" /\ Head(toLobby[l]).who = x)
    BY <1>1, <1>9 DEF FirstIs
  <2>4. /\ Way(x, toLobby', row[x])
        /\ \A j : Only(x, toLobby, j) => Only(x, toLobby', j)
    BY <1>2, <1>4, <2>2, <2>3, WayTailOther
  <2>5. Copies(x, mem', read', row'[x])
    BY <1>2, <1>8, <2>2
  <2>6. row'[x] = row[x] /\ owed'[x] = owed[x] /\ game'[x] = game[x]
    BY <1>2, <1>5, <1>9
  <2> QED
    BY <2>1, <2>4, <2>5, <2>6 DEF Agree
<1>10. ASSUME p \notin apart' PROVE Agree(p, mem, row[p])'
  <2>1. Agree(p, mem, row[p])
    BY <1>2, <1>6, <1>10 DEF Agreed
  <2>2. Way(p, toLobby, row[p]) /\ Copies(p, mem, read, row[p])
    BY <2>1 DEF Agree
  <2>3. Covers(row[p], d)
    BY <1>1, <2>2, WayHead
  <2>4. row'[p] = Plus(row[p], d)
    BY <1>2, <1>3, <2>3, RowChangedFacts DEF Rows
  <2>5. row'[p] \in Account /\ Within(Plus(row[p], d), row'[p])
    BY <1>2, <1>3, <2>4, WithinFacts
  <2>6. /\ Way(p, toLobby', row'[p])
        /\ \A j : Only(p, toLobby, j) => Only(p, toLobby', j)
    BY <1>1, <1>2, <1>4, <2>2, <2>5, WayTail
  <2>7. Copies(p, mem', read', row'[p])
    BY <1>2, <1>8, <1>10, <2>2
  <2>8. Plus(row'[p], owed'[p]) = Plus(row[p], owed[p])
    <3>1. Plus(Plus(row[p], d), Minus(owed[p], d)) = Plus(row[p], owed[p])
      BY <1>2, <1>3 DEF Plus, Minus, Account, Delta
    <3> QED
      BY <1>5, <2>4, <3>1
  <2>9. game'[p] = game[p]
    BY <1>2
  <2> QED
    BY <2>1, <2>6, <2>7, <2>8, <2>9 DEF Agree
<1>11. Agreed'
  BY <1>9, <1>10 DEF Agreed
<1> QED
  BY <1>7, <1>11

\* A change is lost: a gain marks the player, a loss only leaves more in the row.
LEMMA CopiesLose ==
    ASSUME TypeOK, TypeOK', Agreed, NEW l \in Lobbies, LoseChange(l)
    PROVE  Agreed'
<1>1. PICK p \in Players, d \in Delta : FirstIs(toLobby, l, p, d)
  BY LobbyHead DEF LoseChange, FirstIs
<1>2. /\ toLobby[l] # <<>>
      /\ toLobby' = [toLobby EXCEPT ![l] = Tail(@)]
      /\ owed' = [owed EXCEPT ![p] = Minus(@, d)]
      /\ MarkApart(p, d.coin > 0 \/ d.safe > 0)
      /\ UNCHANGED <<row, mem, read, game>>
  BY <1>1 DEF LoseChange, FirstIs, lobby
<1>3. owed \in [Players -> Delta] /\ \A x \in Players : row[x] \in Account
  BY DEF TypeOK
<1>4. Moves(toLobby, toLobby', l) /\ toLobby'[l] = Tail(toLobby[l])
  <2>1. toLobby \in [Lobbies -> Seq(LobbyMessage)]
    BY DEF TypeOK
  <2>2. /\ \A k \in Lobbies \ {l} : toLobby'[k] = toLobby[k]
        /\ toLobby'[l] = Tail(toLobby[l])
    BY <1>2, <2>1
  <2> QED
    BY <2>2, LinkMoves
<1>5. /\ owed'[p] = Minus(owed[p], d)
      /\ \A x \in Players \ {p} : owed'[x] = owed[x]
  BY <1>2, <1>3
<1>6. apart \subseteq apart'
  BY <1>2, ApartGrows
<1>7. ASSUME NEW x \in Players \ apart', x # p PROVE Agree(x, mem, row[x])'
  <2>1. Agree(x, mem, row[x])
    BY <1>6 DEF Agreed
  <2>2. Way(x, toLobby, row[x])
    BY <2>1 DEF Agree
  <2>3. ~(Head(toLobby[l]).type = "change" /\ Head(toLobby[l]).who = x)
    BY <1>1, <1>7 DEF FirstIs
  <2>4. /\ Way(x, toLobby', row[x])
        /\ \A j : Only(x, toLobby, j) => Only(x, toLobby', j)
    BY <1>2, <1>4, <2>2, <2>3, WayTailOther
  <2>5. owed'[x] = owed[x]
    BY <1>5, <1>7
  <2> QED
    BY <1>2, <2>1, <2>4, <2>5 DEF Agree
<1>8. ASSUME p \notin apart' PROVE Agree(p, mem, row[p])'
  <2>1. Agree(p, mem, row[p])
    BY <1>2, <1>6, <1>8 DEF Agreed
  <2>2. Way(p, toLobby, row[p])
    BY <2>1 DEF Agree
  <2>3. ~(d.coin > 0 \/ d.safe > 0)
    BY <1>2, <1>8 DEF MarkApart
  <2>4. row[p] \in Account /\ owed[p] \in Delta
    BY <1>2, <1>3
  <2>5. Within(Plus(row[p], d), row[p]) /\ Within(owed[p], Minus(owed[p], d))
    BY <1>2, <2>3, <2>4 DEF Within, Plus, Minus, Account, Delta
  <2>6. /\ Way(p, toLobby', row[p])
        /\ \A j : Only(p, toLobby, j) => Only(p, toLobby', j)
    BY <1>1, <1>2, <1>4, <2>2, <2>4, <2>5, WayTail
  <2>7. ASSUME game[p] # Null PROVE Within(game[p].acc, Plus(row[p], owed'[p]))
    <3>1. Within(game[p].acc, Plus(row[p], owed[p])) /\ game[p].acc \in Account
      BY <1>2, <2>1, <2>7, StateTypes DEF Agree
    <3>2. owed'[p] \in Delta /\ Within(owed[p], owed'[p])
      BY <1>2, <1>5, <2>4, <2>5, DeltaSum
    <3> QED
      BY <2>4, <3>1, <3>2 DEF Within, Plus, Account, Delta
  <2> QED
    BY <1>2, <2>1, <2>6, <2>7 DEF Agree
<1> QED
  BY <1>7, <1>8 DEF Agreed

\* An object comes or goes, and with it a copy of what the row holds.
LEMMA CopiesLoad ==
    ASSUME TypeOK, TypeOK', Gone, Agreed, NEW l \in Lobbies, NEW p \in Players,
           LoadReads(l, p) \/ LoadAnswer(l, p) \/ Recover(l, p)
    PROVE  Gone' /\ Agreed'
<1>1. mem \in Mems /\ read \in Reads /\ \A x \in Players : row[x] \in Account
  BY StateTypes
<1>2. UNCHANGED <<row, game, toLobby, owed, apart>>
  BY DEF LoadReads, LoadAnswer, Recover, links
<1>3. ASSUME NEW x \in Players \ apart, NEW k \in Lobbies
      PROVE  /\ Within(mem[k][x], row[x])
             /\ read[k][x] # Null => Within(read[k][x], row[x])
  BY DEF Agreed, Agree, Copies
<1>4. \/ /\ UNCHANGED <<mem, phase>>
         /\ read' = [read EXCEPT ![l][p] = row[p]]
      \/ /\ UNCHANGED <<mem, phase>>
         /\ read' = [read EXCEPT ![l][p] = Null]
      \/ /\ read[l][p] # Null
         /\ mem' = [mem EXCEPT ![l][p] = read[l][p]]
         /\ phase' = [phase EXCEPT ![l][p] = "filled"]
         /\ read' = [read EXCEPT ![l][p] = Null]
      \/ /\ mem' = [mem EXCEPT ![l][p] = Zero]
         /\ phase' = [phase EXCEPT ![l][p] = "none"]
         /\ UNCHANGED read
  BY DEF LoadReads, LoadAnswer, Recover
<1>5. Gone'
  <2>1. /\ phase \in [Lobbies -> [Players -> {"none", "load", "filled", "play"}]]
        /\ mem \in [Lobbies -> [Players -> Account]]
    BY DEF TypeOK
  <2>2. ASSUME NEW k \in Lobbies, NEW x \in Players, phase'[k][x] = "none"
        PROVE  mem'[k][x] = Zero
    <3>1. CASE UNCHANGED <<mem, phase>>
      BY <2>2, <3>1 DEF Gone
    <3>2. CASE /\ mem' = [mem EXCEPT ![l][p] = read[l][p]]
               /\ phase' = [phase EXCEPT ![l][p] = "filled"]
      BY <2>1, <2>2, <3>2 DEF Gone
    <3>3. CASE /\ mem' = [mem EXCEPT ![l][p] = Zero]
               /\ phase' = [phase EXCEPT ![l][p] = "none"]
      BY <2>1, <2>2, <3>3 DEF Gone
    <3> QED
      BY <1>4, <3>1, <3>2, <3>3
  <2> QED
    BY <2>2 DEF Gone
<1>6. ASSUME NEW x \in Players \ apart, NEW k \in Lobbies
      PROVE  /\ Within(mem'[k][x], row[x])
             /\ read'[k][x] # Null => Within(read'[k][x], row[x])
  <2>1. row[x] \in Account /\ Within(row[x], row[x]) /\ Within(Zero, row[x])
    BY <1>1, WithinFacts
  <2>2. \/ mem'[k][x] = mem[k][x] \/ mem'[k][x] = Zero
        \/ mem'[k][x] = read[k][x] /\ read[k][x] # Null
    BY <1>1, <1>4 DEF Mems
  <2>3. read'[k][x] \in {read[k][x], row[x], Null}
    BY <1>1, <1>4 DEF Mems, Reads
  <2> QED
    BY <1>3, <2>1, <2>2, <2>3
<1>7. Agreed'
  BY <1>2, <1>6 DEF Agreed, Agree, Copies
<1> QED
  BY <1>5, <1>7

\* A player comes to the game: his copy goes along, and the step marks him when it
\* is not behind, or something of his is under way elsewhere.
LEMMA CopiesEnter ==
    ASSUME TypeOK, TypeOK', Agreed, NEW l \in Lobbies, TakeEnter(l)
    PROVE  Agreed'
<1>1. PICK p \in Players, a \in Account :
          /\ game' = [game EXCEPT ![p] =
                [acc |-> IF @ = Null THEN a ELSE @.acc, belong |-> l]]
          /\ MarkApart(p, UnderWay(p, Lobbies \ {l}) \/ (game[p] = Null /\ Ahead(p, a)))
  BY GameHead DEF TakeEnter
<1>2. UNCHANGED <<row, mem, read, toLobby, owed>>
  BY DEF TakeEnter, lobby
<1>3. apart \subseteq apart'
  BY <1>1, ApartGrows
<1>4. game \in [Players -> [acc : Account, belong : Lobbies] \cup {Null}]
  BY DEF TypeOK
<1>5. ASSUME NEW x \in Players \ apart' PROVE Agree(x, mem, row[x])'
  <2>1. Agree(x, mem, row[x])
    BY <1>3 DEF Agreed
  <2>2. CASE x # p
    <3>1. game'[x] = game[x]
      BY <1>1, <1>4, <2>2
    <3> QED
      BY <1>2, <2>1, <3>1 DEF Agree
  <2>3. CASE x = p
    <3>1. ~UnderWay(p, Lobbies \ {l}) /\ ~(game[p] = Null /\ Ahead(p, a))
      BY <1>1, <2>3 DEF MarkApart
    <3>2. Only(p, toLobby, l)
      BY <3>1 DEF Only, UnderWay, Still
    <3>3. /\ game'[p].belong = l
          /\ game'[p].acc = IF game[p] = Null THEN a ELSE game[p].acc
      BY <1>1, <1>4
    <3>4. Within(game'[p].acc, Plus(row[p], owed[p]))
      <4>1. CASE game[p] = Null
        <5>1. ~Ahead(p, a) /\ row[p] \in Account /\ owed[p] \in Delta
          BY <3>1, <4>1, StateTypes
        <5>2. Within(a, Plus(row[p], owed[p]))
          BY <5>1 DEF Ahead, Within, Plus, Account, Delta
        <5> QED
          BY <3>3, <4>1, <5>2
      <4>2. CASE game[p] # Null
        BY <2>1, <2>3, <3>3, <4>2 DEF Agree
      <4> QED
        BY <4>1, <4>2
    <3> QED
      BY <1>2, <2>1, <2>3, <3>2, <3>3, <3>4 DEF Agree
  <2> QED
    BY <2>2, <2>3
<1> QED
  BY <1>5 DEF Agreed

\* The game's copy follows the site's change, and the step marks the player when it
\* is not behind.
LEMMA CopiesFlush ==
    ASSUME TypeOK, TypeOK', Agreed, NEW l \in Lobbies, TakeFlush(l)
    PROVE  Agreed'
<1>1. UNCHANGED <<row, mem, read, toLobby, owed>>
  BY DEF TakeFlush, lobby
<1>2. CASE UNCHANGED <<game, apart>>
  BY <1>1, <1>2, AgreedStays
<1>3. CASE ~UNCHANGED <<game, apart>>
  <2>1. PICK p \in Players, d \in Delta :
            /\ game[p] # Null
            /\ game' = [game EXCEPT ![p].acc = Clamped(game[p].acc, d)]
            /\ MarkApart(p, Ahead(p, Clamped(game[p].acc, d)))
    BY <1>3, GameHead DEF TakeFlush
  <2>2. apart \subseteq apart'
    BY <2>1, ApartGrows
  <2>3. /\ game \in [Players -> [acc : Account, belong : Lobbies] \cup {Null}]
        /\ game[p] \in [acc : Account, belong : Lobbies]
    BY <2>1 DEF TypeOK
  <2>4. /\ \A x \in Players \ {p} : game'[x] = game[x]
        /\ game'[p].acc = Clamped(game[p].acc, d) /\ game'[p].belong = game[p].belong
    BY <2>1, <2>3
  <2>5. ASSUME NEW x \in Players \ apart' PROVE Agree(x, mem, row[x])'
    <3>1. Agree(x, mem, row[x])
      BY <2>2 DEF Agreed
    <3>2. CASE x # p
      BY <1>1, <2>4, <3>1, <3>2 DEF Agree
    <3>3. CASE x = p
      <4>1. /\ ~Ahead(p, Clamped(game[p].acc, d))
            /\ row[p] \in Account /\ owed[p] \in Delta
            /\ Clamped(game[p].acc, d) \in Account
        BY <2>1, <2>3, <3>3, StateTypes, ChangedAccount DEF MarkApart
      <4>2. Within(Clamped(game[p].acc, d), Plus(row[p], owed[p]))
        <5> DEFINE a == Clamped(game[p].acc, d)
        <5> HIDE DEF a
        <5>1. ~Ahead(p, a) /\ a \in Account
          BY <4>1 DEF a
        <5>2. Within(a, Plus(row[p], owed[p]))
          BY <4>1, <5>1 DEF Ahead, Within, Plus, Account, Delta
        <5> QED
          BY <5>2 DEF a
      <4> QED
        BY <1>1, <2>1, <2>4, <3>1, <3>3, <4>2 DEF Agree
    <3> QED
      BY <3>2, <3>3
  <2> QED
    BY <2>5 DEF Agreed
<1> QED
  BY <1>2, <1>3

\* A player leaves the game, and a lobby hears of it.
LEMMA CopiesLeave ==
    ASSUME TypeOK, TypeOK', Agreed,
           (\E p \in Players : LeaveGame(p)) \/ (\E l \in Lobbies : TakeLeave(l))
    PROVE  Agreed'
<1>1. UNCHANGED <<row, mem, read, owed, apart>>
  BY DEF LeaveGame, TakeLeave, lobby
<1>2. toLobby \in [Lobbies -> Seq(LobbyMessage)]
  BY DEF TypeOK
<1>3. \A x \in Players : game'[x] = game[x] \/ game'[x] = Null
  BY DEF LeaveGame, TakeLeave, TypeOK
<1>4. ASSUME NEW x \in Players \ apart
      PROVE  /\ Way(x, toLobby', row[x])
             /\ \A j : Only(x, toLobby, j) => Only(x, toLobby', j)
  <2>1. Way(x, toLobby, row[x])
    BY DEF Agreed, Agree
  <2>2. ASSUME NEW p \in Players, LeaveGame(p)
        PROVE  /\ Way(x, toLobby', row[x])
               /\ \A j : Only(x, toLobby, j) => Only(x, toLobby', j)
    <3> DEFINE k == game[p].belong
               e == [type |-> "leave", who |-> p, acc |-> Zero]
    <3>1. k \in Lobbies /\ toLobby' = [toLobby EXCEPT ![k] = Append(@, e)]
      BY <2>2, StateTypes DEF LeaveGame
    <3>2. e \in LobbyMessage /\ ~(e.type = "change" /\ e.who = x)
      BY Amounts DEF LobbyMessage
    <3> HIDE DEF k, e
    <3>3. /\ \A j \in Lobbies \ {k} : toLobby'[j] = toLobby[j]
          /\ toLobby'[k] = Append(toLobby[k], e)
      BY <1>2, <3>1
    <3>4. Moves(toLobby, toLobby', k)
      BY <3>1, <3>3, LinkMoves
    <3> QED
      BY <2>1, <3>2, <3>3, <3>4, WayAppendOther
  <2>3. ASSUME NEW l \in Lobbies, TakeLeave(l)
        PROVE  /\ Way(x, toLobby', row[x])
               /\ \A j : Only(x, toLobby, j) => Only(x, toLobby', j)
    <3>1. /\ toLobby[l] # <<>> /\ Head(toLobby[l]).type = "leave"
          /\ toLobby' = [toLobby EXCEPT ![l] = Tail(@)]
      BY <2>3 DEF TakeLeave
    <3>2. /\ \A j \in Lobbies \ {l} : toLobby'[j] = toLobby[j]
          /\ toLobby'[l] = Tail(toLobby[l])
      BY <1>2, <3>1
    <3>3. Moves(toLobby, toLobby', l)
      BY <3>2, LinkMoves
    <3>4. ~(Head(toLobby[l]).type = "change" /\ Head(toLobby[l]).who = x)
      BY <3>1
    <3> QED
      BY <2>1, <3>1, <3>2, <3>3, <3>4, WayTailOther
  <2> QED
    BY <2>2, <2>3
<1> QED
  BY <1>1, <1>3, <1>4 DEF Agreed, Agree

\* A gift is taken from the giver, and given: here, to the row, or sent on.
LEMMA CopiesGift ==
    ASSUME TypeOK, TypeOK', Gone, Agreed, NEW l \in Lobbies, NEW p \in Players,
           NEW q \in Players, NEW g \in Gifts,
           GiftHere(l, p, q, g) \/ GiftElsewhere(l, p, q, g) \/ GiftAbsent(l, p, q, g)
    PROVE  Gone' /\ Agreed'
<1> DEFINE paid == RowChanged(row, p, Safe(-g))
           left == MemChanged(mem, row, l, p, Safe(-g))
           gift == Safe(g - Tax[g])
<1>1. /\ phase[l][p] = "play" /\ Lowered(p, Safe(-g), l)
      /\ UNCHANGED <<phase, read, game, toLobby, owed>>
  BY DEF GiftHere, GiftElsewhere, GiftAbsent, GiftTakes
<1>2. mem \in Mems /\ row \in Rows /\ NoCopy(mem)
  BY StateTypes DEF Gone, NoCopy
<1>3. Safe(-g) \in Delta /\ gift \in Delta /\ ~Lowers(gift)
  <2>1. g \in Nat /\ -g \in Int /\ g - Tax[g] \in Nat
    BY Constants
  <2>2. Safe(-g) \in Delta /\ gift \in Delta
    BY <2>1, Amounts
  <2>3. ~Lowers(gift)
    BY <2>1 DEF Lowers, Safe
  <2> QED
    BY <2>2, <2>3
<1>4. paid \in Rows
  BY <1>2, <1>3, RowChangedFacts DEF Rows
<1>5. left \in Mems /\ NoCopy(left)
  BY <1>1, <1>2, <1>3, GoneFollows
<1>6. \A x \in Players \ apart' : Agree(x, left, paid[x])
  BY <1>1, <1>3, AgreeTaken
<1>7. ASSUME GiftHere(l, p, q, g) PROVE Gone' /\ Agreed'
  <2>1. /\ phase[l][q] # "none"
        /\ row' = RowChanged(paid, q, gift)
        /\ mem' = MemChanged(left, paid, l, q, gift)
    BY <1>7 DEF GiftHere
  <2> HIDE DEF paid, left, gift
  <2>2. NoCopy(MemChanged(left, paid, l, q, gift))
    BY <1>3, <1>4, <1>5, <2>1, GoneFollows
  <2>3. \A x \in Players \ apart' :
           Agree(x, MemChanged(left, paid, l, q, gift), RowChanged(paid, q, gift)[x])
    BY <1>3, <1>4, <1>5, <1>6, AgreeGiven
  <2>4. Gone'
    BY <1>1, <2>1, <2>2, GoneNext
  <2>5. Agreed'
    BY <1>1, <2>1, <2>3, AgreedNext
  <2> QED
    BY <2>4, <2>5
<1>8. ASSUME GiftElsewhere(l, p, q, g) PROVE Gone' /\ Agreed'
  <2>1. row' = paid /\ mem' = left
    BY <1>8 DEF GiftElsewhere
  <2> HIDE DEF paid, left, gift
  <2>2. Gone'
    BY <1>1, <1>5, <2>1, GoneNext
  <2>3. Agreed'
    BY <1>1, <1>6, <2>1, AgreedNext
  <2> QED
    BY <2>2, <2>3
<1>9. ASSUME GiftAbsent(l, p, q, g) PROVE Gone' /\ Agreed'
  <2>1. row' = RowChanged(paid, q, gift) /\ mem' = left
    BY <1>9 DEF GiftAbsent
  <2> HIDE DEF paid, left, gift
  <2>2. \A x \in Players \ apart' : Agree(x, left, RowChanged(paid, q, gift)[x])
    BY <1>3, <1>4, <1>5, <1>6, AgreeGiven
  <2>3. Gone'
    BY <1>1, <1>5, <2>1, GoneNext
  <2>4. Agreed'
    BY <1>1, <2>1, <2>2, AgreedNext
  <2> QED
    BY <2>3, <2>4
<1> QED
  BY <1>7, <1>8, <1>9

\* A gift from another lobby arrives, and is given or dropped.
LEMMA CopiesArrive ==
    ASSUME TypeOK, TypeOK', Gone, Agreed, NEW l \in Lobbies, GiftArrives(l)
    PROVE  Gone' /\ Agreed'
<1>1. UNCHANGED <<phase, read, game, toLobby, owed, apart>>
  BY DEF GiftArrives
<1>2. mem \in Mems /\ row \in Rows /\ NoCopy(mem)
  BY StateTypes DEF Gone, NoCopy
<1>3. CASE UNCHANGED <<row, mem>>
  BY <1>1, <1>3, AgreedStays, GoneStays
<1>4. CASE ~UNCHANGED <<row, mem>>
  <2>1. PICK q \in Players, n \in Nat :
            /\ phase[l][q] # "none"
            /\ row' = RowChanged(row, q, Safe(n))
            /\ mem' = MemChanged(mem, row, l, q, Safe(n))
    BY <1>4, MailHead DEF GiftArrives
  <2> DEFINE d == Safe(n)
  <2>2. d \in Delta /\ ~Lowers(d)
    BY DEF Delta, Lowers, Safe
  <2>3. row' = RowChanged(row, q, d) /\ mem' = MemChanged(mem, row, l, q, d)
    BY <2>1
  <2> HIDE DEF d
  <2>4. NoCopy(MemChanged(mem, row, l, q, d))
    BY <1>2, <2>1, <2>2, GoneFollows
  <2>5. \A x \in Players \ apart :
           Agree(x, MemChanged(mem, row, l, q, d), RowChanged(row, q, d)[x])
    BY <1>2, <2>2, AgreeGiven DEF Agreed
  <2>6. Gone'
    BY <1>1, <2>3, <2>4, GoneNext
  <2>7. Agreed'
    BY <1>1, <2>3, <2>5, AgreedNext
  <2> QED
    BY <2>6, <2>7
<1> QED
  BY <1>3, <1>4

\* The safe box, and the web site, at lobby l.
LEMMA CopiesChange ==
    ASSUME TypeOK, TypeOK', Gone, Agreed, NEW l \in Lobbies, NEW p \in Players,
           \/ \E t \in Boxes : BoxInLobby(l, p, t)
           \/ \E d \in Issues : SiteChange(l, p, d) \/ SiteChangeAbsent(l, p, d)
    PROVE  Gone' /\ Agreed'
<1>1. UNCHANGED <<phase, read, game, toLobby, owed>>
  BY DEF BoxInLobby, SiteChange, SiteChangeAbsent, lobby, links
<1>2. mem \in Mems /\ row \in Rows /\ NoCopy(mem)
  BY StateTypes DEF Gone, NoCopy
<1>3. ASSUME NEW d \in Delta, Lowered(p, d, l), phase[l][p] # "none",
             row' = RowChanged(row, p, d), mem' = MemChanged(mem, row, l, p, d)
      PROVE  Gone' /\ Agreed'
  <2>1. NoCopy(MemChanged(mem, row, l, p, d))
    BY <1>2, <1>3, GoneFollows
  <2>2. \A x \in Players \ apart' :
           Agree(x, MemChanged(mem, row, l, p, d), RowChanged(row, p, d)[x])
    BY <1>3, AgreeTaken
  <2>3. Gone'
    BY <1>1, <1>3, <2>1, GoneNext
  <2>4. Agreed'
    BY <1>1, <1>3, <2>2, AgreedNext
  <2> QED
    BY <2>3, <2>4
<1>4. ASSUME NEW d \in Delta, Lowered(p, d, NoLobby),
             row' = RowChanged(row, p, d), mem' = mem
      PROVE  Gone' /\ Agreed'
  <2>1. \A x \in Players \ apart' : Agree(x, mem, RowChanged(row, p, d)[x])
    BY <1>4, AgreeTakenAlone
  <2>2. Agreed'
    BY <1>1, <1>4, <2>1, AgreedNext
  <2> QED
    BY <1>1, <1>4, <2>2, GoneStays
<1>5. ASSUME NEW t \in Boxes, BoxInLobby(l, p, t) PROVE Gone' /\ Agreed'
  <2> DEFINE d == Box(t)
  <2>1. d \in Delta
    BY Constants, Amounts
  <2>2. /\ Lowered(p, d, l) /\ phase[l][p] # "none"
        /\ row' = RowChanged(row, p, d) /\ mem' = MemChanged(mem, row, l, p, d)
    BY <1>5 DEF BoxInLobby
  <2> HIDE DEF d
  <2> QED
    BY <1>3, <2>1, <2>2
<1>6. ASSUME NEW d \in Issues, SiteChange(l, p, d) PROVE Gone' /\ Agreed'
  <2>1. d \in Delta
    BY Constants
  <2>2. /\ Lowered(p, d, l) /\ phase[l][p] # "none"
        /\ row' = RowChanged(row, p, d) /\ mem' = MemChanged(mem, row, l, p, d)
    BY <1>6 DEF SiteChange
  <2> QED
    BY <1>3, <2>1, <2>2
<1>7. ASSUME NEW d \in Issues, SiteChangeAbsent(l, p, d) PROVE Gone' /\ Agreed'
  <2>1. d \in Delta
    BY Constants
  <2>2. Lowered(p, d, NoLobby) /\ row' = RowChanged(row, p, d) /\ mem' = mem
    BY <1>7 DEF SiteChangeAbsent, lobby
  <2> QED
    BY <1>4, <2>1, <2>2
<1> QED
  BY <1>5, <1>6, <1>7

\* Every step keeps the copies behind the row, and marks the others.
LEMMA CopiesStep ==
    ASSUME TypeOK, TypeOK', Counted, Gone, Agreed, [Next]_vars
    PROVE  Gone' /\ Agreed'
<1>1. ASSUME NEW l \in Lobbies, NEW p \in Players,
             \/ Login(l, p) \/ GetAllData(l, p) \/ EnterGame(l, p)
             \/ \E t \in Boxes : BoxInGame(l, p, t)
      PROVE  Gone' /\ Agreed'
  <2>1. UNCHANGED <<mem, row, read, toLobby, game, owed, apart>>
    BY <1>1 DEF Login, GetAllData, EnterGame, BoxInGame, lobby, links
  <2>2. \A k \in Lobbies, x \in Players : phase'[k][x] = "none" => phase[k][x] = "none"
    <3>1. phase \in [Lobbies -> [Players -> {"none", "load", "filled", "play"}]]
      BY DEF TypeOK
    <3>2. \/ UNCHANGED phase
          \/ phase' = [phase EXCEPT ![l][p] = IF @ = "none" THEN "load" ELSE @]
          \/ phase' = [phase EXCEPT ![l][p] = "play"]
      BY <1>1 DEF Login, GetAllData, EnterGame, BoxInGame, lobby
    <3> QED
      BY <3>1, <3>2
  <2>3. Gone'
    BY <2>1, <2>2 DEF Gone
  <2> QED
    BY <2>1, <2>3, AgreedStays
<1>2. ASSUME NEW l \in Lobbies, NEW p \in Players,
             LoadReads(l, p) \/ LoadAnswer(l, p) \/ Recover(l, p)
      PROVE  Gone' /\ Agreed'
  BY <1>2, CopiesLoad
<1>3. ASSUME NEW l \in Lobbies, NEW p \in Players,
             \/ \E t \in Boxes : BoxInLobby(l, p, t)
             \/ \E d \in Issues : SiteChange(l, p, d) \/ SiteChangeAbsent(l, p, d)
      PROVE  Gone' /\ Agreed'
  BY <1>3, CopiesChange
<1>4. ASSUME NEW l \in Lobbies, NEW p \in Players, NEW q \in Players, NEW g \in Gifts,
             GiftHere(l, p, q, g) \/ GiftElsewhere(l, p, q, g) \/ GiftAbsent(l, p, q, g)
      PROVE  Gone' /\ Agreed'
  BY <1>4, CopiesGift
<1>5. ASSUME NEW p \in Players, NEW r \in Results, GameResult(p, r)
      PROVE  Gone' /\ Agreed'
  BY <1>5, ResultPays, CopiesPay
<1>6. ASSUME NEW l \in Lobbies, TakeBox(l)
      PROVE  Gone' /\ Agreed'
  BY <1>6, BoxPays, CopiesPay, AgreedStays, GoneStays
<1>7. ASSUME (\E p \in Players : LeaveGame(p)) \/ (\E l \in Lobbies : TakeLeave(l))
      PROVE  Gone' /\ Agreed'
  <2>1. UNCHANGED <<mem, phase>>
    BY <1>7 DEF LeaveGame, TakeLeave, lobby
  <2> QED
    BY <1>7, <2>1, CopiesLeave, GoneStays
<1>8. ASSUME NEW l \in Lobbies, TakeEnter(l) \/ TakeFlush(l) \/ LoseChange(l)
      PROVE  Gone' /\ Agreed'
  <2>1. UNCHANGED <<mem, phase>>
    BY <1>8 DEF TakeEnter, TakeFlush, LoseChange, lobby
  <2> QED
    BY <1>8, <2>1, CopiesEnter, CopiesFlush, CopiesLose, GoneStays
<1>9. ASSUME NEW l \in Lobbies, TakeChange(l)
      PROVE  Gone' /\ Agreed'
  BY <1>9, CopiesTake
<1>10. ASSUME NEW l \in Lobbies, GiftArrives(l)
       PROVE  Gone' /\ Agreed'
  BY <1>10, CopiesArrive
<1>11. CASE UNCHANGED vars
  BY <1>11, AgreedStays, GoneStays DEF vars, lobby, links
<1> QED
  BY <1>1, <1>2, <1>3, <1>4, <1>5, <1>6, <1>7, <1>8, <1>9, <1>10, <1>11 DEF Next

\* The invariant says what the property says.
LEMMA AgreedIs == ASSUME TypeOK, Agreed PROVE CopiesBehind
<1>1. ASSUME NEW p \in Players, p \notin apart, game[p] # Null
      PROVE  ~Ahead(p, game[p].acc)
  <2>1. /\ game[p].acc \in Account /\ row[p] \in Account /\ owed[p] \in Delta
        /\ Within(game[p].acc, Plus(row[p], owed[p]))
    BY <1>1, StateTypes DEF Agreed, Agree
  <2> QED
    BY <2>1 DEF Within, Plus, Ahead, Account, Delta
<1>2. ASSUME NEW p \in Players, p \notin apart, NEW l \in Lobbies
      PROVE  mem[l][p].coin <= row[p].coin /\ mem[l][p].safe <= row[p].safe
  BY <1>2 DEF Agreed, Agree, Copies, Within
<1> QED
  BY <1>1, <1>2 DEF CopiesBehind

\* While nobody is marked, the row covers a gift the copy covers, and the first
\* change of every link.
LEMMA UnpaidStep ==
    ASSUME TypeOK, Agreed, [Next]_vars, apart = {}
    PROVE  unpaid' = unpaid
<1>1. ASSUME NEW l \in Lobbies, NEW p \in Players, NEW g \in Gifts, GiftTakes(l, p, g)
      PROVE  unpaid' = unpaid
  <2>1. mem[l][p].safe >= g /\ unpaid' = IF Covers(row[p], Safe(-g)) THEN unpaid ELSE unpaid + g
    BY <1>1 DEF GiftTakes
  <2>2. /\ mem[l][p].safe <= row[p].safe
        /\ mem[l][p] \in Account /\ row[p] \in Account /\ g \in Nat
    BY StateTypes, Constants DEF Agreed, Agree, Copies, Within, Mems
  <2>3. Covers(row[p], Safe(-g))
    BY <2>1, <2>2 DEF Covers, Safe, Account
  <2> QED
    BY <2>1, <2>3
<1>2. ASSUME NEW l \in Lobbies, TakeChange(l)
      PROVE  unpaid' = unpaid
  <2>1. PICK p \in Players, d \in Delta : FirstIs(toLobby, l, p, d)
    BY <1>2, LobbyHead DEF TakeChange, FirstIs
  <2>2. Way(p, toLobby, row[p])
    BY DEF Agreed, Agree
  <2>3. Covers(row[p], d)
    BY <2>1, <2>2, WayHead
  <2> QED
    BY <1>2, <2>1, <2>3 DEF TakeChange, FirstIs
<1>3. ASSUME NEW l \in Lobbies, NEW p \in Players,
             \/ Login(l, p) \/ LoadReads(l, p) \/ LoadAnswer(l, p) \/ GetAllData(l, p)
             \/ Recover(l, p) \/ EnterGame(l, p)
             \/ \E t \in Boxes : BoxInLobby(l, p, t) \/ BoxInGame(l, p, t)
             \/ \E d \in Issues : SiteChange(l, p, d) \/ SiteChangeAbsent(l, p, d)
      PROVE  unpaid' = unpaid
  BY <1>3 DEF Login, LoadReads, LoadAnswer, GetAllData, Recover, EnterGame, BoxInLobby,
              BoxInGame, SiteChange, SiteChangeAbsent, books
<1>4. ASSUME NEW l \in Lobbies, NEW p \in Players, NEW q \in Players, NEW g \in Gifts,
             GiftHere(l, p, q, g) \/ GiftElsewhere(l, p, q, g) \/ GiftAbsent(l, p, q, g)
      PROVE  unpaid' = unpaid
  BY <1>1, <1>4 DEF GiftHere, GiftElsewhere, GiftAbsent
<1>5. ASSUME NEW p \in Players, LeaveGame(p) \/ (\E r \in Results : GameResult(p, r))
      PROVE  unpaid' = unpaid
  BY <1>5 DEF LeaveGame, GameResult, books
<1>6. ASSUME NEW l \in Lobbies,
             \/ TakeEnter(l) \/ TakeBox(l) \/ TakeFlush(l) \/ TakeLeave(l)
             \/ LoseChange(l) \/ GiftArrives(l)
      PROVE  unpaid' = unpaid
  BY <1>6 DEF TakeEnter, TakeBox, TakeFlush, TakeLeave, LoseChange, GiftArrives, books
<1>7. CASE UNCHANGED vars
  BY <1>7 DEF vars, books
<1> QED
  BY <1>2, <1>3, <1>4, <1>5, <1>6, <1>7 DEF Next

AccountInv == TypeOK /\ Counted /\ Gone /\ Agreed

\* Whatever players, games, the web site and the links do: the invariant holds.
THEOREM AccountInvCorrect == Spec => []AccountInv
<1>1. Init => AccountInv
  BY TypeInit, CountedInit, CopiesInit DEF AccountInv
<1>2. AccountInv /\ [Next]_vars => AccountInv'
  BY TypeStep, CountedStep, CopiesStep DEF AccountInv
<1> QED
  BY <1>1, <1>2, PTL DEF Spec

\* Unless a player's row was lowered past a copy of it, or a copy was out of date
\* when it went to the game, no lobby's copy says more than his row, and the game's
\* no more than his row will when what is under way has arrived.
THEOREM CopiesBehindCorrect == Spec => []CopiesBehind
<1>1. AccountInv => CopiesBehind
  BY AgreedIs DEF AccountInv
<1> QED
  BY <1>1, AccountInvCorrect, PTL

\* Only then is a gift given, or a loss booked, that the row does not cover.
THEOREM UnpaidNeedsApartCorrect == Spec => UnpaidNeedsApart
<1>1. AccountInv /\ [Next]_vars => [unpaid' # unpaid => apart # {}]_vars
  BY UnpaidStep DEF AccountInv
<1> QED
  BY <1>1, AccountInvCorrect, PTL DEF Spec, UnpaidNeedsApart
=============================================================================
