--------------------------- MODULE LandRoom_proof ---------------------------
(***************************************************************************)
(* RoomInv is an inductive invariant of LandRoom for any players, tables   *)
(* and limits: with it a running game keeps its players and matching       *)
(* forgets nobody.  GameInv, which extends it, says who meets in a game.   *)
(*                                                                         *)
(* Every action moves players with LeaveTable, LeaveRoom, JoinMarry and    *)
(* SitDown, so the lemmas say what these four preserve and the theorem     *)
(* only checks that each action uses them on players it may move.          *)
(***************************************************************************)
EXTENDS LandRoom, FiniteSetTheorems, TLAPS

USE PlayersAssumption, NobodyAssumption, TableNumAssumption, SeatNumAssumption, ScoreAssumption

\* A table pointer is never NULL by accident: table ids start at 1.
LEMMA NoTableId == NoTable \notin TableIds
BY DEF NoTable, TableIds

LEMMA PlayersFinite ==
  /\ IsFiniteSet(Players)
  /\ \A S \in SUBSET Players : IsFiniteSet(S) /\ Cardinality(S) \in Nat
<1>1. IsFiniteSet(Players)
  BY FS_Union DEF Players
<1> QED
  BY <1>1, FS_Subset, FS_CardinalityType

\* Players that leave their tables leave no chair behind.
LEMMA LeaveTableSeats ==
  ASSUME TypeOK, SeatsAgree, NEW S \in SUBSET Players, LeaveTable(S)
  PROVE  /\ at' \in [Players -> TableIds \cup {NoTable}]
         /\ seat' \in [TableIds -> [Seats -> Players \cup {Nobody}]]
         /\ ready' \subseteq Players
         /\ SeatsAgree'
         /\ \A p \in Players : at'[p] = IF p \in S THEN NoTable ELSE at[p]
<1>1. /\ at' \in [Players -> TableIds \cup {NoTable}]
      /\ seat' \in [TableIds -> [Seats -> Players \cup {Nobody}]]
      /\ ready' \subseteq Players
  BY DEF TypeOK, LeaveTable
<1>2. \A p \in Players : at'[p] = IF p \in S THEN NoTable ELSE at[p]
  BY DEF LeaveTable
<1>3. \A t \in TableIds, c \in Seats :
         seat'[t][c] = IF seat[t][c] \in S THEN Nobody ELSE seat[t][c]
  BY DEF LeaveTable
<1>4. Nobody \notin Players
  BY DEF Players
<1>5. ASSUME NEW t \in TableIds, NEW c \in Seats, seat'[t][c] # Nobody
      PROVE  at'[seat'[t][c]] = t
  <2>1. seat'[t][c] = seat[t][c] /\ seat[t][c] \notin S /\ seat[t][c] \in Players
    BY <1>3, <1>5 DEF TypeOK
  <2> QED
    BY <2>1, <1>2, <1>5 DEF SeatsAgree
<1>6. ASSUME NEW p \in Players, at'[p] # NoTable
      PROVE  \E c \in Seats : seat'[at'[p]][c] = p
  <2>1. p \notin S /\ at'[p] = at[p] /\ at[p] \in TableIds
    BY <1>2, <1>6 DEF TypeOK
  <2>2. PICK c \in Seats : seat[at[p]][c] = p
    BY <2>1, <1>6 DEF SeatsAgree, Sitting
  <2>3. seat'[at'[p]][c] = p
    BY <2>1, <2>2, <1>3
  <2> QED
    BY <2>3
<1>7. ASSUME NEW t \in TableIds, NEW c \in Seats, NEW d \in Seats,
             seat'[t][c] = seat'[t][d], seat'[t][c] # Nobody
      PROVE  c = d
  BY <1>7, <1>3 DEF SeatsAgree
<1> QED
  BY <1>1, <1>2, <1>5, <1>6, <1>7 DEF SeatsAgree, Sitting

\* A player without a table that sits down holds exactly the chair it took.
LEMMA SitDownSeats ==
  ASSUME TypeOK, SeatsAgree, NEW p \in Players, NEW t \in TableIds, at[p] = NoTable, SitDown(p, t)
  PROVE  /\ at' \in [Players -> TableIds \cup {NoTable}]
         /\ seat' \in [TableIds -> [Seats -> Players \cup {Nobody}]]
         /\ SeatsAgree'
         /\ \A q \in Players : at'[q] = IF q = p THEN t ELSE at[q]
         /\ \A u \in TableIds, c \in Seats : seat[u][c] # Nobody => seat'[u][c] = seat[u][c]
<1>1. PICK c \in Seats : IsFirstFree(t, c) /\ seat' = [seat EXCEPT ![t][c] = p]
  BY DEF SitDown
<1>2. \A q \in Players : at'[q] = IF q = p THEN t ELSE at[q]
  BY DEF SitDown, TypeOK
<1>3. /\ at' \in [Players -> TableIds \cup {NoTable}]
      /\ seat' \in [TableIds -> [Seats -> Players \cup {Nobody}]]
  BY <1>1 DEF SitDown, TypeOK
<1>4. \A u \in TableIds, d \in Seats :
         seat'[u][d] = IF u = t /\ d = c THEN p ELSE seat[u][d]
  BY <1>1 DEF TypeOK
<1>5. seat[t][c] = Nobody
  BY <1>1 DEF IsFirstFree
<1>6. \A u \in TableIds, d \in Seats : seat[u][d] # p
  BY NoTableId DEF SeatsAgree, Players
<1>7. ASSUME NEW u \in TableIds, NEW d \in Seats, seat'[u][d] # Nobody
      PROVE  at'[seat'[u][d]] = u
  BY <1>7, <1>4, <1>2, <1>6 DEF SeatsAgree, TypeOK
<1>8. ASSUME NEW q \in Players, at'[q] # NoTable
      PROVE  \E d \in Seats : seat'[at'[q]][d] = q
  <2>1. CASE q = p
    BY <2>1, <1>2, <1>4 DEF Sitting
  <2>2. CASE q # p
    <3>1. at'[q] = at[q] /\ at[q] \in TableIds
      BY <2>2, <1>2, <1>8 DEF TypeOK
    <3>2. PICK d \in Seats : seat[at[q]][d] = q
      BY <3>1, <1>8 DEF SeatsAgree, Sitting
    <3>3. seat'[at[q]][d] = q
      BY <3>1, <3>2, <1>4, <1>5 DEF Players
    <3> QED
      BY <3>1, <3>3 DEF Sitting
  <2> QED
    BY <2>1, <2>2
<1>9. ASSUME NEW u \in TableIds, NEW d \in Seats, NEW e \in Seats,
             seat'[u][d] = seat'[u][e], seat'[u][d] # Nobody
      PROVE  d = e
  BY <1>9, <1>4, <1>6 DEF SeatsAgree
<1>10. \A u \in TableIds, d \in Seats : seat[u][d] # Nobody => seat'[u][d] = seat[u][d]
  BY <1>4, <1>5
<1> QED
  BY <1>2, <1>3, <1>7, <1>8, <1>9, <1>10 DEF SeatsAgree, Sitting

\* Whatever S, LeaveRoom keeps the counter equal to the players it counts.
LEMMA LeaveRoomCount ==
  ASSUME TypeOK, PlayerNumExact, NEW S \in SUBSET Players, LeaveRoom(S)
  PROVE  PlayerNumExact' /\ playerNum' \in Int
<1>1. inRoom \in SUBSET Players
  BY DEF TypeOK
<1>2. IsFiniteSet(inRoom) /\ Cardinality(inRoom) \in Nat
  BY <1>1, PlayersFinite
<1>3. Cardinality(inRoom \ S) = Cardinality(inRoom) - Cardinality(inRoom \cap S)
  BY <1>2, FS_Difference
<1>4. inRoom \cap S = S \cap inRoom
  OBVIOUS
<1>5. Cardinality(S \cap inRoom) \in Nat
  BY <1>1, PlayersFinite
<1>6. inRoom' = inRoom \ S /\ playerNum' = Cardinality(inRoom) - Cardinality(inRoom \cap S)
  BY <1>4 DEF PlayerNumExact, LeaveRoom
<1>7. playerNum' \in Int
  BY <1>2, <1>4, <1>5, <1>6
<1> QED
  BY <1>3, <1>6, <1>7 DEF PlayerNumExact

-----------------------------------------------------------------------------
\* RoomInv falls in two: where the players are, and everything else.
PlacesInv ==
  /\ at \in [Players -> TableIds \cup {NoTable}]
  /\ seat \in [TableIds -> [Seats -> Players \cup {Nobody}]]
  /\ ready \subseteq Players /\ inRoom \subseteq Players /\ waiting \subseteq Players
  /\ playerNum \in Int
  /\ exclude \in [Players -> TableIds \cup {NoTable}]
  /\ SeatsAgree /\ WhereAllowed /\ PlayerNumExact /\ PlayingFull

RestInv ==
  /\ status \in {"normal", "retire", "repair"}
  /\ online \subseteq Players /\ inRoom \subseteq online
  /\ roomIndex \in 0..MaxTables
  /\ playing \subseteq TableIds
  /\ fresh \in 0..roomIndex
  /\ blocks \in [Players -> SUBSET Players]
  /\ score \in [Players -> ScoreClasses]
  /\ pc \in {"idle", "marry", "timeout", "start"}
  /\ cur \in TableIds \cup {NoTable}
  /\ CallbackOK

LEMMA RoomInvParts == RoomInv <=> PlacesInv /\ RestInv
BY DEF RoomInv, TypeOK, PlacesInv, RestInv

\* Players leave their tables and the room: none of them from a running game.
LEMMA MoveOut ==
  ASSUME RoomInv, NEW S \in SUBSET Players, LeaveTable(S), LeaveRoom(S),
         playing' \subseteq playing, \A p \in S : at[p] \notin playing'
  PROVE  PlacesInv'
<1> USE DEF RoomInv
<1>1. /\ at' \in [Players -> TableIds \cup {NoTable}]
      /\ seat' \in [TableIds -> [Seats -> Players \cup {Nobody}]]
      /\ ready' \subseteq Players
      /\ SeatsAgree'
      /\ \A p \in Players : at'[p] = IF p \in S THEN NoTable ELSE at[p]
  BY LeaveTableSeats
<1>2. PlayerNumExact' /\ playerNum' \in Int
  BY LeaveRoomCount
<1>3. /\ inRoom' \subseteq Players /\ waiting' \subseteq Players
      /\ exclude' \in [Players -> TableIds \cup {NoTable}]
  BY DEF LeaveRoom, TypeOK
<1>4. WhereAllowed'
  BY <1>1 DEF WhereAllowed, LeaveRoom, LeaveTable, TypeOK
<1>5. PlayingFull'
  <2> SUFFICES ASSUME NEW t \in playing', NEW c \in Seats
               PROVE  seat'[t][c] # Nobody
    BY DEF PlayingFull, IsFullTable
  <2>1. t \in TableIds /\ t \in playing /\ seat[t][c] # Nobody
    BY DEF PlayingFull, IsFullTable, TypeOK
  <2>2. seat[t][c] \in Players /\ at[seat[t][c]] = t
    BY <2>1 DEF SeatsAgree, TypeOK
  <2>3. seat[t][c] \notin S
    BY <2>2
  <2> QED
    BY <2>1, <2>3 DEF LeaveTable
<1> QED
  BY <1>1, <1>2, <1>3, <1>4, <1>5 DEF PlacesInv

\* Players leave tables that are free, and some that are in the room queue again.
LEMMA Requeue ==
  ASSUME RoomInv, NEW S \in SUBSET Players, NEW T \in SUBSET inRoom,
         NEW t \in TableIds \cup {NoTable},
         LeaveTable(S), JoinMarry(T, t), UNCHANGED <<inRoom, playerNum, playing>>,
         \A p \in S : at[p] \notin playing, \A p \in T \ S : at[p] = NoTable
  PROVE  PlacesInv'
<1> USE DEF RoomInv
<1>1. /\ at' \in [Players -> TableIds \cup {NoTable}]
      /\ seat' \in [TableIds -> [Seats -> Players \cup {Nobody}]]
      /\ ready' \subseteq Players
      /\ SeatsAgree'
      /\ \A p \in Players : at'[p] = IF p \in S THEN NoTable ELSE at[p]
  BY LeaveTableSeats
<1>2. PlayerNumExact' /\ playerNum' \in Int
  BY DEF PlayerNumExact, TypeOK
<1>3. /\ inRoom' \subseteq Players /\ waiting' \subseteq Players
      /\ exclude' \in [Players -> TableIds \cup {NoTable}]
  BY DEF JoinMarry, TypeOK
<1>4. WhereAllowed'
  BY <1>1 DEF WhereAllowed, JoinMarry, LeaveTable, TypeOK
<1>5. PlayingFull'
  <2> SUFFICES ASSUME NEW u \in playing, NEW c \in Seats
               PROVE  seat'[u][c] # Nobody
    BY DEF PlayingFull, IsFullTable
  <2>1. u \in TableIds /\ seat[u][c] # Nobody
    BY DEF PlayingFull, IsFullTable, TypeOK
  <2>2. seat[u][c] \in Players /\ at[seat[u][c]] = u
    BY <2>1 DEF SeatsAgree, TypeOK
  <2>3. seat[u][c] \notin S
    BY <2>2
  <2> QED
    BY <2>1, <2>3 DEF LeaveTable
<1> QED
  BY <1>1, <1>2, <1>3, <1>4, <1>5 DEF PlacesInv

\* A player in the room takes a chair, and is no longer queued.
LEMMA Seated ==
  ASSUME RoomInv, NEW p \in Players, NEW t \in TableIds, at[p] = NoTable, SitDown(p, t),
         ready' = ready \cup {p}, waiting' \subseteq waiting \ {p},
         exclude' \in [Players -> TableIds \cup {NoTable}],
         inRoom' = inRoom \cup {p}, playerNum' = IF p \in inRoom THEN playerNum ELSE playerNum + 1,
         UNCHANGED playing
  PROVE  PlacesInv'
<1> USE DEF RoomInv
<1>1. /\ at' \in [Players -> TableIds \cup {NoTable}]
      /\ seat' \in [TableIds -> [Seats -> Players \cup {Nobody}]]
      /\ SeatsAgree'
      /\ \A q \in Players : at'[q] = IF q = p THEN t ELSE at[q]
      /\ \A u \in TableIds, c \in Seats : seat[u][c] # Nobody => seat'[u][c] = seat[u][c]
  BY SitDownSeats
<1>2. ready' \subseteq Players /\ inRoom' \subseteq Players /\ waiting' \subseteq Players
  BY DEF TypeOK
<1>3. PlayerNumExact' /\ playerNum' \in Int
  <2>1. inRoom \in SUBSET Players
    BY DEF TypeOK
  <2>2. IsFiniteSet(inRoom)
    BY <2>1, PlayersFinite
  <2>3. Cardinality(inRoom \cup {p}) = IF p \in inRoom THEN Cardinality(inRoom) ELSE Cardinality(inRoom) + 1
    BY <2>2, FS_AddElement
  <2> QED
    BY <2>3 DEF PlayerNumExact, TypeOK
<1>4. WhereAllowed'
  BY <1>1, NoTableId DEF WhereAllowed, TypeOK
<1>5. PlayingFull'
  BY <1>1 DEF PlayingFull, IsFullTable, TypeOK
<1> QED
  BY <1>1, <1>2, <1>3, <1>4, <1>5 DEF PlacesInv

\* Nobody moves: seated players become ready or not, free full tables start.
LEMMA NobodyMoves ==
  ASSUME RoomInv, UNCHANGED <<at, seat, inRoom, playerNum, waiting, exclude>>,
         ready' \subseteq Players, \A p \in ready' \ ready : at[p] # NoTable,
         \A t \in playing' \ playing : IsFullTable(t)
  PROVE  PlacesInv'
<1> USE DEF RoomInv
<1>1. SeatsAgree'
  BY DEF SeatsAgree, Sitting
<1>2. WhereAllowed' /\ PlayerNumExact'
  BY DEF WhereAllowed, PlayerNumExact
<1>3. PlayingFull'
  BY DEF PlayingFull, IsFullTable
<1> QED
  BY <1>1, <1>2, <1>3 DEF PlacesInv, TypeOK

-----------------------------------------------------------------------------
\* Between callbacks the room may change in any way RestInv allows.
LEMMA IdleRest ==
  ASSUME RoomInv, pc = "idle", UNCHANGED <<roomIndex, fresh, pc, cur>>,
         status' \in {"normal", "retire", "repair"},
         online' \subseteq Players, inRoom' \subseteq online',
         playing' \subseteq TableIds,
         blocks' \in [Players -> SUBSET Players],
         score' \in [Players -> ScoreClasses]
  PROVE  RestInv'
BY DEF RestInv, RoomInv, TypeOK, CallbackOK

LEMMA LoginOutKeeps ==
  ASSUME RoomInv, NEW S \in SUBSET Players, LoginOut(S), pc = "idle",
         UNCHANGED <<roomIndex, playing, fresh, score, pc, cur>>,
         status' \in {"normal", "retire", "repair"},
         \A p \in S : at[p] \notin playing
  PROVE  RoomInv'
<1>1. PlacesInv'
  BY MoveOut DEF LoginOut
<1>2. online' \subseteq Players /\ inRoom' \subseteq online'
  BY DEF RoomInv, TypeOK, LoginOut, LeaveRoom
<1>3. blocks' \in [Players -> SUBSET Players]
  BY DEF RoomInv, TypeOK, LoginOut
<1>4. RestInv'
  BY <1>2, <1>3, IdleRest DEF RoomInv, TypeOK
<1> QED
  BY <1>1, <1>4, RoomInvParts, PTL

LEMMA InitInv == Init => RoomInv
<1> SUFFICES ASSUME Init PROVE RoomInv
  OBVIOUS
<1>1. TypeOK
  BY DEF Init, TypeOK, NoTable
<1>2. SeatsAgree /\ WhereAllowed /\ PlayingFull
  BY DEF Init, SeatsAgree, WhereAllowed, PlayingFull, NoTable
<1>3. PlayerNumExact /\ CallbackOK
  BY FS_EmptySet DEF Init, PlayerNumExact, CallbackOK
<1> QED
  BY <1>1, <1>2, <1>3 DEF RoomInv

\* The steps of one human.
LEMMA HumanStepInv ==
  ASSUME RoomInv, NEW p \in Humans, HumanStep(p)
  PROVE  RoomInv'
<1> USE DEF RoomInv, Idle
<1>0. p \in Players /\ {p} \in SUBSET Players /\ NoTable \notin playing
  BY NoTableId DEF Players, TypeOK
<1>1. CASE EnterSvr(p)
  <2>1. PlacesInv'
    BY <1>1, NobodyMoves DEF EnterSvr, StayInRoom, StayAtTable, StayInQueue, TypeOK
  <2>2. RestInv'
    BY <1>0, <1>1, IdleRest DEF EnterSvr, StayInRoom, TypeOK
  <2> QED
    BY <2>1, <2>2, RoomInvParts, PTL
<1>2. CASE NetStateDown(p)
  <2>1. PlacesInv'
    <3>1. CASE at[p] # NoTable /\ Free(at[p])
      BY <3>1, <1>0, <1>2, MoveOut DEF NetStateDown, Free
    <3>2. CASE ~(at[p] # NoTable /\ Free(at[p]))
      BY <3>2, <1>2, NobodyMoves DEF NetStateDown, StayInRoom, StayAtTable, StayInQueue, TypeOK
    <3> QED
      BY <3>1, <3>2
  <2>2. inRoom' \subseteq online'
    BY <1>2 DEF NetStateDown, LeaveRoom, StayInRoom, TypeOK
  <2>3. RestInv'
    BY <1>2, <2>2, IdleRest DEF NetStateDown, TypeOK
  <2> QED
    BY <2>1, <2>3, RoomInvParts, PTL
<1>3. CASE BackLobby(p)
  <2>1. \A q \in {p} : at[q] \notin playing
    BY <1>0, <1>3 DEF BackLobby, CanBackLobby, Free
  <2> QED
    BY <1>0, <1>3, <2>1, LoginOutKeeps DEF BackLobby, TypeOK
<1>4. CASE EnterRoom(p)
  <2>1. PlayerNumExact'
    <3>1. inRoom \in SUBSET Players /\ p \notin inRoom
      BY <1>4 DEF EnterRoom, TypeOK
    <3>2. IsFiniteSet(inRoom)
      BY <3>1, PlayersFinite
    <3>3. Cardinality(inRoom \cup {p}) = Cardinality(inRoom) + 1
      BY <3>1, <3>2, FS_AddElement
    <3> QED
      BY <1>4, <3>3 DEF EnterRoom, PlayerNumExact
  <2>2. SeatsAgree' /\ PlayingFull' /\ WhereAllowed'
    BY <1>4 DEF EnterRoom, StayAtTable, StayInQueue, SeatsAgree, Sitting, PlayingFull, IsFullTable, WhereAllowed
  <2>3. PlacesInv'
    BY <1>0, <1>4, <2>1, <2>2 DEF EnterRoom, StayAtTable, StayInQueue, PlacesInv, TypeOK
  <2>4. RestInv'
    BY <1>4, IdleRest DEF EnterRoom, TypeOK
  <2> QED
    BY <2>3, <2>4, RoomInvParts, PTL
<1>5. CASE \E t \in TableIds \cup {NoTable} : QueueUp(p, t)
  <2> PICK t \in TableIds \cup {NoTable} : QueueUp(p, t)
    BY <1>5
  <2>1. PlacesInv'
    BY <1>0, Requeue DEF QueueUp, StayInRoom, Free
  <2>2. RestInv'
    BY IdleRest DEF QueueUp, StayInRoom, TypeOK
  <2> QED
    BY <2>1, <2>2, RoomInvParts, PTL
<1>6. CASE LeaveTableReq(p)
  <2>1. PlacesInv'
    BY <1>0, <1>6, MoveOut DEF LeaveTableReq, Free
  <2>2. RestInv'
    BY <1>6, IdleRest DEF LeaveTableReq, LeaveRoom, TypeOK
  <2> QED
    BY <2>1, <2>2, RoomInvParts, PTL
<1>7. CASE TableReady(p)
  <2>1. at[p] \in TableIds /\ at[p] \notin playing /\ p \in inRoom
    BY <1>0, <1>7 DEF TableReady, TypeOK, Free, WhereAllowed
  <2>2. PlacesInv' /\ inRoom' \subseteq inRoom
    <3>1. CASE LeaveTable({p}) /\ LeaveRoom({p})
      BY <3>1, <1>0, <1>7, <2>1, MoveOut DEF TableReady, LeaveRoom
    <3>2. CASE LeaveTable({p}) /\ JoinMarry({p}, at[p]) /\ StayInRoom
      BY <3>2, <1>0, <1>7, <2>1, Requeue DEF TableReady, StayInRoom
    <3>3. CASE ready' = ready \cup {p} /\ UNCHANGED <<at, seat>> /\ StayInRoom /\ StayInQueue
      BY <3>3, <1>0, <1>7, NobodyMoves DEF TableReady, StayInRoom, StayInQueue, TypeOK
    <3> QED
      BY <1>7, <3>1, <3>2, <3>3 DEF TableReady, PlayerReady
  <2>3. RestInv'
    BY <1>7, <2>2, IdleRest DEF TableReady, TypeOK
  <2> QED
    BY <2>2, <2>3, RoomInvParts, PTL
<1> QED
  BY <1>1, <1>2, <1>3, <1>4, <1>5, <1>6, <1>7 DEF HumanStep

\* The steps of one robot outside the table tick.
LEMMA RobotStepInv ==
  ASSUME RoomInv, NEW r \in Robots, RobotStep(r)
  PROVE  RoomInv'
<1> USE DEF RoomInv, Idle
<1>0. r \in Players /\ {r} \in SUBSET Players /\ NoTable \notin playing
  BY NoTableId DEF Players, TypeOK
<1>1. CASE EnterSvr(r)
  <2>1. PlacesInv'
    BY <1>1, NobodyMoves DEF EnterSvr, StayInRoom, StayAtTable, StayInQueue, TypeOK
  <2>2. RestInv'
    BY <1>0, <1>1, IdleRest DEF EnterSvr, StayInRoom, TypeOK
  <2> QED
    BY <2>1, <2>2, RoomInvParts, PTL
<1>2. CASE RobotBackPool(r)
  <2>1. PlacesInv'
    BY <1>0, <1>2, MoveOut DEF RobotBackPool, CanBackLobby, Free
  <2>2. RestInv'
    BY <1>2, IdleRest DEF RobotBackPool, LeaveRoom, TypeOK
  <2> QED
    BY <2>1, <2>2, RoomInvParts, PTL
<1>3. CASE RobotBackLobby(r)
  BY <1>0, <1>3, LoginOutKeeps DEF RobotBackLobby, TypeOK
<1>4. CASE RobotClearBlocker(r)
  <2>1. PlacesInv'
    BY <1>4, NobodyMoves DEF RobotClearBlocker, StayInRoom, StayAtTable, StayInQueue, TypeOK
  <2>2. RestInv'
    BY <1>4, IdleRest DEF RobotClearBlocker, StayInRoom, TypeOK
  <2> QED
    BY <2>1, <2>2, RoomInvParts, PTL
<1> QED
  BY <1>1, <1>2, <1>3, <1>4 DEF RobotStep

\* One iteration of the matching loop that seats p or lets it out.
LEMMA EnterTableKeeps ==
  ASSUME RoomInv, NEW p \in waiting, NEW t \in TableIds, EnterTable(p, t), UNCHANGED playing
  PROVE  PlacesInv' /\ inRoom' \subseteq inRoom /\ waiting' = waiting \ {p}
<1> USE DEF RoomInv
<1>0. p \in Players /\ {p} \in SUBSET Players /\ at[p] = NoTable /\ p \in inRoom /\ NoTable \notin playing
  BY NoTableId DEF TypeOK, WhereAllowed
<1>1. CASE LeaveTable({p}) /\ LeaveRoom({p})
  BY <1>0, <1>1, MoveOut DEF LeaveRoom
<1>2. CASE SitDown(p, t) /\ ready' = ready \cup {p} /\ StayInRoom /\ LeaveMarry(p)
  <2>1. exclude' \in [Players -> TableIds \cup {NoTable}]
    BY <1>2 DEF LeaveMarry, TypeOK
  <2> QED
    BY <1>0, <1>2, <2>1, Seated DEF LeaveMarry, StayInRoom
<1> QED
  BY <1>1, <1>2 DEF EnterTable

LEMMA MarryStepInv ==
  ASSUME RoomInv, MarryTick \/ MarryStep
  PROVE  RoomInv'
<1> USE DEF RoomInv, Idle
<1>1. CASE MarryTick
  <2>1. PlacesInv'
    BY <1>1, NobodyMoves DEF MarryTick, StayInRoom, StayAtTable, StayInQueue, TypeOK
  <2>2. RestInv'
    BY <1>1 DEF MarryTick, RestInv, StayInRoom, StayInQueue, TypeOK, CallbackOK, NoTable
  <2> QED
    BY <2>1, <2>2, RoomInvParts, PTL
<1>2. ASSUME NEW p \in Players, MarryJoin(p)
      PROVE  RoomInv'
  <2>1. PICK t \in BestTables(p) : EnterTable(p, t)
    BY <1>2 DEF MarryJoin
  <2>2. t \in TableIds
    BY <2>1 DEF BestTables, ReadyTables, TypeOK, TableIds
  <2>3. PlacesInv' /\ inRoom' \subseteq inRoom /\ waiting' = waiting \ {p}
    BY <1>2, <2>1, <2>2, EnterTableKeeps DEF MarryJoin
  <2>4. Cardinality(waiting') <= Cardinality(waiting)
    BY <2>3, PlayersFinite, FS_Subset DEF TypeOK
  <2>5. Cardinality(waiting) \in Nat /\ Cardinality(waiting') \in Nat
    BY <2>3, PlayersFinite DEF TypeOK
  <2>6. RestInv'
    BY <1>2, <2>3, <2>4, <2>5 DEF MarryJoin, RestInv, TypeOK, CallbackOK
  <2> QED
    BY <2>3, <2>6, RoomInvParts, PTL
<1>3. ASSUME NEW p \in Players, MarryMalloc(p)
      PROVE  RoomInv'
  <2>0. p \in waiting /\ {p} \in SUBSET Players /\ at[p] = NoTable /\ NoTable \notin playing
    BY <1>3, NoTableId DEF MarryMalloc, TypeOK, WhereAllowed
  <2>1. IsFiniteSet(waiting) /\ Cardinality(waiting) \in Nat
    BY PlayersFinite DEF TypeOK
  <2>2. Cardinality(waiting \ {p}) = Cardinality(waiting) - 1 /\ Cardinality(waiting \ {p}) \in Nat
    BY <2>0, <2>1, FS_RemoveElement, FS_CardinalityType
  <2>3. roomIndex + 1 \in TableIds
    BY <1>3, <2>1, <2>2 DEF MarryMalloc, CallbackOK, TypeOK, TableIds
  <2>4. NextFresh \in TableIds
    BY <2>3 DEF NextFresh, TypeOK, TableIds, NoTable
  <2>5. PlacesInv' /\ inRoom' \subseteq inRoom /\ waiting' = waiting \ {p}
    <3>1. CASE EnterTable(p, NextFresh)
      BY <3>1, <1>3, <2>0, <2>4, EnterTableKeeps DEF MarryMalloc
    <3>2. CASE LeaveRoom({p}) /\ StayAtTable
      <4>1. LeaveTable({p})
        <5>1. \A u \in TableIds, c \in Seats : seat[u][c] # p
          BY <2>0, NoTableId DEF SeatsAgree, Players
        <5>2. p \notin ready
          BY <2>0 DEF WhereAllowed
        <5>3. seat' = [u \in TableIds |-> [c \in Seats |-> IF seat[u][c] \in {p} THEN Nobody ELSE seat[u][c]]]
          BY <3>2, <5>1 DEF StayAtTable, TypeOK
        <5> QED
          BY <3>2, <2>0, <5>2, <5>3 DEF StayAtTable, LeaveTable, TypeOK
      <4> QED
        BY <3>2, <4>1, <1>3, <2>0, MoveOut DEF MarryMalloc, LeaveRoom
    <3> QED
      BY <1>3, <3>1, <3>2 DEF MarryMalloc
  <2>6. roomIndex' \in 0..MaxTables /\ roomIndex' <= roomIndex + 1 /\ fresh' \in 0..roomIndex'
    BY <1>3, <2>3, <2>4 DEF MarryMalloc, TypeOK, TableIds, NextFresh, NoTable
  <2>7. CallbackOK'
    BY <1>3, <2>1, <2>2, <2>5, <2>6 DEF MarryMalloc, CallbackOK, TypeOK
  <2>8. RestInv'
    BY <1>3, <2>4, <2>5, <2>6, <2>7 DEF MarryMalloc, RestInv, TypeOK
  <2> QED
    BY <2>5, <2>8, RoomInvParts, PTL
<1>4. CASE MarryEnd
  <2>1. PlacesInv'
    BY <1>4, NobodyMoves DEF MarryEnd, StayInRoom, StayAtTable, StayInQueue, TypeOK
  <2>2. RestInv'
    BY <1>4 DEF MarryEnd, Return, RestInv, StayInRoom, TypeOK, CallbackOK, NoTable
  <2> QED
    BY <2>1, <2>2, RoomInvParts, PTL
<1> QED
  BY <1>1, <1>2, <1>3, <1>4 DEF MarryStep

\* The robots a table tick moves: those of the table, or one that joins it.
LEMMA TableTickInv ==
  ASSUME RoomInv, NEW t \in TableIds, TableTick(t)
  PROVE  RoomInv'
<1> USE DEF RoomInv, Idle
<1>0. t \notin playing /\ NoTable \notin playing /\ UNCHANGED playing
  BY NoTableId DEF TableTick, Free, TypeOK
<1>1. PlacesInv' /\ inRoom' \subseteq online
  <2>1. CASE StayInRoom /\ StayAtTable /\ StayInQueue
    BY <1>0, <2>1, NobodyMoves DEF StayInRoom, StayAtTable, StayInQueue, TypeOK
  <2>2. ASSUME NEW r \in Robots, RobotTurn(r, t)
        PROVE  PlacesInv' /\ inRoom' \subseteq online
    <3>0. /\ r \in Players /\ {r} \in SUBSET Players /\ at[r] = t /\ r \in inRoom
          /\ {} \in SUBSET inRoom /\ NoTable \in TableIds \cup {NoTable}
      BY <2>2, NoTableId DEF RobotTurn, SeatsAgree, WhereAllowed, Players, TypeOK
    <3>1. CASE LeaveTable({r}) /\ StayInRoom /\ StayInQueue
      <4>1. JoinMarry({}, NoTable)
        BY <3>1 DEF JoinMarry, StayInQueue, TypeOK
      <4> QED
        BY <1>0, <3>0, <3>1, <4>1, Requeue DEF StayInRoom, TypeOK
    <3>2. CASE LeaveTable({r}) /\ LeaveRoom({r})
      BY <1>0, <3>0, <3>2, MoveOut DEF LeaveRoom, TypeOK
    <3>3. CASE ready' = ready \cup {r} /\ UNCHANGED <<at, seat>> /\ StayInRoom /\ StayInQueue
      BY <1>0, <3>0, <3>3, NoTableId, NobodyMoves DEF StayInRoom, StayInQueue, TypeOK
    <3> QED
      BY <2>2, <3>1, <3>2, <3>3 DEF RobotTurn
  <2>3. ASSUME NEW r \in Robots, RobotJoin(r, t)
        PROVE  PlacesInv' /\ inRoom' \subseteq online
    <3>1. r \in Players /\ r \notin inRoom /\ r \notin waiting /\ at[r] = NoTable
      BY <2>3 DEF RobotJoin, Players, WhereAllowed, TypeOK
    <3> QED
      BY <1>0, <2>3, <3>1, Seated DEF RobotJoin, StayInQueue, TypeOK
  <2> QED
    BY <2>1, <2>2, <2>3 DEF TableTick, CheckAddRobot
<1>2. RestInv'
  BY <1>0, <1>1 DEF TableTick, RestInv, TypeOK, CallbackOK
<1> QED
  BY <1>1, <1>2, RoomInvParts, PTL

LEMMA TickStepInv ==
  ASSUME RoomInv, TickStep
  PROVE  RoomInv'
<1> USE DEF RoomInv
<1>1. CASE CheckReadyTimeOut
  <2>1. PICK S \in SUBSET (Sitting(cur) \cap ready) : LeaveTable(S) /\ JoinMarry(S \cap Humans, cur)
    BY <1>1 DEF CheckReadyTimeOut
  <2>2. cur \in TableIds /\ cur \notin playing
    BY <1>1 DEF CheckReadyTimeOut, CallbackOK
  <2>3. \A p \in S : p \in Players /\ at[p] = cur /\ p \in inRoom
    BY <2>1, <2>2, NoTableId DEF Sitting, SeatsAgree, WhereAllowed, Players
  <2>4. PlacesInv'
    BY <1>1, <2>1, <2>2, <2>3, Requeue DEF CheckReadyTimeOut, StayInRoom
  <2>5. RestInv'
    BY <1>1 DEF CheckReadyTimeOut, StayInRoom, RestInv, TypeOK, CallbackOK
  <2> QED
    BY <2>4, <2>5, RoomInvParts, PTL
<1>2. CASE OnGameStart
  <2>1. cur \in TableIds
    BY <1>2 DEF OnGameStart, CallbackOK
  <2>2. PlacesInv'
    BY <1>2, <2>1, NobodyMoves DEF OnGameStart, IsAllReady, IsFullTable, StayInRoom, StayAtTable, StayInQueue, TypeOK
  <2>3. RestInv'
    BY <1>2, <2>1 DEF OnGameStart, Return, StayInRoom, RestInv, TypeOK, CallbackOK
  <2> QED
    BY <2>2, <2>3, RoomInvParts, PTL
<1> QED
  BY <1>1, <1>2 DEF TickStep

\* A game is dealt again, or ends.
LEMMA GameStepInv ==
  ASSUME RoomInv, NEW t \in TableIds, ReGameStart(t) \/ OnGameEnd(t)
  PROVE  RoomInv'
<1> USE DEF RoomInv, Idle
<1>1. CASE ReGameStart(t)
  <2>1. PlacesInv'
    BY <1>1, NobodyMoves DEF ReGameStart, StayInRoom, StayInQueue, TypeOK
  <2>2. RestInv'
    BY <1>1, IdleRest DEF ReGameStart, StayInRoom, TypeOK
  <2> QED
    BY <2>1, <2>2, RoomInvParts, PTL
<1>2. CASE OnGameEnd(t)
  <2>1. Sitting(t) \in SUBSET Players /\ \A p \in Sitting(t) : at[p] = t
    BY NoTableId DEF Sitting, SeatsAgree, Players
  <2>2. PlacesInv' /\ inRoom' \subseteq online' /\ online' \subseteq Players
    <3>1. CASE status = "retire"
      BY <3>1, <1>2, <2>1, MoveOut DEF OnGameEnd, LeaveRoom, TypeOK
    <3>2. CASE status # "retire"
      BY <3>2, <1>2, NobodyMoves DEF OnGameEnd, StayInRoom, StayInQueue, TypeOK
    <3> QED
      BY <3>1, <3>2
  <2>3. BlocksAfter(t) \in [Players -> SUBSET Players]
    BY <2>1 DEF BlocksAfter, TypeOK
  <2>4. blocks' \in [Players -> SUBSET Players]
    BY <1>2, <2>3 DEF OnGameEnd
  <2>5. score' \in [Players -> ScoreClasses]
    BY <1>2 DEF OnGameEnd, TypeOK
  <2>6. RestInv'
    BY <1>2, <2>2, <2>4, <2>5, IdleRest DEF OnGameEnd, TypeOK
  <2> QED
    BY <2>2, <2>6, RoomInvParts, PTL
<1> QED
  BY <1>1, <1>2

\* Balances, retirement and repair.
LEMMA ServerStepInv ==
  ASSUME RoomInv, (\E p \in Players : ScoreChange(p)) \/ StartRetire \/ StopServer
  PROVE  RoomInv'
<1> USE DEF RoomInv, Idle
<1>1. ASSUME NEW p \in Players, ScoreChange(p)
      PROVE  RoomInv'
  <2>1. PlacesInv'
    BY <1>1, NobodyMoves DEF ScoreChange, StayInRoom, StayAtTable, StayInQueue, TypeOK
  <2>2. RestInv'
    BY <1>1, IdleRest DEF ScoreChange, StayInRoom, TypeOK
  <2> QED
    BY <2>1, <2>2, RoomInvParts, PTL
<1>2. CASE StartRetire
  <2> DEFINE S == {p \in online : \/ at[p] # NoTable /\ Free(at[p])
                                  \/ at[p] = NoTable /\ p \in Robots}
  <2>1. S \in SUBSET Players /\ \A p \in S : at[p] \notin playing
    BY NoTableId DEF Free, TypeOK
  <2>2. LoginOut(S)
    BY <1>2 DEF StartRetire
  <2> QED
    BY <1>2, <2>1, <2>2, LoginOutKeeps DEF StartRetire
<1>3. CASE StopServer
  <2>1. PlacesInv'
    BY <1>3, NobodyMoves DEF StopServer, StayInRoom, StayAtTable, StayInQueue, TypeOK
  <2>2. RestInv'
    BY <1>3, IdleRest DEF StopServer, StayInRoom, TypeOK
  <2> QED
    BY <2>1, <2>2, RoomInvParts, PTL
<1> QED
  BY <1>1, <1>2, <1>3

LEMMA StepInv == RoomInv /\ [Next]_vars => RoomInv'
<1> SUFFICES ASSUME RoomInv, [Next]_vars
             PROVE  RoomInv'
  OBVIOUS
<1>1. CASE \E p \in Humans : HumanStep(p)
  BY <1>1, HumanStepInv
<1>2. CASE \E r \in Robots : RobotStep(r)
  BY <1>2, RobotStepInv
<1>3. CASE (\E p \in Players : ScoreChange(p)) \/ StartRetire \/ StopServer
  BY <1>3, ServerStepInv
<1>4. CASE MarryTick \/ MarryStep
  BY <1>4, MarryStepInv
<1>5. CASE \E t \in TableIds : TableTick(t)
  BY <1>5, TableTickInv
<1>6. CASE \E t \in TableIds : ReGameStart(t) \/ OnGameEnd(t)
  BY <1>6, GameStepInv
<1>7. CASE TickStep
  BY <1>7, TickStepInv
<1>8. CASE UNCHANGED vars
  BY <1>8 DEF vars, RoomInv, TypeOK, SeatsAgree, Sitting, WhereAllowed, PlayerNumExact,
             PlayingFull, IsFullTable, CallbackOK
<1> QED
  BY <1>1, <1>2, <1>3, <1>4, <1>5, <1>6, <1>7, <1>8 DEF Next

\* The room is consistent after any run of handlers and timers, for any number
\* of players, tables and chairs: seats, table pointers, queue and room agree,
\* the counter is exact and running games are full.
THEOREM RoomCorrect == Spec => []RoomInv
<1>1. Init => RoomInv
  BY InitInv
<1>2. RoomInv /\ [Next]_vars => RoomInv'
  BY StepInv
<1> QED
  BY <1>1, <1>2, PTL DEF Spec

\* Every variable keeps its type: seats hold players or nobody, and the table
\* ids the room hands out are ids of its tables.
THEOREM TypeCorrect == Spec => []TypeOK
<1>1. RoomInv => TypeOK
  BY DEF RoomInv
<1> QED
  BY <1>1, RoomCorrect, PTL

\* What LeaveTable, LeaveRoom and their callers do never separates a seat from
\* the table pointer of the player on it.
THEOREM SeatsCorrect == Spec => []SeatsAgree
<1>1. RoomInv => SeatsAgree
  BY DEF RoomInv
<1> QED
  BY <1>1, RoomCorrect, PTL

\* The queue and the seats hold only players that are in the room.
THEOREM WhereCorrect == Spec => []WhereAllowed
<1>1. RoomInv => WhereAllowed
  BY DEF RoomInv
<1> QED
  BY <1>1, RoomCorrect, PTL

\* m_playerNum never drifts from the number of players in the room.
THEOREM PlayerNumCorrect == Spec => []PlayerNumExact
<1>1. RoomInv => PlayerNumExact
  BY DEF RoomInv
<1> QED
  BY <1>1, RoomCorrect, PTL

-----------------------------------------------------------------------------
(* What no step may do.                                                    *)

Keeps == \A p \in Players : at[p] \in playing /\ at'[p] # at[p] => at[p] \notin playing'
Serves == \A p \in waiting \ waiting' : at'[p] # NoTable \/ p \notin inRoom'

\* A step that only takes players of S from their tables, and out of the queue
\* only by way of the room, takes nobody from a game and forgets nobody.
LEMMA LeavingKeeps ==
  ASSUME RoomInv, NEW S \in SUBSET Players, LeaveTable(S), LeaveRoom(S),
         \A p \in S : at[p] \notin playing'
  PROVE  Keeps /\ Serves
BY DEF Keeps, Serves, LeaveTable, LeaveRoom, RoomInv, TypeOK

LEMMA RequeueKeeps ==
  ASSUME RoomInv, NEW S \in SUBSET Players, LeaveTable(S),
         waiting \subseteq waiting',
         \A p \in S : at[p] \notin playing'
  PROVE  Keeps /\ Serves
BY DEF Keeps, Serves, LeaveTable, RoomInv, TypeOK

LEMMA SeatingKeeps ==
  ASSUME RoomInv, NEW p \in Players, NEW t \in TableIds, at[p] = NoTable, SitDown(p, t),
         waiting \ waiting' \subseteq {p}
  PROVE  Keeps /\ Serves
BY NoTableId DEF Keeps, Serves, SitDown, RoomInv, TypeOK

LEMMA StayingKeeps ==
  ASSUME RoomInv, UNCHANGED <<at, waiting>>
  PROVE  Keeps /\ Serves
BY DEF Keeps, Serves

LEMMA HumanStepKeeps ==
  ASSUME RoomInv, NEW p \in Humans, HumanStep(p)
  PROVE  Keeps /\ Serves
<1> USE DEF RoomInv
<1>0. p \in Players /\ {p} \in SUBSET Players /\ NoTable \notin playing
  BY NoTableId DEF Players, TypeOK
<1>1. CASE EnterSvr(p) \/ EnterRoom(p)
  BY <1>1, StayingKeeps DEF EnterSvr, EnterRoom, StayAtTable, StayInQueue
<1>2. CASE NetStateDown(p)
  <2>1. CASE at[p] # NoTable /\ Free(at[p])
    BY <2>1, <1>0, <1>2, LeavingKeeps DEF NetStateDown, Free
  <2>2. CASE ~(at[p] # NoTable /\ Free(at[p]))
    BY <2>2, <1>2, StayingKeeps DEF NetStateDown, StayAtTable, StayInQueue
  <2> QED
    BY <2>1, <2>2
<1>3. CASE BackLobby(p)
  BY <1>0, <1>3, LeavingKeeps DEF BackLobby, LoginOut, CanBackLobby, Free
<1>4. CASE \E t \in TableIds \cup {NoTable} : QueueUp(p, t)
  BY <1>0, <1>4, RequeueKeeps DEF QueueUp, JoinMarry, Free
<1>5. CASE LeaveTableReq(p)
  BY <1>0, <1>5, LeavingKeeps DEF LeaveTableReq, Free
<1>6. CASE TableReady(p)
  <2>1. at[p] \notin playing'
    BY <1>6 DEF TableReady, Free
  <2>2. CASE LeaveTable({p}) /\ LeaveRoom({p})
    BY <2>1, <2>2, <1>0, LeavingKeeps
  <2>3. CASE LeaveTable({p}) /\ JoinMarry({p}, at[p])
    BY <2>1, <2>3, <1>0, RequeueKeeps DEF JoinMarry
  <2>4. CASE UNCHANGED <<at, seat>> /\ StayInQueue
    BY <2>4, StayingKeeps DEF StayInQueue
  <2> QED
    BY <1>6, <2>2, <2>3, <2>4 DEF TableReady, PlayerReady
<1> QED
  BY <1>1, <1>2, <1>3, <1>4, <1>5, <1>6 DEF HumanStep

LEMMA RobotStepKeeps ==
  ASSUME RoomInv, NEW r \in Robots, RobotStep(r)
  PROVE  Keeps /\ Serves
<1> USE DEF RoomInv
<1>0. r \in Players /\ {r} \in SUBSET Players /\ NoTable \notin playing
  BY NoTableId DEF Players, TypeOK
<1>1. CASE EnterSvr(r) \/ RobotClearBlocker(r)
  BY <1>1, StayingKeeps DEF EnterSvr, RobotClearBlocker, StayAtTable, StayInQueue
<1>2. CASE RobotBackPool(r)
  BY <1>0, <1>2, LeavingKeeps DEF RobotBackPool, CanBackLobby, Free
<1>3. CASE RobotBackLobby(r)
  BY <1>0, <1>3, LeavingKeeps DEF RobotBackLobby, LoginOut
<1> QED
  BY <1>1, <1>2, <1>3 DEF RobotStep

LEMMA MarryStepKeeps ==
  ASSUME RoomInv, MarryTick \/ MarryStep
  PROVE  Keeps /\ Serves
<1> USE DEF RoomInv
<1>1. CASE MarryTick \/ MarryEnd
  BY <1>1, StayingKeeps DEF MarryTick, MarryEnd, StayAtTable, StayInQueue
<1>2. ASSUME NEW p \in waiting, NEW t \in TableIds, EnterTable(p, t), UNCHANGED playing
      PROVE  Keeps /\ Serves
  <2>0. p \in Players /\ {p} \in SUBSET Players /\ at[p] = NoTable /\ NoTable \notin playing'
    BY <1>2, NoTableId DEF TypeOK, WhereAllowed
  <2>1. CASE LeaveTable({p}) /\ LeaveRoom({p})
    BY <2>0, <2>1, LeavingKeeps
  <2>2. CASE SitDown(p, t) /\ LeaveMarry(p)
    BY <2>0, <2>2, SeatingKeeps DEF LeaveMarry
  <2> QED
    BY <1>2, <2>1, <2>2 DEF EnterTable
<1>3. ASSUME NEW p \in Players, MarryJoin(p)
      PROVE  Keeps /\ Serves
  <2>1. PICK t \in BestTables(p) : EnterTable(p, t)
    BY <1>3 DEF MarryJoin
  <2>2. t \in TableIds
    BY <2>1 DEF BestTables, ReadyTables, TypeOK, TableIds
  <2> QED
    BY <1>2, <1>3, <2>1, <2>2 DEF MarryJoin
<1>4. ASSUME NEW p \in Players, MarryMalloc(p)
      PROVE  Keeps /\ Serves
  <2>0. p \in waiting /\ UNCHANGED playing
    BY <1>4 DEF MarryMalloc
  <2>1. CASE EnterTable(p, NextFresh)
    <3>1. IsFiniteSet(waiting) /\ Cardinality(waiting) \in Nat
      BY PlayersFinite DEF TypeOK
    <3>2. Cardinality(waiting) # 0
      BY <2>0, <3>1, FS_EmptySet
    <3>3. NextFresh \in TableIds
      BY <1>4, <3>1, <3>2 DEF MarryMalloc, NextFresh, CallbackOK, TypeOK, TableIds, NoTable
    <3> QED
      BY <1>2, <2>0, <2>1, <3>3
  <2>2. CASE LeaveRoom({p}) /\ StayAtTable
    BY <2>2 DEF Keeps, Serves, LeaveRoom, StayAtTable
  <2> QED
    BY <1>4, <2>1, <2>2 DEF MarryMalloc
<1> QED
  BY <1>1, <1>3, <1>4 DEF MarryStep

LEMMA TickKeeps ==
  ASSUME RoomInv, (\E t \in TableIds : TableTick(t)) \/ TickStep
  PROVE  Keeps /\ Serves
<1> USE DEF RoomInv
<1>1. ASSUME NEW t \in TableIds, TableTick(t)
      PROVE  Keeps /\ Serves
  <2>0. t \notin playing'
    BY <1>1 DEF TableTick, Free
  <2>1. CASE StayAtTable /\ StayInQueue
    BY <2>1, StayingKeeps DEF StayAtTable, StayInQueue
  <2>2. ASSUME NEW r \in Robots, RobotTurn(r, t)
        PROVE  Keeps /\ Serves
    <3>0. r \in Players /\ {r} \in SUBSET Players /\ at[r] = t
      BY <2>2 DEF RobotTurn, SeatsAgree, Players, TypeOK
    <3>1. CASE LeaveTable({r}) /\ StayInQueue
      BY <2>0, <3>0, <3>1, RequeueKeeps DEF StayInQueue
    <3>2. CASE LeaveTable({r}) /\ LeaveRoom({r})
      BY <2>0, <3>0, <3>2, LeavingKeeps
    <3>3. CASE UNCHANGED <<at, seat>> /\ StayInQueue
      BY <3>3, StayingKeeps DEF StayInQueue
    <3> QED
      BY <2>2, <3>1, <3>2, <3>3 DEF RobotTurn
  <2>3. ASSUME NEW r \in Robots, RobotJoin(r, t)
        PROVE  Keeps /\ Serves
    BY <2>3, SeatingKeeps DEF RobotJoin, StayInQueue, Players
  <2> QED
    BY <1>1, <2>1, <2>2, <2>3 DEF TableTick, CheckAddRobot
<1>2. CASE CheckReadyTimeOut
  <2>1. PICK S \in SUBSET (Sitting(cur) \cap ready) : LeaveTable(S) /\ JoinMarry(S \cap Humans, cur)
    BY <1>2 DEF CheckReadyTimeOut
  <2>2. \A p \in S : p \in Players /\ at[p] \notin playing'
    BY <1>2, <2>1 DEF CheckReadyTimeOut, CallbackOK, Sitting, SeatsAgree, Players
  <2> QED
    BY <2>1, <2>2, RequeueKeeps DEF JoinMarry
<1>3. CASE OnGameStart
  BY <1>3, StayingKeeps DEF OnGameStart, StayAtTable, StayInQueue
<1> QED
  BY <1>1, <1>2, <1>3 DEF TickStep

LEMMA ServerStepKeeps ==
  ASSUME RoomInv, \/ \E p \in Players : ScoreChange(p)
                  \/ StartRetire \/ StopServer
                  \/ \E t \in TableIds : ReGameStart(t) \/ OnGameEnd(t)
  PROVE  Keeps /\ Serves
<1> USE DEF RoomInv
<1>1. CASE (\E p \in Players : ScoreChange(p)) \/ StopServer \/ \E t \in TableIds : ReGameStart(t)
  BY <1>1, StayingKeeps DEF ScoreChange, StopServer, ReGameStart, StayAtTable, StayInQueue
<1>2. CASE StartRetire
  <2> DEFINE S == {p \in online : \/ at[p] # NoTable /\ Free(at[p])
                                  \/ at[p] = NoTable /\ p \in Robots}
  <2>1. S \in SUBSET Players /\ \A p \in S : at[p] \notin playing'
    BY <1>2, NoTableId DEF StartRetire, Free, TypeOK
  <2>2. LeaveTable(S) /\ LeaveRoom(S)
    BY <1>2 DEF StartRetire, LoginOut
  <2> QED
    BY <2>1, <2>2, LeavingKeeps
<1>3. ASSUME NEW t \in TableIds, OnGameEnd(t)
      PROVE  Keeps /\ Serves
  <2>1. Sitting(t) \in SUBSET Players /\ \A p \in Sitting(t) : at[p] = t
    BY DEF Sitting, SeatsAgree, Players
  <2>2. CASE status = "retire"
    BY <2>1, <2>2, <1>3, LeavingKeeps DEF OnGameEnd
  <2>3. CASE status # "retire"
    BY <2>3, <1>3, StayingKeeps DEF OnGameEnd, StayInQueue
  <2> QED
    BY <2>2, <2>3
<1> QED
  BY <1>1, <1>2, <1>3

LEMMA StepKeeps == RoomInv /\ [Next]_vars => [Keeps]_vars /\ [Serves]_vars
<1> SUFFICES ASSUME RoomInv, Next
             PROVE  Keeps /\ Serves
  OBVIOUS
<1>1. CASE \E p \in Humans : HumanStep(p)
  BY <1>1, HumanStepKeeps
<1>2. CASE \E r \in Robots : RobotStep(r)
  BY <1>2, RobotStepKeeps
<1>3. CASE MarryTick \/ MarryStep
  BY <1>3, MarryStepKeeps
<1>4. CASE (\E t \in TableIds : TableTick(t)) \/ TickStep
  BY <1>4, TickKeeps
<1>5. CASE \/ \E p \in Players : ScoreChange(p)
           \/ StartRetire \/ StopServer
           \/ \E t \in TableIds : ReGameStart(t) \/ OnGameEnd(t)
  BY <1>5, ServerStepKeeps
<1> QED
  BY <1>1, <1>2, <1>3, <1>4, <1>5 DEF Next

\* No handler or timer takes a player from a table whose game goes on.
THEOREM GameKeepsCorrect == Spec => GameKeepsPlayers
<1>1. RoomInv /\ [Next]_vars => [\A p \in Players : at[p] \in playing /\ at'[p] # at[p] => at[p] \notin playing']_vars
  BY StepKeeps DEF Keeps
<1> QED
  BY <1>1, RoomCorrect, PTL DEF Spec, GameKeepsPlayers

\* No handler or timer drops a queued player that stays in the room.
THEOREM NobodyForgottenCorrect == Spec => NobodyForgotten
<1>1. RoomInv /\ [Next]_vars => [\A p \in waiting \ waiting' : at'[p] # NoTable \/ p \notin inRoom']_vars
  BY StepKeeps DEF Serves
<1> QED
  BY <1>1, RoomCorrect, PTL DEF Spec, NobodyForgotten

-----------------------------------------------------------------------------
(* Who meets in a game: GameInv adds to RoomInv that no two players that   *)
(* avoid each other are ready at one waiting table, and that a table has   *)
(* one human among robots or humans only.                                  *)
(*                                                                         *)
(* A step lets players leave, seats one player that CanEnterTable has let  *)
(* in, or moves nobody: one lemma says for each of the three what GameInv  *)
(* needs of it, and the theorem sorts the actions.  Last, a counting       *)
(* argument bounds the tables that matching allocates.                     *)

\* A table with robots has at most one human, and its human is missing only
\* while a chair is empty.
Mixed(t) ==
  /\ \A p, q \in Sitting(t) \cap Humans : p = q
  /\ Sitting(t) \cap Humans = {} => ~IsFullTable(t)

\* Robots never queue, so no robot is the first at a table.
MixInv ==
  /\ waiting \subseteq Humans
  /\ \A t \in TableIds : Sitting(t) \subseteq Humans \/ Mixed(t)

GameInv == RoomInv /\ NoAvoidedGame /\ MixInv

\* Nobody of table t that is ready avoids, or is avoided by, another there.
AtPeace(t) ==
  \A p \in Sitting(t) \cap ready : \A q \in Sitting(t) \ {p} :
    q \notin blocks[p] /\ p \notin blocks[q]

LEMMA AvoidedTables == NoAvoidedGame <=> \A t \in TableIds : t \notin playing => AtPeace(t)
BY DEF NoAvoidedGame, AtPeace, Free

-----------------------------------------------------------------------------
(* What the numbers CanEnterTable compares say about who sits at the table. *)

LEMMA SittingFinite ==
  ASSUME NEW t \in TableIds
  PROVE  /\ IsFiniteSet(Sitting(t)) /\ IsFiniteSet(Sitting(t) \cap Humans)
         /\ Sitting(t) \cap Humans \in SUBSET Sitting(t)
<1>1. Sitting(t) \in SUBSET Players /\ Sitting(t) \cap Humans \in SUBSET Players
  BY DEF Sitting
<1> QED
  BY <1>1, PlayersFinite

\* A human finds humans only, or robots only.
LEMMA HumanMayMix ==
  ASSUME NEW p \in Humans, NEW t \in TableIds, MixAllowed(p, t)
  PROVE  Sitting(t) \subseteq Humans \/ Sitting(t) \cap Humans = {}
<1>1. CASE GetOnlinePlayerNum(t) = GetChairPlayerNum(t)
  <2>1. Sitting(t) = Sitting(t) \cap Humans
    BY <1>1, SittingFinite, FS_Subset DEF GetOnlinePlayerNum, GetChairPlayerNum
  <2> QED
    BY <2>1
<1>2. CASE GetOnlinePlayerNum(t) = 0
  BY <1>2, SittingFinite, FS_EmptySet DEF GetOnlinePlayerNum
<1> QED
  BY <1>1, <1>2 DEF MixAllowed

\* A robot that joins a human finds no other human.
LEMMA RobotMayMix ==
  ASSUME NEW r \in Robots, NEW t \in TableIds, MixAllowed(r, t), GetOnlinePlayerNum(t) > 0
  PROVE  \E h : Sitting(t) \cap Humans = {h}
<1>1. r \notin Humans
  OBVIOUS
<1>2. GetOnlinePlayerNum(t) = 1
  BY <1>1 DEF MixAllowed
<1> QED
  BY <1>2, SittingFinite, FS_Singleton DEF GetOnlinePlayerNum

\* A full table counts as many players as it has chairs.
LEMMA FullCount ==
  ASSUME TypeOK, SeatsAgree, NEW t \in TableIds, IsFullTable(t)
  PROVE  Cardinality(Sitting(t)) = SeatNum
<1>1. seat[t] \in [Seats -> Sitting(t)]
  BY DEF IsFullTable, Sitting, TypeOK
<1>2. \A c, d \in Seats : seat[t][c] = seat[t][d] => c = d
  BY DEF IsFullTable, SeatsAgree
<1>3. \A p \in Sitting(t) : \E c \in Seats : seat[t][c] = p
  BY DEF Sitting
<1>4. seat[t] \in Bijection(Seats, Sitting(t))
  BY <1>1, <1>2, <1>3 DEF Bijection, Injection, IsInjective, Surjection
<1>5. ExistsBijection(Seats, Sitting(t))
  BY <1>4 DEF ExistsBijection
<1>6. IsFiniteSet(Seats) /\ Cardinality(Seats) = SeatNum
  BY FS_Interval DEF Seats
<1> QED
  BY <1>5, <1>6, FS_Bijection

-----------------------------------------------------------------------------
(* The three kinds of step.                                                *)

\* Players leave tables: whoever stays has not come to avoid anybody, and a
\* table that becomes free is left by all.
LEMMA LeavingPeace ==
  ASSUME GameInv, NEW S \in SUBSET Players, LeaveTable(S),
         waiting' \subseteq waiting \cup Humans,
         \A p \in Players \ S : blocks'[p] \subseteq blocks[p],
         \A t \in playing \ playing' : Sitting(t) \subseteq S
  PROVE  NoAvoidedGame' /\ MixInv'
<1> USE DEF GameInv, RoomInv
<1>1. \A t \in TableIds, c \in Seats :
         seat'[t][c] = IF seat[t][c] \in S THEN Nobody ELSE seat[t][c]
  BY DEF LeaveTable
<1>2. \A t \in TableIds : Sitting(t)' = Sitting(t) \ S
  BY <1>1 DEF Sitting, Players
<1>3. ready' = ready \ S
  BY DEF LeaveTable
<1>4. ASSUME NEW t \in TableIds, t \notin playing'
      PROVE  AtPeace(t)'
  <2>1. CASE t \in playing
    BY <1>2, <1>4, <2>1 DEF AtPeace
  <2>2. CASE t \notin playing
    <3>1. AtPeace(t)
      BY <2>2, AvoidedTables
    <3> QED
      BY <1>2, <1>3, <3>1 DEF AtPeace, Sitting
  <2> QED
    BY <2>1, <2>2
<1>5. NoAvoidedGame'
  BY <1>4 DEF NoAvoidedGame, AtPeace, Free
<1>6. ASSUME NEW t \in TableIds
      PROVE  (Sitting(t) \subseteq Humans \/ Mixed(t))'
  <2>1. CASE Sitting(t) \subseteq Humans
    BY <1>2, <2>1
  <2>2. CASE Mixed(t)
    <3>1. (\A p, q \in Sitting(t) \cap Humans : p = q)'
      BY <1>2, <2>2 DEF Mixed
    <3>2. CASE Sitting(t) \cap S = {}
      <4>1. Sitting(t)' = Sitting(t)
        BY <1>2, <3>2
      <4>2. IsFullTable(t)' => IsFullTable(t)
        BY <1>1 DEF IsFullTable
      <4> QED
        BY <2>2, <3>1, <4>1, <4>2 DEF Mixed
    <3>3. CASE Sitting(t) \cap S # {}
      <4>1. PICK c \in Seats : seat[t][c] \in S
        BY <3>3 DEF Sitting
      <4>2. ~IsFullTable(t)'
        BY <1>1, <4>1 DEF IsFullTable
      <4> QED
        BY <3>1, <4>2 DEF Mixed
    <3> QED
      BY <3>2, <3>3
  <2> QED
    BY <2>1, <2>2 DEF MixInv
<1> QED
  BY <1>5, <1>6 DEF MixInv

\* A player that may enter the table sits down: a human, or a robot that joins
\* one.
LEMMA SeatingPeace ==
  ASSUME GameInv, NEW p \in Players, NEW t \in TableIds, CanEnterTable(p, t),
         p \in Humans \/ GetOnlinePlayerNum(t) > 0,
         SitDown(p, t), ready' = ready \cup {p}, waiting' \subseteq waiting,
         UNCHANGED <<blocks, playing>>
  PROVE  NoAvoidedGame' /\ MixInv'
<1> USE DEF GameInv, RoomInv
<1>1. PICK c \in Seats : IsFirstFree(t, c) /\ seat' = [seat EXCEPT ![t][c] = p]
  BY DEF SitDown
<1>2. \A u \in TableIds, d \in Seats : seat'[u][d] = IF u = t /\ d = c THEN p ELSE seat[u][d]
  BY <1>1 DEF TypeOK
<1>3. seat[t][c] = Nobody /\ Nobody \notin Players
  BY <1>1 DEF IsFirstFree, Players
<1>4. \A u \in TableIds : Sitting(u)' = IF u = t THEN Sitting(t) \cup {p} ELSE Sitting(u)
  BY <1>2, <1>3 DEF Sitting
<1>5. \A u \in TableIds : p \notin Sitting(u)
  BY NoTableId DEF CanEnterTable, Sitting, SeatsAgree, Players
<1>6. \A q \in Sitting(t) : q \notin blocks[p] /\ p \notin blocks[q]
  BY <1>5 DEF CanEnterTable, IsExistBlock, Blocked, Avoids
<1>7. ASSUME NEW u \in TableIds, u \notin playing
      PROVE  AtPeace(u)'
  <2>1. AtPeace(u)
    BY <1>7, AvoidedTables
  <2> QED
    BY <1>4, <1>5, <1>6, <2>1 DEF AtPeace
<1>8. NoAvoidedGame'
  BY <1>7 DEF NoAvoidedGame, AtPeace, Free
<1>9. ASSUME NEW u \in TableIds, u # t
      PROVE  (Sitting(u) \subseteq Humans \/ Mixed(u))'
  BY <1>2, <1>4, <1>9 DEF MixInv, Mixed, IsFullTable
<1>10. (Sitting(t) \subseteq Humans \/ Mixed(t))'
  <2>1. CASE p \in Humans
    <3>1. Sitting(t) \subseteq Humans \/ Sitting(t) \cap Humans = {}
      BY <2>1, HumanMayMix DEF CanEnterTable
    <3> QED
      BY <1>4, <2>1, <3>1 DEF Mixed
  <2>2. CASE p \in Robots
    <3>1. p \notin Humans
      BY <2>2
    <3>2. PICK h : Sitting(t) \cap Humans = {h}
      BY <2>2, <3>1, RobotMayMix DEF CanEnterTable
    <3>3. (Sitting(t) \cap Humans)' = {h}
      BY <1>4, <3>1, <3>2
    <3> QED
      BY <3>3 DEF Mixed
  <2> QED
    BY <2>1, <2>2 DEF Players
<1> QED
  BY <1>8, <1>9, <1>10 DEF MixInv

\* Nobody moves: tables that are free afterwards have to be at peace.
LEMMA StayingPeace ==
  ASSUME GameInv, UNCHANGED <<at, seat>>, waiting' \subseteq waiting,
         \A t \in TableIds \ playing' : AtPeace(t)'
  PROVE  NoAvoidedGame' /\ MixInv'
<1>1. NoAvoidedGame'
  BY DEF NoAvoidedGame, AtPeace, Free
<1>2. \A t \in TableIds : Sitting(t)' = Sitting(t) /\ (Mixed(t)' <=> Mixed(t))
  BY DEF Sitting, Mixed, IsFullTable
<1> QED
  BY <1>1, <1>2 DEF GameInv, MixInv

\* Nobody moves, gets ready or comes to avoid anybody, and no table becomes free.
LEMMA QuietPeace ==
  ASSUME GameInv, UNCHANGED <<at, seat>>, waiting' \subseteq waiting,
         ready' \subseteq ready, playing \subseteq playing',
         \A p \in Players : blocks'[p] \subseteq blocks[p]
  PROVE  NoAvoidedGame' /\ MixInv'
<1>1. ASSUME NEW t \in TableIds, t \notin playing'
      PROVE  AtPeace(t)'
  <2>1. AtPeace(t)
    BY <1>1, AvoidedTables DEF GameInv
  <2> QED
    BY <2>1 DEF AtPeace, Sitting
<1> QED
  BY <1>1, StayingPeace

\* A seated player gets ready among players it does not avoid.
LEMMA ReadyPeace ==
  ASSUME GameInv, NEW p \in Players, UNCHANGED <<at, seat, waiting, playing, blocks>>,
         ready' = ready \cup {p}, ~IsExistBlock(p, at[p])
  PROVE  NoAvoidedGame' /\ MixInv'
<1>1. ASSUME NEW t \in TableIds, t \notin playing'
      PROVE  AtPeace(t)'
  <2>1. AtPeace(t)
    BY <1>1, AvoidedTables DEF GameInv
  <2>2. p \in Sitting(t) => at[p] = t
    BY DEF Sitting, GameInv, RoomInv, SeatsAgree, Players
  <2>3. p \in Sitting(t) => \A q \in Sitting(t) \ {p} : q \notin blocks[p] /\ p \notin blocks[q]
    BY <2>2 DEF IsExistBlock, Blocked, Avoids
  <2>4. Sitting(t)' = Sitting(t)
    BY DEF Sitting
  <2> QED
    BY <2>1, <2>3, <2>4 DEF AtPeace
<1> QED
  BY <1>1, StayingPeace

-----------------------------------------------------------------------------
(* The actions.                                                            *)

LEMMA HumanStepPeace ==
  ASSUME GameInv, NEW p \in Humans, HumanStep(p)
  PROVE  NoAvoidedGame' /\ MixInv'
<1>0. p \in Players /\ {p} \in SUBSET Players
  BY DEF Players
<1>1. CASE EnterSvr(p) \/ EnterRoom(p)
  BY <1>1, QuietPeace DEF EnterSvr, EnterRoom, StayAtTable, StayInQueue
<1>2. CASE NetStateDown(p)
  <2>1. CASE LeaveTable({p}) /\ LeaveRoom({p})
    BY <2>1, <1>0, <1>2, LeavingPeace DEF NetStateDown, LeaveRoom
  <2>2. CASE StayAtTable /\ StayInQueue
    BY <2>2, <1>2, QuietPeace DEF NetStateDown, StayAtTable, StayInQueue
  <2> QED
    BY <2>1, <2>2, <1>2 DEF NetStateDown
<1>3. CASE BackLobby(p)
  BY <1>0, <1>3, LeavingPeace DEF BackLobby, LoginOut, LeaveRoom
<1>4. CASE \E t \in TableIds \cup {NoTable} : QueueUp(p, t)
  BY <1>0, <1>4, LeavingPeace DEF QueueUp, JoinMarry
<1>5. CASE LeaveTableReq(p)
  BY <1>0, <1>5, LeavingPeace DEF LeaveTableReq, LeaveRoom
<1>6. CASE TableReady(p)
  <2>1. CASE LeaveTable({p}) /\ LeaveRoom({p})
    BY <2>1, <1>0, <1>6, LeavingPeace DEF TableReady, LeaveRoom
  <2>2. CASE LeaveTable({p}) /\ JoinMarry({p}, at[p])
    BY <2>2, <1>0, <1>6, LeavingPeace DEF TableReady, JoinMarry
  <2>3. CASE /\ ~IsExistBlock(p, at[p]) /\ ready' = ready \cup {p}
             /\ UNCHANGED <<at, seat>> /\ StayInQueue
    BY <2>3, <1>0, <1>6, ReadyPeace DEF TableReady, StayInQueue
  <2> QED
    BY <1>6, <2>1, <2>2, <2>3 DEF TableReady, PlayerReady
<1> QED
  BY <1>1, <1>2, <1>3, <1>4, <1>5, <1>6 DEF HumanStep

LEMMA RobotStepPeace ==
  ASSUME GameInv, NEW r \in Robots, RobotStep(r)
  PROVE  NoAvoidedGame' /\ MixInv'
<1>0. r \in Players /\ {r} \in SUBSET Players
  BY DEF Players
<1>1. CASE EnterSvr(r)
  BY <1>1, QuietPeace DEF EnterSvr, StayAtTable, StayInQueue
<1>2. CASE RobotClearBlocker(r)
  <2>1. \A p \in Players : blocks'[p] \subseteq blocks[p]
    BY <1>2 DEF RobotClearBlocker, GameInv, RoomInv, TypeOK
  <2> QED
    BY <1>2, <2>1, QuietPeace DEF RobotClearBlocker, StayAtTable, StayInQueue
<1>3. CASE RobotBackPool(r)
  BY <1>0, <1>3, LeavingPeace DEF RobotBackPool, LeaveRoom
<1>4. CASE RobotBackLobby(r)
  BY <1>0, <1>4, LeavingPeace DEF RobotBackLobby, LoginOut, LeaveRoom
<1> QED
  BY <1>1, <1>2, <1>3, <1>4 DEF RobotStep

\* The table MarryMalloc hands out is one of the table ids.
LEMMA FreshTable ==
  ASSUME RoomInv, NEW p \in Players, MarryMalloc(p)
  PROVE  NextFresh \in TableIds
<1> USE DEF RoomInv
<1>1. IsFiniteSet(waiting) /\ Cardinality(waiting) \in Nat
  BY PlayersFinite DEF TypeOK
<1>2. Cardinality(waiting) # 0
  BY <1>1, FS_EmptySet DEF MarryMalloc
<1> QED
  BY <1>1, <1>2 DEF MarryMalloc, NextFresh, CallbackOK, TypeOK, TableIds, NoTable

LEMMA MarryStepPeace ==
  ASSUME GameInv, MarryTick \/ MarryStep
  PROVE  NoAvoidedGame' /\ MixInv'
<1> USE DEF GameInv, RoomInv
<1>1. CASE MarryTick \/ MarryEnd
  BY <1>1, QuietPeace DEF MarryTick, MarryEnd, StayAtTable, StayInQueue
<1>2. ASSUME NEW p \in waiting, NEW t \in TableIds, CanEnterTable(p, t), EnterTable(p, t),
             UNCHANGED <<blocks, playing>>
      PROVE  NoAvoidedGame' /\ MixInv'
  <2>0. p \in Players /\ {p} \in SUBSET Players /\ p \in Humans
    BY <1>2 DEF TypeOK, MixInv
  <2>1. CASE LeaveTable({p}) /\ LeaveRoom({p})
    BY <1>2, <2>0, <2>1, LeavingPeace DEF LeaveRoom
  <2>2. CASE SitDown(p, t) /\ ready' = ready \cup {p} /\ LeaveMarry(p)
    BY <1>2, <2>0, <2>2, SeatingPeace DEF LeaveMarry
  <2> QED
    BY <1>2, <2>1, <2>2 DEF EnterTable
<1>3. ASSUME NEW p \in Players, MarryJoin(p)
      PROVE  NoAvoidedGame' /\ MixInv'
  <2>1. PICK t \in BestTables(p) : EnterTable(p, t)
    BY <1>3 DEF MarryJoin
  <2>2. t \in TableIds /\ CanEnterTable(p, t)
    BY <2>1 DEF BestTables, ReadyTables, TypeOK, TableIds
  <2> QED
    BY <1>2, <1>3, <2>1, <2>2 DEF MarryJoin
<1>4. ASSUME NEW p \in Players, MarryMalloc(p)
      PROVE  NoAvoidedGame' /\ MixInv'
  <2>1. CASE CanEnterTable(p, NextFresh) /\ EnterTable(p, NextFresh)
    BY <1>2, <1>4, <2>1, FreshTable DEF MarryMalloc
  <2>2. CASE LeaveRoom({p}) /\ StayAtTable
    BY <1>4, <2>2, QuietPeace DEF MarryMalloc, LeaveRoom, StayAtTable
  <2> QED
    BY <1>4, <2>1, <2>2 DEF MarryMalloc
<1> QED
  BY <1>1, <1>3, <1>4 DEF MarryStep

LEMMA TickPeace ==
  ASSUME GameInv, (\E t \in TableIds : TableTick(t)) \/ TickStep
  PROVE  NoAvoidedGame' /\ MixInv'
<1> USE DEF GameInv, RoomInv
<1>1. ASSUME NEW t \in TableIds, TableTick(t)
      PROVE  NoAvoidedGame' /\ MixInv'
  <2>0. UNCHANGED <<blocks, playing>>
    BY <1>1 DEF TableTick
  <2>1. CASE StayAtTable /\ StayInQueue
    BY <2>0, <2>1, QuietPeace DEF StayAtTable, StayInQueue
  <2>2. ASSUME NEW r \in Robots, RobotTurn(r, t)
        PROVE  NoAvoidedGame' /\ MixInv'
    <3>0. r \in Players /\ {r} \in SUBSET Players /\ at[r] = t
      BY <2>2 DEF RobotTurn, SeatsAgree, Players
    <3>1. CASE LeaveTable({r}) /\ (StayInQueue \/ LeaveRoom({r}))
      BY <2>0, <3>0, <3>1, LeavingPeace DEF StayInQueue, LeaveRoom
    <3>2. CASE /\ ~IsExistBlock(r, t) /\ ready' = ready \cup {r}
               /\ UNCHANGED <<at, seat>> /\ StayInQueue
      BY <2>0, <3>0, <3>2, ReadyPeace DEF StayInQueue
    <3> QED
      BY <2>2, <3>1, <3>2 DEF RobotTurn
  <2>3. ASSUME NEW r \in Robots, RobotJoin(r, t)
        PROVE  NoAvoidedGame' /\ MixInv'
    BY <2>0, <2>3, SeatingPeace DEF RobotJoin, StayInQueue, Players
  <2> QED
    BY <1>1, <2>1, <2>2, <2>3 DEF TableTick, CheckAddRobot
<1>2. CASE CheckReadyTimeOut
  <2>1. PICK S \in SUBSET (Sitting(cur) \cap ready) : LeaveTable(S) /\ JoinMarry(S \cap Humans, cur)
    BY <1>2 DEF CheckReadyTimeOut
  <2>2. S \in SUBSET Players
    BY <2>1 DEF TypeOK
  <2> QED
    BY <1>2, <2>1, <2>2, LeavingPeace DEF CheckReadyTimeOut, JoinMarry
<1>3. CASE OnGameStart
  BY <1>3, QuietPeace DEF OnGameStart, StayAtTable, StayInQueue
<1> QED
  BY <1>1, <1>2, <1>3 DEF TickStep

\* A game that ends makes its players avoid each other, and none of them ready.
LEMMA GameEndPeace ==
  ASSUME GameInv, NEW t \in TableIds, OnGameEnd(t)
  PROVE  NoAvoidedGame' /\ MixInv'
<1> USE DEF GameInv, RoomInv
<1>1. Sitting(t) \in SUBSET Players /\ \A p \in Sitting(t) : at[p] = t
  BY DEF Sitting, SeatsAgree, Players
<1>2. \A p \in Players \ Sitting(t) : BlocksAfter(t)[p] = blocks[p]
  BY DEF BlocksAfter
<1>3. CASE status = "retire"
  <2>1. \A p \in Players \ Sitting(t) : blocks'[p] \subseteq blocks[p]
    BY <1>2, <1>3 DEF OnGameEnd
  <2> QED
    BY <1>1, <1>3, <2>1, LeavingPeace DEF OnGameEnd, LeaveRoom
<1>4. CASE status # "retire"
  <2>1. ASSUME NEW u \in TableIds, u \notin playing'
        PROVE  AtPeace(u)'
    <3>0. Sitting(u)' = Sitting(u)
      BY <1>4 DEF OnGameEnd, Sitting
    <3>1. CASE u = t
      BY <1>4, <3>0, <3>1 DEF OnGameEnd, AtPeace
    <3>2. CASE u # t
      <4>1. AtPeace(u)
        BY <2>1, <3>2, AvoidedTables DEF OnGameEnd
      <4>2. \A p \in Sitting(u) : p \in Players \ Sitting(t)
        BY <1>1, <3>2 DEF Sitting, SeatsAgree, Players
      <4>3. \A p \in Sitting(u) : blocks'[p] = blocks[p]
        BY <1>2, <1>4, <4>2 DEF OnGameEnd
      <4> QED
        BY <1>4, <3>0, <4>1, <4>3 DEF OnGameEnd, AtPeace
    <3> QED
      BY <3>1, <3>2
  <2> QED
    BY <1>4, <2>1, StayingPeace DEF OnGameEnd, StayInQueue
<1> QED
  BY <1>3, <1>4

LEMMA ServerStepPeace ==
  ASSUME GameInv, \/ \E p \in Players : ScoreChange(p)
                  \/ StartRetire \/ StopServer
                  \/ \E t \in TableIds : ReGameStart(t) \/ OnGameEnd(t)
  PROVE  NoAvoidedGame' /\ MixInv'
<1>1. CASE (\E p \in Players : ScoreChange(p)) \/ StopServer \/ \E t \in TableIds : ReGameStart(t)
  BY <1>1, QuietPeace DEF ScoreChange, StopServer, ReGameStart, StayAtTable, StayInQueue
<1>2. CASE StartRetire
  <2> DEFINE S == {p \in online : \/ at[p] # NoTable /\ Free(at[p])
                                  \/ at[p] = NoTable /\ p \in Robots}
  <2>1. S \in SUBSET Players
    BY DEF GameInv, RoomInv, TypeOK
  <2>2. LoginOut(S) /\ UNCHANGED playing
    BY <1>2 DEF StartRetire
  <2> QED
    BY <2>1, <2>2, LeavingPeace DEF LoginOut, LeaveRoom
<1>3. CASE \E t \in TableIds : OnGameEnd(t)
  BY <1>3, GameEndPeace
<1> QED
  BY <1>1, <1>2, <1>3

LEMMA GameInvStep == GameInv /\ [Next]_vars => GameInv'
<1> SUFFICES ASSUME GameInv, [Next]_vars
             PROVE  GameInv'
  OBVIOUS
<1>0. RoomInv'
  BY StepInv DEF GameInv
<1>1. CASE \E p \in Humans : HumanStep(p)
  BY <1>0, <1>1, HumanStepPeace DEF GameInv
<1>2. CASE \E r \in Robots : RobotStep(r)
  BY <1>0, <1>2, RobotStepPeace DEF GameInv
<1>3. CASE MarryTick \/ MarryStep
  BY <1>0, <1>3, MarryStepPeace DEF GameInv
<1>4. CASE (\E t \in TableIds : TableTick(t)) \/ TickStep
  BY <1>0, <1>4, TickPeace DEF GameInv
<1>5. CASE \/ \E p \in Players : ScoreChange(p)
           \/ StartRetire \/ StopServer
           \/ \E t \in TableIds : ReGameStart(t) \/ OnGameEnd(t)
  BY <1>0, <1>5, ServerStepPeace DEF GameInv
<1>6. CASE UNCHANGED vars
  <2>1. NoAvoidedGame' /\ MixInv'
    BY <1>6, QuietPeace DEF vars
  <2> QED
    BY <1>0, <2>1 DEF GameInv
<1> QED
  BY <1>1, <1>2, <1>3, <1>4, <1>5, <1>6 DEF Next

\* The tables of the room stay mixed as CanEnterTable means them to be, and the
\* queue is the humans', after any run of handlers and timers.
THEOREM GamesCorrect == Spec => []GameInv
<1>1. Init => GameInv
  <2> SUFFICES ASSUME Init PROVE GameInv
    OBVIOUS
  <2>1. RoomInv
    BY InitInv
  <2>2. \A t \in TableIds : Sitting(t) = {}
    BY DEF Init, Sitting, Players
  <2>3. NoAvoidedGame /\ MixInv
    BY <2>2 DEF Init, NoAvoidedGame, MixInv
  <2> QED
    BY <2>1, <2>3 DEF GameInv
<1>2. GameInv /\ [Next]_vars => GameInv'
  BY GameInvStep
<1> QED
  BY <1>1, <1>2, PTL DEF Spec

\* AddBlockers, CanEnterTable and the robots' turns never let two players that
\* avoid each other get ready at the same table, whoever comes and goes.
THEOREM NoAvoidedGameCorrect == Spec => []NoAvoidedGame
<1>1. GameInv => NoAvoidedGame
  BY DEF GameInv
<1> QED
  BY <1>1, GamesCorrect, PTL

\* A game is one human's among robots, or humans' only, for any number of
\* chairs: robots that are left alone at a table never fill it.
THEOREM OneOrAllHumansCorrect == Spec => []OneOrAllHumans
<1>1. GameInv => OneOrAllHumans
  <2> SUFFICES ASSUME GameInv, NEW t \in playing
               PROVE  GetOnlinePlayerNum(t) \in {1, SeatNum}
    BY DEF OneOrAllHumans
  <2> USE DEF GameInv, RoomInv
  <2>1. t \in TableIds /\ IsFullTable(t)
    BY DEF TypeOK, PlayingFull
  <2>2. CASE Sitting(t) \subseteq Humans
    <3>1. Sitting(t) \cap Humans = Sitting(t)
      BY <2>2
    <3> QED
      BY <2>1, <3>1, FullCount DEF GetOnlinePlayerNum
  <2>3. CASE Mixed(t)
    <3>1. \E h : Sitting(t) \cap Humans = {h}
      BY <2>1, <2>3 DEF Mixed
    <3> QED
      BY <2>1, <3>1, FS_Singleton DEF GetOnlinePlayerNum
  <2> QED
    BY <2>1, <2>2, <2>3 DEF MixInv
<1> QED
  BY <1>1, GamesCorrect, PTL
-----------------------------------------------------------------------------
(* How many tables matching allocates.                                     *)

\* A player that finds no table meets somebody at every table but the one it
\* avoids, so there are at most as many tables as players.
LEMMA NoTableFound ==
  ASSUME RoomInv, "below" \notin ScoreClasses, NEW p \in waiting, ReadyTables(p) = {}
  PROVE  roomIndex <= Cardinality(Players)
<1> USE DEF RoomInv
<1> DEFINE others == (1..roomIndex) \ {exclude[p]}
           somebody == [t \in others |-> CHOOSE q \in Players \ {p} : q \in Sitting(t)]
<1>0. p \in Players /\ at[p] = NoTable /\ score[p] # "below" /\ others \subseteq TableIds
  BY DEF TypeOK, WhereAllowed, TableIds
<1>1. \A t \in TableIds : p \notin Sitting(t)
  BY <1>0, NoTableId DEF Sitting, SeatsAgree, Players
<1>2. ASSUME NEW t \in others
      PROVE  \E q \in Players \ {p} : q \in Sitting(t)
  <2>1. t \in 1..roomIndex /\ t # exclude[p] /\ ~CanEnterTable(p, t)
    BY DEF ReadyTables
  <2>2. Sitting(t) # {}
    <3> SUFFICES ASSUME Sitting(t) = {} PROVE FALSE
      OBVIOUS
    <3>1. GetOnlinePlayerNum(t) = 0 /\ GetChairPlayerNum(t) = 0
      BY FS_EmptySet DEF GetOnlinePlayerNum, GetChairPlayerNum
    <3>2. MixAllowed(p, t) /\ ~IsExistIP(p, t) /\ ~IsExistBlock(p, t)
      BY <3>1 DEF MixAllowed, IsExistIP, IsExistBlock
    <3>3. seat[t][1] \notin Players /\ 1 \in Seats
      BY DEF Sitting, Seats
    <3>4. ~IsFullTable(t)
      BY <1>0, <3>3 DEF IsFullTable, TypeOK
    <3>5. t \in TableIds /\ Free(t)
      BY <1>0, <3>4 DEF PlayingFull, Free
    <3> QED
      BY <1>0, <2>1, <3>2, <3>4, <3>5 DEF CanEnterTable
  <2> QED
    BY <1>0, <1>1, <2>2 DEF Sitting
<1>3. /\ somebody \in [others -> Players \ {p}]
      /\ \A t \in others : somebody[t] \in Sitting(t)
  BY <1>2
<1> HIDE DEF somebody
<1>4. \A t, u \in others : somebody[t] = somebody[u] => t = u
  <2>1. \A t \in TableIds : \A q \in Sitting(t) : at[q] = t
    BY DEF Sitting, SeatsAgree, Players
  <2> QED
    BY <1>0, <1>3, <2>1
<1>5. somebody \in Injection(others, Players \ {p})
  BY <1>3, <1>4 DEF Injection, IsInjective
<1>6. IsFiniteSet(Players \ {p}) /\ Cardinality(Players \ {p}) = Cardinality(Players) - 1
  BY <1>0, PlayersFinite, FS_RemoveElement
<1>7. Cardinality(others) <= Cardinality(Players \ {p})
  BY <1>5, <1>6, FS_Injection
<1>8. IsFiniteSet(1..roomIndex) /\ Cardinality(1..roomIndex) = roomIndex
  BY FS_Interval DEF TypeOK
<1>9. roomIndex \in Nat /\ Cardinality(Players) \in Nat
  BY PlayersFinite DEF TypeOK
<1>10. Cardinality(others) = IF exclude[p] \in 1..roomIndex THEN roomIndex - 1 ELSE roomIndex
  BY <1>8, FS_RemoveElement
<1> QED
  BY <1>6, <1>7, <1>9, <1>10

\* Only MarryMalloc makes a table.
LEMMA TablesBoundedStep ==
  ASSUME "below" \notin ScoreClasses
  PROVE  RoomInv /\ TablesBounded /\ [Next]_vars => TablesBounded'
<1> SUFFICES ASSUME RoomInv, TablesBounded, [Next]_vars
             PROVE  TablesBounded'
  OBVIOUS
<1>1. CASE UNCHANGED roomIndex
  BY <1>1 DEF TablesBounded
<1>2. ASSUME NEW p \in Players, MarryMalloc(p)
      PROVE  TablesBounded'
  <2>1. roomIndex <= Cardinality(Players)
    BY <1>2, NoTableFound DEF MarryMalloc
  <2>2. roomIndex \in Nat /\ fresh \in 0..roomIndex /\ Cardinality(Players) \in Nat
    BY PlayersFinite DEF RoomInv, TypeOK
  <2>3. roomIndex' <= roomIndex + 1 /\ roomIndex' \in Nat
    BY <1>2, <2>2 DEF MarryMalloc, NextFresh
  <2> QED
    BY <2>1, <2>2, <2>3 DEF TablesBounded
<1>3. \/ UNCHANGED roomIndex
      \/ \E p \in Players : MarryMalloc(p)
  BY DEF Next, vars, HumanStep, RobotStep, MarryStep, TickStep, EnterSvr, NetStateDown, BackLobby,
         EnterRoom, QueueUp, LeaveTableReq, TableReady, RobotBackPool, RobotBackLobby,
         RobotClearBlocker, ScoreChange, MarryTick, MarryJoin, MarryEnd, TableTick,
         CheckReadyTimeOut, OnGameStart, ReGameStart, OnGameEnd, StartRetire, StopServer
<1> QED
  BY <1>1, <1>2, <1>3

\* MarryTable allocates a table only for a player that finds none, and no table
\* is ever freed: where no score falls below the room's limit, the tables never
\* outnumber the players by more than the one a re-queued player avoids.
THEOREM TablesBoundedCorrect ==
  ASSUME "below" \notin ScoreClasses
  PROVE  Spec => []TablesBounded
<1>1. Init => TablesBounded
  BY DEF Init, TablesBounded
<1>2. RoomInv /\ TablesBounded /\ [Next]_vars => TablesBounded'
  BY TablesBoundedStep
<1> QED
  BY <1>1, <1>2, RoomCorrect, PTL DEF Spec
=============================================================================
