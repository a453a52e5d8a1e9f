------------------------- MODULE LobbySession_proof -------------------------
(***************************************************************************)
(* Proofs about LobbySession, for any lobbies, connections and logins:     *)
(* its types, that connections and objects point at each other, that two   *)
(* lobbies serve the player only while a word is under way, lost or not    *)
(* sent, and that redis does not forget him early.                         *)
(*                                                                         *)
(* The last needs a strengthening: once the lobby redis names plays,       *)
(* deletes the record or is down, every other lobby that has an object has *)
(* been told (OthersTold); so whoever deletes the record, the others know. *)
(***************************************************************************)
EXTENDS LobbySession, TLAPS

\* No object, no session; a lobby that is down has no object and deletes nothing;
\* a lobby is about to delete only a record that named it.
EmptyLobbies ==
    \A l \in Lobbies :
        /\ state[l] = "none" => session[l] = NoConn
        /\ ~up[l] => state[l] = "none" /\ busy[l] = NoLobby
        /\ busy[l] \in {NoLobby, l}

\* The lobby is past its login, or its object is gone with its process.
Settled(r) == state[r] = "play" \/ ~up[r] \/ busy[r] # NoLobby

OthersTold ==
    ~astray =>
        \A r \in Lobbies : record = r /\ Settled(r) =>
            \A l \in Lobbies \ {r} : state[l] # "none" => Told(l)

LinkInv == TypeOK /\ SessionsAgree /\ EmptyLobbies

SessionInv == LinkInv /\ OneServes /\ RecordKept /\ OthersTold

-----------------------------------------------------------------------------
(* Types.                                                                  *)

\* The parts in their order, asked for once more after those under way.
LEMMA AllParts == ASSUME NEW s \in Seq(Parts) PROVE s \o [i \in Parts |-> i] \in Seq(Parts)
<1>1. [i \in 1 .. NParts |-> i] \in Seq(Parts)
  BY SessionAssumption DEF Parts
<1> QED
  BY <1>1 DEF Parts

\* Every step changes the answers under way in one of three ways.
LEMMA PendingStep == ASSUME TypeOK, Next PROVE pending' \in [Lobbies -> Seq(Parts)]
<1>1. pending \in [Lobbies -> Seq(Parts)]
  BY DEF TypeOK
<1>2. CASE UNCHANGED pending
  BY <1>1, <1>2
<1>3. ASSUME NEW l \in Lobbies, pending' = [pending EXCEPT ![l] = pending[l] \o [i \in Parts |-> i]]
      PROVE  pending' \in [Lobbies -> Seq(Parts)]
  <2>1. pending[l] \o [i \in Parts |-> i] \in Seq(Parts)
    BY <1>1, AllParts
  <2> QED
    BY <1>1, <1>3, <2>1
<1>4. ASSUME NEW l \in Lobbies, pending[l] # <<>>, pending' = [pending EXCEPT ![l] = Tail(pending[l])]
      PROVE  pending' \in [Lobbies -> Seq(Parts)]
  BY <1>1, <1>4
<1>5. ASSUME NEW l \in Lobbies, pending' = [pending EXCEPT ![l] = <<>>]
      PROVE  pending' \in [Lobbies -> Seq(Parts)]
  <2>1. <<>> \in Seq(Parts)
    OBVIOUS
  <2> QED
    BY <1>1, <1>5, <2>1
<1>6. \/ UNCHANGED pending
      \/ \E l \in Lobbies :
            \/ pending' = [pending EXCEPT ![l] = pending[l] \o [i \in Parts |-> i]]
            \/ pending[l] # <<>> /\ pending' = [pending EXCEPT ![l] = Tail(pending[l])]
            \/ pending' = [pending EXCEPT ![l] = <<>>]
  BY DEF Next, OnLogin, LoginAgain, LoginTakesOver, LoginCreates, Disconnect, KillPlayer, LoadAnswer, LoadFails, CheckOther, LoseWord, Recover, DeleteRecord, EnterGame, BackLobby, Crash, Start, GameReads, GameWrites
<1> QED
  BY <1>2, <1>3, <1>4, <1>5, <1>6

\* And the words under way.
LEMMA WordsStep == ASSUME TypeOK, Next PROVE words' \in [Lobbies -> Nat]
<1>1. words \in [Lobbies -> Nat]
  BY DEF TypeOK
<1>2. CASE UNCHANGED words
  BY <1>1, <1>2
<1>3. ASSUME NEW l \in Lobbies, CheckOtherLobbyServer(l)
      PROVE  words' \in [Lobbies -> Nat]
  BY <1>1, <1>3 DEF CheckOtherLobbyServer
<1>4. ASSUME NEW l \in Lobbies, words[l] > 0, words' = [words EXCEPT ![l] = words[l] - 1]
      PROVE  words' \in [Lobbies -> Nat]
  BY <1>1, <1>4
<1>5. ASSUME NEW l \in Lobbies, words' = [words EXCEPT ![l] = 0]
      PROVE  words' \in [Lobbies -> Nat]
  BY <1>1, <1>5
<1>6. \/ UNCHANGED words
      \/ \E l \in Lobbies : \/ CheckOtherLobbyServer(l)
                            \/ words[l] > 0 /\ words' = [words EXCEPT ![l] = words[l] - 1]
                            \/ words' = [words EXCEPT ![l] = 0]
  BY DEF Next, LoginAgain, LoginTakesOver, LoginCreates, Disconnect, KillPlayer, LoadAnswer, LoadFails, CheckOther, LoseWord, Recover, DeleteRecord, EnterGame, BackLobby, Crash, Start, GameReads, GameWrites
<1> QED
  BY <1>2, <1>3, <1>4, <1>5, <1>6

\* Every step keeps the types.
LEMMA TypeStep == ASSUME TypeOK, Next PROVE TypeOK'
<1>1. pending' \in [Lobbies -> Seq(Parts)] /\ words' \in [Lobbies -> Nat]
  BY PendingStep, WordsStep
<1>2. ASSUME NEW c \in Conns, NEW l \in Lobbies, LoginAgain(c, l)
      PROVE  TypeOK'
  BY <1>1, <1>2, SessionAssumption DEF TypeOK, LoginAgain, Asks, OnLogin, Parts
<1>3. ASSUME NEW c \in Conns, NEW l \in Lobbies, LoginTakesOver(c, l)
      PROVE  TypeOK'
  BY <1>1, <1>3, SessionAssumption DEF TypeOK, LoginTakesOver, Asks, OnLogin, Rebind, object
<1>4. ASSUME NEW c \in Conns, NEW l \in Lobbies, LoginCreates(c, l)
      PROVE  TypeOK'
  BY <1>1, <1>4, SessionAssumption DEF TypeOK, LoginCreates, Asks, OnLogin, Rebind
<1>5. ASSUME NEW c \in Conns, Disconnect(c)
      PROVE  TypeOK'
  BY <1>1, <1>5 DEF TypeOK, Disconnect, Runs, Close
<1>6. ASSUME NEW l \in Lobbies, KillPlayer(l)
      PROVE  TypeOK'
  BY <1>1, <1>6 DEF TypeOK, KillPlayer, Runs, Close
<1>7. ASSUME NEW l \in Lobbies, LoadAnswer(l)
      PROVE  TypeOK'
  <2>1. pending[l] # <<>> /\ (got' = got \/ got' = [got EXCEPT ![l] = got[l] \cup {Head(pending[l])}])
    BY <1>7 DEF LoadAnswer
  <2>2. got \in [Lobbies -> SUBSET Parts] /\ pending[l] \in Seq(Parts)
    BY DEF TypeOK
  <2>3. got' \in [Lobbies -> SUBSET Parts]
    BY <2>1, <2>2
  <2>4. CASE UNCHANGED <<state, inGame>>
    BY <1>1, <1>7, <2>3, <2>4 DEF TypeOK, LoadAnswer
  <2>5. CASE state' = [state EXCEPT ![l] = "play"] /\ inGame' = [inGame EXCEPT ![l] = game]
    BY <1>1, <1>7, <2>3, <2>5 DEF TypeOK, LoadAnswer
  <2> QED
    BY <1>7, <2>4, <2>5 DEF LoadAnswer
<1>8. ASSUME NEW l \in Lobbies, LoadFails(l)
      PROVE  TypeOK'
  BY <1>1, <1>8 DEF TypeOK, LoadFails, Runs, object
<1>9. ASSUME NEW l \in Lobbies, CheckOther(l)
      PROVE  TypeOK'
  <2> DEFINE b == need[l] \/ session[l] # NoConn
  <2>1. need' = need \/ need' = [need EXCEPT ![l] = b]
    BY <1>9 DEF CheckOther
  <2>2. b \in BOOLEAN /\ need \in [Lobbies -> BOOLEAN]
    BY DEF TypeOK
  <2> HIDE DEF b
  <2>3. need' \in [Lobbies -> BOOLEAN]
    BY <2>1, <2>2
  <2>4. CASE state[l] # "none"
    <3>1. /\ other' = [other EXCEPT ![l] = TRUE]
          /\ Close({session[l]})
          /\ session' = [session EXCEPT ![l] = NoConn]
          /\ lost' = [lost EXCEPT ![l] = FALSE]
          /\ UNCHANGED <<up, state, inGame, got, pending, busy, record, game, gread, astray, events>>
      BY <1>9, <2>4 DEF CheckOther
    <3> QED
      BY <1>1, <2>3, <3>1 DEF TypeOK, Close
  <2>5. CASE state[l] = "none"
    BY <1>1, <1>9, <2>3, <2>5 DEF TypeOK, CheckOther
  <2> QED
    BY <2>4, <2>5
<1>10. ASSUME NEW l \in Lobbies, LoseWord(l)
      PROVE  TypeOK'
  BY <1>1, <1>10 DEF TypeOK, LoseWord, object
<1>11. ASSUME NEW l \in Lobbies, Recover(l)
      PROVE  TypeOK'
  <2>1. CASE state[l] = "play" /\ record = l
    <3>1. /\ busy' = [busy EXCEPT ![l] = record]
          /\ UNCHANGED <<link, object, up, pending, words, lost, record, game, gread, astray, events>>
      BY <1>11, <2>1 DEF Recover, OwnRecord
    <3> QED
      BY <2>1, <3>1 DEF TypeOK, object
  <2>2. CASE ~(state[l] = "play" /\ record = l)
    <3>1. /\ Close({session[l]})
          /\ Remove(l)
          /\ UNCHANGED <<busy, up, pending, words, lost, record, game, gread, astray, events>>
      BY <1>11, <2>2 DEF Recover, OwnRecord
    <3> QED
      BY <3>1 DEF TypeOK, Close, Remove
  <2> QED
    BY <2>1, <2>2
<1>12. ASSUME NEW l \in Lobbies, DeleteRecord(l)
      PROVE  TypeOK'
  BY <1>1, <1>12 DEF TypeOK, DeleteRecord, Close, Remove
<1>13. ASSUME NEW l \in Lobbies, EnterGame(l)
      PROVE  TypeOK'
  BY <1>1, <1>13 DEF TypeOK, EnterGame, Runs
<1>14. ASSUME NEW l \in Lobbies, BackLobby(l)
      PROVE  TypeOK'
  BY <1>1, <1>14 DEF TypeOK, BackLobby, Runs
<1>15. ASSUME NEW l \in Lobbies, Crash(l)
      PROVE  TypeOK'
  BY <1>1, <1>15, SessionAssumption DEF TypeOK, Crash, Close, Remove
<1>16. ASSUME NEW l \in Lobbies, Start(l)
      PROVE  TypeOK'
  BY <1>1, <1>16 DEF TypeOK, Start, OwnRecord, object
<1>17. ASSUME NEW in \in BOOLEAN, GameReads(in)
      PROVE  TypeOK'
  BY <1>1, <1>17 DEF TypeOK, GameReads, object
<1>18. ASSUME GameWrites
      PROVE  TypeOK'
  BY <1>1, <1>18 DEF TypeOK, GameWrites, object
<1> QED
  BY <1>2, <1>3, <1>4, <1>5, <1>6, <1>7, <1>8, <1>9, <1>10, <1>11, <1>12, <1>13, <1>14, <1>15, <1>16, <1>17, <1>18 DEF Next

LEMMA TypeStutter == ASSUME TypeOK, UNCHANGED vars PROVE TypeOK'
  BY DEF TypeOK, vars

-----------------------------------------------------------------------------
(* Connections and objects.                                                *)

LEMMA LinkStep == ASSUME LinkInv, Next PROVE SessionsAgree' /\ EmptyLobbies'
<1> link \in [Conns -> Lobbies \cup {NoLobby}] /\ session \in [Lobbies -> Conns \cup {NoConn}]
    /\ up \in [Lobbies -> BOOLEAN] /\ state \in [Lobbies -> {"none", "load", "play"}]
    /\ busy \in [Lobbies -> Lobbies \cup {NoLobby}] /\ SessionsAgree /\ EmptyLobbies
    /\ NoLobby \notin Lobbies /\ NoConn \notin Conns
  BY SessionAssumption DEF LinkInv, TypeOK
<1>1. ASSUME NEW c \in Conns, NEW l \in Lobbies, LoginAgain(c, l)
      PROVE  SessionsAgree' /\ EmptyLobbies'
  BY <1>1 DEF SessionsAgree, EmptyLobbies, LoginAgain, Asks, OnLogin, Parts
<1>2. ASSUME NEW c \in Conns, NEW l \in Lobbies, LoginTakesOver(c, l)
      PROVE  SessionsAgree' /\ EmptyLobbies'
  BY <1>2 DEF SessionsAgree, EmptyLobbies, LoginTakesOver, Asks, OnLogin, Rebind, CheckOtherLobbyServer, object
<1>3. ASSUME NEW c \in Conns, NEW l \in Lobbies, LoginCreates(c, l)
      PROVE  SessionsAgree' /\ EmptyLobbies'
  <2>1. session[l] = NoConn /\ link[c] = NoLobby
    BY <1>3 DEF LoginCreates, EmptyLobbies
  <2>2. /\ session' = [session EXCEPT ![l] = c]
        /\ link' = [k \in Conns |-> IF k = c THEN l ELSE link[k]]
    BY <1>3 DEF LoginCreates, Rebind
  <2>3. SessionsAgree'
    BY <2>1, <2>2 DEF SessionsAgree
  <2>4. EmptyLobbies'
    BY <1>3, <2>2 DEF EmptyLobbies, LoginCreates, Asks, Runs, OnLogin
  <2> QED
    BY <2>3, <2>4
<1>4. ASSUME NEW c \in Conns, Disconnect(c)
      PROVE  SessionsAgree' /\ EmptyLobbies'
  <2>1. link[c] \in Lobbies
    BY <1>4 DEF Disconnect
  <2>2. session[link[c]] = c
    BY <2>1 DEF SessionsAgree
  <2>3. /\ session' = [session EXCEPT ![link[c]] = NoConn]
        /\ link' = [link EXCEPT ![c] = NoLobby]
        /\ UNCHANGED <<up, state, busy>>
    BY <1>4, <2>2 DEF Disconnect, Close
  <2> QED
    BY <2>1, <2>2, <2>3 DEF SessionsAgree, EmptyLobbies
<1>5. ASSUME NEW l \in Lobbies, KillPlayer(l)
      PROVE  SessionsAgree' /\ EmptyLobbies'
  BY <1>5 DEF SessionsAgree, EmptyLobbies, KillPlayer, Runs, Close
<1>6. ASSUME NEW l \in Lobbies, LoadAnswer(l)
      PROVE  SessionsAgree' /\ EmptyLobbies'
  BY <1>6 DEF SessionsAgree, EmptyLobbies, LoadAnswer, Runs, CheckOtherLobbyServer
<1>7. ASSUME NEW l \in Lobbies, LoadFails(l)
      PROVE  SessionsAgree' /\ EmptyLobbies'
  BY <1>7 DEF SessionsAgree, EmptyLobbies, LoadFails, Runs, object
<1>8. ASSUME NEW l \in Lobbies, CheckOther(l)
      PROVE  SessionsAgree' /\ EmptyLobbies'
  BY <1>8 DEF SessionsAgree, EmptyLobbies, CheckOther, Runs, Close
<1>9. ASSUME NEW l \in Lobbies, LoseWord(l)
      PROVE  SessionsAgree' /\ EmptyLobbies'
  BY <1>9 DEF SessionsAgree, EmptyLobbies, LoseWord, object
<1>10. ASSUME NEW l \in Lobbies, Recover(l)
      PROVE  SessionsAgree' /\ EmptyLobbies'
  BY <1>10 DEF SessionsAgree, EmptyLobbies, Recover, Runs, NeedRecover, OwnRecord, Close, Remove, object
<1>11. ASSUME NEW l \in Lobbies, DeleteRecord(l)
      PROVE  SessionsAgree' /\ EmptyLobbies'
  BY <1>11 DEF SessionsAgree, EmptyLobbies, DeleteRecord, Close, Remove
<1>12. ASSUME NEW l \in Lobbies, EnterGame(l)
      PROVE  SessionsAgree' /\ EmptyLobbies'
  BY <1>12 DEF SessionsAgree, EmptyLobbies, EnterGame, Runs
<1>13. ASSUME NEW l \in Lobbies, BackLobby(l)
      PROVE  SessionsAgree' /\ EmptyLobbies'
  BY <1>13 DEF SessionsAgree, EmptyLobbies, BackLobby, Runs
<1>14. ASSUME NEW l \in Lobbies, Crash(l)
      PROVE  SessionsAgree' /\ EmptyLobbies'
  BY <1>14 DEF SessionsAgree, EmptyLobbies, Crash, Close, Remove
<1>15. ASSUME NEW l \in Lobbies, Start(l)
      PROVE  SessionsAgree' /\ EmptyLobbies'
  BY <1>15 DEF SessionsAgree, EmptyLobbies, Start, OwnRecord, object
<1>16. ASSUME NEW in \in BOOLEAN, GameReads(in)
      PROVE  SessionsAgree' /\ EmptyLobbies'
  BY <1>16 DEF SessionsAgree, EmptyLobbies, GameReads, object
<1>17. ASSUME GameWrites
      PROVE  SessionsAgree' /\ EmptyLobbies'
  BY <1>17 DEF SessionsAgree, EmptyLobbies, GameWrites, object
<1> QED
  BY <1>1, <1>2, <1>3, <1>4, <1>5, <1>6, <1>7, <1>8, <1>9, <1>10, <1>11, <1>12, <1>13, <1>14, <1>15, <1>16, <1>17 DEF Next

LEMMA LinkStutter == ASSUME LinkInv, UNCHANGED vars PROVE LinkInv'
  BY TypeStutter DEF LinkInv, SessionsAgree, EmptyLobbies, vars

-----------------------------------------------------------------------------
(* Who serves, and who has been told.                                      *)

\* A lobby that serves from now on has told the others, and one that goes on
\* serving has not had its word yet.
LEMMA ServeStep ==
    ASSUME LinkInv, Next, NEW k \in Lobbies, Serves(k)'
    PROVE  /\ Serves(k) \/ \A m \in Lobbies \ {k, Master} : words'[m] > 0
           /\ words[k] > 0 \/ lost[k] => words'[k] > 0 \/ lost'[k]
<1> DEFINE Goal == /\ Serves(k) \/ \A m \in Lobbies \ {k, Master} : words'[m] > 0
                   /\ words[k] > 0 \/ lost[k] => words'[k] > 0 \/ lost'[k]
<1> state'[k] = "play" /\ session'[k] # NoConn
  BY DEF Serves
<1> /\ up \in [Lobbies -> BOOLEAN] /\ state \in [Lobbies -> {"none", "load", "play"}]
    /\ session \in [Lobbies -> Conns \cup {NoConn}] /\ words \in [Lobbies -> Nat]
    /\ other \in [Lobbies -> BOOLEAN] /\ lost \in [Lobbies -> BOOLEAN]
    /\ busy \in [Lobbies -> Lobbies \cup {NoLobby}] /\ EmptyLobbies
    /\ NoLobby \notin Lobbies /\ NoConn \notin Conns /\ record \in Lobbies \cup {NoLobby}
  BY SessionAssumption DEF LinkInv, TypeOK
<1>1. ASSUME NEW c \in Conns, NEW l \in Lobbies, LoginAgain(c, l)
      PROVE  Goal
  BY <1>1 DEF Serves, EmptyLobbies, LoginAgain, Asks, OnLogin, Parts
<1>2. ASSUME NEW c \in Conns, NEW l \in Lobbies, LoginTakesOver(c, l)
      PROVE  Goal
  <2>1. CASE state[l] = "play" /\ CheckOtherLobbyServer(l) /\ UNCHANGED state
    <3>1. session' = [session EXCEPT ![l] = c] /\ lost' = lost
      BY <1>2 DEF LoginTakesOver
    <3>2. words' = [m \in Lobbies |-> IF m \in {l, Master} THEN words[m] ELSE words[m] + 1]
      BY <2>1 DEF CheckOtherLobbyServer
    <3> QED
      BY <2>1, <3>1, <3>2 DEF Serves
  <2>2. CASE OnLogin(l)
    BY <1>2, <2>2 DEF LoginTakesOver, OnLogin, Serves
  <2> QED
    BY <1>2, <2>1, <2>2 DEF LoginTakesOver
<1>3. ASSUME NEW c \in Conns, NEW l \in Lobbies, LoginCreates(c, l)
      PROVE  Goal
  BY <1>3 DEF Serves, EmptyLobbies, LoginCreates, Asks, OnLogin, Rebind
<1>4. ASSUME NEW c \in Conns, Disconnect(c)
      PROVE  Goal
  BY <1>4 DEF Serves, EmptyLobbies, Disconnect, Runs, Close
<1>5. ASSUME NEW l \in Lobbies, KillPlayer(l)
      PROVE  Goal
  BY <1>5 DEF Serves, EmptyLobbies, KillPlayer, Runs, Close
<1>6. ASSUME NEW l \in Lobbies, LoadAnswer(l)
      PROVE  Goal
  BY <1>6 DEF Serves, EmptyLobbies, LoadAnswer, Runs, CheckOtherLobbyServer
<1>7. ASSUME NEW l \in Lobbies, LoadFails(l)
      PROVE  Goal
  BY <1>7 DEF Serves, EmptyLobbies, LoadFails, Runs, object
<1>8. ASSUME NEW l \in Lobbies, CheckOther(l)
      PROVE  Goal
  BY <1>8 DEF Serves, EmptyLobbies, CheckOther, Runs, Close
<1>9. ASSUME NEW l \in Lobbies, LoseWord(l)
      PROVE  Goal
  BY <1>9 DEF Serves, EmptyLobbies, LoseWord, object
<1>10. ASSUME NEW l \in Lobbies, Recover(l)
      PROVE  Goal
  BY <1>10 DEF Serves, EmptyLobbies, Recover, Runs, NeedRecover, OwnRecord, Close, Remove, object
<1>11. ASSUME NEW l \in Lobbies, DeleteRecord(l)
      PROVE  Goal
  BY <1>11 DEF Serves, EmptyLobbies, DeleteRecord, Close, Remove
<1>12. ASSUME NEW l \in Lobbies, EnterGame(l)
      PROVE  Goal
  BY <1>12 DEF Serves, EmptyLobbies, EnterGame, Runs
<1>13. ASSUME NEW l \in Lobbies, BackLobby(l)
      PROVE  Goal
  BY <1>13 DEF Serves, EmptyLobbies, BackLobby, Runs
<1>14. ASSUME NEW l \in Lobbies, Crash(l)
      PROVE  Goal
  BY <1>14 DEF Serves, EmptyLobbies, Crash, Close, Remove
<1>15. ASSUME NEW l \in Lobbies, Start(l)
      PROVE  Goal
  BY <1>15 DEF Serves, EmptyLobbies, Start, OwnRecord, object
<1>16. ASSUME NEW in \in BOOLEAN, GameReads(in)
      PROVE  Goal
  BY <1>16 DEF Serves, EmptyLobbies, GameReads, object
<1>17. ASSUME GameWrites
      PROVE  Goal
  BY <1>17 DEF Serves, EmptyLobbies, GameWrites, object
<1> QED
  BY <1>1, <1>2, <1>3, <1>4, <1>5, <1>6, <1>7, <1>8, <1>9, <1>10, <1>11, <1>12, <1>13, <1>14, <1>15, <1>16, <1>17 DEF Next

\* An object either was there before, and what it was told it stays told, or it
\* is that of a login that has just taken the record over.
LEMMA ToldStep ==
    ASSUME LinkInv, Next, NEW k \in Lobbies, state'[k] # "none"
    PROVE  \/ state[k] # "none" /\ (Told(k) => Told(k)')
           \/ record' = k /\ ~Settled(k)'
<1> DEFINE Goal == \/ state[k] # "none" /\ (Told(k) => Told(k)')
                   \/ record' = k /\ ~Settled(k)'
<1> /\ up \in [Lobbies -> BOOLEAN] /\ state \in [Lobbies -> {"none", "load", "play"}]
    /\ session \in [Lobbies -> Conns \cup {NoConn}] /\ words \in [Lobbies -> Nat]
    /\ other \in [Lobbies -> BOOLEAN] /\ lost \in [Lobbies -> BOOLEAN]
    /\ busy \in [Lobbies -> Lobbies \cup {NoLobby}] /\ EmptyLobbies
    /\ NoLobby \notin Lobbies /\ NoConn \notin Conns /\ record \in Lobbies \cup {NoLobby}
  BY SessionAssumption DEF LinkInv, TypeOK
<1>1. ASSUME NEW c \in Conns, NEW l \in Lobbies, LoginAgain(c, l)
      PROVE  Goal
  BY <1>1 DEF Told, Settled, EmptyLobbies, LoginAgain, Asks, OnLogin, Parts
<1>2. ASSUME NEW c \in Conns, NEW l \in Lobbies, LoginTakesOver(c, l)
      PROVE  Goal
  BY <1>2 DEF Told, Settled, EmptyLobbies, LoginTakesOver, Asks, OnLogin, Rebind, CheckOtherLobbyServer, object
<1>3. ASSUME NEW c \in Conns, NEW l \in Lobbies, LoginCreates(c, l)
      PROVE  Goal
  <2>1. record' = l /\ state' = [state EXCEPT ![l] = "load"] /\ up[l] /\ busy[l] = NoLobby
        /\ UNCHANGED <<up, busy, other, words, lost>>
    BY <1>3 DEF LoginCreates, OnLogin, Asks, Runs
  <2> QED
    BY <2>1 DEF Told, Settled
<1>4. ASSUME NEW c \in Conns, Disconnect(c)
      PROVE  Goal
  BY <1>4 DEF Told, Settled, EmptyLobbies, Disconnect, Runs, Close
<1>5. ASSUME NEW l \in Lobbies, KillPlayer(l)
      PROVE  Goal
  BY <1>5 DEF Told, Settled, EmptyLobbies, KillPlayer, Runs, Close
<1>6. ASSUME NEW l \in Lobbies, LoadAnswer(l)
      PROVE  Goal
  BY <1>6 DEF Told, Settled, EmptyLobbies, LoadAnswer, Runs, CheckOtherLobbyServer
<1>7. ASSUME NEW l \in Lobbies, LoadFails(l)
      PROVE  Goal
  BY <1>7 DEF Told, Settled, EmptyLobbies, LoadFails, Runs, object
<1>8. ASSUME NEW l \in Lobbies, CheckOther(l)
      PROVE  Goal
  BY <1>8 DEF Told, Settled, EmptyLobbies, CheckOther, Runs, Close
<1>9. ASSUME NEW l \in Lobbies, LoseWord(l)
      PROVE  Goal
  BY <1>9 DEF Told, Settled, EmptyLobbies, LoseWord, object
<1>10. ASSUME NEW l \in Lobbies, Recover(l)
      PROVE  Goal
  BY <1>10 DEF Told, Settled, EmptyLobbies, Recover, Runs, NeedRecover, OwnRecord, Close, Remove, object
<1>11. ASSUME NEW l \in Lobbies, DeleteRecord(l)
      PROVE  Goal
  BY <1>11 DEF Told, Settled, EmptyLobbies, DeleteRecord, Close, Remove
<1>12. ASSUME NEW l \in Lobbies, EnterGame(l)
      PROVE  Goal
  BY <1>12 DEF Told, Settled, EmptyLobbies, EnterGame, Runs
<1>13. ASSUME NEW l \in Lobbies, BackLobby(l)
      PROVE  Goal
  BY <1>13 DEF Told, Settled, EmptyLobbies, BackLobby, Runs
<1>14. ASSUME NEW l \in Lobbies, Crash(l)
      PROVE  Goal
  BY <1>14 DEF Told, Settled, EmptyLobbies, Crash, Close, Remove
<1>15. ASSUME NEW l \in Lobbies, Start(l)
      PROVE  Goal
  BY <1>15 DEF Told, Settled, EmptyLobbies, Start, OwnRecord, object
<1>16. ASSUME NEW in \in BOOLEAN, GameReads(in)
      PROVE  Goal
  BY <1>16 DEF Told, Settled, EmptyLobbies, GameReads, object
<1>17. ASSUME GameWrites
      PROVE  Goal
  BY <1>17 DEF Told, Settled, EmptyLobbies, GameWrites, object
<1> QED
  BY <1>1, <1>2, <1>3, <1>4, <1>5, <1>6, <1>7, <1>8, <1>9, <1>10, <1>11, <1>12, <1>13, <1>14, <1>15, <1>16, <1>17 DEF Next

\* The record is taken over by a login, which either is not settled or tells the
\* others, or deleted by the lobby it names, which was settled.
LEMMA RecordStep ==
    ASSUME LinkInv, Next, ~astray'
    PROVE  /\ ~astray
           /\ \/ record' = record
              \/ \E r \in Lobbies : /\ record' = r
                                    /\ \/ ~Settled(r)'
                                       \/ \A m \in Lobbies \ {r, Master} : words'[m] > 0
              \/ \E r \in Lobbies : /\ record' = NoLobby /\ record = r /\ Settled(r)
                                    /\ state'[r] = "none"
<1> DEFINE Goal == /\ ~astray
                   /\ \/ record' = record
                      \/ \E r \in Lobbies : /\ record' = r
                                            /\ \/ ~Settled(r)'
                                               \/ \A m \in Lobbies \ {r, Master} : words'[m] > 0
                      \/ \E r \in Lobbies : /\ record' = NoLobby /\ record = r /\ Settled(r)
                                            /\ state'[r] = "none"
<1> /\ up \in [Lobbies -> BOOLEAN] /\ state \in [Lobbies -> {"none", "load", "play"}]
    /\ session \in [Lobbies -> Conns \cup {NoConn}] /\ words \in [Lobbies -> Nat]
    /\ other \in [Lobbies -> BOOLEAN] /\ lost \in [Lobbies -> BOOLEAN]
    /\ busy \in [Lobbies -> Lobbies \cup {NoLobby}] /\ EmptyLobbies
    /\ NoLobby \notin Lobbies /\ NoConn \notin Conns /\ record \in Lobbies \cup {NoLobby}
  BY SessionAssumption DEF LinkInv, TypeOK
<1>1. ASSUME NEW c \in Conns, NEW l \in Lobbies, LoginAgain(c, l)
      PROVE  Goal
  <2>1. record' = l /\ state'[l] = "load" /\ up'[l] /\ busy'[l] = NoLobby
        /\ UNCHANGED astray
    BY <1>1 DEF LoginAgain, OnLogin, Asks, Runs
  <2> QED
    BY <2>1 DEF Settled
<1>2. ASSUME NEW c \in Conns, NEW l \in Lobbies, LoginTakesOver(c, l)
      PROVE  Goal
  <2>1. record' = l /\ up'[l] /\ busy'[l] = NoLobby /\ UNCHANGED astray
    BY <1>2 DEF LoginTakesOver, OnLogin, Asks, Runs
  <2>2. CASE CheckOtherLobbyServer(l)
    BY <2>1, <2>2 DEF CheckOtherLobbyServer
  <2>3. CASE state'[l] = "load"
    BY <2>1, <2>3 DEF Settled
  <2> QED
    BY <1>2, <2>2, <2>3 DEF LoginTakesOver, OnLogin
<1>3. ASSUME NEW c \in Conns, NEW l \in Lobbies, LoginCreates(c, l)
      PROVE  Goal
  <2>1. record' = l /\ state'[l] = "load" /\ up'[l] /\ busy'[l] = NoLobby
        /\ UNCHANGED astray
    BY <1>3 DEF LoginCreates, OnLogin, Asks, Runs
  <2> QED
    BY <2>1 DEF Settled
<1>4. ASSUME NEW c \in Conns, Disconnect(c)
      PROVE  Goal
  BY <1>4 DEF Settled, EmptyLobbies, Disconnect, Runs, Close
<1>5. ASSUME NEW l \in Lobbies, KillPlayer(l)
      PROVE  Goal
  BY <1>5 DEF Settled, EmptyLobbies, KillPlayer, Runs, Close
<1>6. ASSUME NEW l \in Lobbies, LoadAnswer(l)
      PROVE  Goal
  BY <1>6 DEF Settled, EmptyLobbies, LoadAnswer, Runs, CheckOtherLobbyServer
<1>7. ASSUME NEW l \in Lobbies, LoadFails(l)
      PROVE  Goal
  BY <1>7 DEF Settled, EmptyLobbies, LoadFails, Runs, object
<1>8. ASSUME NEW l \in Lobbies, CheckOther(l)
      PROVE  Goal
  BY <1>8 DEF Settled, EmptyLobbies, CheckOther, Runs, Close
<1>9. ASSUME NEW l \in Lobbies, LoseWord(l)
      PROVE  Goal
  BY <1>9 DEF Settled, EmptyLobbies, LoseWord, object
<1>10. ASSUME NEW l \in Lobbies, Recover(l)
      PROVE  Goal
  BY <1>10 DEF Settled, EmptyLobbies, Recover, Runs, NeedRecover, OwnRecord, Close, Remove, object
<1>11. ASSUME NEW l \in Lobbies, DeleteRecord(l)
      PROVE  Goal
  BY <1>11 DEF Settled, EmptyLobbies, DeleteRecord, Close, Remove
<1>12. ASSUME NEW l \in Lobbies, EnterGame(l)
      PROVE  Goal
  BY <1>12 DEF Settled, EmptyLobbies, EnterGame, Runs
<1>13. ASSUME NEW l \in Lobbies, BackLobby(l)
      PROVE  Goal
  BY <1>13 DEF Settled, EmptyLobbies, BackLobby, Runs
<1>14. ASSUME NEW l \in Lobbies, Crash(l)
      PROVE  Goal
  BY <1>14 DEF Settled, EmptyLobbies, Crash, Close, Remove
<1>15. ASSUME NEW l \in Lobbies, Start(l)
      PROVE  Goal
  BY <1>15 DEF Settled, EmptyLobbies, Start, OwnRecord, object
<1>16. ASSUME NEW in \in BOOLEAN, GameReads(in)
      PROVE  Goal
  BY <1>16 DEF Settled, EmptyLobbies, GameReads, object
<1>17. ASSUME GameWrites
      PROVE  Goal
  BY <1>17 DEF Settled, EmptyLobbies, GameWrites, object
<1> QED
  BY <1>1, <1>2, <1>3, <1>4, <1>5, <1>6, <1>7, <1>8, <1>9, <1>10, <1>11, <1>12, <1>13, <1>14, <1>15, <1>16, <1>17 DEF Next

\* The lobby the record names settles by telling the others.
LEMMA SettledStep ==
    ASSUME LinkInv, Next, ~astray', NEW r \in Lobbies, record = r, record' = r, Settled(r)'
    PROVE  Settled(r) \/ \A m \in Lobbies \ {r, Master} : words'[m] > 0
<1> DEFINE Goal == Settled(r) \/ \A m \in Lobbies \ {r, Master} : words'[m] > 0
<1> /\ up \in [Lobbies -> BOOLEAN] /\ state \in [Lobbies -> {"none", "load", "play"}]
    /\ session \in [Lobbies -> Conns \cup {NoConn}] /\ words \in [Lobbies -> Nat]
    /\ other \in [Lobbies -> BOOLEAN] /\ lost \in [Lobbies -> BOOLEAN]
    /\ busy \in [Lobbies -> Lobbies \cup {NoLobby}] /\ EmptyLobbies
    /\ NoLobby \notin Lobbies /\ NoConn \notin Conns /\ record \in Lobbies \cup {NoLobby}
  BY SessionAssumption DEF LinkInv, TypeOK
<1>1. ASSUME NEW c \in Conns, NEW l \in Lobbies, LoginAgain(c, l)
      PROVE  Goal
  BY <1>1 DEF Settled, EmptyLobbies, LoginAgain, Asks, OnLogin, Parts
<1>2. ASSUME NEW c \in Conns, NEW l \in Lobbies, LoginTakesOver(c, l)
      PROVE  Goal
  BY <1>2 DEF Settled, EmptyLobbies, LoginTakesOver, Asks, OnLogin, Rebind, CheckOtherLobbyServer, object
<1>3. ASSUME NEW c \in Conns, NEW l \in Lobbies, LoginCreates(c, l)
      PROVE  Goal
  BY <1>3 DEF Settled, EmptyLobbies, LoginCreates, Asks, OnLogin, Rebind
<1>4. ASSUME NEW c \in Conns, Disconnect(c)
      PROVE  Goal
  BY <1>4 DEF Settled, EmptyLobbies, Disconnect, Runs, Close
<1>5. ASSUME NEW l \in Lobbies, KillPlayer(l)
      PROVE  Goal
  BY <1>5 DEF Settled, EmptyLobbies, KillPlayer, Runs, Close
<1>6. ASSUME NEW l \in Lobbies, LoadAnswer(l)
      PROVE  Goal
  BY <1>6 DEF Settled, EmptyLobbies, LoadAnswer, Runs, CheckOtherLobbyServer
<1>7. ASSUME NEW l \in Lobbies, LoadFails(l)
      PROVE  Goal
  BY <1>7 DEF Settled, EmptyLobbies, LoadFails, Runs, object
<1>8. ASSUME NEW l \in Lobbies, CheckOther(l)
      PROVE  Goal
  BY <1>8 DEF Settled, EmptyLobbies, CheckOther, Runs, Close
<1>9. ASSUME NEW l \in Lobbies, LoseWord(l)
      PROVE  Goal
  BY <1>9 DEF Settled, EmptyLobbies, LoseWord, object
<1>10. ASSUME NEW l \in Lobbies, Recover(l)
      PROVE  Goal
  BY <1>10 DEF Settled, EmptyLobbies, Recover, Runs, NeedRecover, OwnRecord, Close, Remove, object
<1>11. ASSUME NEW l \in Lobbies, DeleteRecord(l)
      PROVE  Goal
  BY <1>11 DEF Settled, EmptyLobbies, DeleteRecord, Close, Remove
<1>12. ASSUME NEW l \in Lobbies, EnterGame(l)
      PROVE  Goal
  BY <1>12 DEF Settled, EmptyLobbies, EnterGame, Runs
<1>13. ASSUME NEW l \in Lobbies, BackLobby(l)
      PROVE  Goal
  BY <1>13 DEF Settled, EmptyLobbies, BackLobby, Runs
<1>14. ASSUME NEW l \in Lobbies, Crash(l)
      PROVE  Goal
  BY <1>14 DEF Settled, EmptyLobbies, Crash, Close, Remove
<1>15. ASSUME NEW l \in Lobbies, Start(l)
      PROVE  Goal
  BY <1>15 DEF Settled, EmptyLobbies, Start, OwnRecord, object
<1>16. ASSUME NEW in \in BOOLEAN, GameReads(in)
      PROVE  Goal
  BY <1>16 DEF Settled, EmptyLobbies, GameReads, object
<1>17. ASSUME GameWrites
      PROVE  Goal
  BY <1>17 DEF Settled, EmptyLobbies, GameWrites, object
<1> QED
  BY <1>1, <1>2, <1>3, <1>4, <1>5, <1>6, <1>7, <1>8, <1>9, <1>10, <1>11, <1>12, <1>13, <1>14, <1>15, <1>16, <1>17 DEF Next

LEMMA OneServesStep == ASSUME LinkInv, OneServes, Next PROVE OneServes'
<1> SUFFICES ASSUME NEW k \in Lobbies, NEW l \in Lobbies, Serves(k)', Serves(l)', k # l
             PROVE  \E m \in {k, l} : m = Master \/ words'[m] > 0 \/ lost'[m]
  BY DEF OneServes
<1>1. CASE Serves(k) /\ Serves(l)
  <2>1. \E m \in {k, l} : m = Master \/ words[m] > 0 \/ lost[m]
    BY <1>1 DEF OneServes
  <2> QED
    BY <2>1, ServeStep
<1>2. CASE ~Serves(k)
  BY <1>2, ServeStep
<1>3. CASE ~Serves(l)
  BY <1>3, ServeStep
<1> QED
  BY <1>1, <1>2, <1>3

LEMMA RecordKeptStep ==
    ASSUME LinkInv, RecordKept, OthersTold, Next PROVE RecordKept' /\ OthersTold'
<1>1. RecordKept'
  <2> SUFFICES ASSUME ~astray', record' = NoLobby, NEW l \in Lobbies, state'[l] # "none"
               PROVE  Told(l)'
    BY DEF RecordKept
  <2>1. state[l] # "none" /\ (Told(l) => Told(l)')
    BY ToldStep, SessionAssumption
  <2>2. CASE record = NoLobby
    BY <2>1, <2>2, RecordStep DEF RecordKept
  <2>3. CASE record # NoLobby
    <3>1. PICK r \in Lobbies : record = r /\ Settled(r) /\ state'[r] = "none"
      BY <2>3, RecordStep, SessionAssumption
    <3> QED
      BY <2>1, <3>1, RecordStep DEF OthersTold
  <2> QED
    BY <2>2, <2>3
<1>2. OthersTold'
  <2> SUFFICES ASSUME ~astray', NEW r \in Lobbies, record' = r, Settled(r)',
                      NEW l \in Lobbies \ {r}, state'[l] # "none"
               PROVE  Told(l)'
    BY DEF OthersTold
  <2>1. state[l] # "none" /\ (Told(l) => Told(l)')
    BY ToldStep
  <2>2. CASE \A m \in Lobbies \ {r, Master} : words'[m] > 0
    BY <2>2 DEF Told
  <2>3. CASE record = r /\ Settled(r)
    BY <2>1, <2>3, RecordStep DEF OthersTold
  <2> QED
    BY <2>2, <2>3, RecordStep, SettledStep, SessionAssumption
<1> QED
  BY <1>1, <1>2

-----------------------------------------------------------------------------
(* The invariants.                                                         *)

LEMMA SessionInit == Init => SessionInv
<1> SUFFICES ASSUME Init PROVE SessionInv
  OBVIOUS
<1>1. TypeOK
  <2>1. <<>> \in Seq(Parts) /\ 0 \in 0 .. MaxEvents
    BY SessionAssumption
  <2>2. /\ pending \in [Lobbies -> Seq(Parts)] /\ events \in 0 .. MaxEvents
        /\ link \in [Conns -> Lobbies \cup {NoLobby}]
        /\ {up, other, need, inGame, lost} \subseteq [Lobbies -> BOOLEAN]
    BY <2>1 DEF Init
  <2> QED
    BY <2>2 DEF Init, TypeOK
<1>2. SessionsAgree /\ EmptyLobbies
  BY SessionAssumption DEF Init, SessionsAgree, EmptyLobbies
<1>3. OneServes /\ RecordKept /\ OthersTold
  BY SessionAssumption DEF Init, OneServes, Serves, RecordKept, OthersTold
<1> QED
  BY <1>1, <1>2, <1>3 DEF SessionInv, LinkInv

LEMMA SessionStep == SessionInv /\ [Next]_vars => SessionInv'
<1> SUFFICES ASSUME SessionInv, [Next]_vars PROVE SessionInv'
  OBVIOUS
<1>1. CASE Next
  BY <1>1, TypeStep, LinkStep, OneServesStep, RecordKeptStep DEF SessionInv, LinkInv
<1>2. CASE UNCHANGED vars
  <2>1. LinkInv'
    BY <1>2, LinkStutter DEF SessionInv
  <2>2. OneServes' /\ RecordKept' /\ OthersTold'
    BY <1>2 DEF SessionInv, OneServes, Serves, RecordKept, OthersTold, Settled, Told, vars
  <2> QED
    BY <2>1, <2>2 DEF SessionInv
<1> QED
  BY <1>1, <1>2

LEMMA SessionCorrect == Spec => []SessionInv
  BY SessionInit, SessionStep, PTL DEF Spec

\* Every variable keeps its type, however the lobbies, the dispatch server and
\* the game server interleave.
THEOREM TypeCorrect == Spec => []TypeOK
<1>1. SessionInv => TypeOK
  BY DEF SessionInv, LinkInv
<1> QED
  BY <1>1, SessionCorrect, PTL

\* Connections and objects point at each other (handle_msg_login, DestroyObj).
THEOREM SessionsAgreeCorrect == Spec => []SessionsAgree
<1>1. SessionInv => SessionsAgree
  BY DEF SessionInv, LinkInv
<1> QED
  BY <1>1, SessionCorrect, PTL

\* Two lobbies serve a player only while a word is under way, lost or not sent
\* (CheckOtherLobbyServer), for any number of lobbies.
THEOREM OneServesCorrect == Spec => []OneServes
<1>1. SessionInv => OneServes
  BY DEF SessionInv
<1> QED
  BY <1>1, SessionCorrect, PTL

\* redis does not forget a player whom a lobby keeps (DelPlayerLobbySvrID).
THEOREM RecordKeptCorrect == Spec => []RecordKept
<1>1. SessionInv => RecordKept
  BY DEF SessionInv
<1> QED
  BY <1>1, SessionCorrect, PTL
=============================================================================
