---------------------------- MODULE LobbySession ----------------------------
(***************************************************************************)
(* One player's logins over all the lobbies, and the record of them in     *)
(* redis.                                                                  *)
(*                                                                         *)
(* Each lobby may hold a CPlayer object for the player: it is created by   *)
(* his login, loads its data from the database in parts, plays, and is     *)
(* recovered by a timer (CheckRecoverPlayer).  A client connection and the *)
(* object point at each other (NetworkObject's uid, m_pSession).  redis    *)
(* (OLLOBBY) names the lobby the player is at.                             *)
(*                                                                         *)
(* A lobby whose object starts to play asks the dispatch server to tell    *)
(* the other lobbies; a lobby that is told throws its object out.  The     *)
(* lobbies do not look at redis to decide: so objects at several lobbies,  *)
(* words under way between them and the record change independently.      *)
(***************************************************************************)
EXTENDS Naturals, Sequences, FiniteSets

CONSTANTS
    Lobbies,     \* the lobby servers
    Master,      \* the master lobby, which nobody tells anything, or NoLobby
    NoLobby,     \* no lobby: an empty record, a connection that is not open
    Conns,       \* client connections; a closed one may be opened again
    NoConn,      \* no session
    NParts,      \* parts of a player's data that are loaded one by one
    MaxEvents    \* bound: login requests and crashes of lobbies

ASSUME SessionAssumption ==
    /\ NoLobby \notin Lobbies
    /\ NoConn \notin Conns
    /\ Master \in Lobbies \cup {NoLobby}
    /\ NParts \in Nat \ {0}
    /\ MaxEvents \in Nat

Parts == 1 .. NParts

VARIABLES
    link,      \* the lobby a connection is logged in at (its uid), or NoLobby
    up,        \* whether a lobby runs
    state,     \* m_bPlayerState of a lobby's object, "none" when there is none
    session,   \* m_pSession
    other,     \* m_otherRecover: told that he is at another lobby
    need,      \* m_needRecover: thrown out
    inGame,    \* m_curSvrID # 0
    got,       \* m_loadState: the parts that have arrived
    pending,   \* answers of the database under way to a lobby, in order
    busy,      \* what a lobby has read in the record it is about to delete
    words,     \* msg_check_other_lobby_server under way to a lobby
    lost,      \* one of them was lost, and none has arrived since
    record,    \* OLLOBBY: the lobby redis names
    game,      \* ONLINE: redis says he is at the game server
    gread,     \* the lobby the game server has read and is about to write back
    astray,    \* the record was overwritten blindly, or a crash cut a login short
    events     \* login requests and crashes so far

object == <<state, session, other, need, inGame, got>>
vars   == <<link, up, state, session, other, need, inGame, got, pending,
            busy, words, lost, record, game, gread, astray, events>>

TypeOK ==
    /\ link \in [Conns -> Lobbies \cup {NoLobby}]
    /\ {up, other, need, inGame, lost} \subseteq [Lobbies -> BOOLEAN]
    /\ state \in [Lobbies -> {"none", "load", "play"}]
    /\ session \in [Lobbies -> Conns \cup {NoConn}]
    /\ got \in [Lobbies -> SUBSET Parts]
    /\ pending \in [Lobbies -> Seq(Parts)]
    /\ words \in [Lobbies -> Nat]
    /\ busy \in [Lobbies -> Lobbies \cup {NoLobby}]
    /\ {record, gread} \subseteq Lobbies \cup {NoLobby}
    /\ {game, astray} \subseteq BOOLEAN
    /\ events \in 0 .. MaxEvents

-----------------------------------------------------------------------------
(* What several handlers do.  Operators named Broken... are seeded bugs:   *)
(* nothing uses them but the tests of the properties.                      *)

\* A lobby handles the next event only when it is not in the middle of one.
Runs(l) == up[l] /\ busy[l] = NoLobby

\* The connections S are closed and carry no uid any more.
Close(S) ==
    link' = [c \in Conns |-> IF c \in S THEN NoLobby ELSE link[c]]

BrokenRebind(old, new, l) ==
    link' = [c \in Conns |-> IF c = new THEN l ELSE link[c]]

\* The new session carries the uid, the old one is closed.
Rebind(old, new, l) ==
    link' = [c \in Conns |-> IF c = new THEN l ELSE IF c = old THEN NoLobby ELSE link[c]]

\* A relogin that does not ask for the others to be told.
BrokenTellsNobody(l) ==
    words' = words

\* CheckOtherLobbyServer: the dispatch server tells every lobby but the one
\* that asks and the master.
CheckOtherLobbyServer(l) ==
    words' = [k \in Lobbies |-> IF k \in {l, Master} THEN words[k] ELSE words[k] + 1]

BrokenForgetsParts(l) ==
    /\ record'  = l
    /\ state'   = [state EXCEPT ![l] = "load"]
    /\ pending' = [pending EXCEPT ![l] = @ \o [i \in Parts |-> i - 1]]

\* OnLogin: take the record over and load every part.
OnLogin(l) ==
    /\ record'  = l
    /\ state'   = [state EXCEPT ![l] = "load"]
    /\ pending' = [pending EXCEPT ![l] = @ \o [i \in Parts |-> i]]

\* RemovePlayer and the destructor, which closes the session: no object is left.
Remove(l) ==
    /\ state'   = [state EXCEPT ![l] = "none"]
    /\ session' = [session EXCEPT ![l] = NoConn]
    /\ other'   = [other EXCEPT ![l] = FALSE]
    /\ need'    = [need EXCEPT ![l] = FALSE]
    /\ inGame'  = [inGame EXCEPT ![l] = FALSE]
    /\ got'     = [got EXCEPT ![l] = {}]

-----------------------------------------------------------------------------
(* Logins.  A connection that carries no uid changes nothing: opening it is *)
(* part of the login.                                                      *)

\* What every login request needs.
Asks(l) ==
    /\ Runs(l)
    /\ events < MaxEvents
    /\ events' = events + 1

\* handle_msg_login over a connection that is logged in: only an object that
\* still loads starts its login again.
LoginAgain(c, l) ==
    /\ Asks(l)
    /\ link[c] = l /\ state[l] = "load"
    /\ OnLogin(l)
    /\ UNCHANGED <<link, up, session, other, need, inGame, got, busy, words, lost,
                   game, gread, astray>>

\* The player has an object here: the new connection takes its session.  The
\* flags that will throw the object out stay as they are.
LoginTakesOver(c, l) ==
    /\ Asks(l)
    /\ link[c] = NoLobby /\ state[l] # "none"
    /\ Rebind(session[l], c, l)
    /\ session' = [session EXCEPT ![l] = c]
    /\ \/ state[l] = "play" /\ record' = l           \* ReLogin
          /\ CheckOtherLobbyServer(l)
          /\ UNCHANGED <<state, pending>>
       \/ state[l] = "load" /\ OnLogin(l)
          /\ UNCHANGED words
    /\ UNCHANGED <<up, other, need, inGame, got, busy, lost, game, gread, astray>>

LoginCreates(c, l) ==
    /\ Asks(l)
    /\ link[c] = NoLobby /\ state[l] = "none"
    /\ Rebind(NoConn, c, l)
    /\ session' = [session EXCEPT ![l] = c]
    /\ OnLogin(l)
    /\ UNCHANGED <<up, other, need, inGame, got, busy, words, lost, game, gread,
                   astray>>

\* ClientHandle::DestroyObj: the socket closes or its heartbeat times out.  The
\* object keeps waiting without a session.
Disconnect(c) ==
    /\ link[c] # NoLobby /\ Runs(link[c])
    /\ Close({c})
    /\ session' = [session EXCEPT ![link[c]] = IF @ = c THEN NoConn ELSE @]
    /\ UNCHANGED <<up, state, other, need, inGame, got, pending, busy, words, lost,
                   record, game, gread, astray, events>>

\* handle_php_kill_player: the site throws the player out of this lobby.
KillPlayer(l) ==
    /\ Runs(l) /\ state[l] # "none"
    /\ Close({session[l]})
    /\ session' = [session EXCEPT ![l] = NoConn]
    /\ need' = [need EXCEPT ![l] = TRUE]
    /\ UNCHANGED <<up, state, other, inGame, got, pending, busy, words, lost, record,
                   game, gread, astray, events>>

-----------------------------------------------------------------------------
(* Loading.  Answers carry the uid only: those of an earlier login, even   *)
(* of an earlier object, fill the one that is there.                       *)

LoadAnswer(l) ==
    /\ Runs(l) /\ pending[l] # <<>>
    /\ pending' = [pending EXCEPT ![l] = Tail(@)]
    /\ LET all == got[l] \cup {Head(pending[l])} = Parts
       IN  \/ state[l] = "load"
              /\ got' = [got EXCEPT ![l] = @ \cup {Head(pending[l])}]
              /\ \/ all /\ state' = [state EXCEPT ![l] = "play"]      \* OnGetAllData
                    /\ inGame' = [inGame EXCEPT ![l] = game]
                    /\ CheckOtherLobbyServer(l)
                 \/ ~all /\ UNCHANGED <<state, inGame, words>>
           \/ state[l] # "load" /\ UNCHANGED <<got, state, inGame, words>>
    /\ UNCHANGED <<link, up, session, other, need, busy, lost, record, game, gread,
                   astray, events>>

\* The query fails, or finds no row: the part is never delivered.
LoadFails(l) ==
    /\ Runs(l) /\ pending[l] # <<>>
    /\ pending' = [pending EXCEPT ![l] = Tail(@)]
    /\ UNCHANGED <<link, up, object, busy, words, lost, record, game, gread, astray,
                   events>>

-----------------------------------------------------------------------------
(* Told by another lobby.                                                  *)

\* Throws out only an object whose client has left.
BrokenSparesClient(l) ==
    /\ Runs(l) /\ words[l] > 0
    /\ words' = [words EXCEPT ![l] = @ - 1]
    /\ lost' = [lost EXCEPT ![l] = FALSE]
    /\ other' = [other EXCEPT ![l] = @ \/ (state[l] # "none" /\ session[l] = NoConn)]
    /\ UNCHANGED <<need, link, session>>
    /\ UNCHANGED <<up, state, inGame, got, pending, busy, record, game, gread, astray,
                   events>>

\* handle_check_other_lobby_server, whatever redis says by now.
CheckOther(l) ==
    /\ Runs(l) /\ words[l] > 0
    /\ words' = [words EXCEPT ![l] = @ - 1]
    /\ lost' = [lost EXCEPT ![l] = FALSE]
    /\ \/ state[l] # "none"
          /\ other' = [other EXCEPT ![l] = TRUE]
          /\ need' = [need EXCEPT ![l] = @ \/ session[l] # NoConn]
          /\ Close({session[l]})
          /\ session' = [session EXCEPT ![l] = NoConn]
       \/ state[l] = "none" /\ UNCHANGED <<other, need, link, session>>
    /\ UNCHANGED <<up, state, inGame, got, pending, busy, record, game, gread, astray,
                   events>>

\* The dispatch server, or the link to it, is down.
LoseWord(l) ==
    /\ words[l] > 0
    /\ words' = [words EXCEPT ![l] = @ - 1]
    /\ lost' = [lost EXCEPT ![l] = TRUE]
    /\ UNCHANGED <<link, up, object, pending, busy, record, game, gread, astray,
                   events>>

-----------------------------------------------------------------------------
(* Recovery.                                                               *)

BrokenWaitsForLoad(l) ==
    \/ state[l] = "play" /\ other[l]
    \/ state[l] = "play" /\ ~inGame[l] /\ (session[l] = NoConn \/ need[l])

BrokenSparesPlayers(l) ==
    \/ state[l] = "load"
    \/ state[l] = "play" /\ ~inGame[l] /\ (session[l] = NoConn \/ need[l])

\* NeedRecover; how long a load or an absence may last is left open.
NeedRecover(l) ==
    \/ state[l] = "load"
    \/ other[l]
    \/ state[l] = "play" /\ ~inGame[l] /\ (session[l] = NoConn \/ need[l])

BrokenOwnRecord(l) == record # NoLobby

\* Whether OnLoginOut goes on to delete the record: DelPlayerLobbySvrID has read
\* its own id in it.
OwnRecord(l) == record = l

\* CheckRecoverPlayer, up to the delete.
Recover(l) ==
    /\ Runs(l) /\ state[l] # "none"
    /\ NeedRecover(l)
    /\ \/ state[l] = "play" /\ OwnRecord(l)
          /\ busy' = [busy EXCEPT ![l] = record]
          /\ UNCHANGED <<link, object>>
       \/ ~(state[l] = "play" /\ OwnRecord(l))
          /\ Close({session[l]})
          /\ Remove(l)
          /\ UNCHANGED busy
    /\ UNCHANGED <<up, pending, words, lost, record, game, gread, astray, events>>

\* HDEL, and the object goes.
DeleteRecord(l) ==
    /\ up[l] /\ busy[l] # NoLobby
    /\ busy' = [busy EXCEPT ![l] = NoLobby]
    /\ record' = NoLobby
    /\ astray' = (astray \/ record # busy[l])
    /\ Close({session[l]})
    /\ Remove(l)
    /\ UNCHANGED <<up, pending, words, lost, game, gread, events>>

-----------------------------------------------------------------------------
(* The game server.                                                        *)

\* A client asks for a game; the lobby notes it before the game server answers.
EnterGame(l) ==
    /\ Runs(l) /\ state[l] = "play" /\ session[l] # NoConn /\ ~inGame[l]
    /\ inGame' = [inGame EXCEPT ![l] = TRUE]
    /\ UNCHANGED <<link, up, state, session, other, need, got, pending, busy, words,
                   lost, record, game, gread, astray, events>>

\* handle_msg_leave_svr: the game server has let him go, or never took him.
BackLobby(l) ==
    /\ Runs(l) /\ inGame[l] /\ ~game
    /\ inGame' = [inGame EXCEPT ![l] = FALSE]
    /\ UNCHANGED <<link, up, state, session, other, need, got, pending, busy, words,
                   lost, record, game, gread, astray, events>>

\* CGamePlayer::SetCurSvrID writes where he plays and reads the record ...
GameReads(in) ==
    /\ gread = NoLobby /\ game = ~in
    /\ in => \E l \in Lobbies : inGame[l]
    /\ game' = in
    /\ gread' = record
    /\ UNCHANGED <<link, up, object, pending, busy, words, lost, record, astray,
                   events>>

\* ... and writes it back with its own id.
GameWrites ==
    /\ gread # NoLobby
    /\ record' = gread
    /\ astray' = (astray \/ record # gread)
    /\ gread' = NoLobby
    /\ UNCHANGED <<link, up, object, pending, busy, words, lost, game, events>>

-----------------------------------------------------------------------------
(* A lobby crashes and starts again.                                       *)

Crash(l) ==
    /\ up[l] /\ events < MaxEvents
    /\ events' = events + 1
    /\ up' = [up EXCEPT ![l] = FALSE]
    /\ busy' = [busy EXCEPT ![l] = NoLobby]
    /\ Close({c \in Conns : link[c] = l})
    /\ Remove(l)
    /\ pending' = [pending EXCEPT ![l] = <<>>]
    /\ words' = [words EXCEPT ![l] = 0]
    /\ lost' = [lost EXCEPT ![l] = FALSE]
    /\ astray' = (astray \/ (record = l /\ state[l] # "play"))
    /\ UNCHANGED <<record, game, gread>>

\* ClearPlayerOnlineLobbySvrID: the lobby deletes the records that name it.
Start(l) ==
    /\ ~up[l]
    /\ up' = [up EXCEPT ![l] = TRUE]
    /\ busy' = [busy EXCEPT ![l] = IF OwnRecord(l) THEN record ELSE NoLobby]
    /\ UNCHANGED <<link, object, pending, words, lost, record, game, gread, astray,
                   events>>

-----------------------------------------------------------------------------
Init ==
    /\ link = [c \in Conns |-> NoLobby]
    /\ up = [l \in Lobbies |-> TRUE]
    /\ state = [l \in Lobbies |-> "none"]
    /\ session = [l \in Lobbies |-> NoConn]
    /\ other = [l \in Lobbies |-> FALSE]
    /\ need = [l \in Lobbies |-> FALSE]
    /\ inGame = [l \in Lobbies |-> FALSE]
    /\ got = [l \in Lobbies |-> {}]
    /\ pending = [l \in Lobbies |-> <<>>]
    /\ busy = [l \in Lobbies |-> NoLobby]
    /\ words = [l \in Lobbies |-> 0]
    /\ lost = [l \in Lobbies |-> FALSE]
    /\ record = NoLobby /\ gread = NoLobby
    /\ game = FALSE /\ astray = FALSE
    /\ events = 0

Next ==
    \/ \E c \in Conns :
          \/ \E l \in Lobbies : \/ LoginAgain(c, l)
                                \/ LoginTakesOver(c, l)
                                \/ LoginCreates(c, l)
          \/ Disconnect(c)
    \/ \E l \in Lobbies :
          \/ KillPlayer(l)
          \/ LoadAnswer(l) \/ LoadFails(l)
          \/ CheckOther(l) \/ LoseWord(l)
          \/ Recover(l) \/ DeleteRecord(l)
          \/ EnterGame(l) \/ BackLobby(l)
          \/ Crash(l) \/ Start(l)
    \/ \E in \in BOOLEAN : GameReads(in)
    \/ GameWrites

\* The recovery timer fires for ever, a command to redis returns, and what the
\* dispatch server has sent a lobby is read unless it is lost.
Fairness ==
    \A l \in Lobbies : /\ WF_vars(Recover(l) \/ DeleteRecord(l))
                       /\ WF_vars(CheckOther(l))

Spec == Init /\ [][Next]_vars /\ Fairness

-----------------------------------------------------------------------------
(* Properties.                                                             *)

\* A connection and an object point at each other or not at all, whichever of
\* login, takeover, kick, disconnect and removal came last (handle_msg_login,
\* DestroyObj): a socket that closes late never takes away a newer session.
SessionsAgree ==
    \A c \in Conns, l \in Lobbies :
        session[l] = c <=> link[c] = l

\* An object that knows, or is about to be told, that it has to go.
Told(l) == other[l] \/ words[l] > 0 \/ lost[l] \/ l = Master

Serves(l) == state[l] = "play" /\ session[l] # NoConn

\* Two lobbies serve the player at the same time only while a word is under way
\* to one of them, was lost on the way, or one is the master, which nobody
\* tells (CheckOtherLobbyServer, CheckOtherLobbyServerLogin).
OneServes ==
    \A k, l \in Lobbies :
        Serves(k) /\ Serves(l) /\ k # l
            => \E m \in {k, l} : m = Master \/ words[m] > 0 \/ lost[m]

\* Unless the record was overwritten blindly, redis forgets the player only when
\* every lobby that still holds him has been told to let go: what looks him up
\* there (gifts, the game server) does not miss a lobby that keeps him.
RecordKept ==
    ~astray /\ record = NoLobby =>
        \A l \in Lobbies : state[l] # "none" => Told(l)

\* Once nobody logs in any more, no load that was cut short and no object that
\* was told stays: the timer takes both away, also when the player has logged in
\* again on the object or sits in a game (NeedRecover).
NothingStuck == <>[](\A l \in Lobbies : state[l] # "load" /\ ~other[l])

\* And one lobby at most goes on serving the player, unless a word was lost or
\* the master is one of two.
EndsWithOne ==
    <>[](\A k, l \in Lobbies :
            Serves(k) /\ Serves(l) /\ k # l => \E m \in {k, l} : m = Master \/ lost[m])
=============================================================================
