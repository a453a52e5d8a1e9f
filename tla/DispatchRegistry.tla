--------------------------- MODULE DispatchRegistry ---------------------------
(***************************************************************************)
(* The dispatch server's register of running servers.                      *)
(*                                                                         *)
(* Every lobby and every game server keeps one connection to the dispatch  *)
(* server (DispatchMgr) and registers over it.  The dispatch server holds  *)
(* one entry per server id, CServerMgr::m_mpServers for game servers and   *)
(* CLobbyMgr::m_lobbySvrs for lobbies; the two tables work alike and are   *)
(* one function here.  It tells game servers of lobbies that appear and    *)
(* passes the operator's orders to retire.                                 *)
(*                                                                         *)
(* Connections break without either side knowing: the dispatch server      *)
(* learns it from a closed socket or a missed heartbeat, the client from   *)
(* a closed socket.  Until then a client that comes back is refused,       *)
(* because its old entry is still there, and tries again.                  *)
(***************************************************************************)
EXTENDS Integers, Sequences, FiniteSets

CONSTANTS
    GameSvrs,     \* ids of the game servers
    Lobbies,      \* ids of the lobbies
    Master,       \* the lobbies CheckIsMasterSvr picks: the robots' lobby
    Config0,      \* the lobbies in the server table when the system starts
    MaxLinks,     \* bound: connections of one server the dispatch server holds
    MaxFaults,    \* bound: broken links, dead processes, restarts, late beats
    MaxRetires    \* bound: orders to retire

Servers == GameSvrs \cup Lobbies
Slots   == 1 .. MaxLinks

NoSock == 0       \* the client has no socket
Gone   == -1      \* its socket is closed, which it has not noticed yet

ASSUME RegistryAssumption ==
    /\ GameSvrs \cap Lobbies = {}
    /\ Master \subseteq Lobbies /\ Config0 \subseteq Lobbies
    /\ MaxLinks \in Nat \ {0} /\ MaxFaults \in Nat /\ MaxRetires \in Nat

VARIABLES
    config,       \* the lobbies in the server table of the database
    running,      \* whether the server's process runs
    status,       \* its CApplication status, "normal" or "retire"
    isRun,        \* DispatchMgr::m_DispatchSvr.isRun
    sock,         \* its end of the connection: a slot, NoSock or Gone
    cut,          \* history: sending Register failed and nobody noticed
    known,        \* the lobbies a game server connects to: m_lobbySvrs
    link,         \* the connections the dispatch server holds
    reg,          \* its entries: NoEntry, or the connection and the status
    faults, retires   \* bounded counters

client == <<running, status, isRun, sock, cut, known>>
vars   == <<config, running, status, isRun, sock, cut, known, link, reg, faults, retires>>

Rep(ok)     == [type |-> "rep", ok |-> ok]
NewLobby(l) == [type |-> "newLobby", lobby |-> l]
RetireMsg   == [type |-> "retire"]

Reps == {Rep(ok) : ok \in BOOLEAN}
Msgs == Reps \cup {NewLobby(l) : l \in Lobbies} \cup {RetireMsg}

\* A connection: whether the dispatch server holds it, whether data still flows,
\* whether a Register is on its way to it, and what is on its way back.
Link    == [held : BOOLEAN, up : BOOLEAN, asked : BOOLEAN, toC : Seq(Msgs)]
Free    == [held |-> FALSE, up |-> FALSE, asked |-> FALSE, toC |-> <<>>]
Entry   == [link : Slots, status : {"normal", "retire"}]
NoEntry == [link |-> 0]

Held(s)       == {k \in Slots : link[s][k].held}
Registered(s) == reg[s] # NoEntry

Fault ==
    /\ faults < MaxFaults
    /\ faults' = faults + 1

\* The links of a server whose own end is closed: what it sent last may still
\* arrive, nothing it is sent will.
Closed(ls, k) ==
    IF k \in Slots THEN [ls EXCEPT ![k].up = FALSE, ![k].toC = <<>>] ELSE ls

\* The connection breaks under both: everything in it is lost.
Lost(ls, k) == [ls EXCEPT ![k].up = FALSE, ![k].asked = FALSE, ![k].toC = <<>>]

Send(ls, k, m) ==
    IF ls[k].up THEN [ls EXCEPT ![k].toC = Append(@, m)] ELSE ls

-----------------------------------------------------------------------------
Init ==
    /\ config = Config0
    /\ running = [s \in Servers |-> FALSE]
    /\ status = [s \in Servers |-> "normal"]
    /\ isRun = [s \in Servers |-> FALSE]
    /\ sock = [s \in Servers |-> NoSock]
    /\ cut = [s \in Servers |-> FALSE]
    /\ known = [g \in GameSvrs |-> {}]
    /\ link = [s \in Servers |-> [k \in Slots |-> Free]]
    /\ reg = [s \in Servers |-> NoEntry]
    /\ faults = 0 /\ retires = 0

-----------------------------------------------------------------------------
(* Lobbies and game servers.                                               *)

\* The operator adds a lobby to the server table.
AddConfig(l) ==
    /\ l \notin config
    /\ config' = config \cup {l}
    /\ UNCHANGED <<client, link, reg, faults, retires>>

\* A process starts: it reads the server table, a game server also the lobbies
\* it will connect to.  One that finds none gives up
\* (CLobbyMgr::Init, CFrameWork::InitializeEnvironment).
Boot(s) ==
    /\ ~running[s]
    /\ s \in GameSvrs \cup config
    /\ s \in GameSvrs => config # {}
    /\ running' = [running EXCEPT ![s] = TRUE]
    /\ status' = [status EXCEPT ![s] = "normal"]
    /\ isRun' = [isRun EXCEPT ![s] = FALSE]
    /\ sock' = [sock EXCEPT ![s] = NoSock]
    /\ cut' = [cut EXCEPT ![s] = FALSE]
    /\ known' = [g \in GameSvrs |-> IF g = s THEN config ELSE known[g]]
    /\ UNCHANGED <<config, link, reg, faults, retires>>

\* CCTcpHandle::Connect closes the socket the object still has and opens another.
\* asked: whether a Register follows at once.
Connect(s, asked) ==
    \E k \in Slots \ Held(s) :
        /\ \A j \in 1 .. k - 1 : j \in Held(s)
        /\ link' = [link EXCEPT ![s] =
                       [Closed(@, sock[s]) EXCEPT
                           ![k] = [held |-> TRUE, up |-> TRUE, asked |-> asked,
                                   toC |-> <<>>]]]
        /\ sock' = [sock EXCEPT ![s] = k]

\* The timer finds no running connection: connect, send Register, and count the
\* connection as running before the answer is there.
ReConnect(s) ==
    /\ running[s] /\ ~isRun[s]
    /\ Connect(s, TRUE)
    /\ isRun' = [isRun EXCEPT ![s] = TRUE]
    /\ UNCHANGED <<config, running, status, cut, known, reg, faults, retires>>

\* The connection is reset before Register is sent: Send closes it and
\* OnCloseClient clears isRun, but ReConnect then sets it.
ReConnectCut(s) ==
    /\ running[s] /\ ~isRun[s]
    /\ Fault
    /\ link' = [link EXCEPT ![s] = Closed(@, sock[s])]
    /\ sock' = [sock EXCEPT ![s] = NoSock]
    /\ isRun' = [isRun EXCEPT ![s] = TRUE]
    /\ cut' = [cut EXCEPT ![s] = TRUE]
    /\ UNCHANGED <<config, running, status, known, reg, retires>>

\* The dispatch server cannot be reached.
ReConnectFails(s) ==
    /\ running[s] /\ ~isRun[s]
    /\ Fault
    /\ link' = [link EXCEPT ![s] = Closed(@, sock[s])]
    /\ sock' = [sock EXCEPT ![s] = NoSock]
    /\ UNCHANGED <<config, running, status, isRun, cut, known, reg, retires>>

\* ReportInfo2Dispatch: Send connects an object that has no socket, without a
\* Register.
Report(s) ==
    /\ running[s] /\ sock[s] = NoSock
    /\ Connect(s, FALSE)
    /\ UNCHANGED <<config, running, status, isRun, cut, known, reg, faults, retires>>

BrokenStillRuns(s) ==
    /\ running[s] /\ sock[s] = Gone
    /\ sock' = [sock EXCEPT ![s] = NoSock]
    /\ cut' = [cut EXCEPT ![s] = FALSE]
    /\ UNCHANGED <<config, running, status, isRun, known, link, reg, faults, retires>>

\* The socket is closed by the other side: OnCloseClient.
HearClose(s) ==
    /\ running[s] /\ sock[s] = Gone
    /\ sock' = [sock EXCEPT ![s] = NoSock]
    /\ isRun' = [isRun EXCEPT ![s] = FALSE]
    /\ cut' = [cut EXCEPT ![s] = FALSE]
    /\ UNCHANGED <<config, running, status, known, link, reg, faults, retires>>

BrokenAnyAnswer(s, m) ==
    /\ m.type = "rep"
    /\ isRun' = [isRun EXCEPT ![s] = TRUE]
    /\ UNCHANGED <<status, known>>

\* The handlers of CHandleDispatchMsg.
RegisterRep(s, m) ==
    /\ m.type = "rep"
    /\ isRun' = [isRun EXCEPT ![s] = m.ok]
    /\ UNCHANGED <<status, known>>

ConnectNewLobby(s, m) ==
    /\ m.type = "newLobby"
    /\ known' = [known EXCEPT ![s] = @ \cup {m.lobby}]
    /\ UNCHANGED <<isRun, status>>

TakeRetire(s, m) ==
    /\ m.type = "retire"
    /\ status' = [status EXCEPT ![s] = "retire"]
    /\ UNCHANGED <<isRun, known>>

BrokenReadsOne(s) ==
    /\ running[s] /\ sock[s] \in Slots
    /\ link[s][sock[s]].toC # <<>>
    /\ LET m == Head(link[s][sock[s]].toC)
       IN  RegisterRep(s, m) \/ ConnectNewLobby(s, m) \/ TakeRetire(s, m)
    /\ link' = [link EXCEPT ![s][sock[s]].toC = <<>>]
    /\ UNCHANGED <<config, running, sock, cut, reg, faults, retires>>

\* CCTcpHandle::handle_input hands the complete packets over one by one.
Receive(s) ==
    /\ running[s] /\ sock[s] \in Slots
    /\ link[s][sock[s]].toC # <<>>
    /\ LET m == Head(link[s][sock[s]].toC)
       IN  RegisterRep(s, m) \/ ConnectNewLobby(s, m) \/ TakeRetire(s, m)
    /\ link' = [link EXCEPT ![s][sock[s]].toC = Tail(@)]
    /\ UNCHANGED <<config, running, sock, cut, reg, faults, retires>>

\* The process is gone.  The system closes its socket (what it sent last may
\* still arrive) or the machine went with it.
Ends(s) ==
    /\ running' = [running EXCEPT ![s] = FALSE]
    /\ isRun' = [isRun EXCEPT ![s] = FALSE]
    /\ sock' = [sock EXCEPT ![s] = NoSock]
    /\ cut' = [cut EXCEPT ![s] = FALSE]
    /\ link' = [link EXCEPT ![s] = Closed(@, sock[s])]
    /\ UNCHANGED <<config, status, known, reg, retires>>

Die(s) == running[s] /\ Fault /\ Ends(s)

\* DoRetire: a retired game server ends.
RetireExit(g) ==
    /\ running[g] /\ status[g] = "retire"
    /\ Ends(g)
    /\ UNCHANGED faults

\* The network loses a connection.  The client's own sends fail in the end.
LoseLink(s) ==
    /\ sock[s] \in Slots
    /\ Fault
    /\ link' = [link EXCEPT ![s] = Lost(@, sock[s])]
    /\ sock' = [sock EXCEPT ![s] = Gone]
    /\ UNCHANGED <<config, running, status, isRun, cut, known, reg, retires>>

-----------------------------------------------------------------------------
(* The dispatch server.                                                    *)

NormalGames == {g \in GameSvrs : Registered(g) /\ reg[g].status = "normal"}

Answered(s, k, ok) == Send([link[s] EXCEPT ![k].asked = FALSE], k, Rep(ok))

\* AddServer finds an entry of the same id: the answer is a refusal.
RegisterRefused(s, k) ==
    /\ link[s][k].asked /\ Registered(s)
    /\ link' = [link EXCEPT ![s] = Answered(s, k, FALSE)]
    /\ UNCHANGED <<config, client, reg, faults, retires>>

RegisterGame(g, k) ==
    /\ link[g][k].asked /\ ~Registered(g)
    /\ reg' = [reg EXCEPT ![g] = [link |-> k, status |-> "normal"]]
    /\ link' = [link EXCEPT ![g] = Answered(g, k, TRUE)]
    /\ UNCHANGED <<config, client, faults, retires>>

\* A lobby's entry is made and NotifyGameSvrsHasNewLobby tells the game servers.
\* A Send that fails destroys its connection and erases its entry under the
\* loop's iterator; what the loop visits then is undefined: any game server may
\* be left out.
RegisterLobby(l, k) ==
    /\ link[l][k].asked /\ ~Registered(l)
    /\ \E failed \in SUBSET {g \in NormalGames : ~link[g][reg[g].link].up} :
       \E told \in SUBSET (NormalGames \ failed) :
         /\ failed = {} => told = NormalGames
         /\ reg' = [s \in Servers |->
                IF s = l THEN [link |-> k,
                               status |-> IF l \in Master THEN "retire" ELSE "normal"]
                ELSE IF s \in failed THEN NoEntry ELSE reg[s]]
         /\ link' = [s \in Servers |->
                IF s = l THEN Answered(l, k, TRUE)
                ELSE IF s \in failed THEN [link[s] EXCEPT ![reg[s].link] = Free]
                ELSE IF s \in told THEN Send(link[s], reg[s].link, NewLobby(l))
                ELSE link[s]]
    /\ UNCHANGED <<config, client, faults, retires>>

\* The operators named Broken... are seeded bugs; nothing uses them but the
\* tests of the properties.
BrokenKeepsEntry(s, k) ==
    /\ link' = [link EXCEPT ![s][k] = Free]
    /\ UNCHANGED reg

BrokenClearsLink(s, k) ==
    /\ link' = [link EXCEPT ![s][k] = Free]
    /\ reg' = [reg EXCEPT ![s].link = IF @ = k THEN 0 ELSE @]

\* DestroyObj: RemoveServer erases the entry of this connection, if it has one.
RemoveServer(s, k) ==
    /\ link' = [link EXCEPT ![s][k] = Free]
    /\ reg' = [reg EXCEPT ![s] = IF @.link = k THEN NoEntry ELSE @]

\* The socket reports the end of the connection, or no packet came in time.
DestroyObj(s, k) ==
    /\ link[s][k].held /\ ~link[s][k].up /\ ~link[s][k].asked
    /\ RemoveServer(s, k)
    /\ UNCHANGED <<config, client, faults, retires>>

\* The heartbeat of a connection that still works came too late.
OnTimer(s, k) ==
    /\ link[s][k].up
    /\ Fault
    /\ RemoveServer(s, k)
    /\ sock' = [sock EXCEPT ![s] = IF @ = k THEN Gone ELSE @]
    /\ UNCHANGED <<config, running, status, isRun, cut, known, retires>>

\* NotifyRetireServer, for a game server or a lobby.
NotifyRetireServer(s) ==
    /\ retires < MaxRetires
    /\ retires' = retires + 1
    /\ Registered(s) /\ reg[s].status = "normal"
    /\ reg' = [reg EXCEPT ![s].status = "retire"]
    /\ link' = [link EXCEPT ![s] = Send(@, reg[s].link, RetireMsg)]
    /\ UNCHANGED <<config, client, faults>>

\* The dispatch server ends and is started again: both tables are empty.
DispatchRestart ==
    /\ Fault
    /\ link' = [s \in Servers |-> [k \in Slots |-> Free]]
    /\ reg' = [s \in Servers |-> NoEntry]
    /\ sock' = [s \in Servers |-> IF sock[s] \in Slots THEN Gone ELSE sock[s]]
    /\ UNCHANGED <<config, running, status, isRun, cut, known, retires>>

-----------------------------------------------------------------------------
Dispatch(s, k) ==
    \/ RegisterRefused(s, k)
    \/ s \in GameSvrs /\ RegisterGame(s, k)
    \/ s \in Lobbies /\ RegisterLobby(s, k)
    \/ DestroyObj(s, k)

Next ==
    \/ \E l \in Lobbies : AddConfig(l)
    \/ \E s \in Servers : Boot(s)
    \/ \E s \in Servers : ReConnect(s)
    \/ \E s \in Servers : ReConnectCut(s)
    \/ \E s \in Servers : ReConnectFails(s)
    \/ \E s \in Servers : Report(s)
    \/ \E s \in Servers : HearClose(s)
    \/ \E s \in Servers : Receive(s)
    \/ \E s \in Servers : Die(s)
    \/ \E g \in GameSvrs : RetireExit(g)
    \/ \E s \in Servers : LoseLink(s)
    \/ \E s \in Servers, k \in Slots : RegisterRefused(s, k)
    \/ \E g \in GameSvrs, k \in Slots : RegisterGame(g, k)
    \/ \E l \in Lobbies, k \in Slots : RegisterLobby(l, k)
    \/ \E s \in Servers, k \in Slots : DestroyObj(s, k)
    \/ \E s \in Servers, k \in Slots : OnTimer(s, k)
    \/ \E s \in Servers : NotifyRetireServer(s)
    \/ DispatchRestart

Spec == Init /\ [][Next]_vars

\* The reconnect timer fires every 3 seconds, every reactor polls its sockets
\* in every turn of its loop, and the heartbeat timer closes what is silent.
FairSpec ==
    /\ Spec
    /\ \A s \in Servers :
         /\ WF_vars(ReConnect(s)) /\ WF_vars(HearClose(s)) /\ WF_vars(Receive(s))
         /\ \A k \in Slots : WF_vars(Dispatch(s, k))

-----------------------------------------------------------------------------
(* Properties.                                                             *)

\* The type invariant of the servers, the connections and the register.
TypeOK ==
    /\ config \subseteq Lobbies
    /\ running \in [Servers -> BOOLEAN] /\ isRun \in [Servers -> BOOLEAN]
    /\ status \in [Servers -> {"normal", "retire"}]
    /\ sock \in [Servers -> Slots \cup {NoSock, Gone}]
    /\ cut \in [Servers -> BOOLEAN]
    /\ known \in [GameSvrs -> SUBSET Lobbies]
    /\ link \in [Servers -> [Slots -> Link]]
    /\ reg \in [Servers -> Entry \cup {NoEntry}]
    /\ faults \in Nat /\ retires \in Nat

\* No entry outlives its connection (pNetObj points into a pool whose objects
\* are used again), and of all the connections of a server only the one its
\* process uses can carry data: what is sent to a registered server cannot
\* reach a process that has moved on.
EntriesLive ==
    \A s \in Servers :
        /\ Registered(s) => link[s][reg[s].link].held
        /\ \A k \in Slots : link[s][k].up => sock[s] = k /\ running[s]

\* One of the messages M is on its way in q.
Pending(q, M) == \E i \in 1 .. Len(q) : q[i] \in M

\* A server's connection has settled: nothing of the registration is under way.
Settled(s) ==
    /\ sock[s] \in Slots
    /\ link[s][sock[s]].up /\ ~link[s][sock[s]].asked
    /\ ~Pending(link[s][sock[s]].toC, Reps)

\* A server that believes it is registered is registered, over the connection
\* it uses, however often it was refused before: only a Register whose sending
\* failed can leave it wrong.
RunMeansRegistered ==
    \A s \in Servers :
        isRun[s] /\ Settled(s) /\ ~cut[s] => reg[s].link = sock[s]

\* An order to retire that the register shows as given has been obeyed or is on
\* its way, unless the connection it was sent over is dead.
RetireGiven ==
    \A s \in Servers \ Master :
        Registered(s) /\ reg[s].status = "retire" /\ link[s][reg[s].link].up
        => \/ status[s] = "retire"
           \/ Pending(link[s][reg[s].link].toC, {RetireMsg})

\* A running server gets back into the register after whatever went wrong:
\* stale entries go away and refused registrations are repeated until then.
Reregisters ==
    \A s \in Servers :
        running[s] ~> (~running[s] \/ cut[s] \/ (Registered(s) /\ reg[s].link = sock[s]))

\* A game server in the register connects to every lobby in the register, once
\* nothing is under way to it (lobby_mgr.cpp:91, "tell the game servers to
\* connect").
LobbiesKnown ==
    \A g \in GameSvrs, l \in Lobbies :
        /\ Registered(g) /\ reg[g].status = "normal" /\ Registered(l)
        /\ link[g][reg[g].link].up /\ link[g][reg[g].link].toC = <<>>
        => l \in known[g]
=============================================================================
