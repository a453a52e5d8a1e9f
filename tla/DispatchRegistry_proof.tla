------------------------ MODULE DispatchRegistry_proof ------------------------
(***************************************************************************)
(* Proofs about DispatchRegistry, for any servers, links and faults: its   *)
(* type invariant, that no entry outlives its connection, that a server    *)
(* which believes it is registered is, and that an order to retire is      *)
(* under way or obeyed.                                                    *)
(*                                                                         *)
(* The invariant speaks of one server at a time, so it is stated over the  *)
(* values of that server's variables (Good) and its preservation is proved *)
(* on values.  It adds to the properties that an accepting answer is only  *)
(* under way on the connection of the entry, and that a server which       *)
(* counts its connection as running has a socket.                          *)
(***************************************************************************)
EXTENDS DispatchRegistry, TLAPS

Links == [Slots -> Link]

\* What holds of a server with these values of running, isRun, sock, cut, its
\* links and its entry.
Good(ru, ir, so, cu, ls, re) ==
    /\ \A k \in Slots : ls[k].up => ls[k].held /\ so = k /\ ru
    /\ \A k \in Slots : ls[k].asked => ls[k].held
    /\ re # NoEntry => ls[re.link].held
    /\ \A k \in Slots : ls[k].up /\ Pending(ls[k].toC, {Rep(TRUE)}) => re.link = k
    /\ ru /\ ir /\ ~cu => so # NoSock
    /\ so \in Slots /\ ls[so].up /\ ~ls[so].asked /\ ir /\ ~cu
          /\ ~Pending(ls[so].toC, Reps) => re.link = so

\* What holds of its status and the order to retire.
Ordered(st, ls, re) ==
    re # NoEntry /\ re.status = "retire" /\ ls[re.link].up
    => st = "retire" \/ Pending(ls[re.link].toC, {RetireMsg})

ServerInv(s) ==
    /\ Good(running[s], isRun[s], sock[s], cut[s], link[s], reg[s])
    /\ s \notin Master => Ordered(status[s], link[s], reg[s])

RegistryInv == TypeOK /\ \A s \in Servers : ServerInv(s)

-----------------------------------------------------------------------------
(* Messages, links and entries.                                            *)

LEMMA SlotFacts == NoSock \notin Slots /\ Gone \notin Slots /\ 0 \notin Slots /\ NoSock = 0 /\ Slots \subseteq Int
  BY RegistryAssumption DEF NoSock, Gone, Slots

LEMMA MsgFacts ==
    /\ Reps = {Rep(TRUE), Rep(FALSE)}
    /\ Reps \subseteq Msgs /\ RetireMsg \in Msgs /\ \A l \in Lobbies : NewLobby(l) \in Msgs
    /\ \A m \in Reps : m.type = "rep" /\ m.ok \in BOOLEAN /\ m = Rep(m.ok)
    /\ RetireMsg.type = "retire"
    /\ RetireMsg \notin Reps /\ \A l : NewLobby(l) \notin Reps \cup {RetireMsg}
    /\ Rep(TRUE) # Rep(FALSE)
<1>1. \A ok : Rep(ok).type = "rep" /\ Rep(ok).ok = ok
  BY DEF Rep
<1>2. \A l : NewLobby(l).type = "newLobby" /\ NewLobby(l).lobby = l
  BY DEF NewLobby
<1>3. RetireMsg.type = "retire"
  BY DEF RetireMsg
<1>4. Reps = {Rep(TRUE), Rep(FALSE)}
  BY DEF Reps
<1>6. Reps \subseteq Msgs /\ RetireMsg \in Msgs /\ \A l \in Lobbies : NewLobby(l) \in Msgs
  BY DEF Msgs
<1>7. \A m \in Reps : m.type = "rep" /\ m.ok \in BOOLEAN /\ m = Rep(m.ok)
  BY <1>1 DEF Reps
<1>11. "rep" # "retire" /\ "rep" # "newLobby" /\ "retire" # "newLobby"
  OBVIOUS
<1>8. RetireMsg \notin Reps /\ \A l : NewLobby(l) \notin Reps \cup {RetireMsg}
  <2>1. RetireMsg \notin Reps
    BY <1>3, <1>7, <1>11
  <2>2. ASSUME NEW l PROVE NewLobby(l) \notin Reps /\ NewLobby(l) # RetireMsg
    BY <1>2, <1>3, <1>7, <1>11
  <2> QED
    BY <2>1, <2>2
<1>9. Rep(TRUE) # Rep(FALSE)
  <2>1. Rep(TRUE).ok = TRUE /\ Rep(FALSE).ok = FALSE
    BY DEF Rep
  <2> QED
    BY <2>1
<1> QED
  BY <1>3, <1>4, <1>6, <1>7, <1>8, <1>9

\* What a message is, by its type.
LEMMA MsgKinds ==
    ASSUME NEW msg \in Msgs
    PROVE  /\ msg.type = "rep" => msg \in Reps /\ msg # RetireMsg /\ msg.ok \in BOOLEAN
           /\ msg.type = "newLobby" => msg \notin Reps /\ msg # RetireMsg /\ msg.lobby \in Lobbies
           /\ msg.type = "retire" => msg = RetireMsg /\ msg \notin Reps
<1>1. "rep" # "retire" /\ "rep" # "newLobby" /\ "retire" # "newLobby"
  OBVIOUS
<1>2. CASE msg \in Reps
  <2>1. msg.type = "rep" /\ msg.ok \in BOOLEAN
    BY <1>2 DEF Reps, Rep
  <2>2. msg # RetireMsg
    BY <1>2, MsgFacts
  <2> QED
    BY <1>1, <1>2, <2>1, <2>2
<1>3. ASSUME NEW l \in Lobbies, msg = NewLobby(l)
      PROVE  msg.type = "newLobby" /\ msg.lobby \in Lobbies
  BY <1>3 DEF NewLobby
<1>4. CASE \E l \in Lobbies : msg = NewLobby(l)
  <2>1. msg.type = "newLobby" /\ msg.lobby \in Lobbies
    BY <1>3, <1>4
  <2>2. msg \notin Reps /\ msg # RetireMsg
    BY <1>4, MsgFacts
  <2> QED
    BY <1>1, <2>1, <2>2
<1>5. CASE msg = RetireMsg
  <2>1. msg.type = "retire"
    BY <1>5 DEF RetireMsg
  <2>2. msg \notin Reps
    BY <1>5, MsgFacts
  <2> QED
    BY <1>1, <1>5, <2>1, <2>2
<1> QED
  BY <1>2, <1>4, <1>5 DEF Msgs

LEMMA EmptyPending == \A M : ~Pending(<<>>, M)
  BY DEF Pending

LEMMA AppendPending ==
    ASSUME NEW q \in Seq(Msgs), NEW m \in Msgs, NEW M
    PROVE  Pending(Append(q, m), M) <=> Pending(q, M) \/ m \in M
<1>1. Len(Append(q, m)) = Len(q) + 1 /\ Len(q) \in Nat /\ Append(q, m)[Len(q) + 1] = m
      /\ \A i \in 1 .. Len(q) : Append(q, m)[i] = q[i]
  OBVIOUS
<1>2. \A i \in 1 .. Len(q) + 1 : i \in 1 .. Len(q) \/ i = Len(q) + 1
  BY <1>1
<1>3. \A i \in 1 .. Len(q) : i \in 1 .. Len(q) + 1
  BY <1>1
<1>4. Len(q) + 1 \in 1 .. Len(q) + 1
  BY <1>1
<1> QED
  BY <1>1, <1>2, <1>3, <1>4 DEF Pending

LEMMA TailPending ==
    ASSUME NEW q \in Seq(Msgs), q # <<>>, NEW M
    PROVE  /\ Pending(q, M) <=> Head(q) \in M \/ Pending(Tail(q), M)
           /\ Head(q) \in Msgs /\ Tail(q) \in Seq(Msgs)
<1>1. Len(q) \in Nat \ {0} /\ Len(Tail(q)) = Len(q) - 1 /\ Head(q) = q[1]
      /\ \A i \in 1 .. Len(q) - 1 : Tail(q)[i] = q[i + 1]
  OBVIOUS
<1>2. \A i \in 1 .. Len(q) : i = 1 \/ (i - 1 \in 1 .. Len(q) - 1 /\ (i - 1) + 1 = i)
  BY <1>1
<1>3. \A i \in 1 .. Len(q) - 1 : i + 1 \in 1 .. Len(q)
  BY <1>1
<1>4. 1 \in 1 .. Len(q)
  BY <1>1
<1>5. Pending(q, M) => Head(q) \in M \/ Pending(Tail(q), M)
  BY <1>1, <1>2 DEF Pending
<1>6. Head(q) \in M \/ Pending(Tail(q), M) => Pending(q, M)
  BY <1>1, <1>3, <1>4 DEF Pending
<1> QED
  BY <1>5, <1>6

LEMMA EntryFacts ==
    ASSUME NEW re \in Entry \cup {NoEntry}
    PROVE  /\ re # NoEntry => re.link \in Slots /\ re.status \in {"normal", "retire"}
                              /\ re \in Entry
           /\ re = NoEntry => re.link = 0
           /\ re.link \in Slots => re # NoEntry
<1>1. NoEntry.link = 0
  BY DEF NoEntry
<1>2. re \in Entry => re.link \in Slots /\ re.status \in {"normal", "retire"}
  BY DEF Entry
<1> QED
  BY <1>1, <1>2, SlotFacts

LEMMA LinkFields ==
    ASSUME NEW ls \in Links, NEW k \in Slots
    PROVE  /\ ls[k].held \in BOOLEAN /\ ls[k].up \in BOOLEAN /\ ls[k].asked \in BOOLEAN
           /\ ls[k].toC \in Seq(Msgs)
  BY DEF Links, Link

LEMMA FreeFacts == Free \in Link /\ ~Free.held /\ ~Free.up /\ ~Free.asked
<1>1. <<>> \in Seq(Msgs)
  OBVIOUS
<1> QED
  BY <1>1 DEF Free, Link

\* A send appends to the queue of a link that is up and leaves the rest alone.
LEMMA SendFacts ==
    ASSUME NEW ls \in Links, NEW k \in Slots, NEW m \in Msgs
    PROVE  /\ Send(ls, k, m) \in Links
           /\ \A j \in Slots :
                /\ Send(ls, k, m)[j].held = ls[j].held
                /\ Send(ls, k, m)[j].up = ls[j].up
                /\ Send(ls, k, m)[j].asked = ls[j].asked
                /\ Send(ls, k, m)[j].toC = IF j = k /\ ls[k].up THEN Append(ls[j].toC, m)
                                           ELSE ls[j].toC
<1>1. Append(ls[k].toC, m) \in Seq(Msgs)
  BY LinkFields
<1> QED
  BY <1>1, LinkFields DEF Send, Links, Link

\* Closing the client's end takes its link down and leaves the others alone.
LEMMA ClosedFacts ==
    ASSUME NEW ls \in Links, NEW so \in Slots \cup {NoSock, Gone}
    PROVE  /\ Closed(ls, so) \in Links
           /\ \A j \in Slots :
                /\ Closed(ls, so)[j].held = ls[j].held
                /\ Closed(ls, so)[j].up <=> ls[j].up /\ j # so
                /\ Closed(ls, so)[j].asked = ls[j].asked
                /\ j # so => Closed(ls, so)[j].toC = ls[j].toC
<1>1. <<>> \in Seq(Msgs)
  OBVIOUS
<1>2. CASE so \in Slots
  <2> DEFINE new == [ls[so] EXCEPT !.up = FALSE, !.toC = <<>>]
  <2>1. ls[so] \in Link /\ new \in Link /\ new.held = ls[so].held /\ ~new.up
        /\ new.asked = ls[so].asked
    BY <1>1, <1>2 DEF Links, Link
  <2>2. Closed(ls, so) = [ls EXCEPT ![so] = new]
    BY <1>2 DEF Closed, Links, Link
  <2>3. Closed(ls, so) \in Links /\ Closed(ls, so)[so] = new
        /\ \A j \in Slots \ {so} : Closed(ls, so)[j] = ls[j]
    BY <1>2, <2>1, <2>2 DEF Links
  <2> QED
    BY <1>2, <2>1, <2>3
<1>3. CASE so \notin Slots
  BY <1>3 DEF Closed
<1> QED
  BY <1>2, <1>3

-----------------------------------------------------------------------------
(* Steps of one server, on values.                                         *)

\* Opening a connection to a free slot: its link is o.
Opened(ls, so, k, o) == [Closed(ls, so) EXCEPT ![k] = o]

LEMMA OpenedFacts ==
    ASSUME NEW ls \in Links, NEW so \in Slots \cup {NoSock, Gone}, NEW k \in Slots,
           NEW o \in Link
    PROVE  /\ Opened(ls, so, k, o) \in Links
           /\ Opened(ls, so, k, o)[k] = o
           /\ \A j \in Slots \ {k} : Opened(ls, so, k, o)[j] = Closed(ls, so)[j]
  BY ClosedFacts DEF Links, Opened

\* The client's end is closed, by itself or with its process.
LEMMA CloseGood ==
    ASSUME NEW ru, NEW ir, NEW so \in Slots \cup {NoSock, Gone},
           NEW cu, NEW ls \in Links, NEW re \in Entry \cup {NoEntry}, NEW st, NEW st2,
           Good(ru, ir, so, cu, ls, re),
           NEW ru2, NEW ir2, NEW cu2, ir2 => cu2
    PROVE  /\ Good(ru2, ir2, NoSock, cu2, Closed(ls, so), re)
           /\ Ordered(st2, Closed(ls, so), re)
<1>1. \A j \in Slots : /\ ~Closed(ls, so)[j].up
                       /\ Closed(ls, so)[j].held = ls[j].held
                       /\ Closed(ls, so)[j].asked = ls[j].asked
  BY ClosedFacts DEF Good
<1> QED
  BY <1>1, EntryFacts, SlotFacts DEF Good, Ordered

\* A link goes: the dispatch server forgets it and its entry.
RemoveStep(ru, ir, so, cu, ls, re, st, k, so2, ls2, re2) ==
    /\ Good(ru, ir, so, cu, ls, re)
    /\ so \in Slots \cup {NoSock, Gone} /\ ls \in Links /\ re \in Entry \cup {NoEntry}
    /\ k \in Slots
    /\ so2 = IF so = k /\ ls[k].up THEN Gone ELSE so
    /\ ls2 = [ls EXCEPT ![k] = Free]
    /\ re2 = IF re.link = k THEN NoEntry ELSE re

LEMMA RemoveGood ==
    ASSUME NEW ru, NEW ir, NEW so, NEW cu, NEW ls, NEW re, NEW st, NEW k, NEW so2, NEW ls2, NEW re2,
           RemoveStep(ru, ir, so, cu, ls, re, st, k, so2, ls2, re2)
    PROVE  /\ ls2 \in Links /\ re2 \in Entry \cup {NoEntry}
           /\ Good(ru, ir, so2, cu, ls2, re2)
           /\ Ordered(st, ls, re) => Ordered(st, ls2, re2)
<1> USE DEF RemoveStep
<1>1. ls2 \in Links
  BY FreeFacts DEF Links
<1>2. ls2[k] = Free /\ \A j \in Slots \ {k} : ls2[j] = ls[j]
  BY DEF Links
<1>3. re2 # NoEntry => re2 = re /\ re.link \in Slots \ {k}
  BY EntryFacts
<1>4. Good(ru, ir, so2, cu, ls2, re2)
  <2> USE FreeFacts
  <2>1. \A j \in Slots : ls2[j].up => j # k /\ ls2[j] = ls[j] /\ ls[j].up
    BY <1>2
  <2>2. \A j \in Slots : ls2[j].up => ls2[j].held /\ so2 = j /\ ru
    BY <2>1 DEF Good
  <2>3. \A j \in Slots : ls2[j].asked => ls2[j].held
    BY <1>2 DEF Good
  <2>4. re2 # NoEntry => ls2[re2.link].held
    BY <1>2, <1>3 DEF Good
  <2>5. \A j \in Slots : ls2[j].up /\ Pending(ls2[j].toC, {Rep(TRUE)}) => re2.link = j
    BY <2>1 DEF Good
  <2>6. ru /\ ir /\ ~cu => so2 # NoSock
    BY DEF Good, NoSock, Gone
  <2>7. so2 \in Slots /\ ls2[so2].up => so2 = so /\ so # k /\ ls2[so] = ls[so]
    BY <2>1, SlotFacts DEF Gone
  <2> QED
    BY <2>2, <2>3, <2>4, <2>5, <2>6, <2>7 DEF Good
<1>5. Ordered(st, ls, re) => Ordered(st, ls2, re2)
  BY <1>2, <1>3 DEF Ordered
<1> QED
  BY <1>1, <1>4, <1>5

\* Nothing is connected: the client may be anything that is not running over a
\* socket it does not have.
LEMMA QuietGood ==
    ASSUME NEW ru, NEW ir, NEW so, NEW cu, NEW ls, NEW re \in Entry \cup {NoEntry},
           Good(ru, ir, so, cu, ls, re), \A k \in Slots : ~ls[k].up,
           NEW ru2, NEW ir2, NEW so2, NEW cu2, ru2 /\ ir2 /\ ~cu2 => so2 # NoSock, NEW st
    PROVE  /\ Good(ru2, ir2, so2, cu2, ls, re)
           /\ Ordered(st, ls, re)
  BY EntryFacts DEF Good, Ordered

\* The network loses the connection in use.
LEMMA LoseGood ==
    ASSUME NEW ru, NEW ir, NEW so \in Slots, NEW cu, NEW ls \in Links,
           NEW re \in Entry \cup {NoEntry}, Good(ru, ir, so, cu, ls, re), NEW st
    PROVE  /\ Lost(ls, so) \in Links
           /\ Good(ru, ir, Gone, cu, Lost(ls, so), re)
           /\ Ordered(st, Lost(ls, so), re)
<1> DEFINE new == [ls[so] EXCEPT !.up = FALSE, !.asked = FALSE, !.toC = <<>>]
<1>1. <<>> \in Seq(Msgs)
  OBVIOUS
<1>2. new \in Link /\ ~new.up /\ ~new.asked /\ new.held = ls[so].held
  BY <1>1 DEF Links, Link
<1>3. Lost(ls, so) = [ls EXCEPT ![so] = new]
  BY DEF Lost, Links, Link
<1>4. Lost(ls, so) \in Links /\ Lost(ls, so)[so] = new
      /\ \A j \in Slots \ {so} : Lost(ls, so)[j] = ls[j]
  BY <1>2, <1>3 DEF Links
<1>5. \A j \in Slots : /\ ~Lost(ls, so)[j].up
                       /\ Lost(ls, so)[j].held = ls[j].held
                       /\ Lost(ls, so)[j].asked => ls[j].asked
  BY <1>2, <1>4 DEF Good
<1> QED
  BY <1>4, <1>5, EntryFacts, SlotFacts DEF Good, Ordered, NoSock, Gone

\* The links after a Register that came over link k is answered.
AfterAnswer(ls, k, m, ls2) ==
    /\ ls2 \in Links
    /\ \A j \in Slots :
         /\ ls2[j].held = ls[j].held /\ ls2[j].up = ls[j].up
         /\ ls2[j].toC = IF j = k /\ ls[k].up THEN Append(ls[j].toC, m) ELSE ls[j].toC
         /\ j # k => ls2[j].asked = ls[j].asked
    /\ ~ls2[k].asked

LEMMA AnsweredFacts ==
    ASSUME NEW ls \in Links, NEW k \in Slots, NEW m \in Reps
    PROVE  AfterAnswer(ls, k, m, Send([ls EXCEPT ![k].asked = FALSE], k, m))
<1> DEFINE mid == [ls EXCEPT ![k].asked = FALSE]
           ls2 == Send(mid, k, m)
<1>1. mid \in Links /\ mid[k].held = ls[k].held /\ mid[k].up = ls[k].up /\ ~mid[k].asked
      /\ mid[k].toC = ls[k].toC /\ \A j \in Slots \ {k} : mid[j] = ls[j]
  BY DEF Links, Link
<1>2. m \in Msgs
  BY MsgFacts
<1> HIDE DEF mid
<1>3. /\ ls2 \in Links
      /\ \A j \in Slots :
           /\ ls2[j].held = mid[j].held /\ ls2[j].up = mid[j].up /\ ls2[j].asked = mid[j].asked
           /\ ls2[j].toC = IF j = k /\ mid[k].up THEN Append(mid[j].toC, m)
                           ELSE mid[j].toC
  BY <1>1, <1>2, SendFacts
<1> HIDE DEF ls2
<1>4. AfterAnswer(ls, k, m, ls2)
  <2>1. ASSUME NEW j \in Slots
        PROVE  /\ ls2[j].held = ls[j].held /\ ls2[j].up = ls[j].up
               /\ ls2[j].toC = IF j = k /\ ls[k].up THEN Append(ls[j].toC, m) ELSE ls[j].toC
               /\ j # k => ls2[j].asked = ls[j].asked
    BY <1>1, <1>3
  <2> QED
    BY <1>1, <1>3, <2>1 DEF AfterAnswer
<1> QED
  BY <1>4 DEF ls2, mid

\* A Register is answered: it is refused (re2 is re) or makes the entry re2.
AnswerStep(ru, ir, so, cu, ls, re, st, k, m, re2, ls2) ==
    /\ Good(ru, ir, so, cu, ls, re)
    /\ ls \in Links /\ re \in Entry \cup {NoEntry} /\ re2 \in Entry
    /\ k \in Slots /\ ls[k].asked /\ AfterAnswer(ls, k, m, ls2)
    /\ \/ m = Rep(FALSE) /\ re2 = re
       \/ m = Rep(TRUE) /\ re = NoEntry /\ re2.link = k

LEMMA AnswerGood ==
    ASSUME NEW ru, NEW ir, NEW so, NEW cu, NEW ls, NEW re, NEW st, NEW k, NEW m, NEW re2, NEW ls2,
           AnswerStep(ru, ir, so, cu, ls, re, st, k, m, re2, ls2)
    PROVE  /\ ls2 \in Links
           /\ Good(ru, ir, so, cu, ls2, re2)
           /\ Ordered(st, ls, re) /\ (re2 = re \/ re2.status = "normal") => Ordered(st, ls2, re2)
<1> USE DEF AnswerStep
<1>1. ls[k].asked
  OBVIOUS
<1>2. m \in Msgs /\ m \in Reps
  BY MsgFacts
<1>3. /\ ls2 \in Links
      /\ \A j \in Slots :
           /\ ls2[j].held = ls[j].held /\ ls2[j].up = ls[j].up
           /\ ls2[j].toC = IF j = k /\ ls[k].up THEN Append(ls[j].toC, m) ELSE ls[j].toC
           /\ j # k => ls2[j].asked = ls[j].asked
      /\ ~ls2[k].asked
  BY DEF AfterAnswer
<1>4. \A j \in Slots : \A M :
        Pending(ls2[j].toC, M) <=> Pending(ls[j].toC, M) \/ (j = k /\ ls[k].up /\ m \in M)
  <2> TAKE j \in Slots
  <2> TAKE M
  <2>1. ls[j].toC \in Seq(Msgs)
    BY LinkFields
  <2>2. CASE j = k /\ ls[k].up
    <3>1. ls2[j].toC = Append(ls[j].toC, m)
      BY <1>3, <2>2
    <3> QED
      BY <1>2, <2>1, <2>2, <3>1, AppendPending
  <2>3. CASE ~(j = k /\ ls[k].up)
    <3>1. ls2[j].toC = ls[j].toC
      BY <1>3, <2>3
    <3> QED
      BY <2>3, <3>1
  <2> QED
    BY <2>2, <2>3
<1>5. re = NoEntry => \A j \in Slots : re.link # j
  BY EntryFacts, SlotFacts
<1>6. re2.link \in Slots /\ re2 # NoEntry
  BY EntryFacts, SlotFacts DEF Entry
<1>7. Good(ru, ir, so, cu, ls2, re2)
  <2>1. \A j \in Slots : ls2[j].up => ls2[j].held /\ so = j /\ ru
    BY <1>3 DEF Good
  <2>2. \A j \in Slots : ls2[j].asked => ls2[j].held
    BY <1>3 DEF Good
  <2>3. ls2[re2.link].held
    <3>1. ls[re2.link].held
      BY <1>1, <1>6 DEF Good
    <3> QED
      BY <1>3, <1>6, <3>1
  <2>4. ASSUME NEW j \in Slots, ls2[j].up, Pending(ls2[j].toC, {Rep(TRUE)}) PROVE re2.link = j
    <3>1. ls[j].up
      BY <1>3, <2>4
    <3>2. Pending(ls[j].toC, {Rep(TRUE)}) \/ (j = k /\ m = Rep(TRUE))
      BY <1>4, <2>4
    <3>3. CASE Pending(ls[j].toC, {Rep(TRUE)})
      BY <1>5, <3>1, <3>3 DEF Good
    <3>4. CASE j = k /\ m = Rep(TRUE)
      BY <3>4, MsgFacts
    <3> QED
      BY <3>2, <3>3, <3>4
  <2>5. ru /\ ir /\ ~cu => so # NoSock
    BY DEF Good
  <2>6. ASSUME so \in Slots, ls2[so].up, ~ls2[so].asked, ir, ~cu, ~Pending(ls2[so].toC, Reps)
        PROVE  re2.link = so
    <3>1. so # k
      BY <1>2, <1>3, <1>4, <2>6
    <3>2. re.link = so
      BY <1>3, <1>4, <2>6, <3>1 DEF Good
    <3> QED
      BY <1>5, <2>6, <3>2
  <2> QED
    BY <2>1, <2>2, <2>3, <2>4, <2>5, <2>6 DEF Good
<1>8. Ordered(st, ls, re) /\ (re2 = re \/ re2.status = "normal") => Ordered(st, ls2, re2)
  BY <1>3, <1>4, <1>6 DEF Ordered
<1> QED
  BY <1>3, <1>7, <1>8

\* A message that is no answer goes to a registered server; its entry keeps its
\* connection.
SendStep(ru, ir, so, cu, ls, re, st, m, re2, ls2) ==
    /\ Good(ru, ir, so, cu, ls, re)
    /\ ls \in Links /\ re \in Entry /\ m \in Msgs \ Reps
    /\ re2 \in Entry /\ re2.link = re.link
    /\ ls2 = Send(ls, re.link, m)

LEMMA SendGood ==
    ASSUME NEW ru, NEW ir, NEW so, NEW cu, NEW ls, NEW re, NEW st, NEW m, NEW re2, NEW ls2,
           SendStep(ru, ir, so, cu, ls, re, st, m, re2, ls2)
    PROVE  /\ ls2 \in Links
           /\ Good(ru, ir, so, cu, ls2, re2)
           /\ m = RetireMsg \/ (Ordered(st, ls, re) /\ re2 = re) => Ordered(st, ls2, re2)
<1> USE DEF SendStep
<1>1. re.link \in Slots /\ re # NoEntry /\ re2 # NoEntry
  BY EntryFacts, SlotFacts DEF Entry
<1>2. m \in Msgs /\ m # Rep(TRUE) /\ Rep(TRUE) \in Reps
  BY MsgFacts
<1>3. /\ ls2 \in Links
      /\ \A j \in Slots :
           /\ ls2[j].held = ls[j].held /\ ls2[j].up = ls[j].up /\ ls2[j].asked = ls[j].asked
           /\ ls2[j].toC = IF j = re.link /\ ls[re.link].up THEN Append(ls[j].toC, m)
                           ELSE ls[j].toC
  BY <1>1, <1>2, SendFacts
<1>4. \A j \in Slots : \A M :
        Pending(ls2[j].toC, M) <=>
            Pending(ls[j].toC, M) \/ (j = re.link /\ ls[re.link].up /\ m \in M)
  <2> TAKE j \in Slots
  <2> TAKE M
  <2>1. ls[j].toC \in Seq(Msgs)
    BY LinkFields
  <2> QED
    BY <1>2, <1>3, <2>1, AppendPending
<1>5. Good(ru, ir, so, cu, ls2, re2)
  <2>1. \A j \in Slots : Pending(ls2[j].toC, {Rep(TRUE)}) <=> Pending(ls[j].toC, {Rep(TRUE)})
    BY <1>2, <1>4
  <2>2. \A j \in Slots : Pending(ls2[j].toC, Reps) <=> Pending(ls[j].toC, Reps)
    BY <1>4
  <2> QED
    BY <1>1, <1>3, <2>1, <2>2 DEF Good
<1>6. m = RetireMsg \/ (Ordered(st, ls, re) /\ re2 = re) => Ordered(st, ls2, re2)
  BY <1>1, <1>3, <1>4 DEF Ordered
<1> QED
  BY <1>3, <1>5, <1>6

\* Taking message m leaves isRun at ir2 and the status at st2.
Taken(m, ir, ir2, st, st2) ==
    /\ m \in Reps => ir2 = m.ok
    /\ m \notin Reps => ir2 = ir
    /\ m = RetireMsg => st2 = "retire"
    /\ m # RetireMsg => st2 = st

Popped(ls, so) == [ls EXCEPT ![so].toC = Tail(@)]

\* The client takes the first message of its connection.
ReceiveStep(ru, ir, so, cu, ls, re, st, ir2, st2, ls2) ==
    /\ Good(ru, ir, so, cu, ls, re)
    /\ so \in Slots /\ ls \in Links /\ re \in Entry \cup {NoEntry}
    /\ ls[so].toC # <<>> /\ ls2 = Popped(ls, so)
    /\ Taken(Head(ls[so].toC), ir, ir2, st, st2)

LEMMA ReceiveGood ==
    ASSUME NEW ru, NEW ir, NEW so, NEW cu, NEW ls, NEW re, NEW st, NEW ir2, NEW st2, NEW ls2,
           ReceiveStep(ru, ir, so, cu, ls, re, st, ir2, st2, ls2)
    PROVE  /\ ls2 \in Links
           /\ Good(ru, ir2, so, cu, ls2, re)
           /\ Ordered(st, ls, re) => Ordered(st2, ls2, re)
<1> DEFINE m == Head(ls[so].toC)
<1> USE DEF ReceiveStep
<1>1. ls[so].toC \in Seq(Msgs)
  BY LinkFields
<1>2. m \in Msgs /\ Tail(ls[so].toC) \in Seq(Msgs)
      /\ \A M : Pending(ls[so].toC, M) <=> m \in M \/ Pending(Tail(ls[so].toC), M)
  BY <1>1, TailPending
<1>3. /\ ls2 \in Links
      /\ \A j \in Slots :
           /\ ls2[j].held = ls[j].held /\ ls2[j].up = ls[j].up /\ ls2[j].asked = ls[j].asked
           /\ ls2[j].toC = IF j = so THEN Tail(ls[j].toC) ELSE ls[j].toC
  BY <1>2 DEF Links, Link, Popped
<1>4. \A j \in Slots : \A M : Pending(ls2[j].toC, M) => Pending(ls[j].toC, M)
  BY <1>2, <1>3
<1>5. Good(ru, ir2, so, cu, ls2, re)
  <2>1. so # NoSock
    BY SlotFacts
  <2>2. ASSUME ls2[so].up, ~ls2[so].asked, ir2, ~cu, ~Pending(ls2[so].toC, Reps)
        PROVE  re.link = so
    <3>1. CASE m \in Reps
      <4>1. m = Rep(TRUE)
        BY <2>2, <3>1, MsgFacts DEF Taken
      <4>2. Pending(ls[so].toC, {Rep(TRUE)})
        BY <1>2, <4>1
      <4> QED
        BY <1>3, <2>2, <4>2 DEF Good
    <3>2. CASE m \notin Reps
      BY <1>2, <1>3, <2>2, <3>2 DEF Good, Taken
    <3> QED
      BY <3>1, <3>2
  <2> QED
    BY <1>3, <1>4, <2>1, <2>2, EntryFacts DEF Good
<1>6. Ordered(st, ls, re) => Ordered(st2, ls2, re)
  BY <1>2, <1>3, EntryFacts DEF Ordered, Taken
<1> QED
  BY <1>3, <1>5, <1>6

-----------------------------------------------------------------------------
(* The invariant is inductive.                                             *)

LEMMA InitInv == Init => RegistryInv
<1> SUFFICES ASSUME Init PROVE RegistryInv
  OBVIOUS
<1>1. TypeOK
  <2>1. [k \in Slots |-> Free] \in Links
    BY FreeFacts DEF Links
  <2>2. config \subseteq Lobbies /\ faults \in Nat /\ retires \in Nat
    BY RegistryAssumption DEF Init
  <2> QED
    BY <2>1, <2>2 DEF Init, TypeOK, Links
<1>2. ASSUME NEW s \in Servers PROVE ServerInv(s)
  BY FreeFacts, SlotFacts DEF Init, ServerInv, Good, Ordered
<1> QED
  BY <1>1, <1>2 DEF RegistryInv

\* What the invariant says of one server, by the types of its variables.
LEMMA TypeFacts ==
    ASSUME RegistryInv, NEW s \in Servers
    PROVE  /\ running[s] \in BOOLEAN /\ isRun[s] \in BOOLEAN /\ cut[s] \in BOOLEAN
           /\ status[s] \in {"normal", "retire"}
           /\ sock[s] \in Slots \cup {NoSock, Gone}
           /\ link[s] \in Links /\ reg[s] \in Entry \cup {NoEntry}
           /\ Good(running[s], isRun[s], sock[s], cut[s], link[s], reg[s])
           /\ s \notin Master => Ordered(status[s], link[s], reg[s])
  BY DEF RegistryInv, TypeOK, ServerInv, Links

\* The invariant of a server whose variables a step leaves alone.
LEMMA Unchanged ==
    ASSUME NEW t \in Servers, ServerInv(t),
           running'[t] = running[t], status'[t] = status[t], isRun'[t] = isRun[t],
           sock'[t] = sock[t], cut'[t] = cut[t], link'[t] = link[t], reg'[t] = reg[t]
    PROVE  ServerInv(t)'
  BY DEF ServerInv

\* A step that changes the variables of one server only.
LEMMA OneServer ==
    ASSUME RegistryInv, TypeOK', NEW s \in Servers, ServerInv(s)',
           \A t \in Servers \ {s} :
              /\ running'[t] = running[t] /\ status'[t] = status[t] /\ isRun'[t] = isRun[t]
              /\ sock'[t] = sock[t] /\ cut'[t] = cut[t]
              /\ link'[t] = link[t] /\ reg'[t] = reg[t]
    PROVE  RegistryInv'
<1>1. ASSUME NEW t \in Servers PROVE ServerInv(t)'
  <2>1. CASE t = s
    BY <2>1
  <2>2. CASE t # s
    BY <2>2, Unchanged DEF RegistryInv
  <2> QED
    BY <2>1, <2>2
<1> QED
  BY <1>1 DEF RegistryInv

LEMMA AddConfigInv ==
    ASSUME RegistryInv, NEW l \in Lobbies, AddConfig(l) PROVE RegistryInv'
<1>1. TypeOK'
  BY DEF RegistryInv, TypeOK, AddConfig, client
<1>2. \A s \in Servers : ServerInv(s)'
  BY DEF RegistryInv, ServerInv, AddConfig, client
<1> QED
  BY <1>1, <1>2 DEF RegistryInv

LEMMA BootInv ==
    ASSUME RegistryInv, NEW s \in Servers, Boot(s) PROVE RegistryInv'
<1>1. TypeOK'
  <2>1. known' \in [GameSvrs -> SUBSET Lobbies]
    BY DEF RegistryInv, TypeOK, Boot
  <2> QED
    BY <2>1 DEF RegistryInv, TypeOK, Boot
<1>2. \A k \in Slots : ~link[s][k].up
  BY TypeFacts DEF Boot, Good
<1>3. running'[s] = TRUE /\ isRun'[s] = FALSE /\ sock'[s] = NoSock /\ cut'[s] = FALSE
      /\ link'[s] = link[s] /\ reg'[s] = reg[s]
  BY DEF RegistryInv, TypeOK, Boot
<1>4. /\ Good(TRUE, FALSE, NoSock, FALSE, link[s], reg[s])
      /\ Ordered(status'[s], link[s], reg[s])
  BY <1>2, TypeFacts, QuietGood
<1>5. ServerInv(s)'
  BY <1>3, <1>4 DEF ServerInv
<1> QED
  BY <1>1, <1>5, OneServer DEF RegistryInv, TypeOK, Boot

\* Connecting, for the two actions that do.
LEMMA ConnectInv ==
    ASSUME RegistryInv, NEW s \in Servers, running[s], NEW asked \in BOOLEAN,
           Connect(s, asked), isRun' \in [Servers -> BOOLEAN],
           asked \/ ~isRun'[s] \/ cut[s],
           \A t \in Servers \ {s} : isRun'[t] = isRun[t],
           UNCHANGED <<config, running, status, cut, known, reg, faults, retires>>
    PROVE  RegistryInv'
<1> DEFINE o == [held |-> TRUE, up |-> TRUE, asked |-> asked, toC |-> <<>>]
<1>1. PICK k \in Slots \ Held(s) :
        link' = [link EXCEPT ![s] = Opened(link[s], sock[s], k, o)]
        /\ sock' = [sock EXCEPT ![s] = k]
  BY DEF Connect, Opened
<1>2. k \in Slots /\ ~link[s][k].held
  BY <1>1 DEF Held
<1>7. o \in Link /\ o.held /\ o.up /\ o.toC = <<>> /\ (o.asked \/ ~isRun'[s] \/ cut[s])
  <2>1. <<>> \in Seq(Msgs)
    OBVIOUS
  <2> QED
    BY <2>1 DEF Link
<1> HIDE DEF o
<1> DEFINE new == Opened(link[s], sock[s], k, o)
<1>8. /\ new \in Links /\ new[k] = o
      /\ \A j \in Slots \ {k} : new[j] = Closed(link[s], sock[s])[j]
  BY <1>2, <1>7, TypeFacts, OpenedFacts
<1>9. ASSUME NEW j \in Slots \ {k}
      PROVE  ~new[j].up /\ new[j].held = link[s][j].held /\ new[j].asked = link[s][j].asked
  <2>1. link[s][j].up => sock[s] = j
    BY TypeFacts DEF Good
  <2>2. link[s] \in Links /\ sock[s] \in Slots \cup {NoSock, Gone}
    BY TypeFacts
  <2>3. LET cl == Closed(link[s], sock[s])
        IN  /\ cl[j].held = link[s][j].held /\ cl[j].asked = link[s][j].asked
            /\ cl[j].up <=> link[s][j].up /\ j # sock[s]
    BY <2>2, ClosedFacts
  <2>4. new[j] = Closed(link[s], sock[s])[j]
    BY <1>8
  <2> QED
    BY <2>1, <2>3, <2>4
<1>10. reg[s] # NoEntry => reg[s].link \in Slots \ {k}
  BY <1>2, TypeFacts, EntryFacts DEF Good
<1>3. /\ new \in Links
      /\ Good(running[s], isRun'[s], k, cut[s], new, reg[s])
      /\ Ordered(status[s], new, reg[s])
  <2> HIDE DEF new
  <2>1. \A j \in Slots : new[j].up => new[j].held /\ k = j /\ running[s]
    BY <1>7, <1>8, <1>9
  <2>2. \A j \in Slots : new[j].asked => new[j].held
    BY <1>7, <1>8, <1>9, TypeFacts DEF Good
  <2>3. reg[s] # NoEntry => new[reg[s].link].held
    BY <1>9, <1>10, TypeFacts DEF Good
  <2>4. \A j \in Slots : new[j].up /\ Pending(new[j].toC, {Rep(TRUE)}) => reg[s].link = j
    BY <1>7, <1>8, <1>9, EmptyPending
  <2>5. new[k].asked \/ ~isRun'[s] \/ cut[s]
    BY <1>7, <1>8
  <2>6. Good(running[s], isRun'[s], k, cut[s], new, reg[s])
    BY <1>2, <2>1, <2>2, <2>3, <2>4, <2>5, SlotFacts DEF Good
  <2>7. Ordered(status[s], new, reg[s])
    BY <1>9, <1>10 DEF Ordered
  <2> QED
    BY <1>8, <2>6, <2>7
<1> HIDE DEF new
<1>4. link' \in [Servers -> Links] /\ link'[s] = new /\ sock'[s] = k
      /\ sock' \in [Servers -> Slots \cup {NoSock, Gone}]
  BY <1>1, <1>2, <1>3 DEF RegistryInv, TypeOK, Links, new
<1>5. TypeOK'
  BY <1>4 DEF RegistryInv, TypeOK, Links
<1>6. ServerInv(s)'
  <2>1. running'[s] = running[s] /\ cut'[s] = cut[s] /\ reg'[s] = reg[s] /\ status'[s] = status[s]
    BY TypeFacts
  <2> QED
    BY <1>3, <1>4, <2>1, TypeFacts DEF ServerInv
<1> QED
  BY <1>1, <1>5, <1>6, OneServer DEF RegistryInv, TypeOK

LEMMA ReConnectInv ==
    ASSUME RegistryInv, NEW s \in Servers, ReConnect(s) PROVE RegistryInv'
<1>1. isRun' \in [Servers -> BOOLEAN] /\ \A t \in Servers \ {s} : isRun'[t] = isRun[t]
  BY DEF RegistryInv, TypeOK, ReConnect
<1> QED
  BY <1>1, ConnectInv DEF ReConnect

LEMMA ReportInv ==
    ASSUME RegistryInv, NEW s \in Servers, Report(s) PROVE RegistryInv'
<1>1. isRun' = isRun /\ isRun \in [Servers -> BOOLEAN] /\ sock[s] = NoSock
  BY DEF Report, RegistryInv, TypeOK
<1>2. ~isRun'[s] \/ cut[s]
  BY <1>1, TypeFacts DEF Good, Report
<1> QED
  BY <1>1, <1>2, ConnectInv DEF Report

\* Closing the client's end, for the actions that do: what it believes is
\* forgotten, or false and marked so.
LEMMA CloseInv ==
    ASSUME RegistryInv, NEW s \in Servers, TypeOK',
           link' = [link EXCEPT ![s] = Closed(@, sock[s])],
           sock' = [sock EXCEPT ![s] = NoSock], isRun'[s] => cut'[s],
           \A t \in Servers \ {s} :
              running'[t] = running[t] /\ isRun'[t] = isRun[t] /\ cut'[t] = cut[t],
           UNCHANGED <<status, reg>>
    PROVE  RegistryInv'
<1>1. link'[s] = Closed(link[s], sock[s]) /\ sock'[s] = NoSock /\ reg'[s] = reg[s]
      /\ \A t \in Servers \ {s} : link'[t] = link[t] /\ sock'[t] = sock[t]
  BY DEF RegistryInv, TypeOK
<1>2. Good(running'[s], isRun'[s], NoSock, cut'[s], Closed(link[s], sock[s]), reg[s])
      /\ Ordered(status'[s], Closed(link[s], sock[s]), reg[s])
  BY TypeFacts, CloseGood
<1>3. ServerInv(s)'
  BY <1>1, <1>2 DEF ServerInv
<1> QED
  BY <1>1, <1>3, OneServer

LEMMA CloseType ==
    ASSUME TypeOK, NEW s \in Servers
    PROVE  [link EXCEPT ![s] = Closed(@, sock[s])] \in [Servers -> [Slots -> Link]]
<1>1. link[s] \in Links /\ sock[s] \in Slots \cup {NoSock, Gone}
  BY DEF TypeOK, Links
<1> QED
  BY <1>1, ClosedFacts DEF TypeOK, Links

LEMMA ReConnectCutInv ==
    ASSUME RegistryInv, NEW s \in Servers, ReConnectCut(s) PROVE RegistryInv'
<1>1. TypeOK'
  BY CloseType DEF RegistryInv, TypeOK, ReConnectCut, Fault
<1>2. cut'[s]
  BY DEF RegistryInv, TypeOK, ReConnectCut
<1> QED
  BY <1>1, <1>2, CloseInv DEF RegistryInv, TypeOK, ReConnectCut

LEMMA ReConnectFailsInv ==
    ASSUME RegistryInv, NEW s \in Servers, ReConnectFails(s) PROVE RegistryInv'
<1>1. TypeOK'
  BY CloseType DEF RegistryInv, TypeOK, ReConnectFails, Fault
<1>2. ~isRun'[s]
  BY DEF RegistryInv, TypeOK, ReConnectFails
<1> QED
  BY <1>1, <1>2, CloseInv DEF RegistryInv, TypeOK, ReConnectFails

LEMMA EndsInv ==
    ASSUME RegistryInv, NEW s \in Servers, Ends(s), faults' \in Nat PROVE RegistryInv'
<1>1. TypeOK'
  BY CloseType DEF RegistryInv, TypeOK, Ends
<1>2. ~isRun'[s]
  BY DEF RegistryInv, TypeOK, Ends
<1> QED
  BY <1>1, <1>2, CloseInv DEF RegistryInv, TypeOK, Ends

LEMMA HearCloseInv ==
    ASSUME RegistryInv, NEW s \in Servers, HearClose(s) PROVE RegistryInv'
<1>1. TypeOK'
  BY DEF RegistryInv, TypeOK, HearClose
<1>2. \A k \in Slots : ~link[s][k].up
  BY TypeFacts, SlotFacts DEF HearClose, Good
<1>3. isRun'[s] = FALSE /\ cut'[s] = FALSE /\ sock'[s] = NoSock /\ running'[s] = running[s]
      /\ link'[s] = link[s] /\ reg'[s] = reg[s] /\ status'[s] = status[s]
  BY DEF RegistryInv, TypeOK, HearClose
<1>4. /\ Good(running[s], FALSE, NoSock, FALSE, link[s], reg[s])
      /\ Ordered(status[s], link[s], reg[s])
  BY <1>2, TypeFacts, QuietGood
<1>5. ServerInv(s)'
  BY <1>3, <1>4 DEF ServerInv
<1> QED
  BY <1>1, <1>5, OneServer DEF RegistryInv, TypeOK, HearClose

LEMMA LoseLinkInv ==
    ASSUME RegistryInv, NEW s \in Servers, LoseLink(s) PROVE RegistryInv'
<1>1. sock[s] \in Slots
  BY DEF LoseLink
<1>2. /\ Lost(link[s], sock[s]) \in Links
      /\ Good(running[s], isRun[s], Gone, cut[s], Lost(link[s], sock[s]), reg[s])
      /\ Ordered(status[s], Lost(link[s], sock[s]), reg[s])
  BY <1>1, TypeFacts, LoseGood
<1>3. TypeOK'
  BY <1>2 DEF RegistryInv, TypeOK, LoseLink, Fault, Links
<1>4. link'[s] = Lost(link[s], sock[s]) /\ sock'[s] = Gone
  BY DEF RegistryInv, TypeOK, LoseLink
<1>5. ServerInv(s)'
  BY <1>2, <1>4 DEF ServerInv, LoseLink
<1> QED
  BY <1>3, <1>5, OneServer DEF RegistryInv, TypeOK, LoseLink

LEMMA ReceiveInv ==
    ASSUME RegistryInv, NEW s \in Servers, Receive(s) PROVE RegistryInv'
<1> DEFINE mySock == sock[s]
           msg == Head(link[s][mySock].toC)
           newLink == Popped(link[s], mySock)
<1>1. mySock \in Slots /\ link[s][mySock].toC # <<>> /\ link[s][mySock].toC \in Seq(Msgs)
  BY TypeFacts, LinkFields DEF Receive
<1>2. msg \in Msgs
  BY <1>1, TailPending
<1>4. link' = [link EXCEPT ![s] = newLink]
  BY DEF Receive, RegistryInv, TypeOK, Popped
<1>5. RegisterRep(s, msg) \/ ConnectNewLobby(s, msg) \/ TakeRetire(s, msg)
  BY DEF Receive
<1> HIDE DEF msg, newLink
<1>6. /\ isRun' \in [Servers -> BOOLEAN] /\ status' \in [Servers -> {"normal", "retire"}]
      /\ \A t \in Servers \ {s} : isRun'[t] = isRun[t] /\ status'[t] = status[t]
      /\ known' \in [GameSvrs -> SUBSET Lobbies]
      /\ Taken(msg, isRun[s], isRun'[s], status[s], status'[s])
  <2>1. CASE RegisterRep(s, msg)
    <3>1. msg.type = "rep"
      BY <2>1 DEF RegisterRep
    <3>2. msg \in Reps /\ msg # RetireMsg /\ msg.ok \in BOOLEAN
      BY <1>2, <3>1, MsgKinds
    <3> QED
      BY <2>1, <3>2 DEF RegisterRep, RegistryInv, TypeOK, Taken
  <2>2. CASE ConnectNewLobby(s, msg)
    <3>1. msg.type = "newLobby"
      BY <2>2 DEF ConnectNewLobby
    <3>2. msg \notin Reps /\ msg # RetireMsg /\ msg.lobby \in Lobbies
      BY <1>2, <3>1, MsgKinds
    <3> QED
      BY <2>2, <3>2 DEF ConnectNewLobby, RegistryInv, TypeOK, Taken
  <2>3. CASE TakeRetire(s, msg)
    <3>1. msg.type = "retire"
      BY <2>3 DEF TakeRetire
    <3>2. msg = RetireMsg /\ msg \notin Reps
      BY <1>2, <3>1, MsgKinds
    <3> QED
      BY <2>3, <3>2 DEF TakeRetire, RegistryInv, TypeOK, Taken
  <2> QED
    BY <1>5, <2>1, <2>2, <2>3
<1>3. /\ newLink \in Links
      /\ Good(running[s], isRun'[s], mySock, cut[s], newLink, reg[s])
      /\ Ordered(status[s], link[s], reg[s]) => Ordered(status'[s], newLink, reg[s])
  <2>1. ReceiveStep(running[s], isRun[s], mySock, cut[s], link[s], reg[s], status[s],
                    isRun'[s], status'[s], newLink)
    BY <1>1, <1>6, TypeFacts DEF msg, newLink, ReceiveStep
  <2> QED
    BY <2>1, ReceiveGood
<1>7. link' \in [Servers -> [Slots -> Link]] /\ link'[s] = newLink
      /\ \A t \in Servers \ {s} : link'[t] = link[t]
  BY <1>3, <1>4 DEF RegistryInv, TypeOK, Links
<1>8. TypeOK'
  BY <1>6, <1>7 DEF Receive, RegistryInv, TypeOK
<1>9. ServerInv(s)'
  <2>1. running'[s] = running[s] /\ sock'[s] = mySock /\ cut'[s] = cut[s] /\ reg'[s] = reg[s]
    BY DEF Receive
  <2>2. Good(running'[s], isRun'[s], sock'[s], cut'[s], link'[s], reg'[s])
    BY <1>3, <1>7, <2>1
  <2>3. s \notin Master => Ordered(status'[s], link'[s], reg'[s])
    BY <1>3, <1>7, <2>1, TypeFacts
  <2> QED
    BY <2>2, <2>3 DEF ServerInv
<1> QED
  BY <1>6, <1>7, <1>8, <1>9, OneServer DEF Receive

-----------------------------------------------------------------------------
(* The dispatch server's steps.                                            *)

LEMMA NewEntry ==
    ASSUME NEW k \in Slots, NEW st \in {"normal", "retire"}
    PROVE  LET e == [link |-> k, status |-> st]
           IN  e \in Entry /\ e.link = k /\ e.status = st
  BY DEF Entry

LEMMA RegisterRefusedInv ==
    ASSUME RegistryInv, NEW s \in Servers, NEW k \in Slots, RegisterRefused(s, k)
    PROVE  RegistryInv'
<1> DEFINE newLink == Answered(s, k, FALSE)
<1>1. AfterAnswer(link[s], k, Rep(FALSE), newLink) /\ Rep(FALSE) \in Reps
  BY MsgFacts, TypeFacts, AnsweredFacts DEF Answered
<1>2. reg[s] \in Entry
  BY TypeFacts DEF RegisterRefused, Registered
<1> HIDE DEF newLink
<1>3. /\ newLink \in Links
      /\ Good(running[s], isRun[s], sock[s], cut[s], newLink, reg[s])
      /\ Ordered(status[s], link[s], reg[s]) => Ordered(status[s], newLink, reg[s])
  <2>1. AnswerStep(running[s], isRun[s], sock[s], cut[s], link[s], reg[s], status[s],
                   k, Rep(FALSE), reg[s], newLink)
    BY <1>1, <1>2, TypeFacts DEF AnswerStep, RegisterRefused
  <2> QED
    BY <2>1, AnswerGood
<1>4. link' = [link EXCEPT ![s] = newLink]
  BY DEF RegisterRefused, newLink
<1>5. link' \in [Servers -> [Slots -> Link]] /\ link'[s] = newLink
      /\ \A t \in Servers \ {s} : link'[t] = link[t]
  BY <1>3, <1>4 DEF RegistryInv, TypeOK, Links
<1>6. TypeOK'
  BY <1>5 DEF RegisterRefused, RegistryInv, TypeOK, client
<1>7. ServerInv(s)'
  BY <1>3, <1>5, TypeFacts DEF ServerInv, RegisterRefused, client
<1> QED
  BY <1>5, <1>6, <1>7, OneServer DEF RegisterRefused, client

\* The connection and the entry of a server whose Register is accepted.
LEMMA AcceptedFacts ==
    ASSUME RegistryInv, NEW s \in Servers, NEW k \in Slots, link[s][k].asked, ~Registered(s),
           NEW re2 \in Entry, re2.link = k, re2.status = "normal" \/ s \in Master
    PROVE  /\ Answered(s, k, TRUE) \in Links
           /\ Good(running[s], isRun[s], sock[s], cut[s], Answered(s, k, TRUE), re2)
           /\ s \notin Master => Ordered(status[s], Answered(s, k, TRUE), re2)
<1> DEFINE newLink == Answered(s, k, TRUE)
<1>1. AfterAnswer(link[s], k, Rep(TRUE), newLink) /\ Rep(TRUE) \in Reps
  BY MsgFacts, TypeFacts, AnsweredFacts DEF Answered
<1>2. reg[s] = NoEntry
  BY DEF Registered
<1> HIDE DEF newLink
<1>3. /\ newLink \in Links
      /\ Good(running[s], isRun[s], sock[s], cut[s], newLink, re2)
      /\ Ordered(status[s], link[s], reg[s]) /\ re2.status = "normal"
            => Ordered(status[s], newLink, re2)
  <2>1. AnswerStep(running[s], isRun[s], sock[s], cut[s], link[s], reg[s], status[s],
                   k, Rep(TRUE), re2, newLink)
    BY <1>1, <1>2, TypeFacts DEF AnswerStep
  <2> QED
    BY <2>1, AnswerGood
<1> QED
  BY <1>3, TypeFacts DEF newLink

LEMMA RegisterGameInv ==
    ASSUME RegistryInv, NEW g \in GameSvrs, NEW k \in Slots, RegisterGame(g, k)
    PROVE  RegistryInv'
<1> DEFINE e == [link |-> k, status |-> "normal"]
           newLink == Answered(g, k, TRUE)
<1>1. g \in Servers
  BY DEF Servers
<1>2. e \in Entry /\ e.link = k /\ e.status = "normal"
  BY NewEntry
<1>3. link' = [link EXCEPT ![g] = newLink] /\ reg' = [reg EXCEPT ![g] = e]
  BY DEF RegisterGame
<1> HIDE DEF e
<1>4. /\ newLink \in Links
      /\ Good(running[g], isRun[g], sock[g], cut[g], newLink, e)
      /\ g \notin Master => Ordered(status[g], newLink, e)
  BY <1>1, <1>2, AcceptedFacts DEF RegisterGame
<1> HIDE DEF newLink
<1>5. link' \in [Servers -> [Slots -> Link]] /\ link'[g] = newLink /\ reg'[g] = e
      /\ reg' \in [Servers -> Entry \cup {NoEntry}]
      /\ \A t \in Servers \ {g} : link'[t] = link[t] /\ reg'[t] = reg[t]
  BY <1>1, <1>2, <1>3, <1>4 DEF RegistryInv, TypeOK, Links
<1>6. TypeOK'
  BY <1>5 DEF RegisterGame, RegistryInv, TypeOK, client
<1>7. ServerInv(g)'
  BY <1>4, <1>5 DEF ServerInv, RegisterGame, client
<1> QED
  BY <1>1, <1>5, <1>6, <1>7, OneServer DEF RegisterGame, client

LEMMA DestroyObjInv ==
    ASSUME RegistryInv, NEW s \in Servers, NEW k \in Slots, DestroyObj(s, k)
    PROVE  RegistryInv'
<1> DEFINE newLink == [link[s] EXCEPT ![k] = Free]
           newReg == IF reg[s].link = k THEN NoEntry ELSE reg[s]
<1>1. RemoveStep(running[s], isRun[s], sock[s], cut[s], link[s], reg[s], status[s],
                 k, sock[s], newLink, newReg)
  BY TypeFacts DEF RemoveStep, DestroyObj
<1>2. link' = [link EXCEPT ![s] = newLink] /\ reg' = [reg EXCEPT ![s] = newReg]
  BY DEF DestroyObj, RemoveServer
<1> HIDE DEF newLink, newReg
<1>3. /\ newLink \in Links /\ newReg \in Entry \cup {NoEntry}
      /\ Good(running[s], isRun[s], sock[s], cut[s], newLink, newReg)
      /\ Ordered(status[s], link[s], reg[s]) => Ordered(status[s], newLink, newReg)
  BY <1>1, RemoveGood
<1>4. /\ link' \in [Servers -> [Slots -> Link]] /\ link'[s] = newLink
      /\ reg' \in [Servers -> Entry \cup {NoEntry}] /\ reg'[s] = newReg
      /\ \A t \in Servers \ {s} : link'[t] = link[t] /\ reg'[t] = reg[t]
  BY <1>2, <1>3 DEF RegistryInv, TypeOK, Links
<1>5. TypeOK'
  BY <1>4 DEF DestroyObj, RegistryInv, TypeOK, client
<1>6. ServerInv(s)'
  BY <1>3, <1>4, TypeFacts DEF ServerInv, DestroyObj, client
<1> QED
  BY <1>4, <1>5, <1>6, OneServer DEF DestroyObj, client

LEMMA OnTimerInv ==
    ASSUME RegistryInv, NEW s \in Servers, NEW k \in Slots, OnTimer(s, k)
    PROVE  RegistryInv'
<1> DEFINE newLink == [link[s] EXCEPT ![k] = Free]
           newReg == IF reg[s].link = k THEN NoEntry ELSE reg[s]
           newSock == IF sock[s] = k THEN Gone ELSE sock[s]
<1>1. RemoveStep(running[s], isRun[s], sock[s], cut[s], link[s], reg[s], status[s],
                 k, newSock, newLink, newReg)
  BY TypeFacts DEF RemoveStep, OnTimer
<1>2. /\ link' = [link EXCEPT ![s] = newLink] /\ reg' = [reg EXCEPT ![s] = newReg]
      /\ sock' = [sock EXCEPT ![s] = newSock]
  BY DEF OnTimer, RemoveServer
<1>3. newSock \in Slots \cup {NoSock, Gone}
  BY TypeFacts
<1> HIDE DEF newLink, newReg, newSock
<1>4. /\ newLink \in Links /\ newReg \in Entry \cup {NoEntry}
      /\ Good(running[s], isRun[s], newSock, cut[s], newLink, newReg)
      /\ Ordered(status[s], link[s], reg[s]) => Ordered(status[s], newLink, newReg)
  BY <1>1, RemoveGood
<1>5. /\ link' \in [Servers -> [Slots -> Link]] /\ link'[s] = newLink
      /\ reg' \in [Servers -> Entry \cup {NoEntry}] /\ reg'[s] = newReg
      /\ sock' \in [Servers -> Slots \cup {NoSock, Gone}] /\ sock'[s] = newSock
      /\ \A t \in Servers \ {s} : link'[t] = link[t] /\ reg'[t] = reg[t] /\ sock'[t] = sock[t]
  BY <1>2, <1>3, <1>4 DEF RegistryInv, TypeOK, Links
<1>6. TypeOK'
  BY <1>5 DEF OnTimer, Fault, RegistryInv, TypeOK
<1>7. ServerInv(s)'
  BY <1>4, <1>5, TypeFacts DEF ServerInv, OnTimer
<1> QED
  BY <1>5, <1>6, <1>7, OneServer DEF OnTimer

LEMMA NotifyRetireServerInv ==
    ASSUME RegistryInv, NEW s \in Servers, NotifyRetireServer(s) PROVE RegistryInv'
<1> DEFINE newLink == Send(link[s], reg[s].link, RetireMsg)
           newReg == [reg[s] EXCEPT !.status = "retire"]
<1>1. reg[s] \in Entry
  BY TypeFacts DEF NotifyRetireServer, Registered
<1>2. newReg \in Entry /\ newReg.link = reg[s].link
  BY <1>1 DEF Entry
<1>3. RetireMsg \in Msgs \ Reps
  BY MsgFacts
<1>4. SendStep(running[s], isRun[s], sock[s], cut[s], link[s], reg[s], status[s],
               RetireMsg, newReg, newLink)
  <2> HIDE DEF newReg
  <2> QED
    BY <1>1, <1>2, <1>3, TypeFacts DEF SendStep
<1>5. link' = [link EXCEPT ![s] = newLink] /\ reg' = [reg EXCEPT ![s] = newReg]
  BY DEF NotifyRetireServer
<1> HIDE DEF newLink, newReg
<1>6. /\ newLink \in Links
      /\ Good(running[s], isRun[s], sock[s], cut[s], newLink, newReg)
      /\ Ordered(status[s], newLink, newReg)
  BY <1>4, SendGood
<1>7. /\ link' \in [Servers -> [Slots -> Link]] /\ link'[s] = newLink
      /\ reg' \in [Servers -> Entry \cup {NoEntry}] /\ reg'[s] = newReg
      /\ \A t \in Servers \ {s} : link'[t] = link[t] /\ reg'[t] = reg[t]
  BY <1>2, <1>5, <1>6 DEF RegistryInv, TypeOK, Links
<1>8. TypeOK'
  BY <1>7 DEF NotifyRetireServer, RegistryInv, TypeOK, client
<1>9. ServerInv(s)'
  BY <1>6, <1>7 DEF ServerInv, NotifyRetireServer, client
<1> QED
  BY <1>7, <1>8, <1>9, OneServer DEF NotifyRetireServer, client

LEMMA DispatchRestartInv ==
    ASSUME RegistryInv, DispatchRestart PROVE RegistryInv'
<1>1. [k \in Slots |-> Free] \in [Slots -> Link]
  BY FreeFacts
<1>2. TypeOK'
  BY <1>1 DEF DispatchRestart, Fault, RegistryInv, TypeOK
<1>3. ASSUME NEW s \in Servers PROVE ServerInv(s)'
  <2>1. link'[s] = [k \in Slots |-> Free] /\ reg'[s] = NoEntry
        /\ sock'[s] = IF sock[s] \in Slots THEN Gone ELSE sock[s]
    BY DEF DispatchRestart
  <2>2. \A k \in Slots : ~link'[s][k].up /\ ~link'[s][k].asked
    BY <2>1, FreeFacts
  <2>3. sock'[s] \notin Slots /\ (sock'[s] = NoSock => sock[s] = NoSock)
    BY <2>1, SlotFacts DEF NoSock, Gone
  <2>4. running'[s] = running[s] /\ isRun'[s] = isRun[s] /\ cut'[s] = cut[s]
    BY DEF DispatchRestart
  <2>5. running[s] /\ isRun[s] /\ ~cut[s] => sock[s] # NoSock
    BY TypeFacts DEF Good
  <2>6. Good(running'[s], isRun'[s], sock'[s], cut'[s], link'[s], reg'[s])
    BY <2>1, <2>2, <2>3, <2>4, <2>5 DEF Good
  <2>7. Ordered(status'[s], link'[s], reg'[s])
    BY <2>1 DEF Ordered
  <2> QED
    BY <2>6, <2>7 DEF ServerInv
<1> QED
  BY <1>2, <1>3 DEF RegistryInv

\* A lobby registers: its own entry, the game servers that are told, and those
\* whose connection turns out to be dead.
LEMMA RegisterLobbyInv ==
    ASSUME RegistryInv, NEW l \in Lobbies, NEW k \in Slots, RegisterLobby(l, k)
    PROVE  RegistryInv'
<1> DEFINE e == [link |-> k, status |-> IF l \in Master THEN "retire" ELSE "normal"]
           accepted == Answered(l, k, TRUE)
<1>1. l \in Servers
  BY DEF Servers
<1>2. e \in Entry /\ e.link = k /\ (e.status = "normal" \/ l \in Master)
  BY NewEntry
<1>3. PICK failed \in SUBSET {g \in NormalGames : ~link[g][reg[g].link].up} :
      \E told \in SUBSET (NormalGames \ failed) :
        /\ reg' = [s \in Servers |-> IF s = l THEN e
                                     ELSE IF s \in failed THEN NoEntry ELSE reg[s]]
        /\ link' = [s \in Servers |->
               IF s = l THEN accepted
               ELSE IF s \in failed THEN [link[s] EXCEPT ![reg[s].link] = Free]
               ELSE IF s \in told THEN Send(link[s], reg[s].link, NewLobby(l))
               ELSE link[s]]
  BY DEF RegisterLobby
<1>4. PICK told \in SUBSET (NormalGames \ failed) :
        /\ reg' = [s \in Servers |-> IF s = l THEN e
                                     ELSE IF s \in failed THEN NoEntry ELSE reg[s]]
        /\ link' = [s \in Servers |->
               IF s = l THEN accepted
               ELSE IF s \in failed THEN [link[s] EXCEPT ![reg[s].link] = Free]
               ELSE IF s \in told THEN Send(link[s], reg[s].link, NewLobby(l))
               ELSE link[s]]
  BY <1>3
<1> HIDE DEF e
<1>5. /\ accepted \in Links
      /\ Good(running[l], isRun[l], sock[l], cut[l], accepted, e)
      /\ l \notin Master => Ordered(status[l], accepted, e)
  BY <1>1, <1>2, AcceptedFacts DEF RegisterLobby
<1> HIDE DEF accepted
<1>6. NewLobby(l) \in Msgs \ Reps
  BY MsgFacts
<1> DEFINE Fine(s, ls, re) ==
      /\ ls \in Links /\ re \in Entry \cup {NoEntry}
      /\ Good(running[s], isRun[s], sock[s], cut[s], ls, re)
      /\ s \notin Master => Ordered(status[s], ls, re)
<1>7. ASSUME NEW s \in Servers PROVE Fine(s, link'[s], reg'[s])
  <2>1. CASE s = l
    <3>1. link'[s] = accepted /\ reg'[s] = e
      BY <1>1, <1>4, <2>1
    <3> QED
      BY <1>2, <1>5, <2>1, <3>1
  <2>2. CASE s # l /\ s \in failed
    <3> DEFINE newLink == [link[s] EXCEPT ![reg[s].link] = Free]
               newReg == IF reg[s].link = reg[s].link THEN NoEntry ELSE reg[s]
    <3>1. reg[s] # NoEntry /\ ~link[s][reg[s].link].up
      BY <2>2 DEF NormalGames, Registered
    <3>2. reg[s].link \in Slots
      BY <3>1, TypeFacts, EntryFacts
    <3>3. RemoveStep(running[s], isRun[s], sock[s], cut[s], link[s], reg[s], status[s],
                     reg[s].link, sock[s], newLink, newReg)
      BY <3>1, <3>2, TypeFacts DEF RemoveStep
    <3>4. link'[s] = newLink /\ reg'[s] = newReg
      BY <1>4, <2>2
    <3> HIDE DEF newLink, newReg
    <3>5. /\ newLink \in Links /\ newReg \in Entry \cup {NoEntry}
          /\ Good(running[s], isRun[s], sock[s], cut[s], newLink, newReg)
          /\ Ordered(status[s], link[s], reg[s]) => Ordered(status[s], newLink, newReg)
      BY <3>3, RemoveGood
    <3> QED
      BY <3>4, <3>5, TypeFacts
  <2>3. CASE s # l /\ s \notin failed /\ s \in told
    <3> DEFINE newLink == Send(link[s], reg[s].link, NewLobby(l))
    <3>1. reg[s] \in Entry
      BY <2>3, TypeFacts DEF NormalGames, Registered
    <3>2. SendStep(running[s], isRun[s], sock[s], cut[s], link[s], reg[s], status[s],
                   NewLobby(l), reg[s], newLink)
      BY <1>6, <3>1, TypeFacts DEF SendStep
    <3>3. link'[s] = newLink /\ reg'[s] = reg[s]
      BY <1>4, <2>3
    <3> HIDE DEF newLink
    <3>4. /\ newLink \in Links
          /\ Good(running[s], isRun[s], sock[s], cut[s], newLink, reg[s])
          /\ Ordered(status[s], link[s], reg[s]) => Ordered(status[s], newLink, reg[s])
      BY <3>2, SendGood
    <3> QED
      BY <3>1, <3>3, <3>4, TypeFacts
  <2>4. CASE s # l /\ s \notin failed /\ s \notin told
    <3>1. link'[s] = link[s] /\ reg'[s] = reg[s]
      BY <1>4, <2>4
    <3> QED
      BY <3>1, TypeFacts
  <2> QED
    BY <2>1, <2>2, <2>3, <2>4
<1>8. link' \in [Servers -> Links] /\ reg' \in [Servers -> Entry \cup {NoEntry}]
  <2>1. DOMAIN link' = Servers /\ DOMAIN reg' = Servers
    BY <1>4
  <2>2. link' = [s \in Servers |-> link'[s]] /\ reg' = [s \in Servers |-> reg'[s]]
    BY <1>4
  <2>3. \A s \in Servers : link'[s] \in Links /\ reg'[s] \in Entry \cup {NoEntry}
    BY <1>7
  <2> QED
    BY <2>2, <2>3
<1>9. TypeOK'
  BY <1>8 DEF RegisterLobby, RegistryInv, TypeOK, client, Links
<1>10. ASSUME NEW s \in Servers PROVE ServerInv(s)'
  <2>1. running'[s] = running[s] /\ status'[s] = status[s] /\ isRun'[s] = isRun[s]
        /\ sock'[s] = sock[s] /\ cut'[s] = cut[s]
    BY DEF RegisterLobby, client
  <2> QED
    BY <1>7, <2>1 DEF ServerInv
<1> QED
  BY <1>9, <1>10 DEF RegistryInv

LEMMA NextInv == RegistryInv /\ [Next]_vars => RegistryInv'
<1> SUFFICES ASSUME RegistryInv, [Next]_vars PROVE RegistryInv'
  OBVIOUS
<1>1. ASSUME NEW l \in Lobbies, AddConfig(l) PROVE RegistryInv'
  BY <1>1, AddConfigInv
<1>2. ASSUME NEW s \in Servers, Boot(s) PROVE RegistryInv'
  BY <1>2, BootInv
<1>3. ASSUME NEW s \in Servers, ReConnect(s) PROVE RegistryInv'
  BY <1>3, ReConnectInv
<1>4. ASSUME NEW s \in Servers, ReConnectCut(s) PROVE RegistryInv'
  BY <1>4, ReConnectCutInv
<1>5. ASSUME NEW s \in Servers, ReConnectFails(s) PROVE RegistryInv'
  BY <1>5, ReConnectFailsInv
<1>6. ASSUME NEW s \in Servers, Report(s) PROVE RegistryInv'
  BY <1>6, ReportInv
<1>7. ASSUME NEW s \in Servers, HearClose(s) PROVE RegistryInv'
  BY <1>7, HearCloseInv
<1>8. ASSUME NEW s \in Servers, Receive(s) PROVE RegistryInv'
  BY <1>8, ReceiveInv
<1>9. ASSUME NEW s \in Servers, Die(s) PROVE RegistryInv'
  <2>1. Ends(s) /\ faults' \in Nat
    BY <1>9 DEF Die, Fault, RegistryInv, TypeOK
  <2> QED
    BY <2>1, EndsInv
<1>10. ASSUME NEW g \in GameSvrs, RetireExit(g) PROVE RegistryInv'
  <2>1. g \in Servers /\ Ends(g) /\ faults' \in Nat
    BY <1>10 DEF RetireExit, RegistryInv, TypeOK, Servers
  <2> QED
    BY <2>1, EndsInv
<1>11. ASSUME NEW s \in Servers, LoseLink(s) PROVE RegistryInv'
  BY <1>11, LoseLinkInv
<1>12. ASSUME NEW s \in Servers, NEW k \in Slots, RegisterRefused(s, k) PROVE RegistryInv'
  BY <1>12, RegisterRefusedInv
<1>13. ASSUME NEW g \in GameSvrs, NEW k \in Slots, RegisterGame(g, k) PROVE RegistryInv'
  BY <1>13, RegisterGameInv
<1>14. ASSUME NEW l \in Lobbies, NEW k \in Slots, RegisterLobby(l, k) PROVE RegistryInv'
  BY <1>14, RegisterLobbyInv
<1>15. ASSUME NEW s \in Servers, NEW k \in Slots, DestroyObj(s, k) PROVE RegistryInv'
  BY <1>15, DestroyObjInv
<1>16. ASSUME NEW s \in Servers, NEW k \in Slots, OnTimer(s, k) PROVE RegistryInv'
  BY <1>16, OnTimerInv
<1>17. ASSUME NEW s \in Servers, NotifyRetireServer(s) PROVE RegistryInv'
  BY <1>17, NotifyRetireServerInv
<1>18. CASE DispatchRestart
  BY <1>18, DispatchRestartInv
<1>19. CASE UNCHANGED vars
  BY <1>19 DEF vars, RegistryInv, TypeOK, ServerInv
<1> QED
  BY <1>1, <1>2, <1>3, <1>4, <1>5, <1>6, <1>7, <1>8, <1>9, <1>10, <1>11, <1>12, <1>13,
     <1>14, <1>15, <1>16, <1>17, <1>18, <1>19 DEF Next

-----------------------------------------------------------------------------
(* The theorems.                                                           *)

\* The invariant holds in every reachable state, for any servers and bounds.
THEOREM RegistryCorrect == Spec => []RegistryInv
  BY InitInv, NextInv, PTL DEF Spec

\* The variables keep their types: every entry names a connection the dispatch
\* server has a slot for and a status a server can have.
THEOREM RegistryTypeCorrect == Spec => []TypeOK
<1>1. RegistryInv => TypeOK
  BY DEF RegistryInv
<1> QED
  BY <1>1, RegistryCorrect, PTL

\* No entry of the register outlives its connection, and only the connection the
\* server's process uses carries data.
THEOREM EntriesLiveCorrect == Spec => []EntriesLive
<1>1. RegistryInv => EntriesLive
  BY TypeFacts DEF Good, EntriesLive, Registered
<1> QED
  BY <1>1, RegistryCorrect, PTL

\* A server that believes it is registered is, over the connection it uses,
\* unless sending its Register failed.
THEOREM RunMeansRegisteredCorrect == Spec => []RunMeansRegistered
<1>1. RegistryInv => RunMeansRegistered
  BY TypeFacts DEF Good, RunMeansRegistered, Settled
<1> QED
  BY <1>1, RegistryCorrect, PTL

\* An order to retire the register shows as given is obeyed or under way, or was
\* sent over a connection that is dead.
THEOREM RetireGivenCorrect == Spec => []RetireGiven
<1>1. RegistryInv => RetireGiven
  BY TypeFacts DEF Ordered, RetireGiven, Registered
<1> QED
  BY <1>1, RegistryCorrect, PTL
=============================================================================
