-------------------------- MODULE BankerTable_proof --------------------------
(***************************************************************************)
(* Proofs about BankerTable, for any players, stakes, bets and limits: its *)
(* types, that the queue is sound, that stakes are paid back once, and     *)
(* that what is at stake is there.                                         *)
(*                                                                         *)
(* The strengthening (RoundSound) says what is between two rounds: no bet, *)
(* and a banker who has a base score and rounds left; and that only a bet  *)
(* below zero can take the sum of the bets below zero.  The steps that deal *)
(* with the queue are few operators of the model; a lemma for each says    *)
(* what it leaves of the queue, of a player's coins with his locked stake  *)
(* (Held), and of the banker.                                              *)
(***************************************************************************)
EXTENDS BankerTable, Sums_proof

In(q, p) == \E i \in DOMAIN q : q[i] = p

Distinct(q) == \A i, j \in DOMAIN q : q[i] = q[j] => i = j

\* What p has in coins, and in a stake that waits in the queue.
Held(q, c, l, p) == c[p] + (IF In(q, p) THEN l[p] ELSE 0)

BankRecord ==
    [who : Players \cup {NoPlayer}, score : Int, initial : Nat,
     refill : BOOLEAN, leave : BOOLEAN, times : 0 .. Limit]

\* QueueSound, in two parts.
QueueInv ==
    /\ Distinct(queue)
    /\ \A r : In(queue, r) => r \in here /\ lock[r] >= Base
    /\ ~In(queue, bank.who)
    /\ bank.who \in here \cup {NoPlayer}

BetsInv ==
    \A p \in Players : bets[p] # NoBets => state # "free" /\ p # bank.who /\ p \in here

HeldInv == \A p \in Players : Held(queue, coin, lock, p) = due[p]

RoundSound ==
    /\ state # "end" => bank.times < Limit
    /\ state = "free" =>
         /\ all = NoBets /\ ~below
         /\ bank.who # NoPlayer => bank.score >= Base
    /\ ~below => all \in [Areas -> Nat]

BankerInv == TypeOK /\ QueueInv /\ BetsInv /\ HeldInv /\ StakesBacked /\ RoundSound

-----------------------------------------------------------------------------
(* What the operators on the queue leave.                                  *)

LEMMA QueueIsSound == QueueInv /\ BetsInv => QueueSound
  BY DEF QueueInv, BetsInv, QueueSound, Queued, In, Distinct

LEMMA IsSeq == ASSUME NEW S, NEW n \in Nat, NEW f \in [1 .. n -> S] PROVE f \in Seq(S)
  OBVIOUS

LEMMA Shift ==
    ASSUME NEW n \in Nat, NEW k \in Nat, NEW i \in Nat, i > k, i <= n
    PROVE  i - k \in 1 .. n - k /\ (i - k) + k = i
  OBVIOUS

LEMMA WithoutOne ==
    ASSUME NEW q \in Seq(Players), Distinct(q), NEW i \in DOMAIN q
    PROVE  /\ Without(q, i) \in Seq(Players)
           /\ Distinct(Without(q, i))
           /\ \A r : In(Without(q, i), r) <=> In(q, r) /\ r # q[i]
<1> DEFINE w == Without(q, i)
<1>1. /\ Len(q) \in Nat /\ DOMAIN q = 1 .. Len(q) /\ i \in 1 .. Len(q)
      /\ \A j \in 1 .. Len(q) : q[j] \in Players
  OBVIOUS
<1>2. /\ DOMAIN w = 1 .. Len(q) - 1
      /\ \A j \in 1 .. Len(q) - 1 : w[j] = q[IF j < i THEN j ELSE j + 1]
  BY DEF Without
<1>3. w \in [1 .. Len(q) - 1 -> Players]
  BY <1>1 DEF Without
<1>4. w \in Seq(Players)
  <2>1. Len(q) - 1 \in Nat
    BY <1>1
  <2> QED
    BY <1>3, <2>1
<1>5. Distinct(w)
  <2> SUFFICES ASSUME NEW j \in 1 .. Len(q) - 1, NEW k \in 1 .. Len(q) - 1, w[j] = w[k]
               PROVE  j = k
    BY <1>2 DEF Distinct
  <2> DEFINE a == IF j < i THEN j ELSE j + 1
             b == IF k < i THEN k ELSE k + 1
  <2>1. a \in DOMAIN q /\ b \in DOMAIN q /\ q[a] = q[b]
    BY <1>1, <1>2
  <2>2. a = b
    BY <2>1 DEF Distinct
  <2> QED
    BY <1>1, <2>2
<1>6. ASSUME NEW r, In(w, r) PROVE In(q, r) /\ r # q[i]
  <2>1. PICK j \in 1 .. Len(q) - 1 : w[j] = r
    BY <1>2, <1>6 DEF In
  <2> DEFINE a == IF j < i THEN j ELSE j + 1
  <2>2. a \in DOMAIN q /\ a # i /\ q[a] = r
    BY <1>1, <1>2, <2>1
  <2> QED
    BY <2>2 DEF In, Distinct
<1>7. ASSUME NEW r, In(q, r), r # q[i] PROVE In(w, r)
  <2>1. PICK j \in DOMAIN q : q[j] = r
    BY <1>7 DEF In
  <2>2. j # i
    BY <1>7, <2>1
  <2>3. CASE j < i
    <3>1. j \in 1 .. Len(q) - 1 /\ w[j] = r
      BY <1>1, <1>2, <2>1, <2>3
    <3> QED
      BY <1>2, <3>1 DEF In
  <2>4. CASE j > i
    <3>1. j - 1 \in 1 .. Len(q) - 1 /\ w[j - 1] = r
      BY <1>1, <1>2, <2>1, <2>4
    <3> QED
      BY <1>2, <3>1 DEF In
  <2> QED
    BY <1>1, <2>1, <2>2, <2>3, <2>4
<1> HIDE DEF w
<1> QED
  BY <1>4, <1>5, <1>6, <1>7 DEF w

\* RemoveApplyBanker: p is out of the queue, and nobody's holdings change.
LEMMA RemoveApply ==
    ASSUME TypeOK, QueueSound, NEW p \in Players, RemoveApplyBanker(p), lock' = lock
    PROVE  /\ queue' \in Seq(Players) /\ Distinct(queue') /\ coin' \in [Players -> Nat]
           /\ \A r : In(queue', r) <=> In(queue, r) /\ r # p
           /\ \A r \in Players : coin'[r] >= coin[r] /\ Held(queue', coin', lock', r) = Held(queue, coin, lock, r)
<1>1. /\ queue \in Seq(Players) /\ Distinct(queue) /\ coin \in [Players -> Nat]
      /\ lock \in [Players -> Nat]
  BY DEF TypeOK, QueueSound, Distinct
<1>2. CASE ~Queued(p) /\ UNCHANGED <<queue, coin>>
  <2>1. ~In(queue, p)
    BY <1>2 DEF Queued, In
  <2> QED
    BY <1>1, <1>2, <2>1 DEF Held
<1>3. ASSUME NEW i \in DOMAIN queue, queue[i] = p, queue' = Without(queue, i),
             coin' = [coin EXCEPT ![p] = @ + lock[p]]
      PROVE  /\ queue' \in Seq(Players) /\ Distinct(queue') /\ coin' \in [Players -> Nat]
             /\ \A r : In(queue', r) <=> In(queue, r) /\ r # p
             /\ \A r \in Players : coin'[r] >= coin[r] /\ Held(queue', coin', lock', r) = Held(queue, coin, lock, r)
  <2>1. /\ queue' \in Seq(Players) /\ Distinct(queue')
        /\ \A r : In(queue', r) <=> In(queue, r) /\ r # p
    BY <1>1, <1>3, WithoutOne
  <2>2. In(queue, p)
    BY <1>3 DEF In
  <2>3. coin' \in [Players -> Nat]
    BY <1>1, <1>3
  <2>4. ASSUME NEW r \in Players
        PROVE  coin'[r] >= coin[r] /\ Held(queue', coin', lock', r) = Held(queue, coin, lock, r)
    <3>1. CASE r = p
      BY <1>1, <1>3, <2>1, <2>2, <3>1 DEF Held
    <3>2. CASE r # p
      <4>1. coin'[r] = coin[r] /\ (In(queue', r) <=> In(queue, r))
        BY <1>1, <1>3, <2>1, <3>2
      <4> QED
        BY <1>1, <4>1 DEF Held
    <3> QED
      BY <3>1, <3>2
  <2> QED
    BY <2>1, <2>3, <2>4
<1> QED
  BY <1>2, <1>3 DEF RemoveApplyBanker

\* TakeTurns: the head of the queue goes, nobody's holdings change, and a new
\* banker has the coins of his stake.
LEMMA TurnsTaken ==
    ASSUME TypeOK, BankerAssumption,
           NEW q \in Seq(Players), Distinct(q), NEW c \in [Players -> Nat],
           lock' \in [Players -> Nat], auto' \in [Players -> BOOLEAN],
           TakeTurns(q, c)
    PROVE  /\ queue' \in Seq(Players) /\ Distinct(queue') /\ coin' \in [Players -> Nat]
           /\ \A r : In(queue', r) => In(q, r)
           /\ \A r \in Players : coin'[r] >= c[r] /\ Held(queue', coin', lock', r) = Held(q, c, lock', r)
           /\ bank' \in BankRecord /\ bank'.times = 0
           /\ \/ bank' = NoBank
              \/ /\ In(q, bank'.who) /\ ~In(queue', bank'.who)
                 /\ bank'.score = lock'[bank'.who] /\ bank'.score <= coin'[bank'.who]
<1>1. PICK k \in 0 .. Len(q) :
        /\ k < Len(q) => k > 0 /\ q[k] \in online
        /\ queue' = [j \in 1 .. Len(q) - k |-> q[j + k]]
        /\ coin' = [p \in Players |->
                      IF \E i \in 1 .. k : q[i] = p THEN c[p] + lock'[p] ELSE c[p]]
        /\ bank' = IF k > 0 /\ q[k] \in online
                     THEN [who |-> q[k], score |-> lock'[q[k]], initial |-> lock'[q[k]],
                           refill |-> auto'[q[k]], leave |-> FALSE, times |-> 0]
                     ELSE NoBank
  BY DEF TakeTurns
<1>2. /\ Len(q) \in Nat /\ DOMAIN q = 1 .. Len(q) /\ k \in Nat /\ k <= Len(q)
      /\ \A j \in 1 .. Len(q) : q[j] \in Players
  BY <1>1
<1>3. /\ DOMAIN queue' = 1 .. Len(q) - k
      /\ \A j \in 1 .. Len(q) - k : queue'[j] = q[j + k] /\ j + k \in 1 .. Len(q)
  BY <1>1, <1>2
<1>4. queue' \in Seq(Players)
  <2>1. Len(q) - k \in Nat
    BY <1>2
  <2>2. \A j \in 1 .. Len(q) - k : q[j + k] \in Players
    BY <1>2, <1>3
  <2>3. queue' = [j \in 1 .. Len(q) - k |-> q[j + k]]
    BY <1>1
  <2>4. queue' \in [1 .. Len(q) - k -> Players]
    BY <2>2, <2>3
  <2> QED
    BY <2>1, <2>4, IsSeq
<1>5. Distinct(queue')
  <2> SUFFICES ASSUME NEW i \in 1 .. Len(q) - k, NEW j \in 1 .. Len(q) - k, queue'[i] = queue'[j]
               PROVE  i = j
    BY <1>3 DEF Distinct
  <2>1. i + k = j + k
    BY <1>2, <1>3 DEF Distinct
  <2> QED
    BY <1>2, <2>1
<1>6. coin' \in [Players -> Nat]
  <2>1. \A p \in Players : c[p] \in Nat /\ lock'[p] \in Nat /\ c[p] + lock'[p] \in Nat
    OBVIOUS
  <2>2. coin' = [p \in Players |->
                   IF \E i \in 1 .. k : q[i] = p THEN c[p] + lock'[p] ELSE c[p]]
    BY <1>1
  <2> QED
    BY <2>1, <2>2
<1>7. ASSUME NEW r PROVE In(q, r) <=> In(queue', r) \/ \E i \in 1 .. k : q[i] = r
  <2>1. ASSUME In(q, r) PROVE In(queue', r) \/ \E i \in 1 .. k : q[i] = r
    <3>1. PICK i \in 1 .. Len(q) : q[i] = r
      BY <1>2, <2>1 DEF In
    <3>2. CASE i <= k
      BY <1>2, <3>1, <3>2
    <3>3. CASE i > k
      <4>1. i - k \in 1 .. Len(q) - k /\ (i - k) + k = i
        <5>1. i \in Nat /\ i <= Len(q)
          BY <1>2, <3>1
        <5> QED
          BY <1>2, <3>3, <5>1, Shift
      <4>2. i - k \in DOMAIN queue' /\ queue'[i - k] = r
        BY <1>3, <3>1, <4>1
      <4>3. In(queue', r)
        BY <4>2 DEF In
      <4> QED
        BY <4>3
    <3> QED
      BY <1>2, <3>1, <3>2, <3>3
  <2>2. ASSUME In(queue', r) PROVE In(q, r)
    BY <1>2, <1>3, <2>2 DEF In
  <2>3. ASSUME NEW i \in 1 .. k, q[i] = r PROVE In(q, r)
    <3>1. i \in DOMAIN q
      BY <1>2
    <3> QED
      BY <2>3, <3>1 DEF In
  <2> QED
    BY <2>1, <2>2, <2>3
<1>8. ASSUME NEW r, NEW i \in 1 .. k, q[i] = r PROVE ~In(queue', r)
  <2> SUFFICES ASSUME NEW j \in 1 .. Len(q) - k, queue'[j] = r PROVE FALSE
    BY <1>3 DEF In
  <2>1. q[j + k] = q[i] /\ j + k \in DOMAIN q /\ i \in DOMAIN q
    BY <1>2, <1>3, <1>8
  <2>2. j + k = i
    BY <2>1 DEF Distinct
  <2> QED
    BY <1>2, <2>2
<1>9. ASSUME NEW r \in Players
      PROVE  coin'[r] >= c[r] /\ Held(queue', coin', lock', r) = Held(q, c, lock', r)
  <2>1. c[r] \in Nat /\ lock'[r] \in Nat
    OBVIOUS
  <2>2. CASE \E i \in 1 .. k : q[i] = r
    <3>1. coin'[r] = c[r] + lock'[r] /\ In(q, r) /\ ~In(queue', r)
      BY <1>1, <1>7, <1>8, <2>2
    <3> QED
      BY <2>1, <3>1 DEF Held
  <2>3. CASE ~\E i \in 1 .. k : q[i] = r
    <3>1. coin'[r] = c[r] /\ (In(q, r) <=> In(queue', r))
      BY <1>1, <1>7, <2>3
    <3> QED
      BY <2>1, <3>1 DEF Held
  <2> QED
    BY <2>2, <2>3
<1>10. /\ bank' \in BankRecord /\ bank'.times = 0
       /\ \/ bank' = NoBank
          \/ /\ In(q, bank'.who) /\ ~In(queue', bank'.who)
             /\ bank'.score = lock'[bank'.who] /\ bank'.score <= coin'[bank'.who]
  <2>1. 0 \in 0 .. Limit
    BY DEF BankerAssumption
  <2>2. CASE k > 0 /\ q[k] \in online
    <3>1. bank' = [who |-> q[k], score |-> lock'[q[k]], initial |-> lock'[q[k]],
                   refill |-> auto'[q[k]], leave |-> FALSE, times |-> 0]
      BY <1>1, <2>2
    <3>2. k \in 1 .. k /\ q[k] \in Players /\ k \in 1 .. Len(q)
      BY <1>2, <2>2
    <3>3. bank'.who = q[k] /\ bank'.score = lock'[q[k]] /\ bank'.times = 0
      BY <3>1
    <3>4. In(q, q[k]) /\ ~In(queue', q[k])
      BY <1>7, <1>8, <3>2
    <3>5. coin'[q[k]] = c[q[k]] + lock'[q[k]]
      BY <1>1, <3>2
    <3>6. c[q[k]] \in Nat /\ lock'[q[k]] \in Nat /\ auto'[q[k]] \in BOOLEAN
      BY <3>2
    <3>7. bank' \in BankRecord
      BY <2>1, <3>1, <3>2, <3>6 DEF BankRecord
    <3> QED
      BY <3>3, <3>4, <3>5, <3>6, <3>7
  <2>3. CASE ~(k > 0 /\ q[k] \in online)
    <3>1. bank' = NoBank
      BY <1>1, <2>3
    <3> QED
      BY <2>1, <3>1 DEF NoBank, BankRecord
  <2> QED
    BY <2>2, <2>3
<1> QED
  BY <1>4, <1>5, <1>6, <1>7, <1>9, <1>10

LEMMA TopUp ==
    ASSUME TypeOK, bank.who \in Players, NEW c \in [Players -> Nat]
    PROVE  /\ AutoAdded(c) \in BankRecord
           /\ AutoAdded(c).who = bank.who /\ AutoAdded(c).times = bank.times
           /\ AutoAdded(c).score <= bank.score \/ AutoAdded(c).score <= c[bank.who]
<1> DEFINE more == Smaller(bank.initial - bank.score, c[bank.who] - bank.score)
<1>1. /\ bank \in BankRecord /\ bank.score \in Int /\ bank.initial \in Nat
      /\ c[bank.who] \in Nat
  BY DEF TypeOK, BankRecord
<1>2. more \in Int /\ bank.score + more <= c[bank.who] /\ bank.score + more \in Int
  BY <1>1 DEF Smaller
<1>3. AutoAdded(c) = bank \/ AutoAdded(c) = [bank EXCEPT !.score = @ + more]
  BY DEF AutoAdded
<1> HIDE DEF more
<1>4. CASE AutoAdded(c) = bank
  BY <1>1, <1>4
<1>5. CASE AutoAdded(c) = [bank EXCEPT !.score = @ + more]
  <2>1. [bank EXCEPT !.score = @ + more] \in BankRecord
    BY <1>1, <1>2 DEF BankRecord
  <2>2. /\ [bank EXCEPT !.score = @ + more].who = bank.who
        /\ [bank EXCEPT !.score = @ + more].times = bank.times
        /\ [bank EXCEPT !.score = @ + more].score = bank.score + more
    BY <1>1 DEF BankRecord
  <2> QED
    BY <1>2, <1>5, <2>1, <2>2
<1> QED
  BY <1>3, <1>4, <1>5

LEMMA Within ==
    ASSUME NEW s \in Int, NEW b \in Int, NEW c \in Nat, NEW d \in Nat, NEW t \in Nat,
           b <= c + t, c <= d, s <= b \/ s <= d
    PROVE  s <= d + t
  OBVIOUS

\* ChangeBanker(false): as TurnsTaken, and whoever is banker now has a base
\* score, rounds left, and the coins of his stake but for what he moved.
LEMMA BankerChanged ==
    ASSUME TypeOK, QueueSound, StakesBacked, BankerAssumption,
           NEW q \in Seq(Players), Distinct(q), NEW c \in [Players -> Nat],
           lock' \in [Players -> Nat], auto' \in [Players -> BOOLEAN],
           bank.who \in Players => c[bank.who] = coin[bank.who],
           ~In(q, bank.who), \A r : In(q, r) => r \in here /\ lock'[r] >= Base,
           ChangeBanker(q, c), StillTaken
    PROVE  /\ queue' \in Seq(Players) /\ Distinct(queue') /\ coin' \in [Players -> Nat]
           /\ \A r : In(queue', r) => In(q, r)
           /\ \A r \in Players : coin'[r] >= c[r] /\ Held(queue', coin', lock', r) = Held(q, c, lock', r)
           /\ bank' \in BankRecord /\ bank'.times < Limit
           /\ bank'.who \in here \cup {NoPlayer} /\ ~In(queue', bank'.who)
           /\ bank'.who # NoPlayer => bank'.score >= Base
           /\ bank'.who \in Players => bank'.score <= coin'[bank'.who] + taken'[bank'.who]
           /\ taken' \in [Players -> Nat]
<1>1. /\ bank \in BankRecord /\ bank.score \in Int /\ bank.who \in Players \cup {NoPlayer}
      /\ Limit \in Nat /\ Base \in Nat /\ 0 < Limit /\ here \subseteq Players
      /\ NoPlayer \notin Players /\ bank.who \in here \cup {NoPlayer}
      /\ bank.who \in Players => bank.score <= coin[bank.who] + taken[bank.who]
      /\ taken \in [Players -> Nat]
  BY DEF TypeOK, BankRecord, BankerAssumption, QueueSound, StakesBacked
<1>2. taken' \in [Players -> Nat]
  BY <1>1 DEF StillTaken
<1>3. ~In(q, NoPlayer)
  BY <1>1 DEF In
<1>4. NoBank \in BankRecord /\ NoBank.who = NoPlayer /\ NoBank.times = 0
  BY <1>1 DEF NoBank, BankRecord
<1>5. CASE /\ bank.who # NoPlayer /\ ~TermEnds(AutoAdded(c))
           /\ bank' = AutoAdded(c) /\ queue' = q /\ coin' = c
  <2>1. bank.who \in Players
    BY <1>1, <1>5
  <2>2. /\ bank' \in BankRecord /\ bank'.who = bank.who
        /\ bank'.score <= bank.score \/ bank'.score <= c[bank.who]
    BY <1>5, <2>1, TopUp
  <2>3. ~(Limit <= bank'.times) /\ ~(bank'.score < Base)
    BY <1>5 DEF TermEnds
  <2>4. bank'.times \in Nat /\ bank'.score \in Int
    BY <2>2 DEF BankRecord
  <2>5. bank'.times < Limit /\ bank'.score >= Base
    BY <1>1, <2>3, <2>4
  <2>6. bank'.who \in Players => bank'.score <= coin'[bank'.who] + taken'[bank'.who]
    <3>1. taken'[bank.who] = taken[bank.who] /\ taken[bank.who] \in Nat
      BY <1>1, <2>1, <2>2 DEF StillTaken
    <3>2. /\ bank.score <= c[bank.who] + taken[bank.who]
          /\ c[bank.who] \in Nat /\ coin'[bank.who] = c[bank.who]
      BY <1>1, <1>5, <2>1
    <3>3. bank.score \in Int /\ bank'.score \in Int /\ bank'.who = bank.who
      BY <1>1, <2>2, <2>4
    <3>4. bank'.score <= bank.score \/ bank'.score <= c[bank.who]
      BY <2>2
    <3> DEFINE old == bank.score
               new == bank'.score
               d == c[bank.who]
               t == taken[bank.who]
    <3>5. /\ old \in Int /\ new \in Int /\ d \in Nat /\ t \in Nat
          /\ old <= d + t /\ d <= d /\ (new <= old \/ new <= d)
      BY <3>1, <3>2, <3>3, <3>4
    <3> HIDE DEF old, new, d, t
    <3>6. new <= d + t
      BY <3>5, Within
    <3>7. bank'.score <= c[bank.who] + taken[bank.who]
      BY <3>6 DEF new, d, t
    <3>8. coin'[bank'.who] = c[bank.who] /\ taken'[bank'.who] = taken[bank.who]
      BY <3>1, <3>2, <3>3, Zenon
    <3> QED
      BY <3>7, <3>8
  <2>7. \A r \in Players : coin'[r] >= c[r] /\ Held(queue', coin', lock', r) = Held(q, c, lock', r)
    BY <1>5
  <2> QED
    BY <1>1, <1>2, <1>5, <2>2, <2>5, <2>6, <2>7
<1>6. CASE TakeTurns(q, c)
  <2>1. /\ queue' \in Seq(Players) /\ Distinct(queue') /\ coin' \in [Players -> Nat]
        /\ \A r : In(queue', r) => In(q, r)
        /\ \A r \in Players : coin'[r] >= c[r] /\ Held(queue', coin', lock', r) = Held(q, c, lock', r)
        /\ bank' \in BankRecord /\ bank'.times = 0
        /\ \/ bank' = NoBank
           \/ /\ In(q, bank'.who) /\ ~In(queue', bank'.who)
              /\ bank'.score = lock'[bank'.who] /\ bank'.score <= coin'[bank'.who]
    BY <1>6, TurnsTaken
  <2>2. CASE bank' = NoBank
    BY <1>1, <1>2, <1>3, <1>4, <2>1, <2>2
  <2>3. CASE /\ In(q, bank'.who) /\ ~In(queue', bank'.who)
             /\ bank'.score = lock'[bank'.who] /\ bank'.score <= coin'[bank'.who]
    BY <1>1, <1>2, <2>1, <2>3
  <2> QED
    BY <2>1, <2>2, <2>3
<1>7. CASE bank' = NoBank /\ queue' = q /\ coin' = c
  <2>1. \A r \in Players : coin'[r] >= c[r] /\ Held(queue', coin', lock', r) = Held(q, c, lock', r)
    BY <1>7
  <2> QED
    BY <1>1, <1>2, <1>3, <1>4, <1>7, <2>1
<1> QED
  BY <1>5, <1>6, <1>7 DEF ChangeBanker

-----------------------------------------------------------------------------
(* Numbers.                                                                *)

LEMMA FeeTyped == ASSUME BankerAssumption, NEW n \in Int PROVE AfterFee(n) \in Int
<1>1. FeePart \in Nat /\ FeePart > 0
  BY DEF BankerAssumption
<1>2. n \div FeePart \in Int
  BY <1>1
<1> QED
  BY <1>2 DEF AfterFee

LEMMA FloorTyped == ASSUME NEW n \in Int PROVE Least0(n) \in Nat /\ Least0(n) >= n
  BY DEF Least0

LEMMA TotalTyped == ASSUME NEW f \in [Areas -> Int] PROVE Total(f) \in Int
  BY DEF Total, Areas

LEMMA TotalNatural == ASSUME NEW f \in [Areas -> Nat] PROVE Total(f) \in Nat
  BY DEF Total, Areas

LEMMA PartTyped ==
    ASSUME NEW o \in {"won", "lost", "tie"}, NEW x \in Int, NEW y \in Int
    PROVE  (CASE o = "won" -> x [] o = "lost" -> y [] o = "tie" -> 0) \in Int
  OBVIOUS

LEMMA Products == \A m, n \in Int : m * n \in Int /\ -(m * n) \in Int /\ -m \in Int /\ m + n \in Int
  OBVIOUS

LEMMA AreaTyped ==
    ASSUME BankerAssumption, NEW out \in Outcomes, NEW a \in Areas
    PROVE  out[a] \in {"won", "lost", "tie"} /\ Multiple[a] \in Int
  BY DEF BankerAssumption, Outcomes, Multiple, Areas

LEMMA WonTyped ==
    ASSUME TypeOK, BankerAssumption, NEW p \in Players, NEW out \in Outcomes
    PROVE  Won(p, out) \in Int
<1> DEFINE part(a) == CASE out[a] = "won"  -> bets[p][a] * Multiple[a]
                        [] out[a] = "lost" -> -bets[p][a]
                        [] out[a] = "tie"  -> 0
<1>1. ASSUME NEW a \in Areas PROVE part(a) \in Int
  <2>1. bets[p][a] \in Int
    <3>1. bets[p] \in [Areas -> Int]
      BY DEF TypeOK
    <3> QED
      BY <3>1
  <2>2. bets[p][a] * Multiple[a] \in Int /\ -bets[p][a] \in Int
    BY <2>1, AreaTyped, Products
  <2> QED
    BY <2>2, AreaTyped, PartTyped
<1>2. "even" \in Areas /\ "high" \in Areas
  BY DEF Areas
<1>3. Won(p, out) = part("even") + part("high")
  BY DEF Won
<1> HIDE DEF part
<1> QED
  BY <1>1, <1>2, <1>3, Products

LEMMA BankerWonTyped ==
    ASSUME TypeOK, BankerAssumption, NEW out \in Outcomes
    PROVE  BankerWon(out) \in Int
<1> DEFINE f == [p \in Players |-> Won(p, out)]
<1>1. DOMAIN f = Players /\ \A p \in Players : f[p] \in Int
  BY WonTyped
<1>2. IsFiniteSet(Players)
  BY DEF BankerAssumption
<1>3. BankerWon(out) = -SumFunction(f)
  BY DEF BankerWon
<1> HIDE DEF f
<1>4. SumFunction(f) \in Int
  BY <1>1, <1>2, SumInt, SumIsOnDomain
<1> QED
  BY <1>3, <1>4

LEMMA Multiplied == ASSUME NEW n \in Nat, NEW h \in Nat, h > 0 PROVE n * h >= n
<1>1. n * h = n * (h - 1) + n
  OBVIOUS
<1>2. n * (h - 1) \in Nat
  <2>1. h - 1 \in Nat
    OBVIOUS
  <2>2. \A m, k \in Nat : m * k \in Nat
    OBVIOUS
  <2> QED
    BY <2>1, <2>2
<1> QED
  BY <1>1, <1>2

\* A bet above zero for which there is room fits the stake with the other bets,
\* while none of them is below zero.
LEMMA RoomSuffices ==
    ASSUME TypeOK, BankerAssumption, NEW p \in Players, NEW n \in Int, n > 0, RoomForBet(p, n),
           all \in [Areas -> Nat]
    PROVE  Total(all) + n <= bank.score
<1>1. /\ all["even"] \in Nat /\ all["high"] \in Nat /\ High \in Nat /\ High > 0
      /\ bets[p] \in [Areas -> Int] /\ coin[p] \in Nat /\ bank.score \in Int
  BY DEF TypeOK, BankerAssumption, Areas
<1>2. all["high"] * High >= all["high"] /\ all["high"] * High \in Int
  BY <1>1, Multiplied
<1>3. Total(bets[p]) \in Int
  BY <1>1, TotalTyped
<1> DEFINE own == coin[p] - Total(bets[p])
           left == bank.score - (all["even"] + all["high"] * High)
<1>4. own \in Int /\ left \in Int
  BY <1>1, <1>2, <1>3
<1>5. n <= Least0(Smaller(own, left))
  BY DEF RoomForBet
<1>6. n <= left
  <2> HIDE DEF own, left
  <2> QED
    BY <1>4, <1>5 DEF Least0, Smaller
<1>7. all["even"] + all["high"] + n <= bank.score
  BY <1>1, <1>2, <1>6
<1> QED
  BY <1>7 DEF Total

-----------------------------------------------------------------------------
(* The steps.                                                              *)

\* What the steps know.
LEMMA Given ==
    ASSUME BankerInv
    PROVE  /\ queue \in Seq(Players) /\ coin \in [Players -> Nat] /\ lock \in [Players -> Nat]
           /\ auto \in [Players -> BOOLEAN] /\ bank \in BankRecord
           /\ bank.who \in Players \cup {NoPlayer} /\ bank.score \in Int /\ bank.times \in 0 .. Limit
           /\ due \in [Players -> Int] /\ here \subseteq Players /\ taken \in [Players -> Nat]
           /\ bets \in [Players -> [Areas -> Int]] /\ all \in [Areas -> Int]
           /\ \A p \in Players : Total(bets[p]) \in Int
           /\ Total(all) \in Int
           /\ NoBets \in [Areas -> Int] /\ Total(NoBets) = 0
           /\ NoPlayer \notin Players /\ Base \in Nat /\ Limit \in Nat
<1>1. /\ queue \in Seq(Players) /\ coin \in [Players -> Nat] /\ lock \in [Players -> Nat]
      /\ auto \in [Players -> BOOLEAN] /\ bank \in BankRecord
      /\ due \in [Players -> Int] /\ here \subseteq Players /\ taken \in [Players -> Nat]
      /\ bets \in [Players -> [Areas -> Int]] /\ all \in [Areas -> Int]
  BY DEF BankerInv, TypeOK, BankRecord
<1>2. /\ bank.who \in Players \cup {NoPlayer} /\ bank.score \in Int /\ bank.times \in 0 .. Limit
  BY <1>1 DEF BankRecord
<1>3. \A p \in Players : Total(bets[p]) \in Int
  BY <1>1, TotalTyped
<1>4. Total(all) \in Int
  BY <1>1, TotalTyped
<1>5. NoBets \in [Areas -> Int] /\ Total(NoBets) = 0
  BY DEF NoBets, Total, Areas
<1>6. NoPlayer \notin Players /\ Base \in Nat /\ Limit \in Nat
  BY BankerAssumption DEF BankerAssumption
<1> QED
  BY <1>1, <1>2, <1>3, <1>4, <1>5, <1>6

LEMMA Requested ==
    ASSUME BankerInv, Request
    PROVE  events' \in 0 .. MaxEvents /\ online \subseteq Players
<1>1. MaxEvents \in Nat
  BY BankerAssumption DEF BankerAssumption
<1>2. events \in 0 .. MaxEvents /\ online \subseteq Players
  BY DEF BankerInv, TypeOK
<1> QED
  BY <1>1, <1>2 DEF Request

\* Nothing that the invariant is about but who is online.
LEMMA QuietStep ==
    ASSUME BankerInv, online' \subseteq Players, events' \in 0 .. MaxEvents,
           UNCHANGED <<state, here, coin, queue, lock, auto, bank, bets, all, due, taken, below>>
    PROVE  BankerInv'
<1>1. TypeOK'
  BY DEF BankerInv, TypeOK
<1>2. QueueInv' /\ BetsInv' /\ HeldInv'
  BY DEF BankerInv, QueueInv, BetsInv, HeldInv, Held
<1>3. StakesBacked' /\ RoundSound'
  BY DEF BankerInv, StakesBacked, RoundSound
<1> QED
  BY <1>1, <1>2, <1>3 DEF BankerInv

\* A player gives up, is put off, or leaves the table.
LEMMA CancelStep ==
    ASSUME BankerInv, NEW p \in Players, CancelBanker(p),
           \/ here' = here /\ bets' = bets
           \/ /\ CanLeaveTable(p)
              /\ here' = here \ {p} /\ bets' = [bets EXCEPT ![p] = NoBets],
           online' \subseteq Players, events' \in 0 .. MaxEvents,
           UNCHANGED <<state, lock, auto, all, due, taken, below>>
    PROVE  BankerInv'
<1>1. QueueSound /\ TypeOK
  BY QueueIsSound DEF BankerInv
<1>2. /\ queue' \in Seq(Players) /\ Distinct(queue') /\ coin' \in [Players -> Nat]
      /\ \A r : In(queue', r) <=> In(queue, r) /\ r # p
      /\ \A r \in Players : coin'[r] >= coin[r] /\ Held(queue', coin', lock', r) = Held(queue, coin, lock, r)
  BY <1>1, RemoveApply DEF CancelBanker
<1>3. bank' = bank \/ bank' = [bank EXCEPT !.leave = TRUE]
  BY DEF CancelBanker
<1>4. /\ bank' \in BankRecord /\ bank'.who = bank.who /\ bank'.score = bank.score
      /\ bank'.times = bank.times
  BY <1>3, Given DEF BankRecord
<1>5. bank.who # p \/ here' = here
  BY DEF CanLeaveTable
<1>6. /\ bets' \in [Players -> [Areas -> Int]] /\ here' \subseteq Players
      /\ \A r \in Players : bets'[r] = bets[r] \/ bets'[r] = NoBets
      /\ \A r \in here : r \in here' \/ r = p
  <2>1. CASE here' = here /\ bets' = bets
    BY <2>1, Given
  <2>2. CASE here' = here \ {p} /\ bets' = [bets EXCEPT ![p] = NoBets]
    <3>1. bets' \in [Players -> [Areas -> Int]] /\ here' \subseteq Players
      BY <2>2, Given
    <3>2. bets'[p] = NoBets /\ \A r \in Players \ {p} : bets'[r] = bets[r]
      BY <2>2, Given
    <3> QED
      BY <2>2, <3>1, <3>2
  <2> QED
    BY <2>1, <2>2
<1>7. \A r \in Players : bets'[r] # NoBets => bets'[r] = bets[r] /\ (r # p \/ here' = here)
  <2>1. CASE here' = here /\ bets' = bets
    BY <2>1
  <2>2. CASE here' = here \ {p} /\ bets' = [bets EXCEPT ![p] = NoBets]
    <3>1. bets'[p] = NoBets /\ \A r \in Players \ {p} : bets'[r] = bets[r]
      BY <2>2, Given
    <3> QED
      BY <3>1, Given
  <2> QED
    BY <2>1, <2>2
<1>8. TypeOK'
  <2>1. bank' \in [who : Players \cup {NoPlayer}, score : Int, initial : Nat,
                   refill : BOOLEAN, leave : BOOLEAN, times : 0 .. Limit]
    BY <1>4 DEF BankRecord
  <2>2. /\ state' \in {"free", "jetton", "end"} /\ lock' \in [Players -> Nat]
        /\ auto' \in [Players -> BOOLEAN] /\ all' \in [Areas -> Int]
        /\ due' \in [Players -> Int] /\ {here', online'} \subseteq SUBSET Players
        /\ taken' \in [Players -> Nat] /\ below' \in BOOLEAN
    BY <1>1, <1>6 DEF TypeOK
  <2> QED
    BY <1>2, <1>6, <2>1, <2>2 DEF TypeOK
<1>9. QueueInv'
  <2>1. \A r : In(queue', r) => r \in here' /\ lock'[r] >= Base
    BY <1>2, <1>6 DEF BankerInv, QueueInv
  <2>2. bank'.who \in here' \cup {NoPlayer}
    BY <1>4, <1>5, <1>6 DEF BankerInv, QueueInv
  <2>3. ~In(queue', bank'.who)
    BY <1>2, <1>4 DEF BankerInv, QueueInv
  <2> QED
    BY <1>2, <2>1, <2>2, <2>3 DEF QueueInv
<1>10. BetsInv'
  BY <1>4, <1>6, <1>7 DEF BankerInv, BetsInv
<1>11. HeldInv'
  BY <1>2 DEF BankerInv, HeldInv
<1>12. StakesBacked'
  <2>1. ASSUME bank.who \in Players PROVE bank.score <= coin'[bank.who] + taken[bank.who]
    <3>1. /\ bank.score <= coin[bank.who] + taken[bank.who] /\ coin[bank.who] \in Nat
          /\ coin'[bank.who] \in Nat /\ taken[bank.who] \in Nat
      BY <1>2, <2>1, Given DEF BankerInv, StakesBacked
    <3>2. coin[bank.who] <= coin'[bank.who] /\ bank.score \in Int
      BY <1>2, <2>1, <3>1, Given
    <3>3. bank.score <= bank.score
      BY <3>2
    <3> QED
      BY <3>1, <3>2, <3>3, Within
  <2>2. ASSUME state = "jetton", NEW r \in Players PROVE Total(bets'[r]) <= coin'[r] + taken[r]
    <3>0. Total(bets[r]) <= coin[r] + taken[r]
      BY <2>2 DEF BankerInv, StakesBacked
    <3>1. /\ coin[r] \in Nat /\ coin'[r] \in Nat /\ coin'[r] >= coin[r]
          /\ taken[r] \in Nat /\ Total(bets[r]) \in Int
      BY <1>2, Given
    <3>2. Total(bets[r]) <= coin'[r] + taken[r] /\ 0 <= coin'[r] + taken[r]
      BY <3>0, <3>1
    <3> QED
      BY <1>6, <3>2, Given
  <2>3. state = "jetton" /\ ~below => Total(all) <= bank.score
    BY DEF BankerInv, StakesBacked
  <2> QED
    BY <1>4, <2>1, <2>2, <2>3 DEF StakesBacked
<1>13. RoundSound'
  BY <1>4 DEF BankerInv, RoundSound
<1> QED
  BY <1>8, <1>9, <1>10, <1>11, <1>12, <1>13 DEF BankerInv

\* A free table, after ChangeBanker.
LEMMA ChangeStep ==
    ASSUME BankerInv, NEW q \in Seq(Players), Distinct(q), NEW c \in [Players -> Nat],
           lock' \in [Players -> Nat], auto' \in [Players -> BOOLEAN],
           bank.who \in Players => c[bank.who] = coin[bank.who],
           ~In(q, bank.who), \A r : In(q, r) => r \in here /\ lock'[r] >= Base,
           \A r \in Players : Held(q, c, lock', r) = due[r],
           ChangeBanker(q, c), StillTaken,
           state' = "free", UNCHANGED <<here, due>>,
           online' \subseteq Players, events' \in 0 .. MaxEvents,
           bets' = [p \in Players |-> NoBets], all' = NoBets, below' = FALSE
    PROVE  BankerInv'
<1>1. QueueSound /\ TypeOK /\ StakesBacked
  BY QueueIsSound DEF BankerInv
<1>2. /\ queue' \in Seq(Players) /\ Distinct(queue') /\ coin' \in [Players -> Nat]
      /\ \A r : In(queue', r) => In(q, r)
      /\ \A r \in Players : coin'[r] >= c[r] /\ Held(queue', coin', lock', r) = Held(q, c, lock', r)
      /\ bank' \in BankRecord /\ bank'.times < Limit
      /\ bank'.who \in here \cup {NoPlayer} /\ ~In(queue', bank'.who)
      /\ bank'.who # NoPlayer => bank'.score >= Base
      /\ bank'.who \in Players => bank'.score <= coin'[bank'.who] + taken'[bank'.who]
      /\ taken' \in [Players -> Nat]
  BY <1>1, BankerAssumption, BankerChanged
<1>3. TypeOK'
  <2>1. bank' \in [who : Players \cup {NoPlayer}, score : Int, initial : Nat,
                   refill : BOOLEAN, leave : BOOLEAN, times : 0 .. Limit]
    BY <1>2 DEF BankRecord
  <2>2. /\ due' \in [Players -> Int] /\ {here', online'} \subseteq SUBSET Players
        /\ bets' \in [Players -> [Areas -> Int]] /\ all' \in [Areas -> Int]
    BY Given
  <2> QED
    BY <1>2, <2>1, <2>2 DEF TypeOK
<1>4. QueueInv'
  BY <1>2 DEF QueueInv
<1>5. BetsInv'
  BY DEF BetsInv
<1>6. HeldInv'
  BY <1>2 DEF HeldInv
<1>7. StakesBacked'
  BY <1>2 DEF StakesBacked
<1>8. RoundSound'
  <2>1. NoBets \in [Areas -> Nat]
    BY DEF NoBets
  <2> QED
    BY <1>2, <2>1 DEF RoundSound
<1> QED
  BY <1>3, <1>4, <1>5, <1>6, <1>7, <1>8 DEF BankerInv

LEMMA Concat ==
    ASSUME NEW S, NEW s \in Seq(S), NEW t \in Seq(S)
    PROVE  /\ s \o t \in Seq(S)
           /\ Len(s) \in Nat /\ DOMAIN s = 1 .. Len(s) /\ Len(t) \in Nat /\ DOMAIN t = 1 .. Len(t)
           /\ DOMAIN (s \o t) = 1 .. Len(s) + Len(t)
           /\ \A i \in 1 .. Len(s) : (s \o t)[i] = s[i] /\ s[i] \in S
           /\ \A i \in 1 .. Len(t) : (s \o t)[Len(s) + i] = t[i] /\ t[i] \in S
  OBVIOUS

\* Two sequences with nothing in common, one after the other.
LEMMA Chained ==
    ASSUME NEW S, NEW s \in Seq(S), NEW t \in Seq(S), Distinct(s), Distinct(t),
           \A r : ~(In(s, r) /\ In(t, r))
    PROVE  /\ s \o t \in Seq(S) /\ Distinct(s \o t)
           /\ \A r : In(s \o t, r) <=> In(s, r) \/ In(t, r)
<1> DEFINE q == s \o t
<1>1. /\ q \in Seq(S)
      /\ Len(s) \in Nat /\ DOMAIN s = 1 .. Len(s) /\ Len(t) \in Nat /\ DOMAIN t = 1 .. Len(t)
      /\ DOMAIN q = 1 .. Len(s) + Len(t)
      /\ \A i \in 1 .. Len(s) : q[i] = s[i] /\ s[i] \in S
      /\ \A i \in 1 .. Len(t) : q[Len(s) + i] = t[i] /\ t[i] \in S
  BY Concat
<1> HIDE DEF q
<1>2. \A i \in 1 .. Len(s) + Len(t) :
        \/ i \in 1 .. Len(s)
        \/ \E j \in 1 .. Len(t) : i = Len(s) + j
  <2> SUFFICES ASSUME NEW i \in 1 .. Len(s) + Len(t), i \notin 1 .. Len(s)
               PROVE  \E j \in 1 .. Len(t) : i = Len(s) + j
    OBVIOUS
  <2>1. i - Len(s) \in 1 .. Len(t) /\ i = Len(s) + (i - Len(s))
    BY <1>1
  <2> QED
    BY <2>1
<1>3. \A r : In(q, r) <=> In(s, r) \/ In(t, r)
  <2>1. ASSUME NEW r, In(q, r) PROVE In(s, r) \/ In(t, r)
    <3>1. PICK i \in 1 .. Len(s) + Len(t) : q[i] = r
      BY <1>1, <2>1 DEF In
    <3>2. CASE i \in 1 .. Len(s)
      BY <1>1, <3>1, <3>2 DEF In
    <3>3. ASSUME NEW j \in 1 .. Len(t), i = Len(s) + j PROVE In(t, r)
      BY <1>1, <3>1, <3>3 DEF In
    <3> QED
      BY <1>2, <3>2, <3>3
  <2>2. ASSUME NEW r, In(s, r) PROVE In(q, r)
    <3>1. PICK i \in 1 .. Len(s) : s[i] = r
      BY <1>1, <2>2 DEF In
    <3>2. i \in DOMAIN q /\ q[i] = r
      BY <1>1, <3>1
    <3> QED
      BY <3>2 DEF In
  <2>3. ASSUME NEW r, In(t, r) PROVE In(q, r)
    <3>1. PICK i \in 1 .. Len(t) : t[i] = r
      BY <1>1, <2>3 DEF In
    <3>2. Len(s) + i \in DOMAIN q /\ q[Len(s) + i] = r
      BY <1>1, <3>1
    <3> QED
      BY <3>2 DEF In
  <2> QED
    BY <2>1, <2>2, <2>3
<1>4. Distinct(q)
  <2> SUFFICES ASSUME NEW i \in 1 .. Len(s) + Len(t), NEW j \in 1 .. Len(s) + Len(t), q[i] = q[j]
               PROVE  i = j
    BY <1>1 DEF Distinct
  <2>1. CASE i \in 1 .. Len(s) /\ j \in 1 .. Len(s)
    <3>1. s[i] = s[j]
      BY <1>1, <2>1
    <3> QED
      BY <1>1, <2>1, <3>1 DEF Distinct
  <2>2. ASSUME NEW k \in 1 .. Len(t), NEW m \in 1 .. Len(t), i = Len(s) + k, j = Len(s) + m
        PROVE  i = j
    <3>1. t[k] = t[m] /\ k \in DOMAIN t /\ m \in DOMAIN t
      BY <1>1, <2>2
    <3>2. k = m
      BY <3>1 DEF Distinct
    <3> QED
      BY <2>2, <3>2
  <2>3. ASSUME NEW a \in 1 .. Len(s), NEW m \in 1 .. Len(t), s[a] = t[m] PROVE FALSE
    <3>1. In(s, t[m]) /\ In(t, t[m])
      BY <1>1, <2>3 DEF In
    <3> QED
      BY <3>1
  <2>4. ASSUME i \in 1 .. Len(s), NEW m \in 1 .. Len(t), j = Len(s) + m PROVE FALSE
    <3>1. s[i] = t[m]
      BY <1>1, <2>4
    <3> QED
      BY <2>3, <2>4, <3>1
  <2>5. ASSUME j \in 1 .. Len(s), NEW m \in 1 .. Len(t), i = Len(s) + m PROVE FALSE
    <3>1. s[j] = t[m]
      BY <1>1, <2>5
    <3> QED
      BY <2>3, <2>5, <3>1
  <2> QED
    BY <1>2, <2>1, <2>2, <2>4, <2>5
<1> QED
  BY <1>1, <1>3, <1>4 DEF q

LEMMA Single ==
    ASSUME NEW p \in Players
    PROVE  <<p>> \in Seq(Players) /\ Distinct(<<p>>) /\ \A r : In(<<p>>, r) <=> r = p
  BY DEF Distinct, In

StakesOf(rs, st) == [p \in Players |-> IF In(rs, p) THEN st[p] ELSE lock[p]]

CoinsLeft(rs, st) == [p \in Players |-> IF In(rs, p) THEN coin[p] - st[p] ELSE coin[p]]

\* The players rs may join the queue with the stakes st.
MayJoin(rs, st) ==
    \A p \in Players : In(rs, p) =>
        /\ ~In(queue, p) /\ p \in here /\ p # bank.who
        /\ st[p] \in Nat /\ Base <= st[p] /\ st[p] <= coin[p]

\* The queue q, the coins c and the stakes l are sound beside the rest.
Sound(q, c, l) ==
    /\ q \in Seq(Players) /\ Distinct(q) /\ c \in [Players -> Nat] /\ l \in [Players -> Nat]
    /\ bank.who \in Players => c[bank.who] = coin[bank.who]
    /\ ~In(q, bank.who) /\ \A r : In(q, r) => r \in here /\ l[r] >= Base
    /\ \A r \in Players : Held(q, c, l, r) = due[r]

LEMMA Joined ==
    ASSUME BankerInv, NEW rs \in Seq(Players), Distinct(rs), NEW st, MayJoin(rs, st)
    PROVE  Sound(queue \o rs, CoinsLeft(rs, st), StakesOf(rs, st))
<1> DEFINE q == queue \o rs
           l == StakesOf(rs, st)
           c == CoinsLeft(rs, st)
<1> USE DEF MayJoin, CoinsLeft, StakesOf
<1>1. q \in Seq(Players)
  BY Given
<1>2. \A i \in DOMAIN rs : rs[i] \in Players
  OBVIOUS
<1>3. \A r : ~(In(queue, r) /\ In(rs, r))
  BY <1>2 DEF In
<1>4. \A r : In(q, r) <=> In(queue, r) \/ In(rs, r)
  BY <1>3, Given, Chained DEF BankerInv, QueueInv
<1>5. Distinct(q)
  BY <1>3, Given, Chained DEF BankerInv, QueueInv
<1>6. c \in [Players -> Nat] /\ l \in [Players -> Nat]
  <2>1. \A p \in Players : /\ coin[p] \in Nat /\ lock[p] \in Nat
                           /\ In(rs, p) => coin[p] - st[p] \in Nat /\ st[p] \in Nat
    <3> SUFFICES ASSUME NEW p \in Players
                 PROVE  /\ coin[p] \in Nat /\ lock[p] \in Nat
                        /\ In(rs, p) => coin[p] - st[p] \in Nat /\ st[p] \in Nat
      OBVIOUS
    <3>1. coin[p] \in Nat /\ lock[p] \in Nat
      BY Given
    <3>2. In(rs, p) => st[p] \in Nat /\ st[p] <= coin[p]
      BY Zenon
    <3> HIDE DEF MayJoin, CoinsLeft, StakesOf
    <3> QED
      BY <3>1, <3>2
  <2> QED
    BY <2>1
<1>7. bank.who \in Players => c[bank.who] = coin[bank.who]
  OBVIOUS
<1>8. ~In(rs, bank.who)
  <2>1. CASE bank.who \in Players
    BY <2>1
  <2>2. CASE bank.who \notin Players
    BY <1>2, <2>2 DEF In
  <2> QED
    BY <2>1, <2>2
<1>9. ~In(q, bank.who)
  BY <1>4, <1>8 DEF BankerInv, QueueInv
<1>10. ASSUME NEW r, In(q, r) PROVE r \in here /\ l[r] >= Base
  <2>1. CASE In(rs, r)
    <3>1. r \in Players
      BY <1>2, <2>1 DEF In
    <3> QED
      BY <2>1, <3>1, Given
  <2>2. CASE In(queue, r) /\ ~In(rs, r)
    <3>1. r \in here /\ lock[r] >= Base
      BY <2>2 DEF BankerInv, QueueInv
    <3>2. r \in Players
      BY <3>1, Given
    <3> QED
      BY <2>2, <3>1, <3>2
  <2> QED
    BY <1>4, <1>10, <2>1, <2>2
<1>11. ASSUME NEW r \in Players PROVE Held(q, c, l, r) = due[r]
  <2>1. Held(queue, coin, lock, r) = due[r] /\ coin[r] \in Nat /\ lock[r] \in Nat
    BY Given DEF BankerInv, HeldInv
  <2>2. CASE In(rs, r)
    <3>1. ~In(queue, r) /\ In(q, r) /\ c[r] = coin[r] - st[r] /\ l[r] = st[r] /\ st[r] \in Nat
      BY <1>4, <2>2
    <3> QED
      BY <2>1, <3>1 DEF Held
  <2>3. CASE ~In(rs, r)
    <3>1. (In(queue, r) <=> In(q, r)) /\ c[r] = coin[r] /\ l[r] = lock[r]
      BY <1>4, <2>3
    <3> QED
      BY <2>1, <3>1 DEF Held
  <2> QED
    BY <2>2, <2>3
<1> QED
  BY <1>1, <1>5, <1>6, <1>7, <1>9, <1>10, <1>11 DEF Sound

-----------------------------------------------------------------------------
(* One lemma per action that is left.                                      *)

LEMMA StartRoundStep == ASSUME BankerInv, StartRound PROVE BankerInv'
<1>1. TypeOK'
  BY DEF BankerInv, TypeOK, StartRound
<1>2. QueueInv' /\ HeldInv'
  BY DEF BankerInv, QueueInv, HeldInv, Held, StartRound
<1>3. \A p \in Players : bets[p] = NoBets
  BY DEF BankerInv, BetsInv, StartRound
<1>4. BetsInv'
  BY <1>3 DEF BetsInv, StartRound
<1>5. StakesBacked'
  <2>1. \A p \in Players : Total(bets[p]) <= coin[p] + taken[p]
    BY <1>3, Given
  <2>2. Total(all) <= bank.score
    BY Given DEF BankerInv, RoundSound, StartRound
  <2> QED
    BY <2>1, <2>2 DEF BankerInv, StakesBacked, StartRound
<1>6. RoundSound'
  BY DEF BankerInv, RoundSound, StartRound
<1> QED
  BY <1>1, <1>2, <1>4, <1>5, <1>6 DEF BankerInv

LEMMA FindBankerStep == ASSUME BankerInv, FindBanker PROVE BankerInv'
<1>1. PICK rs \in RobotLists, st \in [Robots -> RobotStakes] :
        /\ \A r \in Robots : In(rs, r) => RobotMayApply(r, st[r])
        /\ lock' = [p \in Players |-> IF In(rs, p) THEN st[p] ELSE lock[p]]
        /\ auto' = [p \in Players |-> IF In(rs, p) THEN coin[p] >= 2 * Base ELSE auto[p]]
        /\ ChangeBanker(queue \o rs,
             [p \in Players |-> IF In(rs, p) THEN coin[p] - st[p] ELSE coin[p]])
  BY DEF FindBanker, In
<1>2. /\ state = "free" /\ bank.who = NoPlayer /\ StillTaken
      /\ UNCHANGED <<state, here, online, bets, all, due, below, events>>
  BY DEF FindBanker
<1>3. rs \in Seq(Robots) /\ Distinct(rs)
  BY <1>1, IsSeq DEF RobotLists, Distinct
<1>4. rs \in Seq(Players) /\ \A r : In(rs, r) => r \in Robots
  BY <1>3, BankerAssumption DEF BankerAssumption, In
<1> DEFINE q == queue \o rs
           c == [p \in Players |-> IF In(rs, p) THEN coin[p] - st[p] ELSE coin[p]]
<1>5. \A p \in Players : In(rs, p) =>
        /\ ~In(queue, p) /\ p \in here /\ p # bank.who
        /\ st[p] \in Nat /\ Base <= st[p] /\ st[p] <= coin[p]
  <2> SUFFICES ASSUME NEW p \in Players, In(rs, p)
               PROVE  /\ ~In(queue, p) /\ p \in here /\ p # bank.who
                      /\ st[p] \in Nat /\ Base <= st[p] /\ st[p] <= coin[p]
    OBVIOUS
  <2>1. p \in Robots /\ RobotMayApply(p, st[p]) /\ st[p] \in RobotStakes
    BY <1>1, <1>4
  <2>2. RobotStakes \subseteq Nat
    <3>1. Stakes \subseteq Nat /\ Base \in Nat
      BY BankerAssumption DEF BankerAssumption
    <3>2. Base .. 2 * Base \subseteq Nat
      BY <3>1
    <3> QED
      BY <3>1, <3>2 DEF RobotStakes
  <2> QED
    BY <1>2, <2>1, <2>2, Given DEF RobotMayApply, Queued, In
<1>6. /\ q \in Seq(Players) /\ Distinct(q) /\ c \in [Players -> Nat] /\ lock' \in [Players -> Nat]
      /\ bank.who \in Players => c[bank.who] = coin[bank.who]
      /\ ~In(q, bank.who) /\ \A r : In(q, r) => r \in here /\ lock'[r] >= Base
      /\ \A r \in Players : Held(q, c, lock', r) = due[r]
  <2>1. Sound(queue \o rs, CoinsLeft(rs, st), StakesOf(rs, st))
    BY <1>3, <1>4, <1>5, Joined DEF MayJoin
  <2>2. c = CoinsLeft(rs, st) /\ lock' = StakesOf(rs, st)
    BY <1>1 DEF CoinsLeft, StakesOf
  <2>3. Sound(q, c, lock')
    BY <2>1, <2>2
  <2> HIDE DEF q, c
  <2> QED
    BY <2>3 DEF Sound
<1>7. ChangeBanker(q, c)
  BY <1>1
<1>8. auto' \in [Players -> BOOLEAN]
  <2>1. auto' = [p \in Players |-> IF In(rs, p) THEN coin[p] >= 2 * Base ELSE auto[p]]
    BY <1>1
  <2>2. \A p \in Players : auto[p] \in BOOLEAN /\ (coin[p] >= 2 * Base) \in BOOLEAN
    BY Given
  <2> HIDE DEF q, c
  <2> QED
    BY <2>1, <2>2, Zenon
<1>9. bets' = [p \in Players |-> NoBets]
  BY <1>2, Given DEF BankerInv, BetsInv
<1>10. /\ all' = NoBets /\ below' = FALSE
       /\ online' \subseteq Players /\ events' \in 0 .. MaxEvents
  BY <1>2, Given DEF BankerInv, RoundSound, TypeOK
<1> HIDE DEF q, c
<1> QED
  BY <1>2, <1>6, <1>7, <1>8, <1>9, <1>10, ChangeStep

LEMMA ClearTableStep == ASSUME BankerInv, ClearTable PROVE BankerInv'
<1>1. /\ state' = "free" /\ bets' = [p \in Players |-> NoBets] /\ all' = NoBets
      /\ below' = FALSE /\ UNCHANGED <<here, online, lock, auto, due, events>>
      /\ ChangeBanker(queue, coin) /\ StillTaken
  BY DEF ClearTable
<1>2. /\ Distinct(queue) /\ ~In(queue, bank.who)
      /\ \A r : In(queue, r) => r \in here /\ lock'[r] >= Base
  BY <1>1 DEF BankerInv, QueueInv
<1>3. \A r \in Players : Held(queue, coin, lock', r) = due[r]
  BY <1>1 DEF BankerInv, HeldInv
<1>4. lock' \in [Players -> Nat] /\ auto' \in [Players -> BOOLEAN]
  BY <1>1, Given
<1>5. online' \subseteq Players /\ events' \in 0 .. MaxEvents
  BY <1>1 DEF BankerInv, TypeOK
<1> QED
  BY <1>1, <1>2, <1>3, <1>4, <1>5, Given, ChangeStep

LEMMA EndRoundStep == ASSUME BankerInv, EndRound PROVE BankerInv'
<1>1. PICK out \in Outcomes :
        /\ bank' = Played(out)
        /\ coin' = [p \in Players |->
                      IF p = bank.who THEN Least0(coin[p] + AfterFee(BankerWon(out)))
                      ELSE IF p \in here THEN Least0(coin[p] + AfterFee(Won(p, out)))
                      ELSE coin[p]]
  BY DEF EndRound
<1>2. /\ state = "jetton" /\ state' = "end"
      /\ due' = [p \in Players |-> due[p] + coin'[p] - coin[p]]
      /\ UNCHANGED <<here, online, queue, lock, auto, bets, all, taken, below, events>>
  BY DEF EndRound
<1>3. /\ AfterFee(BankerWon(out)) \in Int
      /\ \A p \in Players : AfterFee(Won(p, out)) \in Int
  BY WonTyped, BankerWonTyped, FeeTyped, BankerAssumption DEF BankerInv
<1>4. coin' \in [Players -> Nat]
  <2>1. ASSUME NEW p \in Players
        PROVE  /\ Least0(coin[p] + AfterFee(BankerWon(out))) \in Nat
               /\ Least0(coin[p] + AfterFee(Won(p, out))) \in Nat /\ coin[p] \in Nat
    <3>1. coin[p] \in Nat
      BY Given
    <3>2. coin[p] + AfterFee(BankerWon(out)) \in Int /\ coin[p] + AfterFee(Won(p, out)) \in Int
      BY <1>3, <3>1
    <3> QED
      BY <3>1, <3>2, FloorTyped
  <2> QED
    BY <1>1, <2>1
<1> DEFINE gain == AfterFee(BankerWon(out))
<1>5. /\ bank' \in BankRecord /\ bank'.who = bank.who /\ bank'.score = bank.score + gain
      /\ bank'.times = bank.times + 1
  <2>1. bank' = [bank EXCEPT !.score = bank.score + gain, !.times = bank.times + 1]
    BY <1>1, Given DEF Played, BankRecord
  <2>2. bank.score + gain \in Int /\ bank.times + 1 \in 0 .. Limit
    <3>1. bank.score \in Int /\ bank.times \in 0 .. Limit /\ Limit \in Nat
      BY Given
    <3>2. bank.times < Limit
      BY <1>2 DEF BankerInv, RoundSound
    <3>3. gain \in Int
      BY <1>3
    <3> HIDE DEF gain
    <3> QED
      BY <3>1, <3>2, <3>3
  <2> HIDE DEF gain
  <2> QED
    BY <2>1, <2>2, Given DEF BankRecord
<1>6. TypeOK'
  <2>1. bank' \in [who : Players \cup {NoPlayer}, score : Int, initial : Nat,
                   refill : BOOLEAN, leave : BOOLEAN, times : 0 .. Limit]
    BY <1>5 DEF BankRecord
  <2>2. due' \in [Players -> Int]
    <3>1. \A p \in Players : coin[p] \in Nat /\ coin'[p] \in Nat /\ due[p] \in Int
      BY <1>4, Given
    <3> QED
      BY <1>2, <3>1
  <2> QED
    BY <1>2, <1>4, <2>1, <2>2 DEF BankerInv, TypeOK
<1>7. QueueInv'
  BY <1>2, <1>5 DEF BankerInv, QueueInv
<1>8. BetsInv'
  BY <1>2, <1>5 DEF BankerInv, BetsInv
<1>9. HeldInv'
  <2> SUFFICES ASSUME NEW p \in Players PROVE Held(queue', coin', lock', p) = due'[p]
    BY DEF HeldInv
  <2>1. Held(queue, coin, lock, p) = due[p]
    BY DEF BankerInv, HeldInv
  <2>2. coin[p] \in Nat /\ coin'[p] \in Nat /\ lock[p] \in Nat /\ due[p] \in Int
    BY <1>4, Given
  <2>3. due'[p] = due[p] + coin'[p] - coin[p]
    BY <1>2
  <2>4. queue' = queue /\ lock' = lock
    BY <1>2
  <2> QED
    BY <2>1, <2>2, <2>3, <2>4 DEF Held
<1>10. StakesBacked'
  <2> SUFFICES ASSUME bank.who \in Players
               PROVE  bank'.score <= coin'[bank.who] + taken[bank.who]
    BY <1>2, <1>5 DEF StakesBacked
  <2>1. bank.score <= coin[bank.who] + taken[bank.who]
    BY DEF BankerInv, StakesBacked
  <2>2. coin'[bank.who] = Least0(coin[bank.who] + gain)
    BY <1>1
  <2>3. bank.score \in Int /\ coin[bank.who] \in Nat /\ gain \in Int /\ taken[bank.who] \in Nat
    BY <1>3, Given
  <2> HIDE DEF gain
  <2>4. coin[bank.who] + gain \in Int
    BY <2>3
  <2>5. Least0(coin[bank.who] + gain) \in Nat /\ Least0(coin[bank.who] + gain) >= coin[bank.who] + gain
    BY <2>4, FloorTyped
  <2> QED
    BY <1>5, <2>1, <2>2, <2>3, <2>5
<1>11. RoundSound'
  BY <1>2 DEF BankerInv, RoundSound
<1> HIDE DEF gain
<1> QED
  BY <1>6, <1>7, <1>8, <1>9, <1>10, <1>11 DEF BankerInv

\* One player joins the queue with the stake n.
LEMMA JoinedByOne ==
    ASSUME BankerInv, NEW p \in Players, NEW n \in Nat, ~In(queue, p), p \in here, p # bank.who,
           Base <= n, n <= coin[p]
    PROVE  /\ Sound(Append(queue, p), [coin EXCEPT ![p] = @ - n], [lock EXCEPT ![p] = n])
           /\ \A r : In(Append(queue, p), r) <=> In(queue, r) \/ r = p
<1> DEFINE rs == <<p>>
           st == [r \in Players |-> n]
<1>1. rs \in Seq(Players) /\ Distinct(rs) /\ \A r : In(rs, r) <=> r = p
  BY Single
<1>2. \A r \in Players : st[r] = n
  OBVIOUS
<1>3. queue \o rs = Append(queue, p)
  BY Given
<1> HIDE DEF rs, st
<1>4. MayJoin(rs, st)
  BY <1>1, <1>2 DEF MayJoin
<1>5. Sound(queue \o rs, CoinsLeft(rs, st), StakesOf(rs, st))
  BY <1>1, <1>4, Joined
<1>6. CoinsLeft(rs, st) = [coin EXCEPT ![p] = @ - n]
  BY <1>1, <1>2, Given DEF CoinsLeft
<1>7. StakesOf(rs, st) = [lock EXCEPT ![p] = n]
  BY <1>1, <1>2, Given DEF StakesOf
<1>8. \A r : In(queue \o rs, r) <=> In(queue, r) \/ In(rs, r)
  <2>1. \A r : ~(In(queue, r) /\ In(rs, r))
    BY <1>1
  <2> QED
    BY <1>1, <2>1, Given, Chained DEF BankerInv, QueueInv
<1> QED
  BY <1>1, <1>3, <1>5, <1>6, <1>7, <1>8

LEMMA ApplyBankerStep ==
    ASSUME BankerInv, NEW p \in Players, NEW n \in Stakes, NEW refill \in BOOLEAN,
           ApplyBanker(p, n, refill)
    PROVE  BankerInv'
<1> DEFINE q == Append(queue, p)
           c == [coin EXCEPT ![p] = @ - n]
<1>1. /\ p \in here /\ bank.who # p /\ ~IsSetJetton(p) /\ ~In(queue, p)
      /\ n <= coin[p] /\ Base <= n /\ n \in Nat
      /\ lock' = [lock EXCEPT ![p] = n] /\ auto' = [auto EXCEPT ![p] = refill]
      /\ UNCHANGED <<state, here, online, bets, all, due, below>>
  BY BankerAssumption DEF ApplyBanker, BankerAssumption, Queued, In
<1>2. IF state = "free" /\ Len(q) = 1
        THEN ChangeBanker(q, c) /\ StillTaken
        ELSE queue' = q /\ coin' = c /\ UNCHANGED <<bank, taken>>
  BY DEF ApplyBanker
<1>3. Sound(q, c, lock') /\ \A r : In(q, r) <=> In(queue, r) \/ r = p
  BY <1>1, JoinedByOne
<1>4. /\ lock' \in [Players -> Nat] /\ auto' \in [Players -> BOOLEAN]
      /\ online' \subseteq Players /\ events' \in 0 .. MaxEvents
  <2>1. lock' \in [Players -> Nat]
    BY <1>1, Given
  <2>2. auto' \in [Players -> BOOLEAN]
    BY <1>1, Given, Zenon
  <2>3. online' \subseteq Players /\ events' \in 0 .. MaxEvents
    BY <1>1, Requested DEF ApplyBanker
  <2> QED
    BY <2>1, <2>2, <2>3
<1>5. /\ c[p] = coin[p] - n /\ \A r \in Players \ {p} : c[r] = coin[r]
  BY Given
<1> HIDE DEF q, c
<1>6. /\ q \in Seq(Players) /\ Distinct(q) /\ c \in [Players -> Nat]
      /\ bank.who \in Players => c[bank.who] = coin[bank.who]
      /\ ~In(q, bank.who) /\ \A r : In(q, r) => r \in here /\ lock'[r] >= Base
      /\ \A r \in Players : Held(q, c, lock', r) = due[r]
  BY <1>3 DEF Sound
<1>7. CASE state = "free" /\ Len(q) = 1
  <2>1. ChangeBanker(q, c) /\ StillTaken
    BY <1>2, <1>7
  <2>2. bets' = [r \in Players |-> NoBets]
    BY <1>1, <1>7, Given DEF BankerInv, BetsInv
  <2>3. all' = NoBets /\ below' = FALSE
    BY <1>1, <1>7 DEF BankerInv, RoundSound
  <2>4. state' = "free" /\ UNCHANGED <<here, due>>
    BY <1>1, <1>7
  <2> QED
    BY <1>4, <1>6, <2>1, <2>2, <2>3, <2>4, ChangeStep
<1>8. CASE ~(state = "free" /\ Len(q) = 1)
  <2>1. queue' = q /\ coin' = c /\ UNCHANGED <<bank, taken>>
    BY <1>2, <1>8
  <2>2. TypeOK'
    <3>1. coin' \in [Players -> Nat] /\ queue' \in Seq(Players)
      BY <1>6, <2>1
    <3> QED
      BY <1>1, <1>4, <2>1, <3>1 DEF BankerInv, TypeOK
  <2>3. QueueInv'
    BY <1>1, <1>6, <2>1 DEF BankerInv, QueueInv
  <2>4. BetsInv'
    BY <1>1, <2>1 DEF BankerInv, BetsInv
  <2>5. HeldInv'
    BY <1>1, <1>6, <2>1 DEF HeldInv
  <2>6. StakesBacked'
    <3>1. state = "jetton" => Total(bets[p]) <= 0
      <4>1. state = "jetton" => \A a \in Areas : ~(bets[p][a] > 0)
        BY <1>1 DEF IsSetJetton
      <4>2. bets[p] \in [Areas -> Int] /\ "even" \in Areas /\ "high" \in Areas
        BY Given DEF Areas
      <4> QED
        BY <4>1, <4>2 DEF Total
    <3>2. ASSUME state = "jetton", NEW r \in Players PROVE Total(bets[r]) <= c[r] + taken[r]
      <4>1. /\ Total(bets[r]) <= coin[r] + taken[r] /\ Total(bets[r]) \in Int
            /\ c[r] \in Nat /\ taken[r] \in Nat
        BY <1>6, <3>2, Given DEF BankerInv, StakesBacked
      <4> QED
        BY <1>5, <3>1, <3>2, <4>1
    <3>3. bank.who \in Players => bank.score <= c[bank.who] + taken[bank.who]
      BY <1>6 DEF BankerInv, StakesBacked
    <3>4. state = "jetton" /\ ~below => Total(all) <= bank.score
      BY DEF BankerInv, StakesBacked
    <3> QED
      BY <1>1, <2>1, <3>2, <3>3, <3>4 DEF StakesBacked
  <2>7. RoundSound'
    BY <1>1, <2>1 DEF BankerInv, RoundSound
  <2> QED
    BY <2>2, <2>3, <2>4, <2>5, <2>6, <2>7 DEF BankerInv
<1> QED
  BY <1>7, <1>8

LEMMA JumpQueueStep == ASSUME BankerInv, NEW p \in Players, JumpQueue(p) PROVE BankerInv'
<1>1. PICK i \in 2 .. Len(queue) : queue[i] = p /\ queue' = <<p>> \o Without(queue, i)
  BY DEF JumpQueue
<1>2. /\ p \in here /\ coin[p] >= JumpCost
      /\ coin' = [coin EXCEPT ![p] = @ - JumpCost]
      /\ due' = [due EXCEPT ![p] = @ - JumpCost]
      /\ taken' = IF Total(bets[p]) > 0 THEN [taken EXCEPT ![p] = @ + JumpCost] ELSE taken
      /\ UNCHANGED <<state, here, online, lock, auto, bank, bets, all, below>>
      /\ JumpCost \in Nat /\ events' \in 0 .. MaxEvents
  BY BankerAssumption, Requested DEF JumpQueue, BankerAssumption
<1>3. i \in DOMAIN queue /\ Distinct(queue)
  BY <1>1, Given DEF BankerInv, QueueInv
<1>4. /\ Without(queue, i) \in Seq(Players) /\ Distinct(Without(queue, i))
      /\ \A r : In(Without(queue, i), r) <=> In(queue, r) /\ r # p
  BY <1>1, <1>3, Given, WithoutOne
<1>5. In(queue, p)
  BY <1>1, <1>3 DEF In
<1>6. /\ queue' \in Seq(Players) /\ Distinct(queue')
      /\ \A r : In(queue', r) <=> In(queue, r)
  <2>1. /\ <<p>> \in Seq(Players) /\ Distinct(<<p>>) /\ \A r : In(<<p>>, r) <=> r = p
    BY Single
  <2>2. \A r : ~(In(<<p>>, r) /\ In(Without(queue, i), r))
    BY <1>4, <2>1
  <2>3. /\ <<p>> \o Without(queue, i) \in Seq(Players) /\ Distinct(<<p>> \o Without(queue, i))
        /\ \A r : In(<<p>> \o Without(queue, i), r) <=> In(<<p>>, r) \/ In(Without(queue, i), r)
    BY <1>4, <2>1, <2>2, Chained
  <2> QED
    BY <1>1, <1>4, <1>5, <2>1, <2>3
<1>7. p # bank.who
  BY <1>5 DEF BankerInv, QueueInv
<1>8. coin' \in [Players -> Nat] /\ due' \in [Players -> Int] /\ taken' \in [Players -> Nat]
  <2>1. coin \in [Players -> Nat] /\ due \in [Players -> Int] /\ taken \in [Players -> Nat]
    BY Given
  <2>2. coin[p] \in Nat /\ due[p] \in Int /\ taken[p] \in Nat
    BY <2>1
  <2>3. coin[p] - JumpCost \in Nat /\ due[p] - JumpCost \in Int /\ taken[p] + JumpCost \in Nat
    BY <1>2, <2>2
  <2> QED
    BY <1>2, <2>1, <2>3
<1>9. /\ coin'[p] = coin[p] - JumpCost /\ due'[p] = due[p] - JumpCost
      /\ \A r \in Players \ {p} : coin'[r] = coin[r] /\ due'[r] = due[r]
  BY <1>2, Given
<1>10. TypeOK'
  BY <1>2, <1>6, <1>8 DEF BankerInv, TypeOK
<1>11. QueueInv'
  BY <1>2, <1>6 DEF BankerInv, QueueInv
<1>12. BetsInv'
  BY <1>2 DEF BankerInv, BetsInv
<1>13. HeldInv'
  <2> SUFFICES ASSUME NEW r \in Players PROVE Held(queue', coin', lock', r) = due'[r]
    BY DEF HeldInv
  <2>1. Held(queue, coin, lock, r) = due[r]
    BY DEF BankerInv, HeldInv
  <2>2. coin[r] \in Nat /\ lock[r] \in Nat /\ due[r] \in Int
    BY Given
  <2>3. lock' = lock /\ (In(queue', r) <=> In(queue, r))
    BY <1>2, <1>6
  <2>4. CASE r = p
    <3>1. JumpCost \in Nat /\ coin'[r] = coin[r] - JumpCost /\ due'[r] = due[r] - JumpCost
      BY <1>2, <1>9, <2>4
    <3> QED
      BY <2>1, <2>2, <2>3, <3>1 DEF Held
  <2>5. CASE r # p
    <3>1. coin'[r] = coin[r] /\ due'[r] = due[r]
      BY <1>9, <2>5
    <3> QED
      BY <2>1, <2>2, <2>3, <3>1 DEF Held
  <2> QED
    BY <2>4, <2>5
<1>14. StakesBacked'
  <2>0. /\ Total(bets[p]) > 0 => taken'[p] = taken[p] + JumpCost
        /\ ~(Total(bets[p]) > 0) => taken'[p] = taken[p]
        /\ \A r \in Players \ {p} : taken'[r] = taken[r]
    BY <1>2, Given
  <2>1. bank.who \in Players => bank.score <= coin'[bank.who] + taken'[bank.who]
    BY <1>2, <1>7, <1>9, <2>0 DEF BankerInv, StakesBacked
  <2>2. ASSUME state = "jetton", NEW r \in Players PROVE Total(bets[r]) <= coin'[r] + taken'[r]
    <3>1. /\ Total(bets[r]) <= coin[r] + taken[r] /\ Total(bets[r]) \in Int
          /\ coin[r] \in Nat /\ coin'[r] \in Nat /\ taken[r] \in Nat
      BY <1>2, <1>8, <2>2, Given DEF BankerInv, StakesBacked
    <3> QED
      BY <1>2, <1>9, <2>0, <3>1
  <2>3. state = "jetton" /\ ~below => Total(all) <= bank.score
    BY DEF BankerInv, StakesBacked
  <2> QED
    BY <1>2, <2>1, <2>2, <2>3 DEF StakesBacked
<1>15. RoundSound'
  BY <1>2 DEF BankerInv, RoundSound
<1> QED
  BY <1>10, <1>11, <1>12, <1>13, <1>14, <1>15 DEF BankerInv

LEMMA MoveCoinsStep ==
    ASSUME BankerInv, NEW p \in Players, NEW m \in Moves, MoveCoins(p, m) PROVE BankerInv'
<1>1. /\ p \in here => state = "free"
      /\ coin[p] + m >= 0 /\ m \in Int
      /\ coin' = [coin EXCEPT ![p] = @ + m]
      /\ due' = [due EXCEPT ![p] = @ + m]
      /\ taken' = IF bank.who = p /\ m < 0 THEN [taken EXCEPT ![p] = @ - m] ELSE taken
      /\ UNCHANGED <<state, here, online, queue, lock, auto, bank, bets, all, below>>
      /\ events' \in 0 .. MaxEvents
  BY BankerAssumption, Requested DEF MoveCoins, BankerAssumption
<1>2. coin' \in [Players -> Nat] /\ due' \in [Players -> Int] /\ taken' \in [Players -> Nat]
  <2>1. coin \in [Players -> Nat] /\ due \in [Players -> Int] /\ taken \in [Players -> Nat]
    BY Given
  <2>2. coin[p] \in Nat /\ due[p] \in Int /\ taken[p] \in Nat
    BY <2>1
  <2>3. coin[p] + m \in Nat /\ due[p] + m \in Int /\ (m < 0 => taken[p] - m \in Nat)
    BY <1>1, <2>2
  <2> QED
    BY <1>1, <2>1, <2>3
<1>3. /\ coin'[p] = coin[p] + m /\ due'[p] = due[p] + m
      /\ \A r \in Players \ {p} : coin'[r] = coin[r] /\ due'[r] = due[r]
  BY <1>1, Given
<1>4. TypeOK'
  BY <1>1, <1>2 DEF BankerInv, TypeOK
<1>5. QueueInv' /\ BetsInv'
  BY <1>1 DEF BankerInv, QueueInv, BetsInv
<1>6. HeldInv'
  <2> SUFFICES ASSUME NEW r \in Players PROVE Held(queue', coin', lock', r) = due'[r]
    BY DEF HeldInv
  <2>1. Held(queue, coin, lock, r) = due[r]
    BY DEF BankerInv, HeldInv
  <2>2. coin[r] \in Nat /\ lock[r] \in Nat /\ due[r] \in Int
    BY Given
  <2>3. lock' = lock /\ queue' = queue
    BY <1>1
  <2>4. coin'[r] - coin[r] = due'[r] - due[r] /\ coin'[r] \in Nat /\ due'[r] \in Int
    BY <1>1, <1>2, <1>3, <2>2
  <2> QED
    BY <2>1, <2>2, <2>3, <2>4 DEF Held
<1>7. StakesBacked'
  <2>0. /\ bank.who = p /\ m < 0 => taken'[p] = taken[p] - m
        /\ ~(bank.who = p /\ m < 0) => taken'[p] = taken[p]
        /\ \A r \in Players \ {p} : taken'[r] = taken[r]
    BY <1>1, Given
  <2>1. ASSUME bank.who \in Players PROVE bank.score <= coin'[bank.who] + taken'[bank.who]
    <3>1. bank.score <= coin[bank.who] + taken[bank.who] /\ bank.score \in Int
      BY <2>1, Given DEF BankerInv, StakesBacked
    <3>2. coin[bank.who] \in Nat /\ taken[bank.who] \in Nat
      BY <2>1, Given
    <3>3. CASE bank.who = p
      BY <1>1, <1>3, <2>0, <3>1, <3>2, <3>3
    <3>4. CASE bank.who # p
      BY <1>3, <2>0, <2>1, <3>1, <3>4
    <3> QED
      BY <3>3, <3>4
  <2>2. ASSUME state = "jetton", NEW r \in Players PROVE Total(bets[r]) <= coin'[r] + taken'[r]
    <3>1. p \notin here
      BY <1>1, <2>2
    <3>2. /\ Total(bets[r]) <= coin[r] + taken[r]
          /\ coin'[r] \in Nat /\ taken'[r] \in Nat
      BY <1>1, <1>2, <2>2 DEF BankerInv, StakesBacked
    <3>3. CASE r = p
      <4>1. Total(bets[r]) = 0
        BY <3>1, <3>3, Given DEF BankerInv, BetsInv
      <4> QED
        BY <3>2, <4>1
    <3>4. CASE r # p
      BY <1>3, <2>0, <3>2, <3>4
    <3> QED
      BY <3>3, <3>4
  <2>3. state = "jetton" /\ ~below => Total(all) <= bank.score
    BY DEF BankerInv, StakesBacked
  <2> QED
    BY <1>1, <2>1, <2>2, <2>3 DEF StakesBacked
<1>8. RoundSound'
  BY <1>1 DEF BankerInv, RoundSound
<1> QED
  BY <1>4, <1>5, <1>6, <1>7, <1>8 DEF BankerInv

LEMMA EnterTableStep == ASSUME BankerInv, NEW p \in Players, EnterTable(p) PROVE BankerInv'
<1>1. /\ p \notin here /\ here' = here \cup {p} /\ online' = online \cup {p}
      /\ events' \in 0 .. MaxEvents
      /\ UNCHANGED <<state, coin, queue, lock, auto, bank, bets, all, due, taken, below>>
  BY Requested DEF EnterTable
<1>2. TypeOK'
  BY <1>1 DEF BankerInv, TypeOK
<1>3. QueueInv' /\ BetsInv' /\ HeldInv'
  BY <1>1 DEF BankerInv, QueueInv, BetsInv, HeldInv, Held
<1>4. StakesBacked' /\ RoundSound'
  BY <1>1 DEF BankerInv, StakesBacked, RoundSound
<1> QED
  BY <1>2, <1>3, <1>4 DEF BankerInv

\* A bet is placed, or several: n in all.
LEMMA BetStep ==
    ASSUME BankerInv, NEW p \in Players, NEW n \in Int, n # 0,
           p \in here, state = "jetton", bank.who # p,
           n + Total(bets[p]) <= coin[p], RoomForBet(p, n),
           bets' \in [Players -> [Areas -> Int]], all' \in [Areas -> Int],
           n > 0 /\ all \in [Areas -> Nat] => all' \in [Areas -> Nat],
           Total(bets'[p]) = Total(bets[p]) + n, Total(all') = Total(all) + n,
           \A r \in Players \ {p} : bets'[r] = bets[r],
           below' = (below \/ n < 0), events' \in 0 .. MaxEvents,
           UNCHANGED <<state, here, online, coin, queue, lock, auto, bank, due, taken>>
    PROVE  BankerInv'
<1>1. TypeOK'
  <2>1. below' \in BOOLEAN
    OBVIOUS
  <2> QED
    BY <2>1 DEF BankerInv, TypeOK
<1>2. QueueInv' /\ HeldInv'
  BY DEF BankerInv, QueueInv, HeldInv, Held
<1>3. BetsInv'
  BY DEF BankerInv, BetsInv
<1>4. ~below' => n > 0 /\ ~below
  <2>1. ~below' => ~(n < 0) /\ ~below
    BY Zenon
  <2> QED
    BY <2>1
<1>5. ~below => all \in [Areas -> Nat]
  BY DEF BankerInv, RoundSound
<1>6. StakesBacked'
  <2>1. Total(bets'[p]) <= coin[p] + taken[p]
    BY Given
  <2>2. \A r \in Players : Total(bets'[r]) <= coin[r] + taken[r]
    BY <2>1 DEF BankerInv, StakesBacked
  <2>3. ~below' => Total(all') <= bank.score
    BY <1>4, <1>5, RoomSuffices, BankerAssumption DEF BankerInv
  <2> QED
    BY <2>2, <2>3 DEF BankerInv, StakesBacked
<1>7. RoundSound'
  BY <1>4, <1>5 DEF BankerInv, RoundSound
<1> QED
  BY <1>1, <1>2, <1>3, <1>6, <1>7 DEF BankerInv

LEMMA TotalRaised ==
    ASSUME NEW f \in [Areas -> Int], NEW a \in Areas, NEW n \in Int
    PROVE  /\ [f EXCEPT ![a] = @ + n] \in [Areas -> Int]
           /\ n > 0 /\ f \in [Areas -> Nat] => [f EXCEPT ![a] = @ + n] \in [Areas -> Nat]
           /\ Total([f EXCEPT ![a] = @ + n]) = Total(f) + n
<1>1. f["even"] \in Int /\ f["high"] \in Int /\ (a = "even" \/ a = "high") /\ Areas = {"even", "high"}
  BY DEF Areas
<1>2. /\ [f EXCEPT ![a] = @ + n] \in [Areas -> Int]
      /\ n > 0 /\ f \in [Areas -> Nat] => [f EXCEPT ![a] = @ + n] \in [Areas -> Nat]
  OBVIOUS
<1>3. CASE a = "even"
  <2>1. [f EXCEPT ![a] = @ + n]["even"] = f["even"] + n /\ [f EXCEPT ![a] = @ + n]["high"] = f["high"]
    BY <1>1, <1>3
  <2> QED
    BY <1>1, <1>2, <2>1 DEF Total
<1>4. CASE a = "high"
  <2>1. [f EXCEPT ![a] = @ + n]["high"] = f["high"] + n /\ [f EXCEPT ![a] = @ + n]["even"] = f["even"]
    BY <1>1, <1>4
  <2> QED
    BY <1>1, <1>2, <2>1 DEF Total
<1> QED
  BY <1>1, <1>3, <1>4

LEMMA TotalAdded ==
    ASSUME NEW f \in [Areas -> Int], NEW g \in [Areas -> Nat]
    PROVE  /\ [a \in Areas |-> f[a] + g[a]] \in [Areas -> Int]
           /\ f \in [Areas -> Nat] => [a \in Areas |-> f[a] + g[a]] \in [Areas -> Nat]
           /\ Total([a \in Areas |-> f[a] + g[a]]) = Total(f) + Total(g)
<1>1. /\ f["even"] \in Int /\ f["high"] \in Int /\ g["even"] \in Nat /\ g["high"] \in Nat
      /\ "even" \in Areas /\ "high" \in Areas
  BY DEF Areas
<1>2. \A a \in Areas : f[a] + g[a] \in Int /\ (f[a] \in Nat => f[a] + g[a] \in Nat)
  OBVIOUS
<1>3. /\ [a \in Areas |-> f[a] + g[a]] \in [Areas -> Int]
      /\ f \in [Areas -> Nat] => [a \in Areas |-> f[a] + g[a]] \in [Areas -> Nat]
  BY <1>2
<1> QED
  BY <1>1, <1>3 DEF Total

LEMMA PlaceJettonStep ==
    ASSUME BankerInv, NEW p \in Players, NEW a \in Areas, NEW n \in Jettons, PlaceJetton(p, a, n)
    PROVE  BankerInv'
<1>1. /\ p \in here /\ state = "jetton" /\ bank.who # p
      /\ n + Total(bets[p]) <= coin[p] /\ RoomForBet(p, n)
      /\ bets' = [bets EXCEPT ![p][a] = @ + n]
      /\ all' = [all EXCEPT ![a] = @ + n]
      /\ below' = (below \/ n < 0)
      /\ UNCHANGED <<state, here, online, coin, queue, lock, auto, bank, due, taken>>
      /\ events' \in 0 .. MaxEvents /\ n \in Int /\ n # 0
  BY Requested, BankerAssumption DEF PlaceJetton, BankerAssumption
<1>2. all \in [Areas -> Int] /\ bets \in [Players -> [Areas -> Int]] /\ bets[p] \in [Areas -> Int]
  BY Given
<1>3. /\ all' \in [Areas -> Int] /\ Total(all') = Total(all) + n
      /\ n > 0 /\ all \in [Areas -> Nat] => all' \in [Areas -> Nat]
  BY <1>1, <1>2, TotalRaised
<1>4. /\ [bets[p] EXCEPT ![a] = @ + n] \in [Areas -> Int]
      /\ Total([bets[p] EXCEPT ![a] = @ + n]) = Total(bets[p]) + n
  BY <1>1, <1>2, TotalRaised
<1>5. /\ bets'[p] = [bets[p] EXCEPT ![a] = @ + n]
      /\ \A r \in Players \ {p} : bets'[r] = bets[r]
      /\ bets' \in [Players -> [Areas -> Int]]
  BY <1>1, <1>2, <1>4
<1> QED
  BY <1>1, <1>3, <1>4, <1>5, BetStep

LEMMA ContinuousPressureStep ==
    ASSUME BankerInv, NEW p \in Players, NEW f \in [Areas -> Jettons \cup {0}],
           ContinuousPressure(p, f)
    PROVE  BankerInv'
<1>1. /\ p \in here /\ state = "jetton" /\ bank.who # p
      /\ Total(f) + Total(bets[p]) <= coin[p] /\ RoomForBet(p, Total(f))
      /\ bets' = [bets EXCEPT ![p] = [a \in Areas |-> @[a] + f[a]]]
      /\ all' = [a \in Areas |-> all[a] + f[a]]
      /\ UNCHANGED <<state, here, online, coin, queue, lock, auto, bank, due, taken, below>>
      /\ events' \in 0 .. MaxEvents
  BY Requested DEF ContinuousPressure
<1>2. all \in [Areas -> Int] /\ bets \in [Players -> [Areas -> Int]] /\ bets[p] \in [Areas -> Int]
  BY Given
<1>3. f \in [Areas -> Nat]
  <2>1. \A a \in Areas : f[a] \in Int /\ f[a] >= 0
    <3>1. Jettons \cup {0} \subseteq Int
      BY BankerAssumption DEF BankerAssumption
    <3>2. \A a \in Areas : f[a] \in Jettons \cup {0}
      OBVIOUS
    <3> QED
      BY <3>1, <3>2 DEF ContinuousPressure
  <2> QED
    BY <2>1
<1>4. Total(f) \in Nat /\ Total(f) > 0
  BY <1>3, TotalNatural DEF ContinuousPressure
<1>5. /\ all' \in [Areas -> Int] /\ Total(all') = Total(all) + Total(f)
      /\ all \in [Areas -> Nat] => all' \in [Areas -> Nat]
  BY <1>1, <1>2, <1>3, TotalAdded
<1>6. /\ [a \in Areas |-> bets[p][a] + f[a]] \in [Areas -> Int]
      /\ Total([a \in Areas |-> bets[p][a] + f[a]]) = Total(bets[p]) + Total(f)
  BY <1>2, <1>3, TotalAdded
<1>7. /\ bets'[p] = [a \in Areas |-> bets[p][a] + f[a]]
      /\ \A r \in Players \ {p} : bets'[r] = bets[r]
      /\ bets' \in [Players -> [Areas -> Int]]
  BY <1>1, <1>2, <1>6
<1>8. below' = (below \/ Total(f) < 0)
  <2>1. below \in BOOLEAN
    BY DEF BankerInv, TypeOK
  <2>2. ~(Total(f) < 0)
    BY <1>4
  <2> QED
    BY <1>1, <2>1, <2>2, Zenon
<1> DEFINE n == Total(f)
<1>9. n \in Int /\ n # 0
  BY <1>4
<1> HIDE DEF n
<1> QED
  BY <1>1, <1>5, <1>6, <1>7, <1>8, <1>9, BetStep DEF n

LEMMA ClientStep == ASSUME BankerInv, NEW p \in Players, Client(p) PROVE BankerInv'
<1>1. CASE GoOffline(p)
  <2>1. online' \subseteq Players /\ events' \in 0 .. MaxEvents
    BY <1>1, Requested DEF GoOffline
  <2>2. CASE p \in here /\ CanLeaveTable(p) /\ Gone(p)
    BY <2>1, <2>2, CancelStep DEF Gone
  <2>3. CASE UNCHANGED <<state, here, coin, queue, lock, auto, bank, bets, all, due, taken, below>>
    BY <2>1, <2>3, QuietStep
  <2> QED
    BY <1>1, <2>2, <2>3 DEF GoOffline
<1>2. CASE GoOnline(p)
  <2>1. online' \subseteq Players /\ events' \in 0 .. MaxEvents
    BY <1>2, Requested DEF GoOnline
  <2> QED
    BY <1>2, <2>1, QuietStep DEF GoOnline
<1>3. CASE \E n \in Stakes, refill \in BOOLEAN : ApplyBanker(p, n, refill)
  BY <1>3, ApplyBankerStep
<1>4. CASE JumpQueue(p)
  BY <1>4, JumpQueueStep
<1>5. CASE GiveUpBanker(p)
  <2>1. online' \subseteq Players /\ events' \in 0 .. MaxEvents
    BY <1>5, Requested DEF GiveUpBanker
  <2> QED
    BY <1>5, <2>1, CancelStep DEF GiveUpBanker
<1>6. ASSUME NEW t \in Players, ForceLeaveBanker(p, t) PROVE BankerInv'
  <2>1. online' \subseteq Players /\ events' \in 0 .. MaxEvents
    BY <1>6, Requested DEF ForceLeaveBanker
  <2> QED
    BY <1>6, <2>1, CancelStep DEF ForceLeaveBanker
<1>7. CASE \E f \in [Areas -> Jettons \cup {0}] : ContinuousPressure(p, f)
  BY <1>7, ContinuousPressureStep
<1>8. CASE \E m \in Moves : MoveCoins(p, m)
  BY <1>8, MoveCoinsStep
<1> QED
  BY <1>1, <1>2, <1>3, <1>4, <1>5, <1>6, <1>7, <1>8 DEF Client

LEMMA PlayerStep == ASSUME BankerInv, NEW p \in Players, Player(p) PROVE BankerInv'
<1>1. CASE EnterTable(p)
  BY <1>1, EnterTableStep
<1>2. CASE LeaveTable(p)
  <2>1. online' \subseteq Players /\ events' \in 0 .. MaxEvents
    BY <1>2, Requested DEF LeaveTable
  <2> QED
    BY <1>2, <2>1, CancelStep DEF LeaveTable, Gone
<1>3. CASE \E a \in Areas, n \in Jettons : PlaceJetton(p, a, n)
  BY <1>3, PlaceJettonStep
<1> QED
  BY <1>1, <1>2, <1>3 DEF Player

LEMMA BankerInit == Init => BankerInv
<1> SUFFICES ASSUME Init PROVE BankerInv
  OBVIOUS
<1>1. /\ Coins0 \in Nat /\ MaxEvents \in Nat /\ Limit \in Nat /\ Limit > 0 /\ NoPlayer \notin Players
  BY BankerAssumption DEF BankerAssumption
<1>2. NoBets \in [Areas -> Int] /\ Total(NoBets) = 0
  BY DEF NoBets, Total, Areas
<1>3. /\ NoBank \in BankRecord /\ NoBank.who = NoPlayer /\ NoBank.times = 0
  BY <1>1 DEF NoBank, BankRecord
<1>4. \A r : ~In(queue, r)
  BY DEF Init, In
<1>5. TypeOK
  <2>1. bank \in [who : Players \cup {NoPlayer}, score : Int, initial : Nat,
                  refill : BOOLEAN, leave : BOOLEAN, times : 0 .. Limit]
    BY <1>3 DEF Init, BankRecord
  <2>2. /\ coin \in [Players -> Nat] /\ due \in [Players -> Int] /\ lock \in [Players -> Nat]
        /\ queue \in Seq(Players) /\ events \in 0 .. MaxEvents
        /\ state = "free" /\ here = Players /\ online = Players
        /\ taken \in [Players -> Nat]
    BY <1>1 DEF Init
  <2>3. bets \in [Players -> [Areas -> Int]] /\ all \in [Areas -> Int]
    BY <1>2 DEF Init
  <2>4. auto \in [Players -> BOOLEAN] /\ below \in BOOLEAN
    BY Zenon DEF Init
  <2> QED
    BY <2>1, <2>2, <2>3, <2>4 DEF TypeOK
<1>6. QueueInv
  <2>1. Distinct(queue)
    BY DEF Init, Distinct
  <2> QED
    BY <1>3, <1>4, <2>1 DEF Init, QueueInv
<1>7. BetsInv /\ RoundSound /\ StakesBacked
  <2>1. NoBets \in [Areas -> Nat] /\ \A p \in Players : bets[p] = NoBets
    BY DEF Init, NoBets
  <2> QED
    BY <1>1, <1>2, <1>3, <2>1 DEF Init, BetsInv, RoundSound, StakesBacked
<1>8. HeldInv
  <2>1. due = coin /\ coin \in [Players -> Nat]
    BY <1>1 DEF Init
  <2> QED
    BY <1>4, <2>1 DEF HeldInv, Held
<1> QED
  BY <1>5, <1>6, <1>7, <1>8 DEF BankerInv

LEMMA BankerStep == BankerInv /\ [Next]_vars => BankerInv'
<1> SUFFICES ASSUME BankerInv, [Next]_vars PROVE BankerInv'
  OBVIOUS
<1>1. CASE OnTimeTick
  BY <1>1, StartRoundStep, FindBankerStep, EndRoundStep, ClearTableStep DEF OnTimeTick
<1>2. CASE \E p \in Players : Player(p)
  BY <1>2, PlayerStep
<1>3. CASE \E p \in Players \ Robots : Client(p)
  BY <1>3, ClientStep
<1>4. CASE UNCHANGED vars
  <2>1. /\ UNCHANGED <<state, here, coin, queue, lock, auto, bank, bets, all, due, taken, below>>
        /\ online' = online /\ events' = events
    BY <1>4 DEF vars
  <2>2. online' \subseteq Players /\ events' \in 0 .. MaxEvents
    BY <2>1 DEF BankerInv, TypeOK
  <2> QED
    BY <2>1, <2>2, QuietStep
<1> QED
  BY <1>1, <1>2, <1>3, <1>4 DEF Next

-----------------------------------------------------------------------------
(* The theorems.                                                           *)

LEMMA BankerCorrect == Spec => []BankerInv
  BY BankerInit, BankerStep, PTL DEF Spec

\* Coins never go below zero, whatever a round takes, an unlocked stake or a
\* move between rounds makes of them, and a banker's rounds stay in his term.
THEOREM TypeCorrect == Spec => []TypeOK
<1>1. BankerInv => TypeOK
  BY DEF BankerInv
<1> QED
  BY <1>1, BankerCorrect, PTL

\* Nobody waits twice or while he is banker, who waits or has a bet is at the
\* table, and every stake in the queue suffices, however many apply, jump, give
\* up and leave, and whatever the sign of a bet.
THEOREM QueueSoundCorrect == Spec => []QueueSound
<1>1. BankerInv => QueueSound
  BY QueueIsSound DEF BankerInv
<1> QED
  BY <1>1, BankerCorrect, PTL

\* A locked stake is paid back once, although its record stays.
THEOREM LocksPaidBackCorrect == Spec => []LocksPaidBack
<1>1. BankerInv => LocksPaidBack
  BY DEF BankerInv, HeldInv, Held, In, LocksPaidBack, Queued
<1> QED
  BY <1>1, BankerCorrect, PTL

\* The banker is short of his stake by no more than he moved away, each player
\* of his bets by no more than he paid to jump the queue, and until a bet below
\* zero is taken the stake covers the bets.
THEOREM StakesBackedCorrect == Spec => []StakesBacked
<1>1. BankerInv => StakesBacked
  BY DEF BankerInv
<1> QED
  BY <1>1, BankerCorrect, PTL
=============================================================================
