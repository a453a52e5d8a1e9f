--------------------------- MODULE LandGame_proof ---------------------------
(***************************************************************************)
(* Proofs about LandGame, for any deck, any rules of what may be played    *)
(* and what beats what, any bids, fees and purses, and any chairs taken by *)
(* robots.                                                                 *)
(*                                                                         *)
(* Two invariants.  PlayInv is about turns, bids, time-outs and coins and  *)
(* holds whatever the controls do to a deal.  DeckInv is about the cards,  *)
(* and is of use until they take a hand behind the last chair (misdealt),  *)
(* which the code lets them do (GoodCardsToPlayer).                        *)
(***************************************************************************)
EXTENDS LandGame, TLAPS, FiniteSetTheorems

\* Bids are made in turn from firstUser on, and a bid beats those before it.
BidInv ==
  /\ gameState # "free" => curUser \in Chairs
  /\ gameState = "call" =>
       /\ firstUser \in Chairs /\ bankerUser = NoChair /\ turnCards = {}
       /\ curUser = firstUser => callScore = NoBids
       /\ callScore[curUser] = 0
       /\ After(curUser) # firstUser => callScore[After(curUser)] = 0
       /\ \A c \in Chairs : callScore[c] < TopBid
       /\ \A c, d \in Chairs : c # d /\ callScore[c] = callScore[d] => callScore[c] = 0

\* The part of TurnSound that does not need the cards.
TurnInv ==
  gameState = "play" =>
    /\ bankerUser \in Chairs /\ turnWiner \in Chairs
    /\ turnCards = {} <=> curUser = turnWiner
    /\ \A c \in Chairs \ {bankerUser} : callScore[c] < callScore[bankerUser]

\* Who has been waited for twice is hosted before his turn is a second old.
WaitInv == gameState = "play" /\ waited = 1 => overTimes[curUser] < 2

PlayInv == TypeOK /\ BidInv /\ TurnInv /\ NoThirdWait /\ WaitInv

\* The cards of a game that has not been misdealt.
HandsInv ==
  ~misdealt =>
    /\ gameState # "free" => \A c \in Chairs : handCards[c] # {}
    /\ gameState = "call" => outCards = {}
    /\ gameState = "play" => bankerCard = {}

DeckInv == DeckWhole /\ HandsInv

-----------------------------------------------------------------------------
(* The turns *)

LEMMA AfterChair == \A c \in Chairs : After(c) \in Chairs /\ After(c) # c
  BY DEF After, Chairs

LEMMA AfterAny == \A c \in Chairs \cup {NoChair} : After(c) \in Chairs
  BY DEF After, Chairs, NoChair

LEMMA Blank ==
  /\ NoBids \in [Chairs -> 0..TopBid] /\ \A c \in Chairs : NoBids[c] = 0
  /\ NoTimes \in [Chairs -> 0..2] /\ \A c \in Chairs : NoTimes[c] = 0
  /\ NotHosted \in [Chairs -> BOOLEAN]
  /\ NoHands \in [Chairs -> SUBSET Cards]
  BY MoneyAssumption DEF NoBids, NoTimes, NotHosted, NoHands

LEMMA DeckCards == TypeOK => Deck \subseteq Cards
  BY DEF TypeOK, Deck

LEMMA SwapType ==
  ASSUME NEW h \in [Chairs -> SUBSET Cards], NEW c \in Chairs, NEW d \in Chairs
  PROVE  Swapped(h, c, d) \in [Chairs -> SUBSET Cards]
  BY DEF Swapped

LEMMA BehindCards == \A junk \in Behind : junk \subseteq Cards
  BY DEF Behind

LEMMA AwayType ==
  ASSUME NEW h \in [Chairs -> SUBSET Cards], NEW c \in Chairs, NEW add \in 1..2, NEW junk \in Behind
  PROVE  GoodCardsAway(h, c, add, junk) \in [Chairs -> SUBSET Cards]
<1>1. CASE c + add \in Chairs
  BY <1>1, SwapType DEF GoodCardsAway
<1>2. CASE c + add \notin Chairs
  BY <1>2, BehindCards DEF GoodCardsAway
<1> QED
  BY <1>1, <1>2

\* A deal and the reset that goes with it begin a bidding.
LEMMA DealKeeps ==
  ASSUME TypeOK, Deal, ResetGame,
         overTimes' \in [Chairs -> 0..2], autoState' \in [Chairs -> BOOLEAN],
         score' \in [Chairs -> Nat], fees' \in Nat
  PROVE  PlayInv'
<1>1. handCards' \in [Chairs -> SUBSET Cards]
  <2> PICK s \in Shuffles :
        LET dealt == [c \in Chairs |-> {k \in Deck : s[k] = c}]
        IN  \/ \E c, d \in Chairs : handCards' = Swapped(dealt, c, d)
            \/ \E c \in Controlled, add \in 1..2, junk \in Behind :
                 handCards' = GoodCardsAway(dealt, c, add, junk)
    BY Zenon DEF Deal
  <2> DEFINE dealt == [c \in Chairs |-> {k \in Deck : s[k] = c}]
  <2>1. dealt \in [Chairs -> SUBSET Cards]
    BY DeckCards
  <2>2. CASE \E c, d \in Chairs : handCards' = Swapped(dealt, c, d)
    <3>1. PICK c \in Chairs, d \in Chairs : handCards' = Swapped(dealt, c, d)
      BY <2>2
    <3> HIDE DEF dealt
    <3> QED
      BY <2>1, <3>1, SwapType
  <2>3. CASE \E c \in Controlled, add \in 1..2, junk \in Behind :
               handCards' = GoodCardsAway(dealt, c, add, junk)
    <3>1. PICK c \in Controlled, add \in 1..2, junk \in Behind :
            handCards' = GoodCardsAway(dealt, c, add, junk)
      BY <2>3
    <3> HIDE DEF dealt
    <3> QED
      BY <2>1, <3>1, AwayType, ChairAssumption
  <2> QED
    BY <2>2, <2>3
<1>2. bankerCard' \subseteq Cards
  BY DeckCards DEF Deal
<1>3. TypeOK'
  <2>0. misdealt' \in BOOLEAN
    BY Zenon DEF Deal, TypeOK
  <2>1. /\ {firstUser', bankerUser', curUser', turnWiner'} \subseteq Chairs \cup {NoChair}
        /\ gameState' = "call" /\ outCards' = {} /\ pooled' = 0 /\ waited' = 0
        /\ turnCards' = {} /\ bombTimes' = 1
        /\ callScore' \in [Chairs -> 0..TopBid] /\ plays' \in [Chairs -> 0..2]
    BY Blank DEF Deal, ResetGame
  <2>2. overTimes' \in [Chairs -> Nat]
    OBVIOUS
  <2> QED
    BY <1>1, <1>2, <2>0, <2>1, <2>2 DEF TypeOK
<1>4. BidInv'
  BY Blank, AfterChair, MoneyAssumption DEF BidInv, Deal, ResetGame
<1>5. TurnInv' /\ WaitInv'
  BY DEF TurnInv, WaitInv, Deal
<1>6. NoThirdWait'
  BY DEF NoThirdWait
<1> QED
  BY <1>3, <1>4, <1>5, <1>6 DEF PlayInv

\* An account that has paid its start fee.
LEMMA StartFeeNat == StartFee \in Nat
<1>1. BaseScore * FeeValue \in Nat
  BY MoneyAssumption
<1> QED
  BY <1>1 DEF StartFee

LEMMA LeastType == \A a, b \in Nat : Least(a, b) \in Nat /\ Least(a, b) <= a /\ Least(a, b) <= b
  BY DEF Least

LEMMA FeeType2 ==
  ASSUME score \in [Chairs -> Nat], DeductStartFee
  PROVE  score' \in [Chairs -> Nat] /\ fees' \in Nat
<1>1. \A c \in Chairs : score[c] - Least(score[c], StartFee) \in Nat
  BY LeastType, StartFeeNat
<1> QED
  BY <1>1, StartFeeNat DEF DeductStartFee

-----------------------------------------------------------------------------
(* Each action keeps PlayInv *)

LEMMA StartKeeps ==
  ASSUME PlayInv, OnGameStart
  PROVE  PlayInv'
<1>1. overTimes' \in [Chairs -> 0..2]
  BY DEF PlayInv, TypeOK, NoThirdWait, OnGameStart, seatVars
<1>2. score' \in [Chairs -> Nat] /\ fees' \in Nat
  BY MoneyAssumption DEF OnGameStart
<1>3. autoState' \in [Chairs -> BOOLEAN]
  BY DEF PlayInv, TypeOK, OnGameStart, seatVars
<1> QED
  BY <1>1, <1>2, <1>3, DealKeeps DEF PlayInv, OnGameStart

\* A bid ends the bidding, starts the game again or passes the turn on.
LEMMA BidKeeps ==
  ASSUME PlayInv, NEW c \in Chairs, NEW bid \in Nat, OnUserCallScore(c, bid)
  PROVE  PlayInv'
<1> DEFINE heard == IF bid <= TopBid /\ \A d \in Chairs : callScore[d] < bid THEN bid ELSE 0
<1> DEFINE bids == [callScore EXCEPT ![c] = heard]
<1> DEFINE last == firstUser = After(c)
<1>0. gameState = "call" /\ c = curUser
  BY DEF OnUserCallScore
<1>1. heard \in 0..TopBid /\ bids \in [Chairs -> 0..TopBid]
  BY MoneyAssumption DEF PlayInv, TypeOK
<1>2. /\ \A d \in Chairs \ {c} : heard # 0 => bids[d] < bids[c]
      /\ bids[c] = heard
      /\ \A d \in Chairs \ {c} : bids[d] = callScore[d] /\ bids[d] < TopBid
  BY <1>0 DEF PlayInv, TypeOK, BidInv
<1>3. \A d, e \in Chairs : d # e /\ bids[d] = bids[e] => bids[d] = 0
  BY <1>0, <1>1, <1>2 DEF PlayInv, TypeOK, BidInv
<1> HIDE DEF heard, bids
<1>4. ASSUME NEW b \in Chairs, bids[b] > 0, \A d \in Chairs : bids[d] <= bids[b],
             BankerBegins(b), callScore' = bids
      PROVE  PlayInv'
  <2>1. handCards' \in [Chairs -> SUBSET Cards] /\ bankerCard' \subseteq Cards
    BY <1>4 DEF PlayInv, TypeOK, BankerBegins
  <2>2. score' \in [Chairs -> Nat] /\ fees' \in Nat
    BY <1>4, FeeType2 DEF PlayInv, TypeOK, BankerBegins
  <2>3. TypeOK'
    BY <1>1, <1>4, <2>1, <2>2 DEF PlayInv, TypeOK, BankerBegins, seatVars
  <2>4. \A d \in Chairs \ {b} : bids[d] < bids[b]
    <3> SUFFICES ASSUME NEW d \in Chairs \ {b} PROVE bids[d] < bids[b]
      OBVIOUS
    <3>1. bids[d] # bids[b]
      BY <1>3, <1>4
    <3> QED
      BY <1>1, <1>4, <3>1
  <2>5. turnCards' = {}
    BY <1>0, <1>4 DEF PlayInv, BidInv, BankerBegins
  <2>6. TurnInv'
    BY <1>4, <2>4, <2>5 DEF TurnInv, BankerBegins
  <2>7. BidInv' /\ WaitInv' /\ NoThirdWait'
    BY <1>4 DEF PlayInv, BidInv, WaitInv, NoThirdWait, BankerBegins, seatVars
  <2> QED
    BY <2>3, <2>6, <2>7 DEF PlayInv
<1>5. CASE heard = TopBid /\ BankerBegins(c) /\ callScore' = bids
  <2>1. bids[c] > 0 /\ \A d \in Chairs : bids[d] <= bids[c]
    BY <1>1, <1>2, <1>5, MoneyAssumption
  <2> QED
    BY <1>4, <1>5, <2>1
<1>6. CASE /\ \E b \in Chairs : /\ bids[b] > 0 /\ \A d \in Chairs : bids[d] <= bids[b]
                              /\ BankerBegins(b)
           /\ callScore' = bids
  BY <1>4, <1>6
<1>7. CASE ReGameStart
  <2>1. score' \in [Chairs -> Nat] /\ fees' \in Nat
    BY <1>7 DEF PlayInv, TypeOK, ReGameStart, coinVars
  <2>2. overTimes' \in [Chairs -> 0..2] /\ autoState' \in [Chairs -> BOOLEAN]
    BY <1>7, Blank DEF ReGameStart, ResetPlayerReady
  <2> QED
    BY <1>7, <2>1, <2>2, DealKeeps DEF PlayInv, ReGameStart
<1>8. CASE /\ heard # TopBid /\ ~last
           /\ curUser' = After(c) /\ callScore' = bids
           /\ waited' = 0
           /\ UNCHANGED <<gameState, firstUser, bankerUser, turnCards, turnWiner, plays,
                          bombTimes, deckVars, seatVars, coinVars>>
  <2>1. curUser' \in Chairs
    BY <1>8, AfterChair
  <2>2. TypeOK'
    BY <1>1, <1>8, <2>1 DEF PlayInv, TypeOK, deckVars, seatVars, coinVars
  <2>3. bids[After(c)] = 0 /\ firstUser # After(c)
    BY <1>0, <1>2, <1>8, AfterChair DEF PlayInv, BidInv
  <2>4. After(After(c)) # firstUser => bids[After(After(c))] = 0
    <3>1. After(After(c)) \in Chairs \ {c}
      BY DEF After, Chairs
    <3>2. After(After(c)) # firstUser => c = firstUser
      BY <1>0, <1>8 DEF PlayInv, BidInv, After, Chairs
    <3>3. c = firstUser => callScore[After(After(c))] = 0
      BY <1>0, <3>1, Blank DEF PlayInv, BidInv
    <3> QED
      BY <1>2, <3>1, <3>2, <3>3
  <2>5. \A d \in Chairs : bids[d] < TopBid
    BY <1>1, <1>2, <1>8, MoneyAssumption
  <2>6. BidInv'
    BY <1>0, <1>3, <1>8, <2>1, <2>3, <2>4, <2>5 DEF PlayInv, BidInv
  <2>7. TurnInv' /\ WaitInv' /\ NoThirdWait'
    BY <1>0, <1>8 DEF PlayInv, TurnInv, WaitInv, NoThirdWait, seatVars
  <2> QED
    BY <2>2, <2>6, <2>7 DEF PlayInv
<1> QED
  <2> USE DEF heard, bids
  <2>1. \/ heard = TopBid /\ BankerBegins(c) /\ callScore' = bids
        \/ /\ \E b \in Chairs : /\ bids[b] > 0 /\ \A d \in Chairs : bids[d] <= bids[b]
                               /\ BankerBegins(b)
           /\ callScore' = bids
        \/ ReGameStart
        \/ /\ heard # TopBid /\ ~last
           /\ curUser' = After(c) /\ callScore' = bids
           /\ waited' = 0
           /\ UNCHANGED <<gameState, firstUser, bankerUser, turnCards, turnWiner, plays,
                          bombTimes, deckVars, seatVars, coinVars>>
    BY Zenon DEF OnUserCallScore
  <2> HIDE DEF heard, bids
  <2> QED
    BY <1>5, <1>6, <1>7, <1>8, <2>1

-----------------------------------------------------------------------------
(* The money of a settlement *)

\* A fee is part of what was won.
LEMMA EndFeeBounds ==
  ASSUME NEW won \in Int
  PROVE  /\ EndFee(won) \in Nat
         /\ won <= 0 => EndFee(won) = 0
         /\ won > 0 => EndFee(won) <= won
<1>1. CASE FeeType = "win" /\ won > 0
  <2>1. won * FeeValue \in Nat /\ won * FeeValue <= won * 10000
    BY <1>1, MoneyAssumption
  <2>2. (won * FeeValue) \div 10000 >= 0 /\ (won * FeeValue) \div 10000 <= won
    BY <1>1, <2>1
  <2> QED
    BY <1>1, <2>1, <2>2 DEF EndFee
<1>2. CASE ~(FeeType = "win" /\ won > 0)
  BY <1>2 DEF EndFee
<1> QED
  BY <1>1, <1>2

LEMMA StakeNat ==
  ASSUME TypeOK, bankerUser \in Chairs, NEW w \in Chairs, NEW played, NEW times \in Nat
  PROVE  UserScore(w, played, times) \in Nat
<1> DEFINE spring == IF Spring(w, played) THEN 2 ELSE 1
<1>1. spring \in Nat /\ callScore[bankerUser] \in Nat /\ BaseScore \in Nat
  BY MoneyAssumption DEF TypeOK
<1> HIDE DEF spring
<1>2. BaseScore * times \in Nat
  BY <1>1
<1>3. BaseScore * times * spring \in Nat
  BY <1>1, <1>2
<1>4. BaseScore * times * spring * callScore[bankerUser] \in Nat
  BY <1>1, <1>3
<1> QED
  BY <1>4 DEF UserScore, spring

\* Nobody loses more than he has or wins more than he carries, and what one
\* loses the others win.
LEMMA CalcScoreBounds ==
  ASSUME TypeOK, bankerUser \in Chairs, NEW w \in Chairs, NEW stake \in Nat
  PROVE  LET won == CalcScore(w, stake)
         IN  /\ won \in [Chairs -> Int]
             /\ \A c \in Chairs : 0 - score[c] <= won[c] /\ won[c] <= score[c]
             /\ won[0] + won[1] + won[2] = 0
<1> DEFINE f1 == After(bankerUser)
           f2 == After(f1)
           won(f) == IF w = bankerUser THEN 0 - Passes(f, stake) ELSE Passes(f, stake)
           half == score[bankerUser] \div 2
<1>1. f1 \in Chairs /\ f2 \in Chairs /\ f1 # bankerUser /\ f2 # bankerUser /\ f1 # f2
      /\ Chairs = {bankerUser, f1, f2}
  BY DEF After, Chairs
<1>2. score[bankerUser] \in Nat /\ half \in Nat /\ half + half <= score[bankerUser]
  BY DEF TypeOK
<1>3. \A f \in Chairs : Passes(f, stake) \in Nat /\ Passes(f, stake) <= half /\ Passes(f, stake) <= score[f]
  <2> SUFFICES ASSUME NEW f \in Chairs
               PROVE  Passes(f, stake) \in Nat /\ Passes(f, stake) <= half /\ Passes(f, stake) <= score[f]
    OBVIOUS
  <2>1. score[f] \in Nat
    BY DEF TypeOK
  <2> HIDE DEF half
  <2>2. Passes(f, stake) = Least(stake, Least(score[f], half))
    BY DEF Passes, half
  <2> QED
    BY <1>2, <2>1, <2>2 DEF Least
<1> HIDE DEF half
<1>4. \A f \in Chairs : /\ won(f) \in Int /\ 0 - score[f] <= won(f) /\ won(f) <= score[f]
                       /\ 0 - half <= won(f) /\ won(f) <= half
  BY <1>2, <1>3 DEF TypeOK
<1>5. CalcScore(w, stake) = [c \in Chairs |-> IF c = bankerUser THEN 0 - (won(f1) + won(f2)) ELSE won(c)]
  BY DEF CalcScore
<1> HIDE DEF won, f1, f2
<1>6. CalcScore(w, stake) \in [Chairs -> Int]
  BY <1>1, <1>4, <1>5
<1>7. \A c \in Chairs : /\ 0 - score[c] <= CalcScore(w, stake)[c]
                       /\ CalcScore(w, stake)[c] <= score[c]
  BY <1>1, <1>2, <1>4, <1>5
<1>8. \A f : f \in {f1, f2} => CalcScore(w, stake)[f] = won(f)
  BY <1>1, <1>5
<1>9. CalcScore(w, stake)[bankerUser] + CalcScore(w, stake)[f1] + CalcScore(w, stake)[f2] = 0
  BY <1>1, <1>4, <1>5, <1>8
<1>10. CalcScore(w, stake)[0] + CalcScore(w, stake)[1] + CalcScore(w, stake)[2] = 0
  BY <1>1, <1>6, <1>9 DEF After, Chairs, f1, f2
<1> QED
  BY <1>6, <1>7, <1>10

\* A settlement that takes from nobody more than he has is exact.
LEMMA SettleExact ==
  ASSUME TypeOK, NEW won \in [Chairs -> Int], Settle(won),
         \A c \in Chairs : 0 - score[c] <= won[c] /\ won[c] <= score[c],
         won[0] + won[1] + won[2] = 0
  PROVE  /\ score' \in [Chairs -> Nat] /\ fees' \in Nat
         /\ Total(score') + fees' = Total(score) + fees
         /\ \A c \in Chairs : score'[c] <= 2 * score[c]
<1> DEFINE fee(c) == EndFee(won[c])
<1>1. \A c \in Chairs : /\ fee(c) \in Nat /\ score[c] \in Nat /\ won[c] \in Int
                       /\ score[c] + won[c] - fee(c) \in Nat
                       /\ score[c] + won[c] - fee(c) <= 2 * score[c]
  <2> SUFFICES ASSUME NEW c \in Chairs
               PROVE  /\ fee(c) \in Nat /\ score[c] \in Nat /\ won[c] \in Int
                      /\ score[c] + won[c] - fee(c) \in Nat
                      /\ score[c] + won[c] - fee(c) <= 2 * score[c]
    OBVIOUS
  <2>1. score[c] \in Nat /\ won[c] \in Int
    BY DEF TypeOK
  <2>2. fee(c) \in Nat /\ (won[c] <= 0 => fee(c) = 0) /\ (won[c] > 0 => fee(c) <= won[c])
    BY <2>1, EndFeeBounds
  <2> HIDE DEF fee
  <2> QED
    BY <2>1, <2>2
<1>2. /\ score' = [c \in Chairs |-> LET new == score[c] + won[c] - fee(c) IN IF new < 0 THEN 0 ELSE new]
      /\ fees' = fees + fee(0) + fee(1) + fee(2)
  BY DEF Settle
<1> HIDE DEF fee
<1>3. \A c \in Chairs : score'[c] = score[c] + won[c] - fee(c)
  BY <1>1, <1>2
<1>4. score' \in [Chairs -> Nat]
  BY <1>1, <1>2, <1>3
<1>5. 0 \in Chairs /\ 1 \in Chairs /\ 2 \in Chairs /\ fees \in Nat
  BY DEF Chairs, TypeOK
<1>6. fees' \in Nat
  BY <1>1, <1>2, <1>5
<1>7. Total(score') + fees' = Total(score) + fees
  BY <1>1, <1>2, <1>3, <1>5 DEF Total
<1> QED
  BY <1>1, <1>3, <1>4, <1>6, <1>7

\* The end of a game settles it exactly.
LEMMA EndSettles ==
  ASSUME PlayInv, gameState = "play", NEW c \in Chairs, NEW S \in Combos, OnGameEnd(c, S)
  PROVE  /\ score' \in [Chairs -> Nat] /\ fees' \in Nat
         /\ Total(score') + fees' = Total(score) + fees
         /\ \A d \in Chairs : score'[d] <= 2 * score[d]
<1> DEFINE played == [plays EXCEPT ![c] = Least(@ + 1, 2)]
           times == IF S \in Bombs THEN 2 * bombTimes ELSE bombTimes
           stake == UserScore(c, played, times)
           won == CalcScore(c, stake)
<1>1. TypeOK /\ bankerUser \in Chairs
  BY DEF PlayInv, TurnInv
<1>2. stake \in Nat
  <2>1. times \in Nat
    BY <1>1 DEF TypeOK
  <2> HIDE DEF times, played
  <2> QED
    BY <1>1, <2>1, StakeNat
<1>3. /\ won \in [Chairs -> Int]
      /\ \A d \in Chairs : 0 - score[d] <= won[d] /\ won[d] <= score[d]
      /\ won[0] + won[1] + won[2] = 0
  <2> HIDE DEF stake
  <2> QED
    BY <1>1, <1>2, CalcScoreBounds
<1>4. Settle(won)
  BY DEF OnGameEnd
<1> HIDE DEF won
<1> QED
  BY <1>1, <1>3, <1>4, SettleExact

-----------------------------------------------------------------------------
(* Each action of a player or of the tick keeps PlayInv *)

\* What the seats may remember after a step.
LEMMA SeatsKeep ==
  ASSUME NEW over \in [Chairs -> 0..2], NEW auto \in [Chairs -> BOOLEAN], SeatsAfter(over, auto)
  PROVE  overTimes' \in [Chairs -> 0..2] /\ autoState' \in [Chairs -> BOOLEAN]
<1>1. CASE gameState' = "free"
  BY <1>1, Blank DEF SeatsAfter, ResetPlayerReady
<1>2. CASE gameState' # "free"
  BY <1>2 DEF SeatsAfter
<1> QED
  BY <1>1, <1>2

LEMMA OutKeeps ==
  ASSUME PlayInv, NEW c, NEW S, OutCards(c, S),
         NEW over \in [Chairs -> 0..2], NEW auto \in [Chairs -> BOOLEAN], SeatsAfter(over, auto)
  PROVE  PlayInv'
<1>1. /\ gameState = "play" /\ c = curUser /\ c \in Chairs
      /\ S \in Combos /\ S \subseteq handCards[c] /\ S # {} /\ S \subseteq Cards
  BY ComboAssumption DEF PlayInv, BidInv, OutCards, MayPlay
<1>2. overTimes' \in [Chairs -> 0..2] /\ autoState' \in [Chairs -> BOOLEAN]
  BY SeatsKeep
<1>3. NoThirdWait'
  BY <1>2 DEF NoThirdWait
<1>4. waited' = 0 /\ bankerCard' = bankerCard /\ misdealt' \in BOOLEAN
  BY DEF OutCards, PlayInv, TypeOK
<1>5. Cardinality(S) \in Nat /\ \A d \in Chairs : Cardinality(handCards[d]) \in Nat
  BY <1>1, CardsAssumption, FS_Subset, FS_CardinalityType DEF PlayInv, TypeOK
<1>6. CASE GoesOn(c, S)
  <2>1. plays' \in [Chairs -> 0..2]
    <3>1. \A n \in 0..2 : Least(n + 1, 2) \in 0..2
      BY DEF Least
    <3> QED
      BY <1>6, <3>1 DEF GoesOn, PlayInv, TypeOK
  <2>2. handCards' \in [Chairs -> SUBSET Cards]
    BY <1>6 DEF GoesOn, PlayInv, TypeOK
  <2>3. bombTimes' \in Nat \ {0}
    BY <1>6 DEF GoesOn, PlayInv, TypeOK
  <2>4. pooled' \in Nat
    BY <1>5, <1>6 DEF GoesOn, PlayInv, TypeOK
  <2>5. curUser' \in Chairs /\ curUser' # c /\ turnWiner' = c /\ turnCards' = S
    BY <1>1, <1>6, AfterChair DEF GoesOn
  <2>6. TypeOK'
    <3>1. overTimes' \in [Chairs -> Nat]
      BY <1>2
    <3>2. /\ gameState' = gameState /\ callScore' \in [Chairs -> 0..TopBid]
          /\ {firstUser', bankerUser'} \subseteq Chairs \cup {NoChair}
          /\ outCards' \subseteq Cards /\ bankerCard' \subseteq Cards
      BY <1>1, <1>4, <1>6 DEF GoesOn, PlayInv, TypeOK
    <3>3. score' \in [Chairs -> Nat] /\ fees' \in Nat
      BY <1>6 DEF GoesOn, PlayInv, TypeOK, coinVars
    <3>4. /\ gameState' \in {"free", "call", "play"} /\ turnCards' \in Combos \cup {{}}
          /\ {firstUser', bankerUser', curUser', turnWiner'} \subseteq Chairs \cup {NoChair}
          /\ waited' \in 0..1
      BY <1>1, <1>4, <2>5, <3>2
    <3> QED
      BY <1>2, <1>4, <2>1, <2>2, <2>3, <2>4, <3>1, <3>2, <3>3, <3>4 DEF TypeOK
  <2>7. TurnInv' /\ BidInv' /\ WaitInv'
    BY <1>1, <1>4, <1>6, <2>5 DEF GoesOn, PlayInv, TurnInv, BidInv, WaitInv
  <2> QED
    BY <1>3, <2>6, <2>7 DEF PlayInv
<1>7. CASE OnGameEnd(c, S)
  <2>1. score' \in [Chairs -> Nat] /\ fees' \in Nat
    BY <1>1, <1>7, EndSettles
  <2>2. pooled' \in Nat /\ outCards' \subseteq Cards
    <3> DEFINE left == [handCards EXCEPT ![c] = {}]
    <3>1. left \in [Chairs -> SUBSET Cards] /\ 0 \in Chairs /\ 1 \in Chairs /\ 2 \in Chairs
      <4>1. handCards \in [Chairs -> SUBSET Cards]
        BY DEF PlayInv, TypeOK
      <4>2. left \in [Chairs -> SUBSET Cards]
        BY <4>1
      <4> QED
        BY <4>2 DEF Chairs
    <3>2. \A d \in Chairs : Cardinality(left[d]) \in Nat
      BY <3>1, CardsAssumption, FS_Subset, FS_CardinalityType
    <3>3. /\ outCards' = outCards \cup left[0] \cup left[1] \cup left[2] \cup S
          /\ pooled' = pooled + Cardinality(left[0]) + Cardinality(left[1])
                         + Cardinality(left[2]) + Cardinality(S)
      BY <1>7 DEF OnGameEnd
    <3> HIDE DEF left
    <3> QED
      BY <1>1, <1>5, <3>1, <3>2, <3>3 DEF PlayInv, TypeOK
  <2>3. /\ gameState' = "free" /\ firstUser' = c /\ curUser' = NoChair /\ bankerUser' = NoChair
        /\ turnWiner' = NoChair /\ turnCards' = {} /\ bombTimes' = 1
        /\ callScore' = NoBids /\ plays' = NoTimes /\ handCards' = NoHands
    BY <1>7 DEF OnGameEnd, ResetGame
  <2>4. TypeOK'
    <3>1. overTimes' \in [Chairs -> Nat]
      BY <1>2
    <3> QED
      BY <1>1, <1>2, <1>4, <2>1, <2>2, <2>3, <3>1, Blank DEF PlayInv, TypeOK
  <2>5. TurnInv' /\ BidInv' /\ WaitInv'
    BY <2>3 DEF TurnInv, BidInv, WaitInv
  <2> QED
    BY <1>3, <2>4, <2>5 DEF PlayInv
<1> QED
  BY <1>6, <1>7 DEF OutCards

LEMMA PassKeeps ==
  ASSUME PlayInv, NEW c, PassCard(c),
         NEW over \in [Chairs -> 0..2], NEW auto \in [Chairs -> BOOLEAN], SeatsAfter(over, auto)
  PROVE  PlayInv'
<1>1. gameState = "play" /\ c = curUser /\ c \in Chairs /\ turnCards # {} /\ waited' = 0
  BY DEF PlayInv, BidInv, PassCard
<1>2. overTimes' \in [Chairs -> 0..2] /\ autoState' \in [Chairs -> BOOLEAN]
  BY SeatsKeep
<1>3. NoThirdWait'
  BY <1>2 DEF NoThirdWait
<1>4. curUser' \in Chairs /\ curUser' = After(c)
  BY <1>1, AfterChair DEF PassCard
<1>5. TypeOK'
  <2>1. overTimes' \in [Chairs -> Nat]
    BY <1>2
  <2> QED
    BY <1>1, <1>2, <1>4, <2>1 DEF PassCard, PlayInv, TypeOK, deckVars, coinVars
<1>6. TurnInv' /\ BidInv' /\ WaitInv'
  BY <1>1, <1>4 DEF PassCard, PlayInv, TurnInv, BidInv, WaitInv
<1> QED
  BY <1>3, <1>5, <1>6 DEF PlayInv

LEMMA AutoKeeps ==
  ASSUME PlayInv, NEW c \in Chairs, NEW auto \in BOOLEAN, PlayerSetAuto(c, auto)
  PROVE  PlayInv'
<1>1. overTimes \in [Chairs -> 0..2]
  BY DEF PlayInv, TypeOK, NoThirdWait
<1>2. overTimes' \in [Chairs -> 0..2] /\ autoState' \in [Chairs -> BOOLEAN]
      /\ \A d \in Chairs : overTimes'[d] <= overTimes[d]
  BY <1>1 DEF PlayerSetAuto, PlayInv, TypeOK
<1>3. TypeOK'
  <2>1. overTimes' \in [Chairs -> Nat]
    BY <1>2
  <2> QED
    BY <1>2, <2>1 DEF PlayerSetAuto, PlayInv, TypeOK, turnVars, deckVars, coinVars
<1>4. NoThirdWait'
  BY <1>2 DEF NoThirdWait
<1>5. BidInv' /\ TurnInv'
  BY DEF PlayerSetAuto, PlayInv, BidInv, TurnInv, turnVars
<1>6. WaitInv'
  BY <1>1, <1>2 DEF PlayerSetAuto, PlayInv, BidInv, WaitInv, turnVars
<1> QED
  BY <1>3, <1>4, <1>5, <1>6 DEF PlayInv

LEMMA MarkedType ==
  ASSUME NEW over, NEW c, TypeOK
  PROVE  Marked(over, c) \in [Chairs -> BOOLEAN]
<1>1. autoState \in [Chairs -> BOOLEAN]
  BY DEF TypeOK
<1> QED
  BY <1>1, Zenon DEF Marked

LEMMA CallTickKeeps ==
  ASSUME PlayInv, NEW w \in waited..waited + 1, CallTick(w)
  PROVE  PlayInv'
<1>1. w \in 0..2 /\ gameState = "call" /\ curUser \in Chairs
  BY DEF PlayInv, TypeOK, BidInv, CallTick
<1>2. CASE w = 2 \/ (w = 1 /\ curUser \in Robots)
  <2> PICK bid \in 0..TopBid : OnUserCallScore(curUser, bid)
    BY <1>2 DEF CallTick
  <2>1. bid \in Nat
    BY MoneyAssumption
  <2> QED
    BY <1>1, <2>1, BidKeeps
<1>3. CASE ~(w = 2 \/ (w = 1 /\ curUser \in Robots))
  <2>1. /\ waited' = w /\ w \in 0..1
        /\ UNCHANGED <<gameState, firstUser, turnVars, deckVars, seatVars, coinVars>>
    BY <1>1, <1>3 DEF CallTick
  <2>2. TypeOK'
    BY <2>1 DEF PlayInv, TypeOK, turnVars, deckVars, seatVars, coinVars
  <2>3. BidInv' /\ TurnInv' /\ WaitInv' /\ NoThirdWait'
    BY <1>1, <2>1 DEF PlayInv, BidInv, TurnInv, WaitInv, NoThirdWait, turnVars, seatVars
  <2> QED
    BY <2>2, <2>3 DEF PlayInv
<1> QED
  BY <1>2, <1>3

\* A time-out is counted only after a tick that left the turn as it was, which
\* it does not for who is hosted.
LEMMA PlayTickKeeps ==
  ASSUME PlayInv, NEW w \in waited..waited + 1, PlayTick(w)
  PROVE  PlayInv'
<1> DEFINE auto == Marked(overTimes, curUser)
<1>1. w \in 0..2 /\ gameState = "play" /\ curUser \in Chairs
  BY DEF PlayInv, TypeOK, BidInv, PlayTick
<1>2. auto \in [Chairs -> BOOLEAN] /\ overTimes \in [Chairs -> 0..2]
  BY MarkedType DEF PlayInv, TypeOK, NoThirdWait
<1>3. CASE w = 2
  <2> DEFINE over == [overTimes EXCEPT ![curUser] = @ + 1]
             next == Marked(over, After(curUser))
  <2>1. overTimes[curUser] < 2
    BY <1>1, <1>3 DEF PlayInv, TypeOK, WaitInv
  <2>2. over \in [Chairs -> 0..2]
    BY <1>1, <1>2, <2>1
  <2>3. next \in [Chairs -> BOOLEAN]
    BY MarkedType DEF PlayInv
  <2>4. /\ \/ OutCards(curUser, {Lowest[handCards[curUser]]})
           \/ PassCard(curUser)
        /\ SeatsAfter(over, next)
    BY <1>3 DEF PlayTick, OnOutCardTimeOut
  <2> HIDE DEF over, next
  <2> QED
    BY <2>2, <2>3, <2>4, OutKeeps, PassKeeps
<1>4. CASE w = 1 /\ (curUser \in Robots \/ auto[curUser])
  <2>1. /\ \/ \E S \in Combos : OutCards(curUser, S)
           \/ PassCard(curUser)
        /\ SeatsAfter(overTimes, auto)
    BY <1>4 DEF PlayTick, OnAutoCard
  <2> HIDE DEF auto
  <2> QED
    BY <1>2, <2>1, OutKeeps, PassKeeps
<1>5. CASE w # 2 /\ ~(w = 1 /\ (curUser \in Robots \/ auto[curUser]))
  <2>1. /\ waited' = w /\ autoState' = auto /\ w \in 0..1
        /\ UNCHANGED <<gameState, firstUser, turnVars, deckVars, overTimes, coinVars>>
    BY <1>1, <1>5 DEF PlayTick
  <2>2. TypeOK'
    <3> HIDE DEF auto
    <3> QED
      BY <1>2, <2>1 DEF PlayInv, TypeOK, turnVars, deckVars, coinVars
  <2>3. BidInv' /\ TurnInv' /\ NoThirdWait'
    BY <1>1, <2>1 DEF PlayInv, BidInv, TurnInv, NoThirdWait, turnVars
  <2>4. w = 1 => overTimes[curUser] < 2
    <3>1. w = 1 => ~auto[curUser]
      BY <1>5
    <3>2. overTimes[curUser] = 2 => auto[curUser]
      BY <1>1, Zenon DEF PlayInv, TypeOK, Marked
    <3>3. overTimes[curUser] \in 0..2
      BY <1>1, <1>2
    <3> QED
      BY <3>1, <3>2, <3>3
  <2>5. WaitInv'
    BY <2>1, <2>4 DEF WaitInv, turnVars
  <2> QED
    BY <2>2, <2>3, <2>5 DEF PlayInv
<1> QED
  BY <1>3, <1>4, <1>5

-----------------------------------------------------------------------------
(* What holds whatever the controls do *)

LEMMA PlayInit == Init => PlayInv
<1> SUFFICES ASSUME Init PROVE PlayInv
  OBVIOUS
<1>1. TypeOK
  <2>1. NoTimes \in [Chairs -> Nat]
    BY Blank
  <2>2. misdealt \in BOOLEAN
    BY Zenon DEF Init
  <2> QED
    BY <2>1, <2>2, Blank, MoneyAssumption DEF Init, TypeOK
<1>2. BidInv /\ TurnInv /\ WaitInv /\ NoThirdWait
  BY Blank DEF Init, BidInv, TurnInv, WaitInv, NoThirdWait
<1> QED
  BY <1>1, <1>2 DEF PlayInv

LEMMA PlayStep == PlayInv /\ [Next]_vars => PlayInv'
<1> SUFFICES ASSUME PlayInv, [Next]_vars PROVE PlayInv'
  OBVIOUS
<1>0. overTimes \in [Chairs -> 0..2] /\ autoState \in [Chairs -> BOOLEAN]
  BY DEF PlayInv, TypeOK, NoThirdWait
<1>1. CASE OnGameStart
  BY <1>1, StartKeeps
<1>2. ASSUME NEW c \in Chairs, UserCallScore(c) PROVE PlayInv'
  <2> PICK bid \in 0..TopBid + 1 : OnUserCallScore(c, bid)
    BY <1>2 DEF UserCallScore
  <2>1. bid \in Nat
    BY MoneyAssumption
  <2> QED
    BY <2>1, BidKeeps
<1>3. ASSUME NEW c \in Chairs, OnUserOutCard(c) PROVE PlayInv'
  BY <1>0, <1>3, OutKeeps DEF OnUserOutCard
<1>4. ASSUME NEW c \in Chairs, OnUserPassCard(c) PROVE PlayInv'
  BY <1>0, <1>4, PassKeeps DEF OnUserPassCard
<1>5. ASSUME NEW c \in Chairs, NEW auto \in BOOLEAN, PlayerSetAuto(c, auto) PROVE PlayInv'
  BY <1>5, AutoKeeps
<1>6. ASSUME NEW w \in waited..waited + 1, OnTimeTick(w) PROVE PlayInv'
  BY <1>6, CallTickKeeps, PlayTickKeeps DEF OnTimeTick
<1>7. CASE UNCHANGED vars
  BY <1>7 DEF vars, turnVars, deckVars, seatVars, coinVars, PlayInv, TypeOK, BidInv, TurnInv,
              NoThirdWait, WaitInv
<1> QED
  BY <1>1, <1>2, <1>3, <1>4, <1>5, <1>6, <1>7 DEF Next

\* The invariant of turns, bids, time-outs and coins.
THEOREM PlayCorrect == Spec => []PlayInv
  BY PlayInit, PlayStep, PTL DEF Spec

\* Every variable keeps its type: nobody's coins fall below zero.
THEOREM TypeCorrect == Spec => []TypeOK
<1>1. PlayInv => TypeOK
  BY DEF PlayInv
<1> QED
  BY <1>1, PlayCorrect, PTL

\* Nobody keeps the table waiting a third time.
THEOREM NoThirdWaitCorrect == Spec => []NoThirdWait
<1>1. PlayInv => NoThirdWait
  BY DEF PlayInv
<1> QED
  BY <1>1, PlayCorrect, PTL

-----------------------------------------------------------------------------
(* Coins *)

\* What a step during a game does to the coins.
CoinStep ==
  /\ \/ Total(score') + fees' = Total(score) + (IF gameState = "call" THEN 0 ELSE fees)
     \/ gameState = "call" /\ \E c \in Chairs : score[c] < StartFee
     \/ UNCHANGED coinVars
  /\ \A c \in Chairs : score'[c] <= 2 * score[c]

LEMMA CoinsStill == TypeOK /\ UNCHANGED coinVars => CoinStep
<1> SUFFICES ASSUME TypeOK, UNCHANGED coinVars PROVE \A c \in Chairs : score'[c] <= 2 * score[c]
  BY DEF CoinStep
<1> SUFFICES ASSUME NEW c \in Chairs PROVE score'[c] <= 2 * score[c]
  OBVIOUS
<1>1. score[c] \in Nat /\ score'[c] = score[c]
  BY DEF TypeOK, coinVars
<1> QED
  BY <1>1

LEMMA StartFeeKeeps == TypeOK /\ gameState = "call" /\ DeductStartFee => CoinStep
<1> SUFFICES ASSUME TypeOK, gameState = "call", DeductStartFee PROVE CoinStep
  OBVIOUS
<1>1. \A c \in Chairs : /\ score[c] \in Nat /\ score'[c] = score[c] - Least(score[c], StartFee)
                       /\ Least(score[c], StartFee) \in Nat
  BY LeastType, StartFeeNat DEF TypeOK, DeductStartFee
<1>2. \A c \in Chairs : score'[c] <= 2 * score[c]
  BY <1>1
<1>3. CASE \A c \in Chairs : score[c] >= StartFee
  <2>1. \A c \in Chairs : score'[c] = score[c] - StartFee
    BY <1>1, <1>3, StartFeeNat DEF Least
  <2>2. Total(score') + fees' = Total(score)
    BY <1>1, <2>1, StartFeeNat DEF Total, DeductStartFee, Chairs
  <2>3. Total(score) \in Nat
    BY <1>1 DEF Total, Chairs
  <2> QED
    BY <1>2, <2>2, <2>3 DEF CoinStep
<1>4. CASE \E c \in Chairs : score[c] < StartFee
  BY <1>2, <1>4 DEF CoinStep
<1> QED
  BY <1>1, <1>3, <1>4, StartFeeNat

LEMMA BidCoins ==
  ASSUME PlayInv, NEW c \in Chairs, NEW bid \in Nat, OnUserCallScore(c, bid)
  PROVE  CoinStep
<1>1. gameState = "call" /\ TypeOK
  BY DEF OnUserCallScore, PlayInv
<1>2. CASE \E b \in Chairs : BankerBegins(b)
  BY <1>1, <1>2, StartFeeKeeps DEF BankerBegins
<1>3. CASE UNCHANGED coinVars
  BY <1>1, <1>3, CoinsStill
<1>4. (\E b \in Chairs : BankerBegins(b)) \/ UNCHANGED coinVars
  BY Zenon DEF OnUserCallScore, ReGameStart, coinVars
<1> QED
  BY <1>2, <1>3, <1>4

LEMMA OutCoins ==
  ASSUME PlayInv, NEW c, NEW S, OutCards(c, S)
  PROVE  CoinStep
<1>1. gameState = "play" /\ c \in Chairs /\ S \in Combos /\ TypeOK
  BY DEF PlayInv, BidInv, OutCards, MayPlay
<1>2. CASE GoesOn(c, S)
  BY <1>1, <1>2, CoinsStill DEF GoesOn
<1>3. CASE OnGameEnd(c, S)
  BY <1>1, <1>3, EndSettles DEF CoinStep
<1> QED
  BY <1>2, <1>3 DEF OutCards

LEMMA CoinsStep == PlayInv /\ Next => gameState = "free" \/ CoinStep
<1> SUFFICES ASSUME PlayInv, Next PROVE gameState = "free" \/ CoinStep
  OBVIOUS
<1>0. TypeOK /\ (gameState # "free" => curUser \in Chairs)
  BY DEF PlayInv, BidInv
<1>1. CASE OnGameStart
  BY <1>1 DEF OnGameStart
<1>2. ASSUME NEW c \in Chairs, UserCallScore(c) PROVE CoinStep
  <2> PICK bid \in 0..TopBid + 1 : OnUserCallScore(c, bid)
    BY <1>2 DEF UserCallScore
  <2>1. bid \in Nat
    BY MoneyAssumption
  <2> QED
    BY <2>1, BidCoins
<1>3. ASSUME NEW c \in Chairs, OnUserOutCard(c) PROVE CoinStep
  BY <1>3, OutCoins DEF OnUserOutCard
<1>4. ASSUME NEW c \in Chairs, OnUserPassCard(c) PROVE CoinStep
  <2>1. UNCHANGED coinVars
    BY <1>4, Zenon DEF OnUserPassCard, PassCard
  <2> QED
    BY <1>0, <2>1, CoinsStill
<1>5. ASSUME NEW c \in Chairs, NEW auto \in BOOLEAN, PlayerSetAuto(c, auto) PROVE CoinStep
  <2>1. UNCHANGED coinVars
    BY <1>5, Zenon DEF PlayerSetAuto
  <2> QED
    BY <1>0, <2>1, CoinsStill
<1>6. ASSUME NEW w \in waited..waited + 1, CallTick(w) PROVE CoinStep
  <2>1. CASE \E bid \in 0..TopBid : OnUserCallScore(curUser, bid)
    <3> PICK bid \in 0..TopBid : OnUserCallScore(curUser, bid)
      BY <2>1
    <3>1. bid \in Nat /\ curUser \in Chairs
      BY <1>0, <1>6, MoneyAssumption DEF CallTick
    <3> QED
      BY <3>1, BidCoins
  <2>2. CASE UNCHANGED coinVars
    BY <1>0, <2>2, CoinsStill
  <2> QED
    BY <1>6, <2>1, <2>2 DEF CallTick
<1>7. ASSUME NEW w \in waited..waited + 1, PlayTick(w) PROVE CoinStep
  <2>1. CASE \E S : OutCards(curUser, S)
    BY <2>1, OutCoins
  <2>2. CASE PassCard(curUser) \/ UNCHANGED coinVars
    <3>1. UNCHANGED coinVars
      BY <2>2, Zenon DEF PassCard
    <3> QED
      BY <1>0, <3>1, CoinsStill
  <2>3. (\E S : OutCards(curUser, S)) \/ PassCard(curUser) \/ UNCHANGED coinVars
    BY <1>7, Zenon DEF PlayTick, OnOutCardTimeOut, OnAutoCard
  <2> QED
    BY <2>1, <2>2, <2>3
<1> QED
  BY <1>1, <1>2, <1>3, <1>4, <1>5, <1>6, <1>7 DEF Next, OnTimeTick

\* Fees and settlements make no coins and lose none, but for a start fee that
\* somebody could not pay, and nobody wins more than he carries.
THEOREM CoinsCorrect == Spec => CoinsKept
<1>1. PlayInv /\ [Next]_vars => [gameState = "free" \/ CoinStep]_vars
  BY CoinsStep
<1>2. [gameState = "free" \/ CoinStep]_vars
      => [gameState = "free" \/
          /\ \/ Total(score') + fees' = Total(score) + (IF gameState = "call" THEN 0 ELSE fees)
             \/ gameState = "call" /\ \E c \in Chairs : score[c] < StartFee
             \/ UNCHANGED coinVars
          /\ \A c \in Chairs : score'[c] <= 2 * score[c]]_vars
  BY DEF CoinStep
<1> QED
  BY <1>1, <1>2, PlayCorrect, PTL DEF Spec, CoinsKept

-----------------------------------------------------------------------------
(* The deck *)

\* Between two games, and before a game that nobody bids in, there is a deck.
LEMMA DeckIsWhole ==
  ASSUME PlayInv, DeckInv, ~misdealt, gameState # "play"
  PROVE  Deck = Cards
<1>1. pooled = Cardinality(outCards) /\ outCards \in {{}, Cards}
  BY DEF PlayInv, TypeOK, DeckInv, DeckWhole, HandsInv
<1>2. outCards = {} /\ pooled = Cardinality(Cards) => Cards = {}
  BY <1>1, CardsAssumption, FS_EmptySet
<1> QED
  BY <1>1, <1>2 DEF Deck

\* Hands that change places hold the same cards.
LEMMA SwapPlaces ==
  ASSUME NEW h \in [Chairs -> SUBSET Cards], NEW c \in Chairs, NEW d \in Chairs
  PROVE  /\ \A e \in Chairs : \E f \in Chairs : Swapped(h, c, d)[e] = h[f]
         /\ \A f \in Chairs : \E e \in Chairs : Swapped(h, c, d)[e] = h[f]
         /\ (\A e, f \in Chairs : e # f => h[e] \cap h[f] = {})
            => \A e, f \in Chairs : e # f => Swapped(h, c, d)[e] \cap Swapped(h, c, d)[f] = {}
<1> DEFINE pi(e) == IF e = c THEN d ELSE IF e = d THEN c ELSE e
<1>1. \A e \in Chairs : Swapped(h, c, d)[e] = h[pi(e)] /\ pi(e) \in Chairs /\ pi(pi(e)) = e
  BY DEF Swapped
<1> HIDE DEF pi
<1> QED
  BY <1>1

LEMMA DealDeck ==
  ASSUME PlayInv, DeckInv, gameState # "play", Deal
  PROVE  DeckInv'
<1> SUFFICES ASSUME ~misdealt' PROVE DeckInv'
  BY DEF DeckInv, DeckWhole, HandsInv
<1>0. ~misdealt
  BY Zenon DEF Deal
<1> PICK s \in Shuffles :
      LET dealt == [c \in Chairs |-> {k \in Deck : s[k] = c}]
      IN  /\ bankerCard' = {k \in Deck : s[k] = Bottom}
          /\ \/ \E c, d \in Chairs : handCards' = Swapped(dealt, c, d)
             \/ \E c \in Controlled, add \in 1..2, junk \in Behind :
                  /\ handCards' = GoodCardsAway(dealt, c, add, junk)
                  /\ c + add \in Chairs
  BY Zenon DEF Deal
<1> DEFINE dealt == [c \in Chairs |-> {k \in Cards : s[k] = c}]
<1>1. Deck = Cards
  BY <1>0, DeckIsWhole
<1>2. s \in [Cards -> Chairs \cup {Bottom}] /\ \A c \in Chairs : \E k \in Cards : s[k] = c
  BY ShuffleAssumption
<1>3. dealt \in [Chairs -> SUBSET Cards]
  OBVIOUS
<1>4. bankerCard' = {k \in Cards : s[k] = Bottom}
  BY <1>1
<1>5. \E c, d \in Chairs : handCards' = Swapped(dealt, c, d)
  <2>1. CASE \E c, d \in Chairs : handCards' = Swapped(dealt, c, d)
    BY <2>1
  <2>2. CASE \E c \in Controlled, add \in 1..2, junk \in Behind :
               /\ handCards' = GoodCardsAway(dealt, c, add, junk)
               /\ c + add \in Chairs
    <3> PICK c \in Controlled, add \in 1..2, junk \in Behind :
               /\ handCards' = GoodCardsAway(dealt, c, add, junk)
               /\ c + add \in Chairs
      BY <2>2
    <3>1. c \in Chairs /\ c + add \in Chairs
      BY ChairAssumption
    <3> HIDE DEF dealt
    <3> QED
      BY <3>1 DEF GoodCardsAway
  <2> QED
    BY <1>1, <2>1, <2>2
<1> PICK a \in Chairs, b \in Chairs : handCards' = Swapped(dealt, a, b)
  BY <1>5
<1>6. \A c \in Chairs : dealt[c] # {} /\ dealt[c] \cap bankerCard' = {}
  BY <1>2, <1>4 DEF Chairs, Bottom
<1>7. \A c, d \in Chairs : c # d => dealt[c] \cap dealt[d] = {}
  OBVIOUS
<1>8. \A k \in Cards : k \in bankerCard' \/ \E c \in Chairs : k \in dealt[c]
  BY <1>2, <1>4
<1> HIDE DEF dealt
<1>9. /\ \A c \in Chairs : \E d \in Chairs : handCards'[c] = dealt[d]
      /\ \A d \in Chairs : \E c \in Chairs : handCards'[c] = dealt[d]
      /\ \A c, d \in Chairs : c # d => handCards'[c] \cap handCards'[d] = {}
  <2>1. /\ \A c \in Chairs : \E d \in Chairs : Swapped(dealt, a, b)[c] = dealt[d]
        /\ \A d \in Chairs : \E c \in Chairs : Swapped(dealt, a, b)[c] = dealt[d]
        /\ (\A c, d \in Chairs : c # d => dealt[c] \cap dealt[d] = {})
           => \A c, d \in Chairs : c # d => Swapped(dealt, a, b)[c] \cap Swapped(dealt, a, b)[d] = {}
    BY <1>3, SwapPlaces, Zenon
  <2> QED
    BY <1>7, <2>1, Zenon
<1>10. \A c \in Chairs : handCards'[c] # {} /\ handCards'[c] \cap bankerCard' = {}
  <2> SUFFICES ASSUME NEW c \in Chairs
               PROVE  handCards'[c] # {} /\ handCards'[c] \cap bankerCard' = {}
    OBVIOUS
  <2> PICK d \in Chairs : handCards'[c] = dealt[d]
    BY <1>9
  <2> QED
    BY <1>6
<1>11. \A k \in Cards : k \in bankerCard' \/ \E c \in Chairs : k \in handCards'[c]
  <2> SUFFICES ASSUME NEW k \in Cards, k \notin bankerCard'
               PROVE  \E c \in Chairs : k \in handCards'[c]
    OBVIOUS
  <2> PICK d \in Chairs : k \in dealt[d]
    BY <1>8
  <2> PICK c \in Chairs : handCards'[c] = dealt[d]
    BY <1>9
  <2> QED
    OBVIOUS
<1>12. gameState' = "call" /\ outCards' = {} /\ pooled' = Cardinality(outCards')
  BY FS_EmptySet DEF Deal
<1> QED
  BY <1>9, <1>10, <1>11, <1>12 DEF DeckInv, DeckWhole, HandsInv

\* The landlord takes up the bottom.
LEMMA BankerDeck ==
  ASSUME PlayInv, DeckInv, gameState = "call", NEW b \in Chairs, BankerBegins(b)
  PROVE  DeckInv'
<1>0. misdealt' = misdealt
  BY DEF BankerBegins
<1> SUFFICES ASSUME ~misdealt PROVE DeckInv'
  BY <1>0 DEF DeckInv, DeckWhole, HandsInv
<1>1. /\ handCards' = [handCards EXCEPT ![b] = @ \cup bankerCard] /\ bankerCard' = {}
      /\ outCards' = outCards /\ pooled' = pooled /\ gameState' = "play"
  BY DEF BankerBegins
<1>2. handCards \in [Chairs -> SUBSET Cards]
  BY DEF PlayInv, TypeOK
<1>3. \A c \in Chairs : handCards'[c] = IF c = b THEN handCards[c] \cup bankerCard ELSE handCards[c]
  BY <1>1, <1>2
<1>4. /\ pooled = Cardinality(outCards)
      /\ \A c, d \in Chairs : c # d => handCards[c] \cap handCards[d] = {}
      /\ \A c \in Chairs : handCards[c] \cap (bankerCard \cup outCards) = {}
      /\ bankerCard \cap outCards = {}
      /\ \A k \in Cards : k \in bankerCard \cup outCards \/ \E c \in Chairs : k \in handCards[c]
      /\ \A c \in Chairs : handCards[c] # {}
  BY DEF DeckInv, DeckWhole, HandsInv
<1>5. \A k \in Cards : k \in bankerCard' \cup outCards' \/ \E c \in Chairs : k \in handCards'[c]
  <2> SUFFICES ASSUME NEW k \in Cards, k \notin outCards
               PROVE  \E c \in Chairs : k \in handCards'[c]
    BY <1>1
  <2>1. CASE k \in bankerCard
    BY <1>3, <2>1
  <2>2. CASE \E c \in Chairs : k \in handCards[c]
    BY <1>3, <2>2
  <2> QED
    BY <1>4, <2>1, <2>2
<1>6. \A c, d \in Chairs : c # d => handCards'[c] \cap handCards'[d] = {}
  BY <1>3, <1>4
<1>7. \A c \in Chairs : handCards'[c] \cap (bankerCard' \cup outCards') = {} /\ handCards'[c] # {}
  BY <1>1, <1>3, <1>4
<1> QED
  BY <1>1, <1>4, <1>5, <1>6, <1>7 DEF DeckInv, DeckWhole, HandsInv

LEMMA BidDeck ==
  ASSUME PlayInv, DeckInv, NEW c \in Chairs, NEW bid \in Nat, OnUserCallScore(c, bid)
  PROVE  DeckInv'
<1>1. gameState = "call"
  BY DEF OnUserCallScore
<1>2. CASE \E b \in Chairs : BankerBegins(b)
  BY <1>1, <1>2, BankerDeck
<1>3. CASE ReGameStart
  BY <1>1, <1>3, DealDeck DEF ReGameStart
<1>4. CASE UNCHANGED <<gameState, deckVars>>
  BY <1>4 DEF DeckInv, DeckWhole, HandsInv, deckVars
<1>5. (\E b \in Chairs : BankerBegins(b)) \/ ReGameStart \/ UNCHANGED <<gameState, deckVars>>
  BY Zenon DEF OnUserCallScore
<1> QED
  BY <1>2, <1>3, <1>4, <1>5

LEMMA OutDeck ==
  ASSUME PlayInv, DeckInv, NEW c, NEW S, OutCards(c, S)
  PROVE  DeckInv'
<1>0. misdealt' = misdealt
  BY DEF OutCards
<1> SUFFICES ASSUME ~misdealt PROVE DeckInv'
  BY <1>0 DEF DeckInv, DeckWhole, HandsInv
<1>1. /\ gameState = "play" /\ c \in Chairs /\ S \subseteq handCards[c]
      /\ bankerCard = {} /\ bankerCard' = {}
  BY DEF PlayInv, BidInv, OutCards, MayPlay, DeckInv, HandsInv
<1>2. /\ pooled = Cardinality(outCards)
      /\ \A d, e \in Chairs : d # e => handCards[d] \cap handCards[e] = {}
      /\ \A d \in Chairs : handCards[d] \cap outCards = {} /\ handCards[d] # {}
      /\ \A k \in Cards : k \in outCards \/ \E d \in Chairs : k \in handCards[d]
  BY <1>1 DEF DeckInv, DeckWhole, HandsInv
<1>3. /\ handCards \in [Chairs -> SUBSET Cards]
      /\ \A T \in SUBSET Cards : IsFiniteSet(T) /\ Cardinality(T) \in Nat
      /\ outCards \subseteq Cards
  BY CardsAssumption, FS_Subset, FS_CardinalityType DEF PlayInv, TypeOK
<1>4. \A T, U \in SUBSET Cards : T \cap U = {} => Cardinality(T \cup U) = Cardinality(T) + Cardinality(U)
  <2> SUFFICES ASSUME NEW T \in SUBSET Cards, NEW U \in SUBSET Cards, T \cap U = {}
               PROVE  Cardinality(T \cup U) = Cardinality(T) + Cardinality(U)
    OBVIOUS
  <2>1. Cardinality(T \cup U) = Cardinality(T) + Cardinality(U) - Cardinality(T \cap U)
    BY <1>3, FS_Union
  <2> QED
    BY <1>3, <2>1, FS_EmptySet
<1>5. CASE GoesOn(c, S)
  <2>1. /\ handCards' = [handCards EXCEPT ![c] = @ \ S] /\ handCards[c] # S
        /\ outCards' = outCards \cup S /\ pooled' = pooled + Cardinality(S)
        /\ gameState' = "play"
    BY <1>1, <1>5 DEF GoesOn
  <2>2. \A d \in Chairs : handCards'[d] = IF d = c THEN handCards[d] \ S ELSE handCards[d]
    BY <1>3, <2>1
  <2>3. pooled' = Cardinality(outCards')
    <3>1. S \in SUBSET Cards /\ outCards \cap S = {}
      BY <1>1, <1>2, <1>3
    <3> QED
      BY <1>2, <1>3, <1>4, <2>1, <3>1
  <2>4. \A k \in Cards : k \in outCards' \/ \E d \in Chairs : k \in handCards'[d]
    <3> SUFFICES ASSUME NEW k \in Cards, k \notin outCards, k \notin S
                 PROVE  \E d \in Chairs : k \in handCards'[d]
      BY <2>1
    <3> PICK d \in Chairs : k \in handCards[d]
      BY <1>2
    <3> QED
      BY <2>2
  <2>5. \A d, e \in Chairs : d # e => handCards'[d] \cap handCards'[e] = {}
    BY <1>2, <2>2
  <2>6. \A d \in Chairs : handCards'[d] \cap outCards' = {} /\ handCards'[d] # {}
    BY <1>1, <1>2, <2>1, <2>2
  <2> QED
    BY <1>1, <2>1, <2>3, <2>4, <2>5, <2>6 DEF DeckInv, DeckWhole, HandsInv
<1>6. CASE OnGameEnd(c, S)
  <2> DEFINE left == [handCards EXCEPT ![c] = {}]
  <2>1. /\ outCards' = outCards \cup left[0] \cup left[1] \cup left[2] \cup S
        /\ pooled' = pooled + Cardinality(left[0]) + Cardinality(left[1])
                       + Cardinality(left[2]) + Cardinality(S)
        /\ handCards[c] = S /\ handCards' = NoHands /\ gameState' = "free"
    BY <1>6 DEF OnGameEnd
  <2>2. left \in [Chairs -> SUBSET Cards]
    BY <1>3
  <2>3. \A d \in Chairs : left[d] = IF d = c THEN {} ELSE handCards[d]
    BY <1>3
  <2> HIDE DEF left
  <2>4. \A d, e \in Chairs : d # e => left[d] \cap left[e] = {}
    BY <1>2, <2>3
  <2>5. \A d \in Chairs : left[d] \cap outCards = {} /\ left[d] \cap S = {}
    BY <1>1, <1>2, <2>1, <2>3
  <2>6. S \cap outCards = {} /\ S \subseteq Cards
    BY <1>1, <1>2, <1>3, <2>1
  <2>7. 0 \in Chairs /\ 1 \in Chairs /\ 2 \in Chairs
    BY DEF Chairs
  <2>8. left[0] \subseteq Cards /\ left[1] \subseteq Cards /\ left[2] \subseteq Cards
    BY <2>2, <2>7
  <2>9. pooled' = Cardinality(outCards')
    <3> DEFINE P0 == outCards \cup left[0]
               P1 == P0 \cup left[1]
               P2 == P1 \cup left[2]
    <3>1. Cardinality(P0) = Cardinality(outCards) + Cardinality(left[0])
      BY <1>3, <1>4, <2>5, <2>7, <2>8
    <3>2. Cardinality(P1) = Cardinality(P0) + Cardinality(left[1])
      <4>1. P0 \cap left[1] = {} /\ P0 \subseteq Cards
        BY <1>3, <2>4, <2>5, <2>7, <2>8
      <4> HIDE DEF P0
      <4> QED
        BY <1>4, <2>8, <4>1
    <3>3. Cardinality(P2) = Cardinality(P1) + Cardinality(left[2])
      <4>1. P1 \cap left[2] = {} /\ P1 \subseteq Cards
        BY <1>3, <2>4, <2>5, <2>7, <2>8
      <4> HIDE DEF P1
      <4> QED
        BY <1>4, <2>8, <4>1
    <3>4. Cardinality(P2 \cup S) = Cardinality(P2) + Cardinality(S)
      <4>1. P2 \cap S = {} /\ P2 \subseteq Cards
        BY <1>3, <2>5, <2>6, <2>7, <2>8
      <4> HIDE DEF P2
      <4> QED
        BY <1>4, <2>6, <4>1
    <3>5. outCards' = P2 \cup S
      BY <2>1
    <3> HIDE DEF P0, P1, P2
    <3> QED
      BY <1>2, <2>1, <3>1, <3>2, <3>3, <3>4, <3>5
  <2>10. outCards' = Cards
    <3>1. outCards' \subseteq Cards
      BY <1>3, <2>1, <2>6, <2>8
    <3>2. ASSUME NEW k \in Cards, k \notin outCards, k \notin S
          PROVE  k \in left[0] \/ k \in left[1] \/ k \in left[2]
      <4> PICK d \in Chairs : k \in handCards[d]
        BY <1>2, <3>2
      <4>1. k \in left[d]
        BY <2>1, <2>3, <3>2
      <4> QED
        BY <4>1 DEF Chairs
    <3> QED
      BY <2>1, <3>1, <3>2
  <2>11. \A d \in Chairs : handCards'[d] = {}
    BY <2>1 DEF NoHands
  <2> QED
    BY <1>1, <2>1, <2>9, <2>10, <2>11 DEF DeckInv, DeckWhole, HandsInv
<1> QED
  BY <1>5, <1>6 DEF OutCards

LEMMA DeckStill == DeckInv /\ UNCHANGED <<gameState, deckVars>> => DeckInv'
  BY DEF DeckInv, DeckWhole, HandsInv, deckVars

LEMMA DeckInit == Init => DeckInv
<1> SUFFICES ASSUME Init PROVE DeckInv
  OBVIOUS
<1>1. /\ gameState = "free" /\ handCards = NoHands /\ bankerCard = {}
      /\ outCards = {} /\ pooled = 0
  BY DEF Init
<1>2. \A c \in Chairs : NoHands[c] = {}
  BY DEF NoHands
<1> QED
  BY <1>1, <1>2, FS_EmptySet DEF DeckInv, DeckWhole, HandsInv

LEMMA DeckStep == PlayInv /\ DeckInv /\ [Next]_vars => DeckInv'
<1> SUFFICES ASSUME PlayInv, DeckInv, [Next]_vars PROVE DeckInv'
  OBVIOUS
<1>1. CASE OnGameStart
  BY <1>1, DealDeck DEF OnGameStart
<1>2. ASSUME NEW c \in Chairs, UserCallScore(c) PROVE DeckInv'
  <2> PICK bid \in 0..TopBid + 1 : OnUserCallScore(c, bid)
    BY <1>2 DEF UserCallScore
  <2>1. bid \in Nat
    BY MoneyAssumption
  <2> QED
    BY <2>1, BidDeck
<1>3. ASSUME NEW c \in Chairs, OnUserOutCard(c) PROVE DeckInv'
  BY <1>3, OutDeck DEF OnUserOutCard
<1>4. ASSUME NEW c \in Chairs, OnUserPassCard(c) PROVE DeckInv'
  <2>1. UNCHANGED <<gameState, deckVars>>
    BY <1>4, Zenon DEF OnUserPassCard, PassCard
  <2> QED
    BY <2>1, DeckStill
<1>5. ASSUME NEW c \in Chairs, NEW auto \in BOOLEAN, PlayerSetAuto(c, auto) PROVE DeckInv'
  <2>1. UNCHANGED <<gameState, deckVars>>
    BY <1>5, Zenon DEF PlayerSetAuto
  <2> QED
    BY <2>1, DeckStill
<1>6. ASSUME NEW w \in waited..waited + 1, CallTick(w) PROVE DeckInv'
  <2>1. CASE \E bid \in 0..TopBid : OnUserCallScore(curUser, bid)
    <3> PICK bid \in 0..TopBid : OnUserCallScore(curUser, bid)
      BY <2>1
    <3>1. bid \in Nat /\ curUser \in Chairs
      BY <1>6, MoneyAssumption DEF CallTick, PlayInv, BidInv
    <3> QED
      BY <3>1, BidDeck
  <2>2. CASE UNCHANGED <<gameState, deckVars>>
    BY <2>2, DeckStill
  <2> QED
    BY <1>6, <2>1, <2>2 DEF CallTick
<1>7. ASSUME NEW w \in waited..waited + 1, PlayTick(w) PROVE DeckInv'
  <2>1. CASE \E S : OutCards(curUser, S)
    BY <2>1, OutDeck
  <2>2. CASE PassCard(curUser) \/ UNCHANGED <<gameState, deckVars>>
    <3>1. UNCHANGED <<gameState, deckVars>>
      BY <2>2, Zenon DEF PassCard
    <3> QED
      BY <3>1, DeckStill
  <2>3. (\E S : OutCards(curUser, S)) \/ PassCard(curUser) \/ UNCHANGED <<gameState, deckVars>>
    BY <1>7, Zenon DEF PlayTick, OnOutCardTimeOut, OnAutoCard
  <2> QED
    BY <2>1, <2>2, <2>3
<1>8. CASE UNCHANGED vars
  BY <1>8, DeckStill DEF vars
<1> QED
  BY <1>1, <1>2, <1>3, <1>4, <1>5, <1>6, <1>7, <1>8 DEF Next, OnTimeTick

LEMMA PlayDeckCorrect == Spec => [](PlayInv /\ DeckInv)
<1>1. Init => PlayInv /\ DeckInv
  BY PlayInit, DeckInit
<1>2. PlayInv /\ DeckInv /\ [Next]_vars => PlayInv' /\ DeckInv'
  BY PlayStep, DeckStep
<1> QED
  BY <1>1, <1>2, PTL DEF Spec

\* No card is lost or doubled from one deal to the next, whomever the controls
\* set to lose, until they take a hand behind the last chair.
THEOREM DeckCorrect == Spec => []DeckWhole
<1>1. PlayInv /\ DeckInv => DeckWhole
  BY DEF DeckInv
<1> QED
  BY <1>1, PlayDeckCorrect, PTL

\* The turn machine never gets stuck: it is a chair's turn, who leads is the one
\* that won the last trick and the landlord bid most, whatever the controls do;
\* and everybody has cards until they take a hand behind the last chair.
THEOREM TurnCorrect == Spec => []TurnSound
<1>1. PlayInv /\ DeckInv => TurnSound
  BY DEF PlayInv, BidInv, TurnInv, DeckInv, HandsInv, TurnSound
<1> QED
  BY <1>1, PlayDeckCorrect, PTL
=============================================================================
