------------------------------ MODULE LandGame ------------------------------
(***************************************************************************)
(* One game after the other at a landlord table whose three chairs stay    *)
(* taken: dealing, bidding, playing in turn, the room's tick that acts for *)
(* robots, for hosted players and for those whose time is up, settlement   *)
(* and the pile of played cards the next deal is shuffled from.            *)
(* land_robot_server/src/game_imple_table.cpp; seats, fees and coins are   *)
(* game_server/src/game_table.cpp's.                                       *)
(*                                                                         *)
(* Who comes and goes between two games is LandRoom's affair, and the      *)
(* stock's share of a game RoomStock's.  Which cards make a combination,   *)
(* which one beats another and what a robot thinks is data here: the       *)
(* constants say what is legal, a robot may play anything that is.         *)
(***************************************************************************)
EXTENDS Integers, FiniteSets

CONSTANTS
  Cards,       \* the deck (FULL_POKER_COUNT)
  Combos,      \* what GetCardType accepts
  Bombs,       \* combinations that double the score (bombs, missile)
  Beats,       \* CompareCard: pairs of combinations, the second beats the first
  Lowest,      \* the smallest card of a set of cards, the last of a sorted hand
  Shuffles,    \* what a shuffle may do: the chair, or the bottom, of each card
  Controlled,  \* chairs whose player may be set to lose (SetControlPalyerLost)
  Robots,      \* chairs a robot sits in
  TopBid,      \* the bid that ends the bidding
  BaseScore,   \* m_conf.baseScore
  FeeType,     \* m_conf.feeType
  FeeValue,    \* m_conf.feeValue, in parts of 10000
  Purses       \* what three players may bring to a game

Chairs == 0..2
NoChair == 3
Bottom == 3

ASSUME CardsAssumption == IsFiniteSet(Cards)
ASSUME ComboAssumption ==
  /\ Combos \subseteq SUBSET Cards /\ {} \notin Combos
  /\ \A k \in Cards : {k} \in Combos
  /\ Bombs \subseteq Combos
ASSUME LowestAssumption == \A S \in SUBSET Cards : S # {} => Lowest[S] \in S
ASSUME ShuffleAssumption ==
  /\ Shuffles \subseteq [Cards -> Chairs \cup {Bottom}]
  /\ \A s \in Shuffles, c \in Chairs : \E k \in Cards : s[k] = c
ASSUME ChairAssumption == Controlled \subseteq Chairs /\ Robots \subseteq Chairs
ASSUME MoneyAssumption ==
  /\ TopBid \in Nat \ {0} /\ BaseScore \in Nat
  /\ FeeValue \in 0..10000 /\ FeeType \in {"none", "win", "allbase"}
  /\ Purses \subseteq [Chairs -> Nat]

VARIABLES
  gameState,   \* "free", "call" or "play"
  firstUser,   \* m_firstUser: who bids first
  bankerUser,  \* m_bankerUser: the landlord
  curUser,     \* m_curUser: whose turn it is
  callScore,   \* m_callScore: the bids; their maximum is m_curCallScore
  handCards,   \* m_handCardData
  bankerCard,  \* m_bankerCard while nobody has taken it up
  turnCards,   \* m_turnCardData: what is to be beaten, {} when a trick begins
  turnWiner,   \* m_turnWiner: who played it
  plays,       \* m_outCardCount, counted up to 2
  bombTimes,   \* scoreTimes: 2 for each of the m_bombCount bombs
  outCards,    \* m_outCards: the pile
  pooled,      \* m_outCards.size()
  misdealt,    \* (history) a deal took the good cards to a chair that is none
  autoState,   \* autoState: hosted
  overTimes,   \* overTimes: how often the time was up
  waited,      \* m_coolLogic: 0 since a moment, 1 for more than a second
  score,       \* GetPlayerCurScore
  fees         \* the fees in the log of this game (m_blingLog)

turnVars == <<bankerUser, curUser, callScore, turnCards, turnWiner, plays, bombTimes>>
deckVars == <<handCards, bankerCard, outCards, pooled, misdealt>>
seatVars == <<autoState, overTimes>>
coinVars == <<score, fees>>
vars == <<gameState, firstUser, turnVars, deckVars, seatVars, waited, coinVars>>

After(c) == (c + 1) % 3
Total(s) == s[0] + s[1] + s[2]
Least(a, b) == IF a <= b THEN a ELSE b
NoBids == [c \in Chairs |-> 0]
NoTimes == [c \in Chairs |-> 0]
NotHosted == [c \in Chairs |-> FALSE]
NoHands == [c \in Chairs |-> {}]

-----------------------------------------------------------------------------
(* Dealing *)

\* ShuffleTableCard: the pile of the last game, or a new deck.
Deck == IF pooled = Cardinality(Cards) THEN outCards ELSE Cards

Swapped(h, c, d) == [h EXCEPT ![c] = h[d], ![d] = h[c]]

\* Memory behind m_handCardData: a hand OnSubBankerInfo saved in an earlier game.
Behind == {{}} \cup {{k \in Cards : s[k] = 0} : s \in Shuffles}

\* SetControlPalyerLost: the player at c was dealt the good cards, and chair
\* c + add gets them.  add % GAME_LAND_PLAYER binds closer than the sum.  A card
\* that is in two hands from then on is the same card here, and a blank none.
GoodCardsAway(h, c, add, junk) ==
  IF c + add \in Chairs THEN Swapped(h, c, c + add) ELSE [h EXCEPT ![c] = junk]

\* OnGameStart: a deal, which two hands may change places after (the controls
\* SetControlPalyerWin, robotBankerWinPro, SetStockWinLose), and who begins.
Deal ==
  /\ \E s \in Shuffles :
       LET dealt == [c \in Chairs |-> {k \in Deck : s[k] = c}]
       IN  /\ bankerCard' = {k \in Deck : s[k] = Bottom}
           /\ \/ \E c, d \in Chairs : handCards' = Swapped(dealt, c, d)
                 /\ misdealt' = misdealt
              \/ \E c \in Controlled, add \in 1..2, junk \in Behind :
                   /\ handCards' = GoodCardsAway(dealt, c, add, junk)
                   /\ misdealt' = (misdealt \/ c + add \notin Chairs)
  /\ outCards' = {} /\ pooled' = 0
  /\ gameState' = "call"
  /\ \E c \in Chairs : firstUser' = c /\ curUser' = c
  /\ waited' = 0

\* ResetGameData and the turn variables OnGameStart sets.
ResetGame ==
  /\ bankerUser' = NoChair /\ callScore' = NoBids
  /\ turnCards' = {} /\ turnWiner' = NoChair
  /\ plays' = NoTimes /\ bombTimes' = 1

ResetPlayerReady == autoState' = NotHosted /\ overTimes' = NoTimes

\* The tick finds three ready players.  They are not those of the last game,
\* or have been elsewhere with their coins.
OnGameStart ==
  /\ gameState = "free"
  /\ Deal /\ ResetGame
  /\ score' \in Purses /\ fees' = 0
  /\ UNCHANGED seatVars

-----------------------------------------------------------------------------
(* Bidding *)

\* DeductStartFee: ChangeAccountValue takes no more than there is, the log and
\* the host's income count the whole fee.
StartFee == IF FeeType = "allbase" THEN (BaseScore * FeeValue) \div 10000 ELSE 0

DeductStartFee ==
  /\ score' = [c \in Chairs |-> score[c] - Least(score[c], StartFee)]
  /\ fees' = 3 * StartFee

\* The end of OnUserCallScore: the landlord takes up the bottom cards.
BankerBegins(b) ==
  /\ gameState' = "play"
  /\ bankerUser' = b /\ curUser' = b /\ turnWiner' = b
  /\ handCards' = [handCards EXCEPT ![b] = @ \cup bankerCard]
  /\ bankerCard' = {}
  /\ DeductStartFee
  /\ waited' = 0
  /\ UNCHANGED <<firstUser, turnCards, plays, bombTimes, outCards, pooled, misdealt, seatVars>>

\* ReGameStart: nobody bid.
ReGameStart ==
  /\ Deal /\ ResetGame /\ ResetPlayerReady
  /\ UNCHANGED coinVars

\* OnUserCallScore.  A bid that is no higher than those before counts as none.
OnUserCallScore(c, bid) ==
  /\ gameState = "call" /\ c = curUser
  /\ LET heard == IF bid <= TopBid /\ \A d \in Chairs : callScore[d] < bid THEN bid ELSE 0
         bids == [callScore EXCEPT ![c] = heard]
         last == firstUser = After(c)
     IN  \/ /\ heard = TopBid
            /\ BankerBegins(c) /\ callScore' = bids
         \/ /\ heard # TopBid /\ last
            /\ \E b \in Chairs :
                 /\ bids[b] > 0 /\ \A d \in Chairs : bids[d] <= bids[b]
                 /\ BankerBegins(b)
            /\ callScore' = bids
         \/ /\ heard # TopBid /\ last /\ bids = NoBids
            /\ ReGameStart
         \/ /\ heard # TopBid /\ ~last
            /\ curUser' = After(c) /\ callScore' = bids
            /\ waited' = 0
            /\ UNCHANGED <<gameState, firstUser, bankerUser, turnCards, turnWiner, plays,
                           bombTimes, deckVars, seatVars, coinVars>>

-----------------------------------------------------------------------------
(* Settlement: OnGameEnd(GER_NORMAL), which OnUserOutCard calls when a hand is *)
(* empty.                                                                      *)

\* Spring: the farmers never played; or the landlord played only once.
Spring(w, played) ==
  IF w = bankerUser THEN \A c \in Chairs \ {w} : played[c] = 0
  ELSE played[bankerUser] = 1

\* userScore: the base score, doubled by each bomb and by spring, times the bid.
UserScore(w, played, times) ==
  BaseScore * times * (IF Spring(w, played) THEN 2 ELSE 1) * callScore[bankerUser]

\* A mistake: nobody looks at what the landlord carries.
BrokenPasses(f, stake) == Least(stake, score[f])

\* What passes between the landlord and farmer f: no more than either carries.
Passes(f, stake) == Least(stake, Least(score[f], score[bankerUser] \div 2))

\* calcScore: what each chair wins or loses before fees.
CalcScore(w, stake) ==
  LET won(f) == IF w = bankerUser THEN 0 - Passes(f, stake) ELSE Passes(f, stake)
      f1 == After(bankerUser)
      f2 == After(f1)
  IN  [c \in Chairs |-> IF c = bankerUser THEN 0 - (won(f1) + won(f2)) ELSE won(c)]

\* DeducEndFee
EndFee(won) == IF FeeType = "win" /\ won > 0 THEN (won * FeeValue) \div 10000 ELSE 0

\* ChangeAccountValue takes no more than there is.
Settle(won) ==
  /\ score' = [c \in Chairs |-> LET new == score[c] + won[c] - EndFee(won[c])
                                IN  IF new < 0 THEN 0 ELSE new]
  /\ fees' = fees + EndFee(won[0]) + EndFee(won[1]) + EndFee(won[2])

-----------------------------------------------------------------------------
(* Playing *)

\* What OnUserOutCard accepts.
MayPlay(c, S) ==
  /\ gameState = "play" /\ c = curUser
  /\ S \in Combos /\ S \subseteq handCards[c]
  /\ turnCards # {} => <<turnCards, S>> \in Beats

\* OnUserOutCard puts S on the table.
GoesOn(c, S) ==
  /\ handCards[c] # S
  /\ handCards' = [handCards EXCEPT ![c] = @ \ S]
  /\ outCards' = outCards \cup S /\ pooled' = pooled + Cardinality(S)
  /\ turnCards' = S /\ turnWiner' = c /\ curUser' = After(c)
  /\ plays' = [plays EXCEPT ![c] = Least(@ + 1, 2)]
  /\ bombTimes' = IF S \in Bombs THEN 2 * bombTimes ELSE bombTimes
  /\ UNCHANGED <<gameState, firstUser, bankerUser, callScore, coinVars>>

\* A mistake: the cards just played do not reach the pile of the next deal.
BrokenLosesLastCards(c, S) ==
  /\ handCards[c] = S
  /\ LET played == [plays EXCEPT ![c] = Least(@ + 1, 2)]
     IN  Settle(CalcScore(c, UserScore(c, played, bombTimes)))
  /\ LET left == [handCards EXCEPT ![c] = {}]
     IN  /\ outCards' = outCards \cup left[0] \cup left[1] \cup left[2]
         /\ pooled' = pooled + Cardinality(left[0]) + Cardinality(left[1])
                        + Cardinality(left[2])
  /\ handCards' = NoHands
  /\ gameState' = "free"
  /\ ResetGame /\ firstUser' = c /\ curUser' = NoChair

\* OnGameEnd, which OnUserOutCard calls when the hand is empty: the hands that
\* are left go to the pile, and the cards just played follow when it is done.
OnGameEnd(c, S) ==
  /\ handCards[c] = S
  /\ LET played == [plays EXCEPT ![c] = Least(@ + 1, 2)]
         times == IF S \in Bombs THEN 2 * bombTimes ELSE bombTimes
     IN  Settle(CalcScore(c, UserScore(c, played, times)))
  /\ LET left == [handCards EXCEPT ![c] = {}]
     IN  /\ outCards' = outCards \cup left[0] \cup left[1] \cup left[2] \cup S
         /\ pooled' = pooled + Cardinality(left[0]) + Cardinality(left[1])
                        + Cardinality(left[2]) + Cardinality(S)
  /\ handCards' = NoHands
  /\ gameState' = "free"
  /\ ResetGame /\ firstUser' = c /\ curUser' = NoChair

\* What the seats remember after a step: a game that ends forgets it.
SeatsAfter(over, auto) ==
  IF gameState' = "free" THEN ResetPlayerReady
  ELSE overTimes' = over /\ autoState' = auto

OutCards(c, S) ==
  /\ MayPlay(c, S)
  /\ GoesOn(c, S) \/ OnGameEnd(c, S)
  /\ waited' = 0
  /\ UNCHANGED <<bankerCard, misdealt>>

\* A mistake: the winner of the trick has to beat his own cards.
BrokenTrickGoesOn(c) ==
  /\ gameState = "play" /\ c = curUser /\ turnCards # {}
  /\ curUser' = After(c) /\ waited' = 0
  /\ UNCHANGED <<gameState, firstUser, bankerUser, callScore, turnCards, turnWiner, plays,
                 bombTimes, deckVars, coinVars>>

\* OnUserPassCard: when both others passed, the winner of the trick leads.
PassCard(c) ==
  /\ gameState = "play" /\ c = curUser /\ turnCards # {}
  /\ curUser' = After(c)
  /\ turnCards' = IF After(c) = turnWiner THEN {} ELSE turnCards
  /\ waited' = 0
  /\ UNCHANGED <<gameState, firstUser, bankerUser, callScore, turnWiner, plays, bombTimes,
                 deckVars, coinVars>>

-----------------------------------------------------------------------------
(* What a client asks for *)

UserCallScore(c) ==
  /\ c \notin Robots
  /\ \E bid \in 0..TopBid + 1 : OnUserCallScore(c, bid)

OnUserOutCard(c) ==
  /\ c \notin Robots
  /\ \E S \in Combos : OutCards(c, S)
  /\ SeatsAfter(overTimes, autoState)

OnUserPassCard(c) ==
  /\ c \notin Robots
  /\ PassCard(c)
  /\ SeatsAfter(overTimes, autoState)

\* The client asks to be hosted or not; a player that reconnects is not.
PlayerSetAuto(c, auto) ==
  /\ c \notin Robots /\ autoState[c] # auto
  /\ autoState' = [autoState EXCEPT ![c] = auto]
  /\ overTimes' = [overTimes EXCEPT ![c] = 0]
  /\ UNCHANGED <<gameState, firstUser, turnVars, deckVars, waited, coinVars>>

-----------------------------------------------------------------------------
(* The tick.  w tells how long the turn has lasted when it comes: 0 less than *)
(* a second, 1 longer, 2 the time is up.  It comes every second, so one comes *)
(* at 1 before one can come at 2.  A robot has made up its mind at 1, before  *)
(* any time is up.                                                            *)

\* A mistake: hosted after the third time.
BrokenMarkedLate(over, c) == [autoState EXCEPT ![c] = @ \/ over[c] = 3]

\* Twice too late: hosted (the tick looks at who is to play now).
Marked(over, c) == [autoState EXCEPT ![c] = @ \/ over[c] = 2]

\* A mistake: the time-out leads a card, and never passes.
BrokenOnlyLeads ==
  LET over == [overTimes EXCEPT ![curUser] = @ + 1]
  IN  /\ turnCards = {} /\ OutCards(curUser, {Lowest[handCards[curUser]]})
      /\ SeatsAfter(over, Marked(over, After(curUser)))

\* OnOutCardTimeOut: lead the smallest card, or pass.
OnOutCardTimeOut ==
  LET over == [overTimes EXCEPT ![curUser] = @ + 1]
  IN  /\ \/ turnCards = {} /\ OutCards(curUser, {Lowest[handCards[curUser]]})
         \/ PassCard(curUser)
      /\ SeatsAfter(over, Marked(over, After(curUser)))

\* OnUserAutoCard and OnRobotOutCard: what the robot's mind thinks of if it is
\* legal, else the smallest card or a pass.  The last card is played if it can be.
OnAutoCard(auto) ==
  /\ \/ \E S \in Combos : OutCards(curUser, S)
     \/ /\ PassCard(curUser)
        /\ Cardinality(handCards[curUser]) = 1 => ~MayPlay(curUser, handCards[curUser])
  /\ SeatsAfter(overTimes, auto)

\* A mistake: nobody bids for a player whose time is up.
BrokenWaitsForBid(w) ==
  /\ gameState = "call"
  /\ IF w = 1 /\ curUser \in Robots
     THEN \E bid \in 0..TopBid : OnUserCallScore(curUser, bid)
     ELSE waited' = w /\ UNCHANGED <<gameState, firstUser, turnVars, deckVars, seatVars, coinVars>>

CallTick(w) ==
  /\ gameState = "call"
  /\ IF w = 2 \/ (w = 1 /\ curUser \in Robots)
     THEN \E bid \in 0..TopBid : OnUserCallScore(curUser, bid)
     ELSE waited' = w /\ UNCHANGED <<gameState, firstUser, turnVars, deckVars, seatVars, coinVars>>

PlayTick(w) ==
  /\ gameState = "play"
  /\ LET auto == Marked(overTimes, curUser)
         acts == curUser \in Robots \/ auto[curUser]
     IN  IF w = 2 THEN OnOutCardTimeOut
         ELSE IF w = 1 /\ acts THEN OnAutoCard(auto)
         ELSE /\ waited' = w /\ autoState' = auto
              /\ UNCHANGED <<gameState, firstUser, turnVars, deckVars, overTimes, coinVars>>

OnTimeTick(w) == CallTick(w) \/ PlayTick(w)

-----------------------------------------------------------------------------
Init ==
  /\ gameState = "free"
  /\ firstUser = NoChair /\ bankerUser = NoChair /\ curUser = NoChair
  /\ callScore = NoBids /\ turnCards = {} /\ turnWiner = NoChair
  /\ plays = NoTimes /\ bombTimes = 1
  /\ handCards = NoHands /\ bankerCard = {}
  /\ outCards = {} /\ pooled = 0 /\ misdealt = FALSE
  /\ autoState = NotHosted /\ overTimes = NoTimes
  /\ waited = 0
  /\ score \in Purses /\ fees = 0

Next ==
  \/ OnGameStart
  \/ \E c \in Chairs :
       \/ UserCallScore(c)
       \/ OnUserOutCard(c)
       \/ OnUserPassCard(c)
       \/ \E auto \in BOOLEAN : PlayerSetAuto(c, auto)
  \/ \E w \in waited..waited + 1 : OnTimeTick(w)

Spec == Init /\ [][Next]_vars

\* The room's tick comes again and again, and time passes between them.
FairSpec == Spec /\ WF_vars(OnTimeTick(waited + 1))

-----------------------------------------------------------------------------
TypeOK ==
  /\ gameState \in {"free", "call", "play"}
  /\ {firstUser, bankerUser, curUser, turnWiner} \subseteq Chairs \cup {NoChair}
  /\ callScore \in [Chairs -> 0..TopBid]
  /\ handCards \in [Chairs -> SUBSET Cards] /\ bankerCard \subseteq Cards
  /\ turnCards \in Combos \cup {{}}
  /\ plays \in [Chairs -> 0..2] /\ bombTimes \in Nat \ {0}
  /\ outCards \subseteq Cards /\ pooled \in Nat /\ misdealt \in BOOLEAN
  /\ autoState \in [Chairs -> BOOLEAN] /\ overTimes \in [Chairs -> Nat]
  /\ waited \in 0..1
  /\ score \in [Chairs -> Nat] /\ fees \in Nat

\* No card is lost or doubled from one deal to the next: during a game each card
\* is in one hand, at the bottom or on the pile; between games the pile is the
\* whole deck, as ShuffleTableCard expects of one that has its size, or empty.
\* This is so until a deal takes the good cards behind the last chair, and then
\* not any more: the pile has the deck's size again, but not its cards.
DeckWhole ==
  ~misdealt =>
    /\ pooled = Cardinality(outCards)
    /\ \A c, d \in Chairs : c # d => handCards[c] \cap handCards[d] = {}
    /\ \A c \in Chairs : handCards[c] \cap (bankerCard \cup outCards) = {}
    /\ bankerCard \cap outCards = {}
    /\ IF gameState = "free" THEN outCards \in {{}, Cards}
       ELSE \A k \in Cards : k \in bankerCard \cup outCards \/ \E c \in Chairs : k \in handCards[c]

\* The turn machine never gets stuck: while bidding or playing it is a chair's
\* turn and everybody has cards, unless a hand has gone behind the last chair; who
\* has to beat nothing is the one that won the last trick; and the landlord is the
\* one who bid more than the others.
TurnSound ==
  /\ gameState # "free" => curUser \in Chairs /\ (misdealt \/ \A c \in Chairs : handCards[c] # {})
  /\ gameState = "call" =>
       /\ firstUser \in Chairs /\ bankerUser = NoChair
       /\ callScore[curUser] = 0 /\ callScore[firstUser] < TopBid
       /\ After(curUser) # firstUser => callScore[After(curUser)] = 0
  /\ gameState = "play" =>
       /\ bankerUser \in Chairs /\ turnWiner \in Chairs
       /\ turnCards = {} <=> curUser = turnWiner
       /\ \A c \in Chairs \ {bankerUser} : callScore[c] < callScore[bankerUser]

\* "Hosted after two timeouts": nobody keeps the table waiting a third time, since
\* the mark is set on the tick that begins his turn, and only an act of his takes
\* it away again.
NoThirdWait == \A c \in Chairs : overTimes[c] <= 2

\* Settlement makes no coins and loses none: what the chairs have and the fees in
\* the log add up as before, unless a player could not pay the start fee, and
\* nobody wins more than he carries.
CoinsKept ==
  [][gameState = "free" \/
     /\ \/ Total(score') + fees' = Total(score) + (IF gameState = "call" THEN 0 ELSE fees)
        \/ gameState = "call" /\ \E c \in Chairs : score[c] < StartFee
        \/ UNCHANGED coinVars
     /\ \A c \in Chairs : score'[c] <= 2 * score[c]]_vars

\* "Give the good cards to the next player": whatever the controls do to a deal,
\* its cards are in somebody's hand.
GoodCardsToPlayer ==
  gameState = "call" => \A k \in Cards \ bankerCard : \E c \in Chairs : k \in handCards[c]

\* A game that is played ends, whoever is away, when its cards have been dealt to
\* the chairs.
GameEnds == []<>(gameState # "play" \/ misdealt)
=============================================================================
