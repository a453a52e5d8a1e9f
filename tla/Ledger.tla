------------------------------- MODULE Ledger -------------------------------
(***************************************************************************)
(* What the accounts of the players promise: every change of what a player *)
(* is worth is booked against somebody else, in one step.                  *)
(*                                                                         *)
(* worth is what a player has once everything under way has arrived.  The  *)
(* other accounts are the games (house), the web site (site), the tax on   *)
(* gifts (tax), what was given or lost and could not be taken from the     *)
(* player (unpaid), and what was lost on its way (dropped).                *)
(***************************************************************************)
EXTENDS Integers

CONSTANT Players

VARIABLES worth, house, site, tax, unpaid, dropped

books == <<worth, house, site, tax, unpaid, dropped>>

Init ==
    /\ worth \in [Players -> Nat]
    /\ house = 0 /\ site = 0 /\ tax = 0 /\ unpaid = 0 /\ dropped = 0

\* A game settles: the player wins what the games lose.
Result(p) ==
    /\ worth' = [worth EXCEPT ![p] = @ + (house - house')]
    /\ UNCHANGED <<site, tax, unpaid, dropped>>

\* The site pays a player, or takes from him.
Issue(p) ==
    /\ worth' = [worth EXCEPT ![p] = @ + (site - site')]
    /\ UNCHANGED <<house, tax, unpaid, dropped>>

\* p gives q a gift: what q gets and the tax come from p.
Gift(p, q) ==
    LET t == tax' - tax
        n == IF p = q THEN 0 ELSE worth'[q] - worth[q]
    IN  /\ t >= 0 /\ n >= 0
        /\ worth' = [[worth EXCEPT ![p] = @ - (n + t)] EXCEPT ![q] = @ + n]
        /\ UNCHANGED <<house, site, unpaid, dropped>>

\* What nobody pays for: a gift to p, less the tax, or a loss p keeps.
Unpaid(p) ==
    /\ tax' >= tax /\ unpaid' - unpaid >= tax' - tax
    /\ worth' = [worth EXCEPT ![p] = @ + ((unpaid' - unpaid) - (tax' - tax))]
    /\ UNCHANGED <<house, site, dropped>>

\* A gift or a change is lost on its way to p.
Drop(p) ==
    /\ worth' = [worth EXCEPT ![p] = @ - (dropped' - dropped)]
    /\ UNCHANGED <<house, site, tax, unpaid>>

Next ==
    \E p \in Players :
        \/ Result(p) \/ Issue(p) \/ Unpaid(p) \/ Drop(p)
        \/ \E q \in Players : Gift(p, q)

Spec == Init /\ [][Next]_books
=============================================================================
