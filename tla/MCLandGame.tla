----------------------------- MODULE MCLandGame -----------------------------
(* A small instance of LandGame for TLC: seven cards, two to a hand. *)
EXTENDS LandGame

MCCards == 1..7
Pair == {2, 3}
Missile == {6, 7}
MCCombos == {{k} : k \in MCCards} \cup {Pair, Missile}
MCBombs == {Missile}
MCBeats == UNION {{<<{j}, {k}>> : k \in j + 1..7} : j \in MCCards}
             \cup {<<S, Missile>> : S \in MCCombos \ {Missile}}
MCLowest == [S \in SUBSET MCCards |-> IF S = {} THEN 0 ELSE CHOOSE k \in S : \A j \in S : k <= j]

\* Two deals: a pair in a hand, and the bottom completes a missile; the bottom
\* completes the pair.
MCShuffles == {<<0, 1, 1, 2, 2, 0, 3>>, <<2, 0, 3, 1, 2, 1, 0>>}

\* One who can hardly pay, one who can pay anything, and one between them.
MCPurses == {[c \in Chairs |-> CASE c = 0 -> 3 [] c = 1 -> 50 [] c = 2 -> 9]}
=============================================================================
