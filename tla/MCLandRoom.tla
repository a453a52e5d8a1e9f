----------------------------- MODULE MCLandRoom -----------------------------
(* Small instances of LandRoom for TLC. *)
EXTENDS LandRoom, TLC

CONSTANTS h1, h2, h3, h4, r1, r2

\* Every player has an address of its own.
OwnIP == [p \in Players |-> p]

\* h1 and h2 play from the same address.
SharedIP == [p \in Players |-> IF p = h2 THEN h1 ELSE p]

Symm == Permutations(Humans) \cup Permutations(Robots)
=============================================================================
