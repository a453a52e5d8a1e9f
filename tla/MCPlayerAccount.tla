--------------------------- MODULE MCPlayerAccount ---------------------------
(* A small instance of PlayerAccount for TLC. *)
EXTENDS PlayerAccount, TLC

CONSTANTS p1, p2, l1, l2

MCRow0    == [coin |-> 1, safe |-> 2]
MCTax     == [g \in Gifts |-> g \div 2]
MCResults == {-1, 1}
MCIssues  == {[coin |-> -1, safe |-> 0], [coin |-> 1, safe |-> 0]}
MCBoxes   == {-1, 1}

Symmetric == Permutations({p1, p2}) \cup Permutations({l1, l2})
=============================================================================
