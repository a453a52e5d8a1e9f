---------------------------- MODULE MCBankerTable ----------------------------
(* A small instance of BankerTable for TLC. *)
EXTENDS BankerTable

MCJettons == {2, -1}

MCMoves == {-2}
=============================================================================
