--------------------------- MODULE MCLobbySession ---------------------------
(***************************************************************************)
(* Instance of LobbySession for TLC.                                       *)
(***************************************************************************)
EXTENDS LobbySession, TLC
=============================================================================
