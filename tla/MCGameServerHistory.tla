------------------------- MODULE MCGameServerHistory -------------------------
(* The instances of MCGameServer with the history of outdated reads. *)
EXTENDS MCGameServer, GameServerHistory
=============================================================================
