----------------------------- MODULE MCGameSetup -----------------------------
(* GameSetup with the game's two archives. *)
EXTENDS GameSetup
=============================================================================
