---------------------------- MODULE MCGameAudio ----------------------------
(* GameAudio with both music channels and two callbacks to exchange. *)
EXTENDS GameAudio
=============================================================================
