-------------------------- MODULE MCSoundChannels --------------------------
(* SoundChannels with a few channels. *)
EXTENDS SoundChannels
=============================================================================
