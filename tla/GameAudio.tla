----------------------------- MODULE GameAudio -----------------------------
(***************************************************************************)
(* The music and the voice unit together on the mixer they share: the      *)
(* guest's thread makes one call at a time of either, from its loop or     *)
(* from a stop callback; the calls open the library on need; and the       *)
(* thread that renders voices keeps the music's calls waiting for the      *)
(* mixer's lock.  When the game has returned the host shuts both down.     *)
(***************************************************************************)
EXTENDS MusicChannels, VoiceUnit

VARIABLE closing \* audio_shutdown is under way

vars == <<musicVars, voiceVars, closing>>

TypeOK == /\ MusicTypeOK /\ VoiceTypeOK
          /\ closing \in BOOLEAN

Init == MusicInit /\ VoiceInit /\ closing = FALSE

Music == /\ VoiceIdle /\ ~closing
         /\ MusicNext
         /\ UNCHANGED <<voiceVars, closing>>

\* The mixer's thread plays on while the guest is in a call of the voice unit.
MixerThread == /\ ~VoiceIdle \/ closing
               /\ (\E c \in Channels : StreamEnds(c)) \/ StreamMarked
               /\ UNCHANGED <<voiceVars, closing>>

musicOnly == <<music, selected, stopCallback, calls, held, contended>>

VoiceCall == /\ InGuest /\ ~closing
             /\ \/ \E c, r \in Callbacks \cup {0} : SetCallbacks(c, r)
                \/ StartVoice \/ StopVoice \/ EndVoice
             /\ UNCHANGED <<musicOnly, opened, closing>>

VoiceGoesOn == VoiceStep /\ UNCHANGED <<musicOnly, opened, closing>>

\* The library is opened only for a unit that is started and has a callback.
VoiceActivates == /\ IF started /\ {capture, render} # {0} THEN OpenAudio ELSE UNCHANGED opened
                  /\ Activate(opened' = "ready")
                  /\ UNCHANGED <<musicOnly, closing>>

VoiceRuns == VoiceThreads /\ UNCHANGED <<musicOnly, opened, closing>>

\* audio_shutdown ends the voice unit first.
BeginShutdown == /\ calls = <<>> /\ ~closing
                 /\ EndVoice
                 /\ closing' = TRUE
                 /\ UNCHANGED <<musicOnly, opened>>

Shutdown == /\ closing /\ VoiceIdle
            /\ MusicShutdown
            /\ closing' = FALSE
            /\ UNCHANGED voiceVars

Next == \/ Music \/ MixerThread \/ VoiceCall \/ VoiceGoesOn \/ VoiceActivates \/ VoiceRuns
        \/ BeginShutdown \/ Shutdown

Spec == Init /\ [][Next]_vars
=============================================================================
