----------------------------- MODULE VoiceUnit -----------------------------
(***************************************************************************)
(* The voice unit of src/s3e_audio.c and src/s3e_audio_unit.c.  The game   *)
(* gives it a callback that takes what the microphone recorded and one     *)
(* that renders voices into the mixer's output, starts and stops it.       *)
(* These callbacks are the game's only code that runs on other threads:    *)
(* the microphone's, which closing the device waits for, and the mixer's,  *)
(* which holds the mixer's lock all through its callback.                  *)
(*                                                                         *)
(* voice is the guest's call, if it is in one; it takes effect in steps    *)
(* between which those threads run.  Samples and rates are left out, but   *)
(* for whether the rate a callback is told of is known.                    *)
(***************************************************************************)
EXTENDS SdlMixer

CONSTANTS Callbacks, \* the callbacks the game has, positive numbers
          MixLock    \* the value of lock when the mixer's thread is in its callback

ASSUME MixLockIsNoChannel == MixLock \in Nat \ (Channels \cup {0})

VARIABLES capture,    \* g_audio_unit_capture_callback, 0 for none
          render,     \* g_audio_unit_render_callback
          started,    \* g_audio_unit_started
          microphone, \* the device: closed, opened or recording
          heardRate,  \* g_audio_unit_capture_frequency is set
          postmix,    \* the mixer has audio_unit_postmix
          mixedRate,  \* g_audio_unit_output_frequency and _channels are set
          capturing,  \* the callback the microphone's thread is in, 0 for none
          rendering,  \* the callback the mixer's thread is in
          voice       \* the guest's call and its next step

registered == <<capture, render, started>>
devices == <<microphone, heardRate, postmix, mixedRate>>
threads == <<capturing, rendering>>
voiceVars == <<registered, devices, threads, voice>>

Idle == [op |-> "none", pc |-> "none", capture |-> 0, render |-> 0]

VoiceTypeOK == /\ {capture, render, capturing, rendering} \subseteq Callbacks \cup {0}
               /\ {started, heardRate, postmix, mixedRate} \subseteq BOOLEAN
               /\ microphone \in {"closed", "opened", "recording"}
               /\ voice \in [op : {"none", "set", "start", "stop", "end"},
                             pc : {"none", "close", "unmix", "activate", "mix", "open", "record"},
                             capture : Callbacks \cup {0}, render : Callbacks \cup {0}]

VoiceInit == /\ capture = 0 /\ render = 0 /\ started = FALSE
             /\ microphone = "closed" /\ heardRate = FALSE
             /\ postmix = FALSE /\ mixedRate = FALSE
             /\ capturing = 0 /\ rendering = 0
             /\ voice = Idle

VoiceIdle == voice = Idle
VoiceAt(pc) == voice.pc = pc
VoiceGoto(pc) == voice' = [voice EXCEPT !.pc = pc]

-----------------------------------------------------------------------------
(* What the game calls. *)

SetCallbacks(c, r) == /\ VoiceIdle
                      /\ voice' = [op |-> "set", pc |-> "close", capture |-> c, render |-> r]
                      /\ UNCHANGED <<registered, devices, threads, mixerVars>>

\* A second start does nothing.
StartVoice == /\ VoiceIdle /\ ~started
              /\ started' = TRUE
              /\ voice' = [Idle EXCEPT !.op = "start", !.pc = "activate"]
              /\ UNCHANGED <<capture, render, devices, threads, mixerVars>>

StopVoice == /\ VoiceIdle
             /\ voice' = [Idle EXCEPT !.op = "stop", !.pc = "close"]
             /\ UNCHANGED <<registered, devices, threads, mixerVars>>

\* The unit's terminate, and audio_shutdown.
EndVoice == /\ VoiceIdle
            /\ voice' = [Idle EXCEPT !.op = "end", !.pc = "close"]
            /\ UNCHANGED <<registered, devices, threads, mixerVars>>

-----------------------------------------------------------------------------
(* audio_unit_deactivate, what follows it, and audio_unit_activate. *)

\* Mutation of CloseMicrophone: the device is only paused, which its callback may outlast.
PauseMicrophone == /\ VoiceAt("close")
                   /\ microphone' = "closed" /\ heardRate' = FALSE
                   /\ VoiceGoto("unmix")
                   /\ UNCHANGED <<registered, postmix, mixedRate, threads, mixerVars>>

\* The device is closed when its callback has returned.
CloseMicrophone == /\ VoiceAt("close")
                   /\ microphone # "closed" => capturing = 0
                   /\ microphone' = "closed" /\ heardRate' = FALSE
                   /\ VoiceGoto("unmix")
                   /\ UNCHANGED <<registered, postmix, mixedRate, threads, mixerVars>>

\* Taking the callback from the mixer needs its lock.  No thread is left to see the
\* assignments that follow.
RemovePostmix == /\ VoiceAt("unmix")
                 /\ postmix => lock = 0
                 /\ postmix' = FALSE /\ mixedRate' = FALSE
                 /\ \/ /\ voice.op = "set"
                       /\ capture' = voice.capture /\ render' = voice.render
                       /\ VoiceGoto("activate")
                       /\ UNCHANGED started
                    \/ /\ voice.op \in {"stop", "end"}
                       /\ started' = FALSE
                       /\ IF voice.op = "end" THEN capture' = 0 /\ render' = 0
                          ELSE UNCHANGED <<capture, render>>
                       /\ voice' = Idle
                 /\ UNCHANGED <<microphone, heardRate, threads, mixerVars>>

\* audio_unit_activate: open says whether audio_open succeeds.
Activate(open) == /\ VoiceAt("activate")
                  /\ IF started /\ {capture, render} # {0} /\ open THEN VoiceGoto("mix")
                     ELSE voice' = Idle
                  /\ UNCHANGED <<registered, devices, threads, mixerVars>>

\* The mixer's format may not do.
InstallPostmix == /\ VoiceAt("mix")
                  /\ \/ /\ render # 0 /\ lock = 0
                        /\ postmix' = TRUE /\ mixedRate' = TRUE
                     \/ UNCHANGED <<postmix, mixedRate>>
                  /\ VoiceGoto("open")
                  /\ UNCHANGED <<registered, microphone, heardRate, threads, mixerVars>>

\* A microphone is opened paused, if there is one, and closed again if it does not do.
OpenMicrophone == /\ VoiceAt("open")
                  /\ \/ /\ capture # 0
                        /\ microphone' = "opened"
                        /\ VoiceGoto("record")
                     \/ voice' = Idle /\ UNCHANGED microphone
                  /\ UNCHANGED <<registered, heardRate, postmix, mixedRate, threads, mixerVars>>

Record == /\ VoiceAt("record")
          /\ \/ microphone' = "recording" /\ heardRate' = TRUE
             \/ microphone' = "closed" /\ UNCHANGED heardRate
          /\ voice' = Idle
          /\ UNCHANGED <<registered, postmix, mixedRate, threads, mixerVars>>

-----------------------------------------------------------------------------
(* The threads. *)

CaptureBegins == /\ microphone = "recording" /\ capturing = 0 /\ capture # 0
                 /\ capturing' = capture
                 /\ UNCHANGED <<registered, devices, rendering, voice, mixerVars>>

CaptureEnds == /\ capturing # 0
               /\ capturing' = 0
               /\ UNCHANGED <<registered, devices, rendering, voice, mixerVars>>

\* With no callback, or its rate unknown, audio_unit_postmix does nothing.
RenderBegins == /\ postmix /\ lock = 0 /\ render # 0 /\ mixedRate
                /\ lock' = MixLock
                /\ rendering' = render
                /\ UNCHANGED <<registered, devices, capturing, voice, mixer, finished, live>>

RenderEnds == /\ lock = MixLock
              /\ lock' = 0
              /\ rendering' = 0
              /\ UNCHANGED <<registered, devices, capturing, voice, mixer, finished, live>>

VoiceStep == CloseMicrophone \/ RemovePostmix \/ InstallPostmix \/ OpenMicrophone \/ Record

VoiceThreads == CaptureBegins \/ CaptureEnds \/ RenderBegins \/ RenderEnds

-----------------------------------------------------------------------------
\* The game's code on another thread is the callback it last gave a unit it started,
\* told of a known rate: none it has exchanged, stopped or taken out still runs when
\* that call has returned, or runs again.
VoiceOnlyAsTold ==
    /\ capturing # 0 => started /\ capturing = capture /\ heardRate
    /\ rendering # 0 => started /\ rendering = render /\ mixedRate
    /\ VoiceIdle /\ ~started => microphone = "closed" /\ ~postmix
=============================================================================
