--------------------------- MODULE MusicChannels ---------------------------
(***************************************************************************)
(* The music channels of src/s3e_audio.c.  The game selects a channel,     *)
(* plays a file or a buffer on it, stops, pauses and resumes it.  Music    *)
(* that the mixer has played to its end is freed by the next audio_pump,   *)
(* and both that and a stop, or a play in its place, call the game, which  *)
(* may make any of these calls again.                                      *)
(*                                                                         *)
(* The guest's thread is a stack of the functions it is in; between any    *)
(* two steps of it the mixer's thread may run.  Volume is left out, and    *)
(* how a file is found and read: a play that gets no data changes nothing. *)
(***************************************************************************)
EXTENDS SdlMixer, Sequences, SequencesExt, FiniteSetsExt

CONSTANT MaxCalls \* bound on the depth of the guest's stack

VARIABLES music,        \* g_audio_slots
          selected,     \* g_audio_channel
          stopCallback, \* a stop callback is registered
          calls,        \* the functions the guest's thread is in, innermost last
          held,         \* the mixer's own: the channels it holds
          opened,       \* what audio_open has come to
          contended     \* history: the channels played on from the stop callback of a play on them

musicVars == <<mixerVars, music, selected, stopCallback, calls, held, opened, contended>>

Empty == [chunk |-> 0, paused |-> FALSE]

Call == [op : {"play", "undo", "stop", "pump"}, channel : Channels, chunk : Chunks \cup {0}, had : BOOLEAN,
         pc : {"scan", "halt", "free", "clear", "tell", "load", "reset", "start", "next"},
         calling : BOOLEAN]

MusicTypeOK == /\ MixerTypeOK
               /\ music \in [Channels -> [chunk : Chunks \cup {0}, paused : BOOLEAN]]
               /\ selected \in Channels
               /\ stopCallback \in BOOLEAN
               /\ calls \in Seq(Call)
               /\ held \subseteq Channels
               /\ opened \in {"untried", "ready", "failed"}
               /\ contended \subseteq Channels

MusicInit == /\ MixerInit
             /\ music = [c \in Channels |-> Empty]
             /\ selected = Min(Channels)
             /\ stopCallback = FALSE
             /\ calls = <<>>
             /\ held = {}
             /\ opened = "untried"
             /\ contended = {}

Top == Last(calls)
InGuest == calls # <<>> => Top.calling
At(pc) == calls # <<>> /\ ~Top.calling /\ Top.pc = pc
\* After a contention the calls the game is in are followed to their end, and no others.
Room == Len(calls) < MaxCalls /\ contended = {}

Enter(op, pc, c) == calls' = Append(calls, [op |-> op, pc |-> pc, calling |-> FALSE, channel |-> c,
                                            chunk |-> 0, had |-> music[c].chunk # 0])
SetTop(call) == calls' = [calls EXCEPT ![Len(calls)] = call]
Goto(pc) == SetTop([Top EXCEPT !.pc = pc])
Return == calls' = Front(calls)

\* The library is opened by the first call that needs it, once until the shutdown.
OpenAudio == opened' \in IF opened = "untried" THEN {"ready", "failed"} ELSE {opened}

NoMusicCall == UNCHANGED <<mixerVars, music, calls, held, contended>>

-----------------------------------------------------------------------------
(* What the game calls. *)

SelectChannel(c) == /\ InGuest
                    /\ selected' = c
                    /\ UNCHANGED <<stopCallback, opened>> /\ NoMusicCall

RegisterStop == /\ InGuest
                /\ stopCallback' = TRUE
                /\ UNCHANGED <<selected, opened>> /\ NoMusicCall

\* A call that opens the library and finds it cannot, or has nothing to do.
OpenOnly == /\ InGuest
            /\ OpenAudio
            /\ UNCHANGED <<selected, stopCallback>> /\ NoMusicCall

\* The plays on c that are telling the game of the music they stopped.
Telling(c) == {i \in DOMAIN calls : calls[i].op = "play" /\ calls[i].channel = c}

\* s3eAudioPlay and s3eAudioPlayFromBuffer, with data to play.
Play == /\ InGuest /\ Room
        /\ OpenAudio /\ opened' = "ready"
        /\ Enter("play", "halt", selected)
        /\ contended' = contended \cup {c \in {selected} : Telling(c) # {}}
        /\ UNCHANGED <<mixerVars, music, selected, stopCallback, held>>

Stop == /\ InGuest /\ Room
        /\ OpenAudio /\ opened' = "ready"
        /\ Enter("stop", "halt", selected)
        /\ UNCHANGED <<mixerVars, music, selected, stopCallback, held, contended>>

\* The mixer holds only a channel that plays.
Pause == /\ InGuest /\ opened = "ready" /\ music[selected].chunk # 0
         /\ held' = held \cup {c \in {selected} : Playing(c)}
         /\ music' = [music EXCEPT ![selected].paused = TRUE]
         /\ UNCHANGED <<mixerVars, selected, stopCallback, calls, opened, contended>>

Resume == /\ InGuest /\ opened = "ready" /\ music[selected].chunk # 0
          /\ held' = held \ {selected}
          /\ music' = [music EXCEPT ![selected].paused = FALSE]
          /\ UNCHANGED <<mixerVars, selected, stopCallback, calls, opened, contended>>

\* audio_pump, which does nothing inside itself or while there is no library.
PumpBegin == /\ InGuest /\ Room /\ opened = "ready"
             /\ \A i \in DOMAIN calls : calls[i].op # "pump"
             /\ Enter("pump", "scan", Min(Channels))
             /\ UNCHANGED <<mixerVars, music, selected, stopCallback, held, opened, contended>>

CallbackReturn == /\ calls # <<>> /\ Top.calling
                  /\ SetTop([Top EXCEPT !.calling = FALSE])
                  /\ UNCHANGED <<mixerVars, music, selected, stopCallback, held, opened, contended>>

-----------------------------------------------------------------------------
(* play_audio_buffer, stop_audio_channel and service_finished_audio. *)

StepFrame == UNCHANGED <<selected, stopCallback, opened, contended>>

\* Music that is due to be freed by the pump.
Due(c) == music[c].chunk # 0 /\ (finished[c] \/ ~Playing(c))

Scan == /\ At("scan")
        /\ Goto(IF Due(Top.channel) THEN "free" ELSE "next")
        /\ UNCHANGED <<mixerVars, music, held>> /\ StepFrame

Halt == /\ At("halt")
        /\ IF Top.had THEN HaltChannel(Top.channel) ELSE UNCHANGED mixerVars
        /\ Goto("free")
        /\ UNCHANGED <<music, held>> /\ StepFrame

\* Mutation of Free: the chunk is not freed.
FreeNothing == /\ At("free")
               /\ Goto("clear")
               /\ UNCHANGED <<mixerVars, music, held>> /\ StepFrame

\* free_audio_slot frees the chunk, if there is one, and then clears the slot and its mark.
Free == /\ At("free")
        /\ IF music[Top.channel].chunk = 0 THEN UNCHANGED mixerVars
           ELSE FreeChunk(music[Top.channel].chunk)
        /\ Goto("clear")
        /\ UNCHANGED <<music, held>> /\ StepFrame

Clear == /\ At("clear")
         /\ music' = [music EXCEPT ![Top.channel] = Empty]
         /\ finished' = [finished EXCEPT ![Top.channel] = FALSE]
         /\ IF Top.op = "undo" THEN Return ELSE Goto("tell")
         /\ UNCHANGED <<mixer, lock, live, held>> /\ StepFrame

\* The game is told of music there was, and then the function goes on.
Tell == /\ At("tell")
        /\ SetTop([Top EXCEPT !.calling = stopCallback /\ (Top.op = "pump" \/ Top.had),
                              !.pc = IF Top.op = "play" THEN "load" ELSE "next"])
        /\ UNCHANGED <<mixerVars, music, held>> /\ StepFrame

Load == /\ At("load")
        /\ \/ /\ Chunks # live
              /\ LoadChunk(Min(Chunks \ live))
              /\ SetTop([Top EXCEPT !.pc = "reset", !.chunk = Min(Chunks \ live)])
           \/ Return /\ UNCHANGED mixerVars
        /\ UNCHANGED <<music, held>> /\ StepFrame

\* Mutation of Reset: the channel is the one selected now.
ResetSelected == /\ At("reset")
                 /\ music' = [music EXCEPT ![selected] = [chunk |-> Top.chunk, paused |-> FALSE]]
                 /\ finished' = [finished EXCEPT ![selected] = FALSE]
                 /\ Goto("start")
                 /\ UNCHANGED <<mixer, lock, live, held>> /\ StepFrame

Reset == /\ At("reset")
         /\ music' = [music EXCEPT ![Top.channel] = [chunk |-> Top.chunk, paused |-> FALSE]]
         /\ finished' = [finished EXCEPT ![Top.channel] = FALSE]
         /\ Goto("start")
         /\ UNCHANGED <<mixer, lock, live, held>> /\ StepFrame

\* A channel played on is no longer held.  If it cannot be played the slot is freed.
Start == /\ At("start")
         /\ \/ PlayChannel(Top.channel, Top.chunk) /\ held' = held \ {Top.channel} /\ Return
            \/ SetTop([Top EXCEPT !.op = "undo", !.pc = "free"]) /\ UNCHANGED <<mixerVars, held>>
         /\ UNCHANGED music /\ StepFrame

\* The pump goes on to the next channel; a stop is done.
Onward == /\ At("next")
          /\ IF Top.op = "pump" /\ Top.channel < Max(Channels)
             THEN SetTop([Top EXCEPT !.pc = "scan", !.channel = @ + 1])
             ELSE Return
          /\ UNCHANGED <<mixerVars, music, held>> /\ StepFrame

\* audio_shutdown, the game having returned; the slots and callbacks start anew.
MusicShutdown == /\ calls = <<>> /\ lock = 0
                 /\ mixer' = [c \in Channels |-> 0]
                 /\ finished' = [c \in Channels |-> FALSE]
                 /\ live' = {}
                 /\ music' = [c \in Channels |-> Empty]
                 /\ selected' = Min(Channels) /\ stopCallback' = FALSE
                 /\ held' = {} /\ opened' = "untried" /\ contended' = {}
                 /\ UNCHANGED <<lock, calls>>

-----------------------------------------------------------------------------
\* The mixer's thread.
StreamEnds(c) == /\ c \notin held
                 /\ ChunkEnds(c)
                 /\ UNCHANGED <<music, selected, stopCallback, calls, held, opened, contended>>

StreamMarked == ChannelFinished /\ UNCHANGED <<music, selected, stopCallback, calls, held, opened, contended>>

MusicNext == \/ \E c \in Channels : SelectChannel(c) \/ StreamEnds(c)
             \/ RegisterStop \/ OpenOnly \/ Play \/ Stop \/ Pause \/ Resume \/ PumpBegin
             \/ CallbackReturn
             \/ Scan \/ Halt \/ Free \/ Clear \/ Tell \/ Load \/ Reset \/ Start \/ Onward
             \/ StreamMarked

-----------------------------------------------------------------------------
\* Music not freed has one holder, a slot or the play about to put it there, and freed
\* music none, whatever the game plays and stops when it is told of a stop - except a
\* play on the very channel whose play is telling, whose music is lost.
Holding(k) == {<<"slot", c>> : c \in {d \in Channels : music[d].chunk = k}}
              \cup {<<"call", i>> : i \in {j \in DOMAIN calls :
                       calls[j].pc = "reset" /\ calls[j].chunk = k}}

StreamsHeld ==
    contended = {} =>
        \A k \in Chunks : \/ k \in live /\ Cardinality(Holding(k)) = 1
                          \/ k \notin live /\ \A h \in Holding(k) :
                                h[1] = "slot" /\ At("clear") /\ Top.channel = h[2]

\* s3eAudioGetInt(1), and s3eAudioIsPlaying.
Status(c) == IF music[c].chunk = 0 \/ ~Playing(c) THEN "stopped"
             ELSE IF music[c].paused THEN "paused" ELSE "playing"

\* What the game is told of a channel is what the mixer does with it, at any moment of
\* its thread; and what the mixer plays is the slot's music, not marked as finished,
\* which the next pump would cut short.
PlaysAsTold ==
    \A c \in Channels \ contended :
        /\ InGuest /\ opened = "ready" =>
              /\ Status(c) = "playing" <=> Playing(c) /\ c \notin held
              /\ Status(c) = "paused" <=> Playing(c) /\ c \in held
        /\ Playing(c) => music[c].chunk = mixer[c] /\ ~finished[c]
=============================================================================
