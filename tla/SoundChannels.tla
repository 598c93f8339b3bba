--------------------------- MODULE SoundChannels ---------------------------
(***************************************************************************)
(* The sound channels of src/s3e_audio.c.  The game plays a sample on a    *)
(* channel; the mixer's thread marks the channel finished when the chunk   *)
(* has been played; the next audio_pump frees the chunk, asks the game     *)
(* with the END_SAMPLE callback what to play next, plays that or says      *)
(* STOP_AUDIO.  A generator callback may produce the sample.  In each of   *)
(* these callbacks the game may play, stop and register again.             *)
(*                                                                         *)
(* The guest's thread is a stack of the functions it is in; between any    *)
(* two steps of it the mixer's thread may run.  Data, volume, rate and     *)
(* pause are left out: a paused channel is one whose chunk does not end.   *)
(***************************************************************************)
EXTENDS SdlMixer, Sequences, SequencesExt, FiniteSetsExt

CONSTANTS Samples,   \* the samples the game plays, positive numbers
          Repeats,   \* the repeat counts it asks for, 0 for ever
          Kinds,     \* the callbacks it registers
          MaxFrames  \* bound on the depth of the guest's stack

ASSUME SoundConstants == Repeats \subseteq Nat

VARIABLES slots,     \* g_sound_slots
          callbacks, \* the callbacks registered on each channel
          frames     \* the functions the guest's thread is in, innermost last

vars == <<mixer, lock, finished, live, slots, callbacks, frames>>

Silent == [chunk |-> 0, source |-> 0, reps |-> 0]

Ops == {"play", "failed", "stop", "pump"}
Labels == {"begin", "render", "load", "halt", "free", "reset", "start", "done",
           "scan", "ended", "answered", "playing", "stopped", "next"}

\* A function: what it does next, and whether it is in a callback before that.
Frame == [op : Ops, pc : Labels, calling : BOOLEAN, channel : Channels \cup {0}, source : Samples \cup {0},
          reps : Nat, chunk : Chunks \cup {0}, again : BOOLEAN]

TypeOK == /\ MixerTypeOK
          /\ slots \in [Channels -> [chunk : Chunks \cup {0}, source : Samples \cup {0}, reps : Nat]]
          /\ callbacks \in [Channels -> SUBSET Kinds]
          /\ frames \in Seq(Frame)

Init == /\ MixerInit
        /\ slots = [c \in Channels |-> Silent]
        /\ callbacks = [c \in Channels |-> {}]
        /\ frames = <<>>

Top == Last(frames)
InGuest == frames # <<>> => Top.calling
At(pc) == frames # <<>> /\ ~Top.calling /\ Top.pc = pc
Pumping == \E i \in DOMAIN frames : frames[i].op = "pump"
Room == Len(frames) + 3 <= MaxFrames

Call(op, pc, c, source, reps) ==
    [op |-> op, pc |-> pc, calling |-> FALSE, channel |-> c, source |-> source, reps |-> reps,
     chunk |-> 0, again |-> FALSE]

PumpCall == Call("pump", "scan", Min(Channels), 0, 0)

\* audio_pump does nothing inside itself.
Pumps(n) == IF Pumping THEN <<>> ELSE [i \in 1..n |-> PumpCall]

SetTop(frame) == frames' = [frames EXCEPT ![Len(frames)] = frame]
Goto(pc) == SetTop([Top EXCEPT !.pc = pc])

\* Return to the caller, which if it is audio_pump wants to know how it went.
Return(ok) ==
    LET rest == Front(frames)
    IN  frames' = IF rest # <<>> /\ Last(rest).pc = "playing"
                  THEN [rest EXCEPT ![Len(rest)].pc = IF ok THEN "next" ELSE "stopped"]
                  ELSE rest

-----------------------------------------------------------------------------
(* What the game calls. *)

Register(c, kind) == /\ InGuest
                     /\ callbacks' = [callbacks EXCEPT ![c] = @ \cup {kind}]
                     /\ UNCHANGED <<mixerVars, slots, frames>>

UnRegister(c, kind) == /\ InGuest
                       /\ callbacks' = [callbacks EXCEPT ![c] = @ \ {kind}]
                       /\ UNCHANGED <<mixerVars, slots, frames>>

\* s3eSoundChannelPlay pumps, and once more to find a free channel if it is given none.
Play(c, source, repeat) ==
    /\ InGuest /\ Room
    /\ frames' = frames \o <<Call("play", "begin", c, source, repeat)>> \o Pumps(IF c = 0 THEN 2 ELSE 1)
    /\ UNCHANGED <<mixerVars, slots, callbacks>>

Stop(c) == /\ InGuest /\ Room
           /\ frames' = Append(frames, [Call("stop", "halt", c, 0, 0) EXCEPT !.again = slots[c].chunk # 0])
           /\ UNCHANGED <<mixerVars, slots, callbacks>>

PumpBegin == /\ InGuest /\ Room /\ ~Pumping
             /\ frames' = Append(frames, PumpCall)
             /\ UNCHANGED <<mixerVars, slots, callbacks>>

\* audio_shutdown, the game having returned.
Shutdown == /\ frames = <<>> /\ lock = 0
            /\ mixer' = [c \in Channels |-> 0]
            /\ finished' = [c \in Channels |-> FALSE]
            /\ live' = {}
            /\ slots' = [c \in Channels |-> Silent]
            /\ callbacks' = [c \in Channels |-> {}]
            /\ UNCHANGED <<lock, frames>>

CallbackReturn == /\ frames # <<>> /\ Top.calling
                  /\ SetTop([Top EXCEPT !.calling = FALSE])
                  /\ UNCHANGED <<mixerVars, slots, callbacks>>

-----------------------------------------------------------------------------
(* play_sound_channel, and what it shares with s3eSoundChannelStop and the pump. *)

FreeChannels == {c \in Channels : slots[c].chunk = 0}

Begin == /\ At("begin")
         /\ IF Top.channel = 0 /\ FreeChannels = {} THEN Return(FALSE)
            ELSE SetTop([Top EXCEPT !.pc = "render",
                                    !.channel = IF @ = 0 THEN Min(FreeChannels) ELSE @])
         /\ UNCHANGED <<mixerVars, slots, callbacks>>

\* render_generator_audio calls the game for the samples.
Render == /\ At("render")
          /\ SetTop([Top EXCEPT !.pc = "load", !.calling = "gen" \in callbacks[Top.channel]])
          /\ UNCHANGED <<mixerVars, slots, callbacks>>

\* Anything up to the loading may fail.
Load == /\ At("load")
        /\ \/ /\ LoadChunk(Min(Chunks \ live))
              /\ SetTop([Top EXCEPT !.pc = "halt", !.chunk = Min(Chunks \ live)])
           \/ Return(FALSE) /\ UNCHANGED mixerVars
        /\ UNCHANGED <<slots, callbacks>>

Halt == /\ At("halt")
        /\ HaltChannel(Top.channel)
        /\ Goto("free")
        /\ UNCHANGED <<slots, callbacks>>

\* Mutation of Free: the slot's chunk is not freed.
FreeNothing == At("free") /\ Goto("reset") /\ UNCHANGED <<mixerVars, slots, callbacks>>

\* free_sound_slot frees the chunk the slot has, if any, and then clears the slot.
Free == /\ At("free")
        /\ IF slots[Top.channel].chunk = 0 THEN UNCHANGED mixerVars
           ELSE FreeChunk(slots[Top.channel].chunk)
        /\ Goto("reset")
        /\ UNCHANGED <<slots, callbacks>>

\* Mutation of Unmark: the mark stays.
LeaveMark(c) == UNCHANGED mixerVars

\* The mark the mixer's thread, or the halting, may have left.
Unmark(c) == finished' = [finished EXCEPT ![c] = FALSE] /\ UNCHANGED <<mixer, lock, live>>

\* Mutation of Taken: the pump leaves the slot as it is.
TakenLater == IF Top.op = "pump" THEN slots[Top.channel]
              ELSE IF Top.op # "play" THEN Silent
              ELSE [chunk |-> Top.chunk, source |-> Top.source, reps |-> Top.reps]

\* The new sound takes the slot, or the slot is empty.
Taken == IF Top.op = "play" THEN [chunk |-> Top.chunk, source |-> Top.source, reps |-> Top.reps]
         ELSE Silent

Reset ==
    /\ At("reset")
    /\ slots' = [slots EXCEPT ![Top.channel] = Taken]
    /\ Unmark(Top.channel)
    /\ CASE Top.op = "play" -> Goto("start")
         [] Top.op = "failed" -> Return(FALSE)
         [] Top.op = "pump" -> Goto("ended")
         [] Top.op = "stop" -> SetTop([Top EXCEPT !.pc = "done",
                                                  !.calling = Top.again /\ "stop" \in callbacks[Top.channel]])
    /\ UNCHANGED callbacks

Start == /\ At("start")
         /\ \/ PlayChannel(Top.channel, Top.chunk) /\ Return(TRUE)
            \/ /\ lock = 0
               /\ SetTop([Top EXCEPT !.op = "failed", !.pc = "free"])
               /\ UNCHANGED mixerVars
         /\ UNCHANGED <<slots, callbacks>>

StopDone == At("done") /\ Return(TRUE) /\ UNCHANGED <<mixerVars, slots, callbacks>>

-----------------------------------------------------------------------------
(* service_finished_sound. *)

Due(c) == slots[c].chunk # 0 /\ (finished[c] \/ ~Playing(c))

\* Samples played again: one less each time, or for ever.
Decremented(reps) == IF reps = 0 THEN 0 ELSE reps - 1

ScanDue == /\ At("scan")
           /\ Due(Top.channel)
           /\ LET slot == slots[Top.channel]
              IN  SetTop([Top EXCEPT !.pc = "free", !.source = slot.source, !.again = slot.reps = 0,
                                     !.reps = Decremented(slot.reps)])
           /\ UNCHANGED <<mixerVars, slots, callbacks>>

ScanOn == /\ At("scan")
          /\ ~Due(Top.channel)
          /\ Goto("next")
          /\ UNCHANGED <<mixerVars, slots, callbacks>>

\* Play the sample again, from its loop, without the pump that opens s3eSoundChannelPlay.
PlayAgain(source, reps) ==
    frames' = Append([frames EXCEPT ![Len(frames)].pc = "playing"],
                     Call("play", "render", Top.channel, source, reps))

EndSample == /\ At("ended")
             /\ IF "end" \in callbacks[Top.channel] THEN SetTop([Top EXCEPT !.pc = "answered", !.calling = TRUE])
                ELSE IF Top.again \/ Top.reps > 0 THEN PlayAgain(Top.source, Top.reps)
                ELSE Goto("stopped")
             /\ UNCHANGED <<mixerVars, slots, callbacks>>

\* The callback said what is next, perhaps with a new sample and count.
Answered == /\ At("answered")
            /\ \/ \E source \in Samples, reps \in Repeats \cup {Top.reps} : PlayAgain(source, reps)
               \/ Goto("stopped")
            /\ UNCHANGED <<mixerVars, slots, callbacks>>

SayStop == /\ At("stopped")
           /\ SetTop([Top EXCEPT !.pc = "next", !.calling = "stop" \in callbacks[Top.channel]])
           /\ UNCHANGED <<mixerVars, slots, callbacks>>

NextChannel == /\ At("next")
               /\ IF Top.channel = Max(Channels) THEN Return(TRUE)
                  ELSE SetTop([PumpCall EXCEPT !.channel = Top.channel + 1])
               /\ UNCHANGED <<mixerVars, slots, callbacks>>

\* The mixer's thread.
SampleEnds(c) == ChunkEnds(c) /\ UNCHANGED <<slots, callbacks, frames>>
MarkFinished == ChannelFinished /\ UNCHANGED <<slots, callbacks, frames>>

Step == Begin \/ Render \/ Load \/ Halt \/ Free \/ Reset \/ Start \/ StopDone \/ ScanDue
        \/ ScanOn \/ EndSample \/ Answered \/ SayStop \/ NextChannel

Next == \/ \E c \in Channels :
              \/ \E kind \in Kinds : Register(c, kind) \/ UnRegister(c, kind)
              \/ Stop(c)
        \/ \E c \in Channels \cup {0}, source \in Samples, repeat \in Repeats : Play(c, source, repeat)
        \/ PumpBegin \/ Shutdown \/ CallbackReturn
        \/ Step
        \/ \E c \in Channels : SampleEnds(c)
        \/ MarkFinished

Spec == Init /\ [][Next]_vars

\* The functions go on, every callback returns, the mixer's thread lets go of its lock,
\* and the game's loop pumps.
FairSpec == /\ Spec
            /\ SF_vars(Step)
            /\ \A n \in 1..(MaxFrames + 1) : SF_vars(Len(frames) = n /\ CallbackReturn)
            /\ WF_vars(MarkFinished)
            /\ SF_vars(PumpBegin /\ frames = <<>>)

-----------------------------------------------------------------------------
\* A chunk not freed has one holder, a slot or the call about to put it there, and a
\* freed one none: no chunk is lost or freed under the mixer when a callback plays or
\* stops the very channel being served.
Holders(k) == {<<"slot", c>> : c \in {d \in Channels : slots[d].chunk = k}}
              \cup {<<"call", i>> : i \in {j \in DOMAIN frames :
                       /\ frames[j].op = "play" /\ frames[j].chunk = k
                       /\ frames[j].pc \in {"halt", "free", "reset"}}}

ChunksHeld ==
    \A k \in Chunks : \/ k \in live /\ Cardinality(Holders(k)) = 1
                      \/ k \notin live /\ \A h \in Holders(k) :
                            h[1] = "slot" /\ \E i \in DOMAIN frames :
                                frames[i].channel = h[2] /\ frames[i].pc = "reset"

\* A channel that plays plays what its slot holds, and is not marked finished: the
\* mark of a sound that ended or was halted does not stick to the next and cut it short.
PlaysItsSlot == \A c \in Channels : Playing(c) => slots[c].chunk = mixer[c] /\ ~finished[c]

\* A sound that has been played is served by a later pump: its slot is not held for
\* ever, so channels do not run out.
FinishedIsServed == \A c \in Channels : slots[c].chunk # 0 /\ ~Playing(c) ~> slots[c].chunk = 0 \/ Playing(c)
=============================================================================
