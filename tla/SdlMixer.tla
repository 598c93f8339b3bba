------------------------------ MODULE SdlMixer ------------------------------
(***************************************************************************)
(* SDL_mixer as src/s3e_audio.c uses it: channels that play chunks on a    *)
(* thread of the library's own, and the callback by which that thread says *)
(* that a channel is finished, which sets the channel's atomic flag.       *)
(*                                                                         *)
(* The thread holds the library's lock from the moment it finds a chunk    *)
(* played to its end until its callback has returned.  HaltChannel,        *)
(* PlayChannel and FreeChunk take the lock; Playing does not.              *)
(***************************************************************************)
EXTENDS Naturals

CONSTANTS Channels,  \* the channels of this kind, 1 .. n
          Chunks     \* the addresses of chunks, positive numbers

ASSUME MixerConstants == /\ \E n \in Channels : n \in Nat \ {0} /\ Channels = 1..n
                         /\ Chunks \subseteq Nat \ {0}

VARIABLES mixer,    \* the chunk each channel plays, 0 for none
          lock,     \* the channel whose end the thread is telling, 0 if nothing holds the lock
          finished, \* the flag of each channel
          live      \* the chunks not freed

mixerVars == <<mixer, lock, finished, live>>

MixerTypeOK == /\ mixer \in [Channels -> Chunks \cup {0}]
               /\ lock \in Nat
               /\ finished \in [Channels -> BOOLEAN]
               /\ live \subseteq Chunks

MixerInit == /\ mixer = [c \in Channels |-> 0]
             /\ lock = 0
             /\ finished = [c \in Channels |-> FALSE]
             /\ live = {}

\* The thread: a chunk has been played to its end, and then the callback.
ChunkEnds(c) == /\ lock = 0 /\ mixer[c] # 0
                /\ lock' = c
                /\ mixer' = [mixer EXCEPT ![c] = 0]
                /\ UNCHANGED <<finished, live>>

ChannelFinished == /\ lock \in Channels
                   /\ lock' = 0
                   /\ finished' = [finished EXCEPT ![lock] = TRUE]
                   /\ UNCHANGED <<mixer, live>>

\* A channel stopped in the middle is said to be finished by the caller's thread.
HaltChannel(c) == /\ lock = 0
                  /\ mixer' = [mixer EXCEPT ![c] = 0]
                  /\ finished' = [finished EXCEPT ![c] = @ \/ mixer[c] # 0]
                  /\ UNCHANGED <<lock, live>>

PlayChannel(c, chunk) == /\ lock = 0
                         /\ mixer' = [mixer EXCEPT ![c] = chunk]
                         /\ finished' = [finished EXCEPT ![c] = @ \/ mixer[c] # 0]
                         /\ UNCHANGED <<lock, live>>

\* A chunk freed while it plays is stopped without a word.
FreeChunk(chunk) == /\ lock = 0
                    /\ live' = live \ {chunk}
                    /\ mixer' = [c \in Channels |-> IF mixer[c] = chunk THEN 0 ELSE mixer[c]]
                    /\ UNCHANGED <<lock, finished>>

LoadChunk(chunk) == /\ chunk \in Chunks \ live
                    /\ live' = live \cup {chunk}
                    /\ UNCHANGED <<mixer, lock, finished>>

Playing(c) == mixer[c] # 0
=============================================================================
