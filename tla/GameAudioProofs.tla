-------------------------- MODULE GameAudioProofs --------------------------
(***************************************************************************)
(* Proofs about GameAudio, for any channels, chunks, callbacks and depth   *)
(* of the guest's stack.  Of the music: each chunk has one holder, and     *)
(* what the game is told of a channel is what the mixer does.  Of the      *)
(* voice unit: of the game's code only the callbacks it last gave a        *)
(* started unit run on other threads.  Each holds whatever the other, the  *)
(* mixer's thread and the shutdown do beside it.                           *)
(*                                                                         *)
(* The music's invariant has three parts: the stack of the guest's         *)
(* functions, where only the innermost may be between two calls of the     *)
(* game; each channel's agreement with the mixer; and who holds which      *)
(* chunk.  What Enter, SetTop and Return do to the stack are lemmas; then  *)
(* there is one lemma for each kind of step.                               *)
(***************************************************************************)
EXTENDS GameAudio, FiniteSetTheorems, SequenceTheorems, TLAPS

(* The music: the stack. *)

USE MixerConstants

LEMMA ChannelEnds ==
    /\ Min(Channels) \in Channels
    /\ \A c \in Channels : c < Max(Channels) => c + 1 \in Channels
<1>1. PICK n \in Channels : n \in Nat \ {0} /\ Channels = 1..n
  OBVIOUS
<1>2. 1 \in Channels /\ \A c \in Channels : 1 <= c
  BY <1>1
<1>3. Min(Channels) \in Channels
  BY <1>2 DEF Min
<1>4. Max(Channels) \in Channels
  BY <1>1 DEF Max
<1>5. QED
  BY <1>1, <1>3, <1>4

\* Where a function may be: it is in a callback only once it has told of a stop, and a play
\* that is past its load has a chunk.
WellPlaced(call) == /\ call.pc \in {"load", "reset", "start"} => call.op = "play"
                    /\ call.calling => call.pc \in {"load", "next"}
                    /\ call.pc \in {"reset", "start"} => call.chunk # 0

\* A play that has emptied its slot and not yet put its music there.
Empties(call) == call.op = "play" /\ call.pc \in {"tell", "load", "reset"}

StackInv == /\ calls \in Seq(Call)
            /\ \A i \in 1..Len(calls) : /\ WellPlaced(calls[i])
                                        /\ i < Len(calls) => calls[i].calling
            /\ \A i, j \in 1..Len(calls) :
                  /\ i # j /\ calls[i].op = "play" /\ calls[j].op = "play"
                  /\ calls[i].channel = calls[j].channel
                  => calls[i].channel \in contended

\* What a step does to the stack: a play with an emptied slot was one before, or has just
\* cleared it.
Follow == \A i \in 1..Len(calls') :
             Empties(calls'[i]) =>
                /\ i \in 1..Len(calls) /\ calls[i].channel = calls'[i].channel
                /\ Empties(calls[i]) \/ (i = Len(calls) /\ At("clear"))

LEMMA TopIs ==
    ASSUME StackInv, calls # <<>>
    PROVE  /\ Len(calls) \in Nat \ {0} /\ Top = calls[Len(calls)]
           /\ Top \in Call /\ WellPlaced(Top)
<1>1. Len(calls) \in Nat \ {0}
  BY DEF StackInv
<1>2. Top = calls[Len(calls)]
  BY DEF Top, Last
<1>3. QED
  BY <1>1, <1>2 DEF StackInv

LEMMA ReturnStack ==
    ASSUME StackInv, calls # <<>>, Return, contended' = contended
    PROVE  StackInv' /\ Follow /\ \A pc : ~At(pc)'
<1>1. Len(calls) \in Nat \ {0}
  BY TopIs
<1>2. /\ calls' \in Seq(Call) /\ Len(calls') = Len(calls) - 1
      /\ \A i \in 1..Len(calls') : calls'[i] = calls[i]
  <2>1. calls' = SubSeq(calls, 1, Len(calls) - 1) /\ calls \in Seq(Call)
    BY DEF Return, Front, StackInv
  <2> DEFINE m == Len(calls) - 1
  <2>2. m \in Nat /\ \A i \in 1..m : calls[i] \in Call /\ 1 + i - 1 = i
    BY <1>1, <2>1
  <2> HIDE DEF m
  <2>3. /\ SubSeq(calls, 1, m) \in Seq(Call)
        /\ Len(SubSeq(calls, 1, m)) = IF 1 <= m THEN m - 1 + 1 ELSE 0
        /\ \A i \in 1..(m - 1 + 1) : SubSeq(calls, 1, m)[i] = calls[1 + i - 1]
    BY <2>2, SubSeqProperties
  <2>4. Len(SubSeq(calls, 1, m)) = m /\ \A i \in 1..m : SubSeq(calls, 1, m)[i] = calls[i]
    BY <2>2, <2>3
  <2>5. QED
    BY <2>1, <2>3, <2>4 DEF m
<1>3. StackInv' /\ Follow
  <2>1. Follow
    BY <1>1, <1>2 DEF Follow
  <2>2. \A i \in 1..Len(calls') : /\ WellPlaced(calls'[i])
                                 /\ i < Len(calls') => calls'[i].calling
    BY <1>1, <1>2 DEF StackInv
  <2>3. \A i, j \in 1..Len(calls') :
           /\ i # j /\ calls'[i].op = "play" /\ calls'[j].op = "play"
           /\ calls'[i].channel = calls'[j].channel
           => calls'[i].channel \in contended'
    BY <1>1, <1>2 DEF StackInv
  <2>4. StackInv'
    BY <1>2, <2>2, <2>3 DEF StackInv, WellPlaced
  <2>5. QED
    BY <2>1, <2>4
<1>4. ASSUME NEW pc PROVE ~At(pc)'
  <2>1. CASE calls' = <<>>
    BY <2>1 DEF At
  <2>2. CASE calls' # <<>>
    <3>1. Len(calls') \in 1..Len(calls') /\ Len(calls') < Len(calls)
      BY <1>1, <1>2, <2>2
    <3>2. calls'[Len(calls')].calling
      BY <1>1, <1>2, <3>1 DEF StackInv
    <3>3. QED
      BY <3>2 DEF At, Top, Last
  <2>3. QED
    BY <2>1, <2>2
<1>5. QED
  BY <1>3, <1>4

LEMMA SetTopStack ==
    ASSUME StackInv, calls # <<>>, contended' = contended,
           NEW call \in Call, WellPlaced(call), SetTop(call),
           call.op = "play" => Top.op = "play" /\ call.channel = Top.channel,
           Empties(call) => Empties(Top) \/ At("clear")
    PROVE  /\ StackInv' /\ Follow
           /\ calls' # <<>> /\ Top' = call
           /\ \A pc : At(pc)' <=> ~call.calling /\ call.pc = pc
<1>1. Len(calls) \in Nat \ {0} /\ Top = calls[Len(calls)]
  BY TopIs
<1>2. /\ calls' \in Seq(Call) /\ Len(calls') = Len(calls)
      /\ calls'[Len(calls)] = call
      /\ \A i \in 1..Len(calls) : i # Len(calls) => calls'[i] = calls[i]
  BY <1>1, ExceptSeq DEF SetTop, StackInv
<1>3. \A i \in 1..Len(calls) : calls'[i].op = "play" =>
          calls[i].op = "play" /\ calls[i].channel = calls'[i].channel
  BY <1>1, <1>2
<1>4. \A i, j \in 1..Len(calls') :
                  /\ i # j /\ calls'[i].op = "play" /\ calls'[j].op = "play"
                  /\ calls'[i].channel = calls'[j].channel
                  => calls'[i].channel \in contended'
  BY <1>2, <1>3 DEF StackInv
<1>5. \A i \in 1..Len(calls') : /\ WellPlaced(calls'[i])
                                /\ i < Len(calls') => calls'[i].calling
  BY <1>1, <1>2 DEF StackInv
<1>6. StackInv'
  BY <1>2, <1>4, <1>5 DEF StackInv, WellPlaced
<1>7. Follow
  BY <1>1, <1>2 DEF Follow, Empties
<1>8. calls' # <<>> /\ Top' = call
  BY <1>1, <1>2 DEF Top, Last
<1>9. QED
  BY <1>6, <1>7, <1>8 DEF At

LEMMA EnterStack ==
    ASSUME StackInv, InGuest, NEW op \in {"play", "stop", "pump"}, NEW pc \in {"halt", "scan"},
           NEW c \in Channels, Enter(op, pc, c), contended \subseteq contended',
           op = "play" /\ Telling(c) # {} => c \in contended'
    PROVE  StackInv' /\ Follow /\ \A p : At(p)' <=> p = pc
<1> DEFINE call == [op |-> op, pc |-> pc, calling |-> FALSE, channel |-> c,
                    chunk |-> 0, had |-> music[c].chunk # 0]
<1>1. call \in Call /\ WellPlaced(call) /\ ~Empties(call)
  BY DEF Call, WellPlaced, Empties
<1> DEFINE n == Len(calls)
<1>2. calls \in Seq(Call) /\ n \in Nat
  BY DEF StackInv
<1>3. calls' = Append(calls, call)
  BY DEF Enter
<1>h. call.op = op /\ call.channel = c /\ call.pc = pc /\ ~call.calling
  OBVIOUS
<1> HIDE DEF call
<1>4. /\ calls' \in Seq(Call) /\ Len(calls') = n + 1 /\ calls'[n + 1] = call
      /\ \A i \in 1..n : calls'[i] = calls[i]
  BY <1>1, <1>2, <1>3, AppendProperties
<1>5. \A i \in 1..n : calls[i].calling
  <2>1. n # 0 => calls # <<>> /\ Top = calls[n]
    BY <1>2, TopIs
  <2>2. QED
    BY <1>2, <2>1 DEF InGuest, StackInv
<1>6. \A i \in 1..Len(calls') : WellPlaced(calls'[i]) /\ (i < Len(calls') => calls'[i].calling)
  BY <1>1, <1>2, <1>4, <1>5 DEF StackInv
<1>7. \A i \in 1..n : calls[i].op = "play" /\ calls[i].channel = c => i \in Telling(c)
  BY <1>2 DEF Telling
<1>8. \A i, j \in 1..(n + 1) :
                  /\ i # j /\ calls'[i].op = "play" /\ calls'[j].op = "play"
                  /\ calls'[i].channel = calls'[j].channel
                  => calls'[i].channel \in contended'
  <2> SUFFICES ASSUME NEW i \in 1..(n + 1), NEW j \in 1..(n + 1),
                      i # j, calls'[i].op = "play", calls'[j].op = "play",
                      calls'[i].channel = calls'[j].channel
               PROVE  calls'[i].channel \in contended'
    OBVIOUS
  <2>1. CASE i \in 1..n /\ j \in 1..n
    BY <2>1, <1>4 DEF StackInv
  <2>2. CASE i = n + 1
    <3>1. j \in 1..n
      BY <1>2, <2>2
    <3>2. QED
      BY <1>4, <1>7, <1>h, <2>2, <3>1
  <2>3. CASE j = n + 1
    <3>1. i \in 1..n
      BY <1>2, <2>3
    <3>2. QED
      BY <1>4, <1>7, <1>h, <2>3, <3>1
  <2>4. QED
    BY <1>2, <2>1, <2>2, <2>3
<1>9. StackInv'
  BY <1>4, <1>6, <1>8 DEF StackInv, WellPlaced
<1>10. Follow
  BY <1>1, <1>2, <1>4 DEF Follow, Empties
<1>11. calls' # <<>> /\ Top' = call
  BY <1>2, <1>4 DEF Top, Last
<1>12. QED
  BY <1>9, <1>10, <1>11, <1>h DEF At

-----------------------------------------------------------------------------
AtOn(pc, c) == At(pc) /\ Top.channel = c

\* One channel that was not played on from the callback of a play on it: what the mixer
\* plays on it is its slot's music, and what the guest's thread is about to do to it finds
\* it silent.
ChannelInv(c) ==
    /\ mixer[c] # 0 => /\ mixer[c] = music[c].chunk /\ ~finished[c]
                       /\ music[c].paused <=> c \in held
    /\ lock = c => mixer[c] = 0 /\ music[c].chunk # 0
    /\ AtOn("clear", c) => mixer[c] = 0 /\ lock # c
    /\ AtOn("start", c) => /\ mixer[c] = 0 /\ lock # c /\ ~finished[c]
                           /\ music[c] = [chunk |-> Top.chunk, paused |-> FALSE]

EmptiedInv == \A i \in 1..Len(calls) :
                 Empties(calls[i]) => \/ calls[i].channel \in contended
                                      \/ music[calls[i].channel].chunk = 0

\* Who holds each chunk: a slot, or the play about to put it there; a slot about to be
\* cleared has one that is freed.
OwnsInv ==
    /\ \A c, d \in Channels : c # d /\ music[c].chunk = music[d].chunk => music[c].chunk = 0
    /\ \A c \in Channels : music[c].chunk # 0 => (music[c].chunk \in live <=> ~AtOn("clear", c))
    /\ At("reset") => Top.chunk \in live /\ \A c \in Channels : music[c].chunk # Top.chunk
    /\ \A k \in live : \/ \E c \in Channels : music[c].chunk = k
                       \/ At("reset") /\ Top.chunk = k

MusicInv == /\ MusicTypeOK
            /\ StackInv
            /\ EmptiedInv
            /\ \A c \in Channels \ contended : ChannelInv(c)
            /\ contended = {} => OwnsInv

\* The guest's thread is at no step that finds a slot half changed.
Settled == ~At("clear") /\ ~At("reset") /\ ~At("start")

\* A step of the guest's thread that changes neither slots nor the mixer.
Plain == /\ Settled /\ Settled'
         /\ UNCHANGED <<mixerVars, music, held>>
         /\ contended \subseteq contended'
         /\ StackInv' /\ Follow

LEMMA PlainStep ==
    ASSUME MusicInv, Plain, MusicTypeOK'
    PROVE  MusicInv'
<1> USE DEF Plain, mixerVars
<1>1. EmptiedInv'
  BY DEF MusicInv, EmptiedInv, Follow, Settled
<1>2. ASSUME NEW c \in Channels \ contended' PROVE ChannelInv(c)'
  BY DEF MusicInv, ChannelInv, AtOn, Settled
<1>3. contended' = {} => OwnsInv'
  BY DEF MusicInv, OwnsInv, AtOn, Settled
<1>4. QED
  BY <1>1, <1>2, <1>3 DEF MusicInv

LEMMA InGuestIsSettled == InGuest => Settled
  BY DEF InGuest, Settled, At

LEMMA EditCall ==
    ASSUME NEW call \in Call,
           NEW pc \in {"scan", "halt", "free", "clear", "tell", "load", "reset", "start", "next"}
    PROVE  LET after == [call EXCEPT !.pc = pc]
           IN  /\ after \in Call /\ after.pc = pc
               /\ after.op = call.op /\ after.channel = call.channel
               /\ after.calling = call.calling /\ after.chunk = call.chunk
  BY DEF Call

\* Going on to another step.
LEMMA GotoStack ==
    ASSUME StackInv, calls # <<>>, ~Top.calling, contended' = contended,
           NEW pc \in {"scan", "halt", "free", "clear", "tell", "reset", "start", "next"}, Goto(pc),
           pc \in {"reset", "start"} => Top.op = "play" /\ Top.chunk # 0,
           pc = "tell" => At("clear"),
           pc # "reset"
    PROVE  /\ StackInv' /\ Follow
           /\ \A p : At(p)' <=> p = pc
           /\ Top'.channel = Top.channel /\ Top'.chunk = Top.chunk
<1> DEFINE after == [Top EXCEPT !.pc = pc]
<1>1. Top \in Call /\ WellPlaced(Top)
  BY TopIs
<1>2. /\ after \in Call /\ after.pc = pc
      /\ after.op = Top.op /\ after.channel = Top.channel
      /\ after.calling = Top.calling /\ after.chunk = Top.chunk
  <2>1. pc \in {"scan", "halt", "free", "clear", "tell", "load", "reset", "start", "next"}
    OBVIOUS
  <2>2. QED
    BY <1>1, <2>1 DEF Call
<1>3. SetTop(after)
  BY DEF Goto
<1> HIDE DEF after
<1>4. WellPlaced(after)
  BY <1>1, <1>2 DEF WellPlaced
<1>5. Empties(after) => Empties(Top) \/ At("clear")
  BY <1>2 DEF Empties
<1>6. QED
  BY <1>2, <1>3, <1>4, <1>5, SetTopStack

-----------------------------------------------------------------------------
(* The steps that change neither slots nor the mixer. *)

LEMMA GuestCalls ==
    ASSUME MusicInv,
           \/ \E c \in Channels : SelectChannel(c)
           \/ RegisterStop \/ OpenOnly \/ Play \/ Stop \/ PumpBegin
    PROVE  MusicInv'
<1> USE DEF MusicInv
<1>1. Settled
  BY InGuestIsSettled DEF SelectChannel, RegisterStop, OpenOnly, Play, Stop, PumpBegin
<1>2. CASE (\E c \in Channels : SelectChannel(c)) \/ RegisterStop \/ OpenOnly
  <2>1. UNCHANGED <<mixerVars, music, calls, held, contended>>
    BY <1>2 DEF SelectChannel, RegisterStop, OpenOnly, NoMusicCall
  <2>2. MusicTypeOK'
    BY <1>2, <2>1 DEF SelectChannel, RegisterStop, OpenOnly, OpenAudio, MusicTypeOK, MixerTypeOK,
                      mixerVars
  <2>3. StackInv' /\ Follow /\ Settled'
    BY <1>1, <2>1 DEF StackInv, Follow, Settled, At, Top, Empties
  <2>4. QED
    BY <1>1, <2>1, <2>2, <2>3, PlainStep DEF Plain
<1>3. selected \in Channels /\ Min(Channels) \in Channels
  BY ChannelEnds DEF MusicTypeOK
<1>4. CASE Play
  <2>1. /\ StackInv' /\ Follow /\ \A p : At(p)' <=> p = "halt"
        /\ contended \subseteq contended'
    <3>1. contended' = contended \cup {c \in {selected} : Telling(c) # {}}
      BY <1>4 DEF Play
    <3>2. InGuest /\ Enter("play", "halt", selected)
      BY <1>4 DEF Play
    <3>3. QED
      BY <1>3, <3>1, <3>2, EnterStack
  <2>2. MusicTypeOK'
    BY <1>3, <1>4, <2>1 DEF Play, OpenAudio, MusicTypeOK, MixerTypeOK, mixerVars, StackInv
  <2>3. QED
    BY <1>1, <1>4, <2>1, <2>2, PlainStep DEF Plain, Play, Settled
<1>5. CASE Stop
  <2>1. StackInv' /\ Follow /\ \A p : At(p)' <=> p = "halt"
    BY <1>3, <1>5, EnterStack DEF Stop
  <2>2. MusicTypeOK'
    BY <1>5, <2>1 DEF Stop, OpenAudio, MusicTypeOK, MixerTypeOK, mixerVars, StackInv
  <2>3. QED
    BY <1>1, <1>5, <2>1, <2>2, PlainStep DEF Plain, Stop, Settled
<1>6. CASE PumpBegin
  <2>1. StackInv' /\ Follow /\ \A p : At(p)' <=> p = "scan"
    BY <1>3, <1>6, EnterStack DEF PumpBegin
  <2>2. MusicTypeOK'
    BY <1>6, <2>1 DEF PumpBegin, MusicTypeOK, MixerTypeOK, mixerVars, StackInv
  <2>3. QED
    BY <1>1, <1>6, <2>1, <2>2, PlainStep DEF Plain, PumpBegin, Settled
<1>7. QED
  BY <1>2, <1>4, <1>5, <1>6

\* Within a function the types change only with the stack.
LEMMA FrameTypes ==
    ASSUME MusicTypeOK, StackInv', UNCHANGED <<selected, stopCallback, opened, contended>>,
           MixerTypeOK', music' \in [Channels -> [chunk : Chunks \cup {0}, paused : BOOLEAN]],
           held' \subseteq Channels
    PROVE  MusicTypeOK'
  BY DEF MusicTypeOK, StackInv

LEMMA SameTypes ==
    ASSUME MusicTypeOK, StackInv', UNCHANGED <<selected, stopCallback, opened, contended>>,
           UNCHANGED <<mixerVars, music, held>>
    PROVE  MusicTypeOK'
  BY DEF MusicTypeOK, MixerTypeOK, mixerVars, StackInv

LEMMA FunctionTurns ==
    ASSUME MusicInv, \/ CallbackReturn \/ Scan \/ Tell \/ Onward
                     \/ At("load") /\ Return /\ UNCHANGED <<mixerVars, music, held>> /\ StepFrame
    PROVE  MusicInv'
<1> USE DEF MusicInv
<1>1. Settled /\ calls # <<>> /\ UNCHANGED <<mixerVars, music, held>>
      /\ UNCHANGED <<selected, stopCallback, opened, contended>>
  BY DEF CallbackReturn, Scan, Tell, Onward, StepFrame, Settled, At
<1>2. Top \in Call /\ WellPlaced(Top)
  BY <1>1, TopIs
<1>3. SUFFICES StackInv' /\ Follow /\ Settled'
  BY <1>1, SameTypes, PlainStep DEF Plain
<1>4. CASE Return
  BY <1>1, <1>4, ReturnStack DEF Settled
<1>5. CASE CallbackReturn
  <2> DEFINE after == [Top EXCEPT !.calling = FALSE]
  <2>1. /\ after \in Call /\ after.op = Top.op /\ after.channel = Top.channel
        /\ after.pc = Top.pc /\ after.chunk = Top.chunk /\ ~after.calling
    BY <1>2 DEF Call
  <2>2. SetTop(after)
    BY <1>5 DEF CallbackReturn
  <2>3. Top.pc \in {"load", "next"}
    BY <1>2, <1>5 DEF CallbackReturn, WellPlaced
  <2> HIDE DEF after
  <2>4. WellPlaced(after) /\ (Empties(after) => Empties(Top))
    BY <1>2, <2>1 DEF WellPlaced, Empties
  <2>5. StackInv' /\ Follow /\ \A p : At(p)' <=> ~after.calling /\ after.pc = p
    BY <1>1, <2>1, <2>2, <2>4, SetTopStack
  <2>6. QED
    BY <2>1, <2>3, <2>5 DEF Settled
<1>6. CASE Scan
  <2>1. PICK pc \in {"free", "next"} : Goto(pc)
    BY <1>6 DEF Scan
  <2>2. StackInv' /\ Follow /\ \A p : At(p)' <=> p = pc
    BY <1>1, <1>6, <2>1, GotoStack DEF Scan, At
  <2>3. QED
    BY <2>2 DEF Settled
<1>7. CASE Tell
  <2> DEFINE pc == IF Top.op = "play" THEN "load" ELSE "next"
             after == [Top EXCEPT !.calling = stopCallback /\ (Top.op = "pump" \/ Top.had), !.pc = pc]
  <2>1. /\ after \in Call /\ after.op = Top.op /\ after.channel = Top.channel
        /\ after.pc = pc /\ after.chunk = Top.chunk
    <3>1. (stopCallback /\ (Top.op = "pump" \/ Top.had)) \in BOOLEAN
      OBVIOUS
    <3>2. QED
      BY <1>2, <3>1 DEF Call
  <2>2. SetTop(after) /\ Top.pc = "tell"
    BY <1>7 DEF Tell, At
  <2> HIDE DEF after
  <2>3. WellPlaced(after) /\ (Empties(after) => Empties(Top))
    BY <2>1, <2>2 DEF WellPlaced, Empties
  <2>4. StackInv' /\ Follow /\ \A p : At(p)' <=> ~after.calling /\ after.pc = p
    BY <1>1, <2>1, <2>2, <2>3, SetTopStack
  <2>5. QED
    BY <2>1, <2>4 DEF Settled
<1>8. CASE Onward /\ Top.op = "pump" /\ Top.channel < Max(Channels)
  <2> DEFINE after == [Top EXCEPT !.pc = "scan", !.channel = @ + 1]
  <2>1. Top.channel + 1 \in Channels
    <3>1. Top.channel \in Channels
      BY <1>2 DEF Call
    <3>2. QED
      BY <1>8, <3>1, ChannelEnds
  <2>2. /\ after \in Call /\ after.op = Top.op /\ after.pc = "scan" /\ after.calling = Top.calling
    BY <1>2, <2>1 DEF Call
  <2>3. SetTop(after) /\ ~Top.calling
    BY <1>8 DEF Onward, At
  <2> HIDE DEF after
  <2>4. WellPlaced(after) /\ ~Empties(after)
    BY <2>2, <2>3 DEF WellPlaced, Empties
  <2>5. StackInv' /\ Follow /\ \A p : At(p)' <=> ~after.calling /\ after.pc = p
    BY <1>1, <1>8, <2>2, <2>3, <2>4, SetTopStack
  <2>6. QED
    BY <2>2, <2>5 DEF Settled
<1>9. QED
  BY <1>4, <1>5, <1>6, <1>7, <1>8 DEF Onward

LEMMA PauseOrResume ==
    ASSUME MusicInv, Pause \/ Resume
    PROVE  MusicInv'
<1> USE DEF MusicInv
<1>1. /\ UNCHANGED <<mixerVars, selected, stopCallback, calls, opened, contended>>
      /\ selected \in Channels /\ music[selected].chunk # 0 /\ Settled
  BY InGuestIsSettled DEF Pause, Resume, MusicTypeOK
<1>2. PICK paused \in BOOLEAN : music' = [music EXCEPT ![selected].paused = paused]
  BY DEF Pause, Resume
<1>3. /\ music' \in [Channels -> [chunk : Chunks \cup {0}, paused : BOOLEAN]]
      /\ \A c \in Channels : music'[c].chunk = music[c].chunk
      /\ \A c \in Channels : c # selected => music'[c] = music[c]
      /\ music'[selected].paused = paused
  BY <1>1, <1>2 DEF MusicTypeOK
<1>4. held' \subseteq Channels
  BY DEF Pause, Resume, MusicTypeOK
<1>5. \A c \in Channels : mixer[c] # 0 => IF c = selected THEN paused <=> c \in held'
                                         ELSE c \in held' <=> c \in held
  BY <1>1, <1>3 DEF Pause, Resume, Playing, MusicTypeOK
<1>6. MusicTypeOK'
  BY <1>1, <1>3, <1>4 DEF MusicTypeOK, MixerTypeOK, mixerVars
<1>7. StackInv' /\ Settled'
  BY <1>1 DEF StackInv, Settled, At, Top
<1>8. EmptiedInv'
  <2>1. \A i \in 1..Len(calls) : calls[i].channel \in Channels
    <3>1. \A i \in 1..Len(calls) : calls[i] \in Call
      BY DEF StackInv
    <3>2. QED
      BY <3>1 DEF Call
  <2>2. QED
    BY <1>1, <1>3, <2>1 DEF EmptiedInv, Empties
<1>9. ASSUME NEW c \in Channels \ contended' PROVE ChannelInv(c)'
  BY <1>1, <1>3, <1>5, <1>7 DEF ChannelInv, AtOn, Settled, mixerVars
<1>10. contended' = {} => OwnsInv'
  <2>1. live' = live /\ calls' = calls /\ contended' = contended
    BY <1>1 DEF mixerVars
  <2>2. /\ ~At("clear") /\ ~At("reset") /\ ~At("clear")' /\ ~At("reset")'
    BY <1>1, <1>7 DEF Settled
  <2>3. QED
    BY <1>3, <2>1, <2>2 DEF OwnsInv, AtOn
<1>11. QED
  BY <1>6, <1>7, <1>8, <1>9, <1>10

-----------------------------------------------------------------------------
(* The steps that do the work, on the channel of the function they are in. *)

\* What is known of a function at one of its steps.
LEMMA AtStep ==
    ASSUME MusicInv, NEW pc, At(pc)
    PROVE  /\ calls # <<>> /\ ~Top.calling /\ Top.pc = pc
           /\ Len(calls) \in 1..Len(calls) /\ Top = calls[Len(calls)]
           /\ Top \in Call /\ Top.channel \in Channels /\ WellPlaced(Top)
<1>1. calls # <<>> /\ ~Top.calling /\ Top.pc = pc /\ StackInv
  BY DEF At, MusicInv
<1>2. Len(calls) \in Nat \ {0} /\ Top = calls[Len(calls)] /\ Top \in Call /\ WellPlaced(Top)
  BY <1>1, TopIs
<1>3. Top.channel \in Channels
  BY <1>2 DEF Call
<1>4. QED
  BY <1>1, <1>2, <1>3

LEMMA HaltStep == ASSUME MusicInv, Halt PROVE MusicInv'
<1> DEFINE c == Top.channel
<1>1. /\ calls # <<>> /\ ~Top.calling /\ Top.pc = "halt" /\ c \in Channels
  BY AtStep DEF Halt
<1>2. /\ Goto("free") /\ UNCHANGED <<music, held>>
      /\ UNCHANGED <<selected, stopCallback, opened, contended>>
  BY DEF Halt, StepFrame
<1>3. /\ StackInv' /\ Follow /\ \A p : At(p)' <=> p = "free"
  BY <1>1, <1>2, GotoStack DEF MusicInv
<1>4. CASE UNCHANGED mixerVars
  <2>1. MusicTypeOK'
    BY <1>2, <1>3, <1>4, SameTypes DEF MusicInv
  <2>2. QED
    BY <1>1, <1>2, <1>3, <1>4, <2>1, PlainStep DEF Plain, Settled, At
<1>5. CASE HaltChannel(c)
  <2>1. /\ mixer' = [mixer EXCEPT ![c] = 0] /\ UNCHANGED <<lock, live>>
        /\ finished' = [finished EXCEPT ![c] = @ \/ mixer[c] # 0]
    BY <1>5 DEF HaltChannel
  <2>2. MixerTypeOK'
    BY <2>1 DEF MusicInv, MusicTypeOK, MixerTypeOK
  <2>3. /\ mixer'[c] = 0
        /\ \A d \in Channels : d # c => mixer'[d] = mixer[d] /\ finished'[d] = finished[d]
    BY <1>1, <2>1 DEF MusicInv, MusicTypeOK, MixerTypeOK
  <2>4. MusicTypeOK'
    BY <1>2, <1>3, <2>2, FrameTypes DEF MusicInv, MusicTypeOK
  <2>5. EmptiedInv'
    BY <1>1, <1>2, <1>3 DEF MusicInv, EmptiedInv, Follow, At
  <2>6. ASSUME NEW d \in Channels \ contended' PROVE ChannelInv(d)'
    BY <1>2, <1>3, <2>1, <2>3 DEF MusicInv, ChannelInv, AtOn
  <2>7. contended' = {} => OwnsInv'
    BY <1>1, <1>2, <1>3, <2>1 DEF MusicInv, OwnsInv, AtOn, At
  <2>8. QED
    BY <1>3, <2>4, <2>5, <2>6, <2>7 DEF MusicInv
<1>6. QED
  BY <1>4, <1>5 DEF Halt

LEMMA FreeStep == ASSUME MusicInv, Free PROVE MusicInv'
<1> DEFINE c == Top.channel
           k == music[Top.channel].chunk
<1>1. /\ calls # <<>> /\ ~Top.calling /\ Top.pc = "free" /\ c \in Channels
  BY AtStep DEF Free
<1>2. /\ Goto("clear") /\ UNCHANGED <<music, held>>
      /\ UNCHANGED <<selected, stopCallback, opened, contended>>
  BY DEF Free, StepFrame
<1>3. /\ StackInv' /\ Follow /\ (\A p : At(p)' <=> p = "clear") /\ Top'.channel = c
  BY <1>1, <1>2, GotoStack DEF MusicInv
<1>4. music \in [Channels -> [chunk : Chunks \cup {0}, paused : BOOLEAN]] /\ MixerTypeOK
  BY DEF MusicInv, MusicTypeOK
<1>5. /\ k = 0 => UNCHANGED mixerVars
      /\ k # 0 => /\ lock = 0 /\ live' = live \ {k} /\ UNCHANGED <<lock, finished>>
                  /\ mixer' = [d \in Channels |-> IF mixer[d] = k THEN 0 ELSE mixer[d]]
  BY DEF Free, FreeChunk
<1>6. UNCHANGED <<lock, finished>> /\ live' = live \ {k}
  BY <1>4, <1>5 DEF mixerVars, MixerTypeOK
<1>7. \A d \in Channels : mixer'[d] = IF k # 0 /\ mixer[d] = k THEN 0 ELSE mixer[d]
  BY <1>5 DEF mixerVars
<1>8. MixerTypeOK'
  BY <1>4, <1>5, <1>6 DEF mixerVars, MixerTypeOK
<1>9. MusicTypeOK'
  BY <1>2, <1>3, <1>4, <1>8, FrameTypes DEF MusicInv, MusicTypeOK
<1>10. EmptiedInv'
  BY <1>1, <1>2, <1>3 DEF MusicInv, EmptiedInv, Follow, At
<1>11. ASSUME NEW d \in Channels \ contended' PROVE ChannelInv(d)'
  <2>1. ChannelInv(d)
    BY <1>2 DEF MusicInv
  <2>2. d # 0
    OBVIOUS
  <2>3. d = c => mixer'[d] = 0 /\ lock' # d
    BY <1>5, <1>6, <1>7, <2>1, <2>2 DEF ChannelInv
  <2>4. AtOn("clear", d)' => d = c
    BY <1>3 DEF AtOn
  <2>5. ~AtOn("start", d)'
    BY <1>3 DEF AtOn
  <2>6. QED
    BY <1>2, <1>6, <1>7, <2>1, <2>3, <2>4, <2>5 DEF ChannelInv
<1>12. contended' = {} => OwnsInv'
  <2> SUFFICES ASSUME contended' = {} PROVE OwnsInv'
    OBVIOUS
  <2>1. OwnsInv /\ ~At("clear") /\ ~At("reset")
    BY <1>1, <1>2 DEF MusicInv, At
  <2>2. \A d \in Channels : AtOn("clear", d)' <=> d = c
    BY <1>3 DEF AtOn
  <2>3. \A d \in Channels : music[d].chunk # 0 => (music[d].chunk \in live' <=> d # c)
    BY <1>1, <1>6, <2>1 DEF OwnsInv, AtOn
  <2>4. QED
    BY <1>2, <1>3, <1>6, <2>1, <2>2, <2>3 DEF OwnsInv
<1>13. QED
  BY <1>3, <1>9, <1>10, <1>11, <1>12 DEF MusicInv

LEMMA ClearStep == ASSUME MusicInv, Clear PROVE MusicInv'
<1> DEFINE c == Top.channel
<1>1. /\ calls # <<>> /\ ~Top.calling /\ Top.pc = "clear" /\ c \in Channels /\ At("clear")
      /\ Len(calls) \in 1..Len(calls) /\ Top = calls[Len(calls)]
  BY AtStep DEF Clear
<1>2. /\ UNCHANGED <<mixer, lock, live, held>>
      /\ UNCHANGED <<selected, stopCallback, opened, contended>>
      /\ music' = [music EXCEPT ![c] = Empty]
      /\ finished' = [finished EXCEPT ![c] = FALSE]
  BY DEF Clear, StepFrame
<1>3. /\ StackInv' /\ Follow /\ Settled'
  <2>1. CASE Return
    BY <1>1, <1>2, <2>1, ReturnStack DEF MusicInv, Settled
  <2>2. CASE Goto("tell")
    <3>1. /\ StackInv' /\ Follow /\ \A p : At(p)' <=> p = "tell"
      BY <1>1, <1>2, <2>2, GotoStack DEF MusicInv
    <3>2. QED
      BY <3>1 DEF Settled
  <2>3. QED
    BY <2>1, <2>2 DEF Clear
<1>4. /\ music \in [Channels -> [chunk : Chunks \cup {0}, paused : BOOLEAN]] /\ MixerTypeOK
      /\ Empty \in [chunk : Chunks \cup {0}, paused : BOOLEAN] /\ Empty.chunk = 0
  BY DEF MusicInv, MusicTypeOK, Empty
<1>5. /\ music' \in [Channels -> [chunk : Chunks \cup {0}, paused : BOOLEAN]] /\ MixerTypeOK'
  BY <1>1, <1>2, <1>4 DEF MixerTypeOK
<1>6. /\ music'[c].chunk = 0 /\ ~finished'[c]
      /\ \A d \in Channels : d # c => music'[d] = music[d] /\ finished'[d] = finished[d]
  BY <1>1, <1>2, <1>4 DEF MixerTypeOK
<1>7. MusicTypeOK'
  BY <1>2, <1>3, <1>5, FrameTypes DEF MusicInv, MusicTypeOK
<1>8. \A d \in Channels : music[d].chunk = 0 => music'[d].chunk = 0
  BY <1>6
<1>9. EmptiedInv'
  <2> SUFFICES ASSUME NEW i \in 1..Len(calls'), Empties(calls'[i]),
                      calls'[i].channel \notin contended
               PROVE  music'[calls'[i].channel].chunk = 0
    BY <1>2 DEF EmptiedInv
  <2>1. /\ i \in 1..Len(calls) /\ calls[i].channel = calls'[i].channel
        /\ Empties(calls[i]) \/ i = Len(calls)
    BY <1>3 DEF Follow
  <2>2. calls[i] \in Call
    BY <2>1 DEF MusicInv, StackInv
  <2>3. calls[i].channel \in Channels
    BY <2>2 DEF Call
  <2>4. CASE Empties(calls[i])
    BY <1>8, <2>1, <2>3, <2>4 DEF MusicInv, EmptiedInv
  <2>5. CASE i = Len(calls)
    BY <1>1, <1>6, <2>1, <2>5
  <2>6. QED
    BY <2>1, <2>4, <2>5
<1>10. ASSUME NEW d \in Channels \ contended' PROVE ChannelInv(d)'
  <2>1. ChannelInv(d)
    BY <1>2 DEF MusicInv
  <2>2. ~AtOn("clear", d)' /\ ~AtOn("start", d)'
    BY <1>3 DEF AtOn, Settled
  <2>3. d = c => mixer[d] = 0 /\ lock # d
    BY <1>1, <2>1 DEF ChannelInv, AtOn
  <2>4. QED
    BY <1>2, <1>6, <2>1, <2>2, <2>3 DEF ChannelInv
<1>11. contended' = {} => OwnsInv'
  <2> SUFFICES ASSUME contended' = {} PROVE OwnsInv'
    OBVIOUS
  <2>1. OwnsInv
    BY <1>2 DEF MusicInv
  <2>2. \A d \in Channels : AtOn("clear", d) <=> d = c
    BY <1>1 DEF AtOn
  <2>3. ~At("reset")
    BY <1>1 DEF At
  <2>4. live \subseteq Chunks /\ 0 \notin live
    BY <1>4 DEF MixerTypeOK
  <2>5. music[c].chunk \notin live
    BY <1>1, <2>1, <2>2, <2>4 DEF OwnsInv
  <2>6. \A k \in live : \E d \in Channels : music'[d].chunk = k
    BY <1>6, <2>1, <2>3, <2>5 DEF OwnsInv
  <2>7. \A d, e \in Channels : d # e /\ music'[d].chunk = music'[e].chunk => music'[d].chunk = 0
    BY <1>6, <2>1 DEF OwnsInv
  <2>8. \A d \in Channels : music'[d].chunk # 0 => music'[d].chunk \in live
    BY <1>6, <2>1, <2>2 DEF OwnsInv
  <2>9. QED
    BY <1>2, <1>3, <2>6, <2>7, <2>8 DEF OwnsInv, AtOn, Settled
<1>12. QED
  BY <1>3, <1>7, <1>9, <1>10, <1>11 DEF MusicInv

LEMMA LoadStep == ASSUME MusicInv, Load PROVE MusicInv'
<1> DEFINE c == Top.channel
           k == Min(Chunks \ live)
           after == [Top EXCEPT !.pc = "reset", !.chunk = k]
<1>1. /\ calls # <<>> /\ ~Top.calling /\ Top.pc = "load" /\ c \in Channels
      /\ Top \in Call /\ WellPlaced(Top)
  BY AtStep DEF Load
<1>2. /\ UNCHANGED <<music, held>> /\ UNCHANGED <<selected, stopCallback, opened, contended>>
  BY DEF Load, StepFrame
<1>3. CASE Return /\ UNCHANGED mixerVars
  BY <1>2, <1>3, FunctionTurns DEF Load
<1>4. CASE LoadChunk(k) /\ SetTop(after)
  <2>1. /\ k \in Chunks \ live /\ live' = live \cup {k} /\ UNCHANGED <<mixer, lock, finished>>
    BY <1>4 DEF LoadChunk
  <2>2. k # 0
    BY <2>1
  <2>3. /\ after \in Call /\ after.op = Top.op /\ after.channel = c
        /\ after.pc = "reset" /\ after.chunk = k /\ ~after.calling
    BY <1>1, <2>1 DEF Call
  <2> HIDE DEF after, k
  <2>4. WellPlaced(after) /\ (Empties(after) => Empties(Top))
    BY <1>1, <2>2, <2>3 DEF WellPlaced, Empties
  <2>5. /\ StackInv' /\ Follow /\ Top' = after /\ \A p : At(p)' <=> p = "reset"
    BY <1>1, <1>2, <1>4, <2>3, <2>4, SetTopStack DEF MusicInv
  <2>6. MixerTypeOK'
    BY <2>1 DEF MusicInv, MusicTypeOK, MixerTypeOK
  <2>7. MusicTypeOK'
    BY <1>2, <2>5, <2>6, FrameTypes DEF MusicInv, MusicTypeOK
  <2>8. EmptiedInv'
    BY <1>1, <1>2, <2>5 DEF MusicInv, EmptiedInv, Follow, At
  <2>9. ASSUME NEW d \in Channels \ contended' PROVE ChannelInv(d)'
    BY <1>2, <2>1, <2>5, <2>9 DEF MusicInv, ChannelInv, AtOn
  <2>10. contended' = {} => OwnsInv'
    <3> SUFFICES ASSUME contended' = {} PROVE OwnsInv'
      OBVIOUS
    <3>1. OwnsInv /\ ~At("clear") /\ ~At("reset")
      BY <1>1, <1>2 DEF MusicInv, At
    <3>2. \A d \in Channels : music[d].chunk # 0 => music[d].chunk \in live
      BY <3>1 DEF OwnsInv, AtOn
    <3>3. \A d \in Channels : music[d].chunk # k
      BY <2>1, <2>2, <3>2
    <3>4. Top'.chunk = k
      BY <2>3, <2>5
    <3>5. \A d \in Channels : ~AtOn("clear", d)'
      BY <2>5 DEF AtOn
    <3>6. \A j \in live' : (\E d \in Channels : music'[d].chunk = j) \/ j = k
      BY <1>2, <2>1, <3>1 DEF OwnsInv
    <3>7. QED
      BY <1>2, <2>1, <2>5, <3>1, <3>2, <3>3, <3>4, <3>5, <3>6 DEF OwnsInv
  <2>11. QED
    BY <2>5, <2>7, <2>8, <2>9, <2>10 DEF MusicInv
<1>5. QED
  BY <1>3, <1>4 DEF Load

LEMMA ResetStep == ASSUME MusicInv, Reset PROVE MusicInv'
<1> DEFINE c == Top.channel
           slot == [chunk |-> Top.chunk, paused |-> FALSE]
<1>1. /\ calls # <<>> /\ ~Top.calling /\ Top.pc = "reset" /\ c \in Channels /\ At("reset")
      /\ Len(calls) \in 1..Len(calls) /\ Top = calls[Len(calls)]
      /\ Top \in Call /\ WellPlaced(Top)
  BY AtStep DEF Reset
<1>2. /\ UNCHANGED <<mixer, lock, live, held>>
      /\ UNCHANGED <<selected, stopCallback, opened, contended>>
      /\ music' = [music EXCEPT ![c] = slot]
      /\ finished' = [finished EXCEPT ![c] = FALSE]
      /\ Goto("start")
  BY DEF Reset, StepFrame
<1>3. Top.op = "play" /\ Top.chunk # 0 /\ Top.chunk \in Chunks \cup {0}
  BY <1>1 DEF WellPlaced, Call
<1>4. /\ StackInv' /\ Follow /\ (\A p : At(p)' <=> p = "start")
      /\ Top'.channel = c /\ Top'.chunk = Top.chunk
  BY <1>1, <1>2, <1>3, GotoStack DEF MusicInv
<1>5. /\ music \in [Channels -> [chunk : Chunks \cup {0}, paused : BOOLEAN]] /\ MixerTypeOK
      /\ slot \in [chunk : Chunks \cup {0}, paused : BOOLEAN] /\ slot.chunk = Top.chunk
  BY <1>3 DEF MusicInv, MusicTypeOK
<1>6. music' \in [Channels -> [chunk : Chunks \cup {0}, paused : BOOLEAN]] /\ MixerTypeOK'
  BY <1>1, <1>2, <1>5 DEF MixerTypeOK
<1>7. /\ music'[c] = slot /\ ~finished'[c]
      /\ \A d \in Channels : d # c => music'[d] = music[d] /\ finished'[d] = finished[d]
  BY <1>1, <1>2, <1>5 DEF MixerTypeOK
<1>8. MusicTypeOK'
  BY <1>2, <1>4, <1>6, FrameTypes DEF MusicInv, MusicTypeOK
<1>9. c \in contended \/ music[c].chunk = 0
  BY <1>1, <1>3 DEF MusicInv, EmptiedInv, Empties
<1> HIDE DEF slot
<1>10. EmptiedInv'
  <2> SUFFICES ASSUME NEW i \in 1..Len(calls'), Empties(calls'[i]),
                      calls'[i].channel \notin contended
               PROVE  music'[calls'[i].channel].chunk = 0
    BY <1>2 DEF EmptiedInv
  <2>1. /\ i \in 1..Len(calls) /\ calls[i].channel = calls'[i].channel
        /\ Empties(calls[i])
    BY <1>1, <1>4 DEF Follow, At
  <2>2. calls[i] \in Call
    BY <2>1 DEF MusicInv, StackInv
  <2>3. calls[i].channel \in Channels
    BY <2>2 DEF Call
  <2>4. i # Len(calls)
    <3>1. calls'[Len(calls)].pc = "start"
      <4>1. Len(calls') = Len(calls)
        BY <1>2 DEF Goto, SetTop
      <4>2. Top' = calls'[Len(calls)]
        BY <4>1 DEF Top, Last
      <4>3. At("start")'
        BY <1>4
      <4>4. QED
        BY <4>2, <4>3 DEF At
    <3>2. QED
      BY <3>1 DEF Empties
  <2>5. calls[i].channel # c
    BY <1>1, <1>3, <2>1, <2>4 DEF MusicInv, StackInv, Empties
  <2>6. music[calls[i].channel].chunk = 0
    BY <2>1 DEF MusicInv, EmptiedInv
  <2>7. QED
    BY <1>7, <2>1, <2>3, <2>5, <2>6
<1>11. ASSUME NEW d \in Channels \ contended' PROVE ChannelInv(d)'
  <2>1. ChannelInv(d)
    BY <1>2 DEF MusicInv
  <2>2. ~AtOn("clear", d)' /\ (AtOn("start", d)' <=> d = c)
    BY <1>4 DEF AtOn
  <2>3. d = c => mixer[d] = 0 /\ lock # d
    BY <1>2, <1>9, <2>1 DEF ChannelInv
  <2>4. CASE d = c
    BY <1>2, <1>4, <1>7, <2>2, <2>3, <2>4 DEF ChannelInv, slot
  <2>5. CASE d # c
    BY <1>2, <1>7, <2>1, <2>2, <2>5 DEF ChannelInv
  <2>6. QED
    BY <2>4, <2>5
<1>12. contended' = {} => OwnsInv'
  <2> SUFFICES ASSUME contended' = {} PROVE OwnsInv'
    OBVIOUS
  <2>1. OwnsInv /\ ~At("clear")
    BY <1>1, <1>2 DEF MusicInv, At
  <2>2. music[c].chunk = 0 /\ music'[c].chunk = Top.chunk
    BY <1>2, <1>5, <1>7, <1>9
  <2>3. Top.chunk \in live /\ \A d \in Channels : music[d].chunk # Top.chunk
    BY <1>1, <2>1 DEF OwnsInv
  <2>4. \A d \in Channels : ~AtOn("clear", d)' /\ ~AtOn("clear", d)
    BY <1>4, <2>1 DEF AtOn
  <2>5. \A d, e \in Channels : d # e /\ music'[d].chunk = music'[e].chunk => music'[d].chunk = 0
    BY <1>7, <2>1, <2>2, <2>3 DEF OwnsInv
  <2>6. \A d \in Channels : music'[d].chunk # 0 => music'[d].chunk \in live
    BY <1>7, <2>1, <2>2, <2>3, <2>4 DEF OwnsInv
  <2>7. \A k \in live : \E d \in Channels : music'[d].chunk = k
    <3> SUFFICES ASSUME NEW k \in live PROVE \E d \in Channels : music'[d].chunk = k
      OBVIOUS
    <3>1. CASE k = Top.chunk
      BY <1>1, <2>2, <3>1
    <3>2. CASE k # Top.chunk
      <4>1. PICK d \in Channels : music[d].chunk = k
        BY <2>1, <3>2 DEF OwnsInv
      <4>2. k # 0
        BY <1>5 DEF MixerTypeOK
      <4>3. QED
        BY <1>7, <2>2, <4>1, <4>2
    <3>3. QED
      BY <3>1, <3>2
  <2>8. QED
    BY <1>2, <1>4, <2>4, <2>5, <2>6, <2>7 DEF OwnsInv
<1>13. QED
  BY <1>4, <1>8, <1>10, <1>11, <1>12 DEF MusicInv

LEMMA StartStep == ASSUME MusicInv, Start PROVE MusicInv'
<1> DEFINE c == Top.channel
<1>1. /\ calls # <<>> /\ ~Top.calling /\ Top.pc = "start" /\ c \in Channels /\ At("start")
      /\ Top \in Call /\ WellPlaced(Top)
  BY AtStep DEF Start
<1>2. Top.op = "play" /\ Top.chunk # 0 /\ Top.chunk \in Chunks
  BY <1>1 DEF WellPlaced, Call
<1>3. /\ UNCHANGED music /\ UNCHANGED <<selected, stopCallback, opened, contended>>
  BY DEF Start, StepFrame
<1>4. /\ music \in [Channels -> [chunk : Chunks \cup {0}, paused : BOOLEAN]] /\ MixerTypeOK
      /\ held \subseteq Channels
  BY DEF MusicInv, MusicTypeOK
<1>5. ~At("clear") /\ ~At("reset")
  BY <1>1 DEF At
<1>6. CASE PlayChannel(c, Top.chunk) /\ held' = held \ {c} /\ Return
  <2>1. /\ mixer' = [mixer EXCEPT ![c] = Top.chunk] /\ UNCHANGED <<lock, live>> /\ lock = 0
        /\ finished' = [finished EXCEPT ![c] = @ \/ mixer[c] # 0]
    BY <1>6 DEF PlayChannel
  <2>2. /\ StackInv' /\ Follow /\ \A p : ~At(p)'
    BY <1>1, <1>3, <1>6, ReturnStack DEF MusicInv
  <2>3. MixerTypeOK'
    BY <1>2, <1>4, <2>1 DEF MixerTypeOK
  <2>4. MusicTypeOK'
    BY <1>3, <1>4, <1>6, <2>2, <2>3, FrameTypes DEF MusicInv
  <2>5. /\ mixer'[c] = Top.chunk /\ (finished'[c] <=> finished[c] \/ mixer[c] # 0)
        /\ \A d \in Channels : d # c => mixer'[d] = mixer[d] /\ finished'[d] = finished[d]
    BY <1>1, <1>4, <2>1 DEF MixerTypeOK
  <2>6. EmptiedInv'
    BY <1>3, <1>5, <2>2 DEF MusicInv, EmptiedInv, Follow
  <2>7. ASSUME NEW d \in Channels \ contended' PROVE ChannelInv(d)'
    <3>1. ChannelInv(d)
      BY <1>3 DEF MusicInv
    <3>2. ~AtOn("clear", d)' /\ ~AtOn("start", d)'
      BY <2>2 DEF AtOn
    <3>3. CASE d = c
      <4>1. mixer[d] = 0 /\ ~finished[d] /\ music[d] = [chunk |-> Top.chunk, paused |-> FALSE]
        BY <1>1, <3>1, <3>3 DEF ChannelInv, AtOn
      <4>2. music[d].chunk = Top.chunk /\ ~music[d].paused
        BY <4>1
      <4>3. lock' # d
        BY <2>1
      <4>4. QED
        BY <1>3, <1>6, <2>5, <3>2, <3>3, <4>1, <4>2, <4>3 DEF ChannelInv
    <3>4. CASE d # c
      BY <1>3, <1>6, <2>1, <2>5, <3>1, <3>2, <3>4 DEF ChannelInv
    <3>5. QED
      BY <3>3, <3>4
  <2>8. contended' = {} => OwnsInv'
    BY <1>3, <1>5, <2>1, <2>2 DEF MusicInv, OwnsInv, AtOn
  <2>9. QED
    BY <2>2, <2>4, <2>6, <2>7, <2>8 DEF MusicInv
<1>7. CASE SetTop([Top EXCEPT !.op = "undo", !.pc = "free"]) /\ UNCHANGED <<mixerVars, held>>
  <2> DEFINE after == [Top EXCEPT !.op = "undo", !.pc = "free"]
  <2>1. /\ after \in Call /\ after.op = "undo" /\ after.channel = c
        /\ after.pc = "free" /\ ~after.calling
    BY <1>1 DEF Call
  <2> HIDE DEF after
  <2>2. WellPlaced(after) /\ ~Empties(after)
    BY <2>1 DEF WellPlaced, Empties
  <2>3. SetTop(after)
    BY <1>7 DEF after
  <2>4. /\ StackInv' /\ Follow /\ \A p : At(p)' <=> p = "free"
    BY <1>1, <1>3, <2>1, <2>2, <2>3, SetTopStack DEF MusicInv
  <2>5. MusicTypeOK'
    BY <1>3, <1>7, <2>4, SameTypes DEF MusicInv
  <2>6. EmptiedInv'
    BY <1>3, <1>5, <2>4 DEF MusicInv, EmptiedInv, Follow
  <2>7. ASSUME NEW d \in Channels \ contended' PROVE ChannelInv(d)'
    BY <1>3, <1>7, <2>4 DEF MusicInv, ChannelInv, AtOn, mixerVars
  <2>8. contended' = {} => OwnsInv'
    BY <1>3, <1>5, <1>7, <2>4 DEF MusicInv, OwnsInv, AtOn, mixerVars
  <2>9. QED
    BY <2>4, <2>5, <2>6, <2>7, <2>8 DEF MusicInv
<1>8. QED
  BY <1>6, <1>7 DEF Start

-----------------------------------------------------------------------------
(* The other threads, and the end. *)

LEMMA ThreadOfMixer ==
    ASSUME MusicInv, (\E c \in Channels : StreamEnds(c)) \/ StreamMarked
    PROVE  MusicInv'
<1> USE DEF MusicInv
<1>1. UNCHANGED <<music, selected, stopCallback, calls, held, opened, contended, live>>
  BY DEF StreamEnds, StreamMarked, ChunkEnds, ChannelFinished
<1>2. StackInv' /\ EmptiedInv' /\ \A pc : At(pc)' <=> At(pc)
  BY <1>1 DEF StackInv, EmptiedInv, At, Top
<1>3. Top' = Top
  BY <1>1 DEF Top
<1>4. contended' = {} => OwnsInv'
  BY <1>1, <1>2, <1>3 DEF OwnsInv, AtOn
<1>5. MixerTypeOK
  BY DEF MusicTypeOK
<1>6. ASSUME NEW c \in Channels, StreamEnds(c) PROVE MusicInv'
  <2>1. /\ mixer[c] # 0 /\ lock' = c /\ mixer' = [mixer EXCEPT ![c] = 0] /\ UNCHANGED finished
    BY <1>6 DEF StreamEnds, ChunkEnds
  <2>2. c \in Nat \ {0}
    OBVIOUS
  <2>3. MixerTypeOK'
    BY <1>1, <1>5, <2>1, <2>2 DEF MixerTypeOK
  <2>4. mixer'[c] = 0 /\ \A d \in Channels : d # c => mixer'[d] = mixer[d]
    BY <1>5, <2>1 DEF MixerTypeOK
  <2>5. ASSUME NEW d \in Channels \ contended' PROVE ChannelInv(d)'
    <3>1. ChannelInv(d)
      BY <1>1
    <3>2. CASE d = c
      BY <1>1, <1>2, <1>3, <2>1, <2>4, <3>1, <3>2 DEF ChannelInv, AtOn
    <3>3. CASE d # c
      BY <1>1, <1>2, <1>3, <2>1, <2>4, <3>1, <3>3 DEF ChannelInv, AtOn
    <3>4. QED
      BY <3>2, <3>3
  <2>6. MusicTypeOK'
    BY <1>1, <1>2, <2>3, FrameTypes DEF MusicTypeOK
  <2>7. QED
    BY <1>2, <1>4, <2>5, <2>6
<1>7. CASE StreamMarked
  <2>1. /\ lock \in Channels /\ lock' = 0 /\ UNCHANGED mixer
        /\ finished' = [finished EXCEPT ![lock] = TRUE]
    BY <1>7 DEF StreamMarked, ChannelFinished
  <2>2. MixerTypeOK'
    BY <1>1, <1>5, <2>1 DEF MixerTypeOK
  <2>3. \A d \in Channels : d # lock => finished'[d] = finished[d]
    BY <1>5, <2>1 DEF MixerTypeOK
  <2>4. ASSUME NEW d \in Channels \ contended' PROVE ChannelInv(d)'
    <3>1. ChannelInv(d) /\ d # 0
      BY <1>1
    <3>2. QED
      BY <1>1, <1>2, <1>3, <2>1, <2>3, <3>1 DEF ChannelInv, AtOn
  <2>5. MusicTypeOK'
    BY <1>1, <1>2, <2>2, FrameTypes DEF MusicTypeOK
  <2>6. QED
    BY <1>2, <1>4, <2>4, <2>5
<1>8. QED
  BY <1>6, <1>7

\* The voice unit moves the mixer's lock to and from its own callback, and nothing else.
LEMMA VoiceLeavesMusic ==
    ASSUME MusicInv,
           UNCHANGED <<music, selected, stopCallback, calls, held, contended, mixer, finished, live>>,
           opened' \in {"untried", "ready", "failed"}, lock' \in {lock, 0, MixLock}
    PROVE  MusicInv'
<1> USE DEF MusicInv
<1>1. StackInv' /\ EmptiedInv' /\ (\A pc : At(pc)' <=> At(pc)) /\ Top' = Top
  BY DEF StackInv, EmptiedInv, At, Top
<1>2. contended' = {} => OwnsInv'
  BY <1>1 DEF OwnsInv, AtOn
<1>3. MusicTypeOK'
  BY MixLockIsNoChannel DEF MusicTypeOK, MixerTypeOK
<1>4. ASSUME NEW c \in Channels \ contended' PROVE ChannelInv(c)'
  <2>1. ChannelInv(c) /\ (lock' = c => lock = c)
    BY MixLockIsNoChannel
  <2>2. QED
    BY <1>1, <2>1 DEF ChannelInv, AtOn
<1>5. QED
  BY <1>1, <1>2, <1>3, <1>4

LEMMA MusicEnds ==
    ASSUME MusicInv, MusicShutdown
    PROVE  MusicInv'
<1> USE DEF MusicInv
<1>1. Min(Channels) \in Channels
  BY ChannelEnds
<1>2. /\ calls' = <<>> /\ lock' = 0 /\ live' = {} /\ contended' = {} /\ held' = {}
      /\ mixer' = [c \in Channels |-> 0] /\ finished' = [c \in Channels |-> FALSE]
      /\ music' = [c \in Channels |-> Empty]
      /\ selected' \in Channels /\ stopCallback' = FALSE /\ opened' = "untried"
  BY <1>1 DEF MusicShutdown
<1>3. MusicTypeOK'
  <2>1. MixerTypeOK'
    BY <1>2 DEF MixerTypeOK
  <2>2. Empty \in [chunk : Chunks \cup {0}, paused : BOOLEAN]
    BY DEF Empty
  <2>3. calls' \in Seq(Call)
    BY <1>2, EmptySeq
  <2>4. QED
    BY <1>2, <2>1, <2>2, <2>3 DEF MusicTypeOK
<1>4. StackInv' /\ EmptiedInv' /\ \A pc : ~At(pc)'
  BY <1>2 DEF StackInv, EmptiedInv, At
<1>5. \A c \in Channels : ChannelInv(c)'
  BY <1>2, <1>4 DEF ChannelInv, AtOn
<1>6. OwnsInv'
  BY <1>2, <1>4 DEF OwnsInv, AtOn, Empty
<1>7. QED
  BY <1>3, <1>4, <1>5, <1>6

LEMMA MusicInitially == MusicInit => MusicInv
<1> SUFFICES ASSUME MusicInit PROVE MusicInv
  OBVIOUS
<1>1. Min(Channels) \in Channels
  BY ChannelEnds
<1>2. MusicTypeOK
  <2>1. MixerTypeOK
    BY DEF MusicInit, MixerInit, MixerTypeOK
  <2>2. Empty \in [chunk : Chunks \cup {0}, paused : BOOLEAN]
    BY DEF Empty
  <2>3. calls \in Seq(Call)
    BY EmptySeq DEF MusicInit
  <2>4. QED
    BY <1>1, <2>1, <2>2, <2>3 DEF MusicInit, MusicTypeOK
<1>3. StackInv /\ EmptiedInv /\ \A pc : ~At(pc)
  BY DEF MusicInit, StackInv, EmptiedInv, At
<1>4. \A c \in Channels : ChannelInv(c)
  BY <1>3 DEF ChannelInv, AtOn, MusicInit, MixerInit
<1>5. OwnsInv
  BY <1>3 DEF OwnsInv, AtOn, Empty, MusicInit, MixerInit
<1>6. QED
  BY <1>2, <1>3, <1>4, <1>5 DEF MusicInv

LEMMA MusicStep == ASSUME MusicInv, MusicNext PROVE MusicInv'
<1>1. CASE \/ \E c \in Channels : SelectChannel(c)
           \/ RegisterStop \/ OpenOnly \/ Play \/ Stop \/ PumpBegin
  BY <1>1, GuestCalls
<1>2. CASE Pause \/ Resume
  BY <1>2, PauseOrResume
<1>3. CASE CallbackReturn \/ Scan \/ Tell \/ Onward
  BY <1>3, FunctionTurns
<1>4. CASE Halt \/ Free \/ Clear \/ Load \/ Reset \/ Start
  BY <1>4, HaltStep, FreeStep, ClearStep, LoadStep, ResetStep, StartStep
<1>5. CASE (\E c \in Channels : StreamEnds(c)) \/ StreamMarked
  BY <1>5, ThreadOfMixer
<1>6. QED
  BY <1>1, <1>2, <1>3, <1>4, <1>5 DEF MusicNext

LEMMA MusicAtEachStep == MusicInv /\ [Next]_vars => MusicInv'
<1> SUFFICES ASSUME MusicInv, [Next]_vars PROVE MusicInv'
  OBVIOUS
<1>1. opened \in {"untried", "ready", "failed"}
  BY DEF MusicInv, MusicTypeOK
<1>2. CASE Music
  BY <1>2, MusicStep DEF Music
<1>3. CASE MixerThread
  BY <1>3, ThreadOfMixer DEF MixerThread
<1>4. CASE Shutdown
  BY <1>4, MusicEnds DEF Shutdown
<1>5. CASE VoiceCall \/ BeginShutdown
  <2>1. UNCHANGED <<musicOnly, opened, mixerVars>>
    BY <1>5 DEF VoiceCall, BeginShutdown, SetCallbacks, StartVoice, StopVoice, EndVoice
  <2>2. QED
    BY <1>1, <2>1, VoiceLeavesMusic DEF musicOnly, mixerVars
<1>6. CASE VoiceGoesOn
  <2>1. UNCHANGED <<musicOnly, opened, mixerVars>>
    BY <1>6 DEF VoiceGoesOn, VoiceStep, CloseMicrophone, RemovePostmix, InstallPostmix,
                OpenMicrophone, Record
  <2>2. QED
    BY <1>1, <2>1, VoiceLeavesMusic DEF musicOnly, mixerVars
<1>7. CASE VoiceActivates
  <2>1. UNCHANGED <<musicOnly, mixerVars>> /\ opened' \in {"untried", "ready", "failed"}
    BY <1>1, <1>7 DEF VoiceActivates, OpenAudio, Activate
  <2>2. QED
    BY <2>1, VoiceLeavesMusic DEF musicOnly, mixerVars
<1>8. CASE VoiceRuns
  <2>1. UNCHANGED <<musicOnly, opened, mixer, finished, live>> /\ lock' \in {lock, 0, MixLock}
    BY <1>8 DEF VoiceRuns, VoiceThreads, CaptureBegins, CaptureEnds, RenderBegins, RenderEnds,
                mixerVars
  <2>2. QED
    BY <1>1, <2>1, VoiceLeavesMusic DEF musicOnly
<1>9. CASE UNCHANGED vars
  BY <1>1, <1>9, VoiceLeavesMusic DEF vars, musicVars, mixerVars
<1>10. QED
  BY <1>2, <1>3, <1>4, <1>5, <1>6, <1>7, <1>8, <1>9 DEF Next

\* Whatever the game does in the callbacks, at any moment of the mixer's thread.
THEOREM MusicAlways == Spec => []MusicInv
<1>1. Init => MusicInv
  BY MusicInitially DEF Init
<1>2. QED
  BY <1>1, MusicAtEachStep, PTL DEF Spec

\* What s3eAudioGetInt and s3eAudioIsPlaying tell is what the mixer does, and what it
\* plays is the slot's music, which no mark of an earlier end will cut short.
THEOREM PlaysAsToldAlways == Spec => []PlaysAsTold
<1>1. MusicInv => PlaysAsTold
  BY DEF MusicInv, ChannelInv, PlaysAsTold, Status, Playing
<1>2. QED
  BY <1>1, MusicAlways, PTL

LEMMA HoldersCounted == MusicInv => StreamsHeld
<1> SUFFICES ASSUME MusicInv, contended = {}, NEW k \in Chunks
             PROVE  \/ k \in live /\ Cardinality(Holding(k)) = 1
                    \/ k \notin live /\ \A h \in Holding(k) :
                          h[1] = "slot" /\ At("clear") /\ Top.channel = h[2]
  BY DEF StreamsHeld
<1>1. OwnsInv /\ StackInv /\ k # 0
  BY DEF MusicInv
<1>2. ASSUME NEW i \in DOMAIN calls, calls[i].pc = "reset"
      PROVE  At("reset") /\ i = Len(calls) /\ Top.chunk = calls[i].chunk
  <2>1. i \in 1..Len(calls) /\ Len(calls) \in Nat
    BY <1>1 DEF StackInv
  <2>2. ~calls[i].calling
    BY <1>1, <1>2, <2>1 DEF StackInv, WellPlaced
  <2>3. i = Len(calls)
    BY <1>1, <2>1, <2>2 DEF StackInv
  <2>4. calls # <<>>
    BY <2>1
  <2>5. Top = calls[i]
    BY <2>3 DEF Top, Last
  <2>6. QED
    BY <1>2, <2>2, <2>3, <2>4, <2>5 DEF At
<1>3. \A h \in Holding(k) :
         \/ \E c \in Channels : h = <<"slot", c>> /\ music[c].chunk = k
         \/ h = <<"call", Len(calls)>> /\ At("reset") /\ Top.chunk = k
  BY <1>2 DEF Holding
<1>4. CASE k \notin live
  <2>1. ~(At("reset") /\ Top.chunk = k)
    BY <1>1, <1>4 DEF OwnsInv
  <2>2. \A c \in Channels : music[c].chunk = k => At("clear") /\ Top.channel = c
    BY <1>1, <1>4 DEF OwnsInv, AtOn
  <2>3. QED
    BY <1>3, <1>4, <2>1, <2>2
<1>5. ASSUME k \in live, NEW c \in Channels, music[c].chunk = k
      PROVE  Cardinality(Holding(k)) = 1
  <2>1. ~(At("reset") /\ Top.chunk = k)
    BY <1>1, <1>5 DEF OwnsInv
  <2>2. \A d \in Channels : music[d].chunk = k => d = c
    BY <1>1, <1>5 DEF OwnsInv
  <2>3. <<"slot", c>> \in Holding(k)
    BY <1>5 DEF Holding
  <2>4. Holding(k) = {<<"slot", c>>}
    BY <1>3, <2>1, <2>2, <2>3
  <2>5. QED
    BY <2>4, FS_Singleton
<1>6. CASE k \in live /\ At("reset") /\ Top.chunk = k
  <2>1. \A d \in Channels : music[d].chunk # k
    BY <1>1, <1>6 DEF OwnsInv
  <2>2. /\ Len(calls) \in DOMAIN calls /\ calls[Len(calls)] = Top
    BY <1>1, <1>6, TopIs DEF At, StackInv
  <2>3. <<"call", Len(calls)>> \in Holding(k)
    BY <1>6, <2>2 DEF Holding, At
  <2>4. Holding(k) = {<<"call", Len(calls)>>}
    BY <1>3, <2>1, <2>3
  <2>5. QED
    BY <1>6, <2>4, FS_Singleton
<1>7. QED
  BY <1>1, <1>4, <1>5, <1>6 DEF OwnsInv

\* Every chunk of music not freed has one holder, through every interleaving of
\* play_audio_buffer, stop_audio_channel, service_finished_audio and their callbacks.
THEOREM StreamsHeldAlways == Spec => []StreamsHeld
  BY HoldersCounted, MusicAlways, PTL

-----------------------------------------------------------------------------
(* The voice unit. *)

\* Who may be in a callback, and what the guest's call has already undone or done when
\* it is at each of its steps.
VoiceInv == /\ voice = [op |-> voice.op, pc |-> voice.pc, capture |-> voice.capture,
                         render |-> voice.render]
            /\ microphone \in {"closed", "opened", "recording"}
            /\ capturing # 0 => microphone = "recording" /\ capturing = capture
            /\ microphone = "recording" => started /\ heardRate /\ voice.pc \in {"none", "close"}
            /\ microphone = "opened" => voice.pc = "record"
            /\ voice.pc \in {"mix", "open", "record"} => started
            /\ postmix => mixedRate /\ started
            /\ rendering # 0 => lock = MixLock /\ postmix /\ rendering = render

LEMMA VoiceInitially == VoiceInit => VoiceInv
  BY DEF VoiceInit, VoiceInv, Idle

\* What the music does to the lock leaves the mixer's thread in its callback.
LEMMA MusicKeepsLock ==
    ASSUME lock = MixLock,
           MusicNext \/ MusicShutdown \/ (\E c \in Channels : StreamEnds(c)) \/ StreamMarked
    PROVE  lock' = lock
<1>1. lock # 0 /\ lock \notin Channels
  BY MixLockIsNoChannel
<1>2. CASE MusicShutdown \/ (\E c \in Channels : StreamEnds(c)) \/ StreamMarked
  BY <1>1, <1>2 DEF MusicShutdown, StreamEnds, ChunkEnds, StreamMarked, ChannelFinished
<1>3. CASE MusicNext
  <2>1. CASE \/ \E c \in Channels : SelectChannel(c)
             \/ RegisterStop \/ OpenOnly \/ Play \/ Stop \/ Pause \/ Resume \/ PumpBegin
             \/ CallbackReturn \/ Scan \/ Tell \/ Onward
    BY <2>1 DEF SelectChannel, RegisterStop, OpenOnly, NoMusicCall, Play, Stop, Pause, Resume,
                PumpBegin, CallbackReturn, Scan, Tell, Onward, mixerVars
  <2>2. CASE Halt \/ Free \/ Clear
    BY <1>1, <2>2 DEF Halt, Free, Clear, HaltChannel, FreeChunk, mixerVars
  <2>3. CASE Load \/ Reset \/ Start
    BY <1>1, <2>3 DEF Load, Reset, Start, LoadChunk, PlayChannel, mixerVars
  <2>4. QED
    BY <1>2, <1>3, <2>1, <2>2, <2>3 DEF MusicNext
<1>4. QED
  BY <1>2, <1>3

\* Where the unit itself stands still, only the lock matters.
LEMMA VoiceStandsStill ==
    ASSUME VoiceInv, UNCHANGED voiceVars, lock = MixLock => lock' = lock
    PROVE  VoiceInv'
  BY DEF VoiceInv, voiceVars, registered, devices, threads

-----------------------------------------------------------------------------
LEMMA CallStep ==
    ASSUME VoiceInv,
           \/ \E c, r \in Callbacks \cup {0} : SetCallbacks(c, r)
           \/ StartVoice \/ StopVoice \/ EndVoice
    PROVE  VoiceInv'
<1> USE DEF VoiceInv, Idle, VoiceIdle, registered, devices, threads, mixerVars
<1>1. ASSUME NEW c \in Callbacks \cup {0}, NEW r \in Callbacks \cup {0}, SetCallbacks(c, r)
      PROVE  VoiceInv'
  BY <1>1 DEF SetCallbacks
<1>2. CASE StartVoice
  BY <1>2 DEF StartVoice
<1>3. CASE StopVoice \/ EndVoice
  <2>1. PICK op \in {"stop", "end"} :
            voice' = [op |-> op, pc |-> "close", capture |-> 0, render |-> 0]
    BY <1>3 DEF StopVoice, EndVoice
  <2>2. QED
    BY <1>3, <2>1 DEF StopVoice, EndVoice
<1>4. QED
  BY <1>1, <1>2, <1>3

LEMMA ActivationStep ==
    ASSUME VoiceInv, NEW open \in BOOLEAN, VoiceStep \/ Activate(open)
    PROVE  VoiceInv'
<1> USE DEF VoiceInv, Idle, VoiceAt, VoiceGoto, registered, devices, threads, mixerVars
<1>1. CASE CloseMicrophone
  BY <1>1 DEF CloseMicrophone
<1>2. CASE RemovePostmix
  <2>1. microphone = "closed" /\ capturing = 0
    BY <1>2 DEF RemovePostmix
  <2>2. rendering = 0
    BY <1>2, MixLockIsNoChannel DEF RemovePostmix
  <2>3. QED
    BY <1>2, <2>1, <2>2 DEF RemovePostmix
<1>3. CASE Activate(open)
  BY <1>3 DEF Activate
<1>4. CASE InstallPostmix
  BY <1>4 DEF InstallPostmix
<1>5. CASE OpenMicrophone
  BY <1>5 DEF OpenMicrophone
<1>6. CASE Record
  BY <1>6 DEF Record
<1>7. QED
  BY <1>1, <1>2, <1>3, <1>4, <1>5, <1>6 DEF VoiceStep

LEMMA ThreadStep == ASSUME VoiceInv, VoiceThreads PROVE VoiceInv'
<1> USE DEF VoiceInv, registered, devices, threads, mixerVars
<1>1. CASE CaptureBegins \/ CaptureEnds
  BY <1>1 DEF CaptureBegins, CaptureEnds
<1>2. CASE RenderBegins
  BY <1>2 DEF RenderBegins
<1>3. CASE RenderEnds
  BY <1>3 DEF RenderEnds
<1>4. QED
  BY <1>1, <1>2, <1>3 DEF VoiceThreads

LEMMA AudioStep == VoiceInv /\ [Next]_vars => VoiceInv'
<1> SUFFICES ASSUME VoiceInv, [Next]_vars PROVE VoiceInv'
  OBVIOUS
<1>1. CASE Music \/ MixerThread \/ Shutdown
  <2>1. UNCHANGED voiceVars
    BY <1>1 DEF Music, MixerThread, Shutdown
  <2>2. lock = MixLock => lock' = lock
    BY <1>1, MusicKeepsLock DEF Music, MixerThread, Shutdown
  <2>3. QED
    BY <2>1, <2>2, VoiceStandsStill
<1>2. CASE VoiceCall \/ BeginShutdown
  BY <1>2, CallStep DEF VoiceCall, BeginShutdown
<1>3. CASE VoiceGoesOn \/ VoiceActivates
  BY <1>3, ActivationStep DEF VoiceGoesOn, VoiceActivates
<1>4. CASE VoiceRuns
  BY <1>4, ThreadStep DEF VoiceRuns
<1>5. CASE UNCHANGED vars
  BY <1>5, VoiceStandsStill DEF vars, musicVars, mixerVars
<1>6. QED
  BY <1>1, <1>2, <1>3, <1>4, <1>5 DEF Next

\* Each step of audio_unit_activate and audio_unit_deactivate, and SDL's two threads.
THEOREM VoiceAlways == Spec => []VoiceInv
<1>1. Init => VoiceInv
  BY VoiceInitially DEF Init
<1>2. QED
  BY <1>1, AudioStep, PTL DEF Spec

\* The callback that runs on the microphone's or the mixer's thread is the one the game
\* last gave a unit it started, with a known rate (audio_unit_capture, audio_unit_postmix).
THEOREM VoiceOnlyAsToldAlways == Spec => []VoiceOnlyAsTold
<1>1. VoiceInv => VoiceOnlyAsTold
  BY DEF VoiceInv, VoiceOnlyAsTold, VoiceIdle, Idle
<1>2. QED
  BY <1>1, VoiceAlways, PTL
=============================================================================
