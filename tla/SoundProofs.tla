---------------------------- MODULE SoundProofs ----------------------------
(***************************************************************************)
(* Proofs about SoundChannels, for any channels, chunks, samples, counts   *)
(* and depth of the guest's stack: each chunk has one holder, and what a   *)
(* channel plays is its slot's chunk, whatever the callbacks of a play, a  *)
(* stop and a pump play, stop and register, and whenever the mixer's       *)
(* thread runs.                                                            *)
(*                                                                         *)
(* A function that waits below another is at a point where its channel     *)
(* agrees with the mixer (Waiting), so the innermost alone can be between  *)
(* two changes of a slot (StackInv).  SoundInv says what it finds there:   *)
(* for the channel (ChannelInv) and for all the chunks (OwnsInv).          *)
(***************************************************************************)
EXTENDS SoundChannels, Integers, FiniteSetTheorems, SequenceTheorems, WellFoundedInduction, TLAPS

USE MixerConstants

\* The steps that change a slot or the mixer.
Stepping == {"halt", "free", "reset", "start"}

\* Where a function may be: it is in a callback only where it waits for an answer, has its
\* channel once it has begun, and a play that has loaded has a chunk.
WellPlaced(f) == /\ f.calling => f.pc \in {"load", "answered", "done", "next"}
                 /\ f.pc # "begin" => f.channel \in Channels
                 /\ f.pc \in Stepping /\ f.op = "play" => f.chunk # 0
                 /\ f.pc = "halt" => f.op \in {"play", "stop"}
                 /\ f.pc \in {"begin", "render", "load", "start"} => f.op = "play"
                 /\ f.pc = "scan" => f.op = "pump"
                 /\ f.op = "failed" => f.pc \in {"free", "reset"}

Waiting(f) == f.calling \/ f.pc \in {"begin", "scan", "playing"}

StackInv == /\ frames \in Seq(Frame)
            /\ \A i \in 1..Len(frames) : /\ WellPlaced(frames[i])
                                         /\ i < Len(frames) => Waiting(frames[i])

AtOn(pc, c) == At(pc) /\ Top.channel = c

\* The innermost function is a play with a chunk that is not yet in its slot.
Carrying == frames # <<>> /\ Top.op = "play" /\ Top.pc \in {"halt", "free", "reset"}

\* What the mixer plays is its slot's chunk, and what the guest's thread is about to do to
\* a channel finds it silent and the mixer's thread not about to mark it.
ChannelInv(c) ==
    /\ mixer[c] # 0 => mixer[c] = slots[c].chunk /\ ~finished[c]
    /\ lock = c => mixer[c] = 0
    /\ AtOn("free", c) => mixer[c] = 0 /\ (lock # c \/ slots[c].chunk # 0)
    /\ AtOn("reset", c) => mixer[c] = 0 /\ lock # c
    /\ AtOn("start", c) => /\ mixer[c] = 0 /\ lock # c /\ ~finished[c]
                           /\ slots[c].chunk = Top.chunk

\* Who holds each chunk: a slot, or the play about to put it there; a slot about to be
\* reset has one that is freed.
OwnsInv ==
    /\ \A c, d \in Channels : c # d /\ slots[c].chunk = slots[d].chunk => slots[c].chunk = 0
    /\ \A c \in Channels : slots[c].chunk # 0 => (slots[c].chunk \in live <=> ~AtOn("reset", c))
    /\ Carrying => Top.chunk \in live /\ \A c \in Channels : slots[c].chunk # Top.chunk
    /\ \A k \in live : (\E c \in Channels : slots[c].chunk = k) \/ (Carrying /\ Top.chunk = k)

SlotTypes == [Channels -> [chunk : Chunks \cup {0}, source : Samples \cup {0}, reps : Nat]]

SoundInv == /\ MixerTypeOK /\ slots \in SlotTypes /\ callbacks \in [Channels -> SUBSET Kinds]
            /\ StackInv
            /\ \A c \in Channels : ChannelInv(c)
            /\ OwnsInv

-----------------------------------------------------------------------------
(* Channels. *)

LEMMA ChannelEnds ==
    /\ Min(Channels) \in Channels
    /\ Max(Channels) \in Channels
    /\ \A c \in Channels : c # Max(Channels) => c + 1 \in Channels
<1>1. PICK n \in Channels : n \in Nat \ {0} /\ Channels = 1..n
  OBVIOUS
<1>2. 1 \in Channels /\ \A c \in Channels : 1 <= c
  BY <1>1
<1>3. Min(Channels) \in Channels
  BY <1>2 DEF Min
<1>4. n \in Channels /\ \A c \in Channels : n >= c
  BY <1>1
<1>5. Max(Channels) \in Channels /\ Max(Channels) >= n
  BY <1>4 DEF Max
<1>6. Max(Channels) = n
  BY <1>1, <1>5
<1>7. QED
  BY <1>1, <1>3, <1>6

LEMMA MinIsIn == ASSUME NEW S \in SUBSET Channels, S # {} PROVE Min(S) \in S
<1> DEFINE Below == OpToRel(<, Nat)
<1>1. \A x, y \in Nat : <<y, x>> \in Below <=> y < x
  BY DEF OpToRel
<1>2. IsWellFoundedOn(Below, Nat)
  BY NatLessThanWellFounded
<1>h. S \in SUBSET Nat
  OBVIOUS
<1> HIDE DEF Below
<1>3. PICK x \in S : \A y \in S : ~(<<y, x>> \in Below)
  BY <1>2, <1>h, WFMin
<1>4. \A y \in S : x <= y
  <2> SUFFICES ASSUME NEW y \in S PROVE ~(y < x)
    BY <1>h
  <2>1. x \in Nat /\ y \in Nat
    BY <1>h
  <2>2. QED
    BY <1>1, <1>3, <2>1, Zenon
<1>5. QED
  BY <1>4 DEF Min

-----------------------------------------------------------------------------
(* The stack. *)

LEMMA TopIs ==
    ASSUME StackInv, frames # <<>>
    PROVE  /\ Len(frames) \in Nat \ {0} /\ Top = frames[Len(frames)]
           /\ Top \in Frame /\ WellPlaced(Top)
<1>1. Len(frames) \in Nat \ {0}
  BY DEF StackInv
<1>2. Top = frames[Len(frames)]
  BY DEF Top, Last
<1>3. QED
  BY <1>1, <1>2 DEF StackInv

\* Functions called from a stack in which all wait.
LEMMA PushStack ==
    ASSUME NEW base \in Seq(Frame), \A i \in 1..Len(base) : WellPlaced(base[i]) /\ Waiting(base[i]),
           NEW above \in Seq(Frame), above # <<>>,
           \A i \in 1..Len(above) : WellPlaced(above[i]) /\ (i < Len(above) => Waiting(above[i])),
           frames' = base \o above
    PROVE  StackInv' /\ frames' # <<>> /\ Top' = above[Len(above)]
<1>1. Len(base) \in Nat /\ Len(above) \in Nat \ {0}
  OBVIOUS
<1>2. /\ frames' \in Seq(Frame) /\ Len(frames') = Len(base) + Len(above)
      /\ \A i \in 1..Len(frames') :
            frames'[i] = IF i <= Len(base) THEN base[i] ELSE above[i - Len(base)]
  BY ConcatProperties
<1>3. ASSUME NEW i \in 1..Len(frames')
      PROVE  WellPlaced(frames'[i]) /\ (i < Len(frames') => Waiting(frames'[i]))
  <2>1. CASE i <= Len(base)
    <3>1. i \in 1..Len(base) /\ frames'[i] = base[i]
      BY <1>1, <1>2, <2>1
    <3>2. QED
      BY <3>1
  <2>2. CASE i > Len(base)
    <3>1. /\ i - Len(base) \in 1..Len(above) /\ frames'[i] = above[i - Len(base)]
          /\ i < Len(frames') => i - Len(base) < Len(above)
      BY <1>1, <1>2, <2>2
    <3>2. QED
      BY <3>1
  <2>3. QED
    BY <1>1, <1>2, <2>1, <2>2
<1>4. StackInv'
  BY <1>2, <1>3 DEF StackInv, WellPlaced, Waiting
<1>5. frames' # <<>> /\ Len(frames') \in 1..Len(frames')
  BY <1>1, <1>2
<1>6. Top' = frames'[Len(frames')]
  BY DEF Top, Last
<1>7. QED
  BY <1>1, <1>2, <1>4, <1>5, <1>6

LEMMA SetTopStack ==
    ASSUME StackInv, frames # <<>>, NEW f \in Frame, WellPlaced(f), SetTop(f)
    PROVE  /\ StackInv' /\ frames' # <<>> /\ Top' = f
           /\ \A pc : At(pc)' <=> ~f.calling /\ f.pc = pc
<1>1. Len(frames) \in Nat \ {0} /\ Top = frames[Len(frames)]
  BY TopIs
<1>2. /\ frames' \in Seq(Frame) /\ Len(frames') = Len(frames)
      /\ frames'[Len(frames)] = f
      /\ \A i \in 1..Len(frames) : i # Len(frames) => frames'[i] = frames[i]
  BY <1>1, ExceptSeq DEF SetTop, StackInv
<1>3. \A i \in 1..Len(frames') : /\ WellPlaced(frames'[i])
                                 /\ i < Len(frames') => Waiting(frames'[i])
  BY <1>1, <1>2 DEF StackInv
<1>4. StackInv'
  BY <1>2, <1>3 DEF StackInv, WellPlaced, Waiting
<1>5. frames' # <<>> /\ Top' = f
  BY <1>1, <1>2 DEF Top, Last
<1>6. QED
  BY <1>4, <1>5 DEF At

\* The guest's thread is at no step that finds a slot half changed.
Quiet == frames # <<>> => Top.pc \notin Stepping \/ (Top.pc = "halt" /\ Top.op = "stop")

LEMMA QuietIs ==
    Quiet => ~At("free") /\ ~At("reset") /\ ~At("start") /\ ~Carrying
  BY DEF Quiet, At, Carrying, Stepping

LEMMA InGuestIs ==
    ASSUME StackInv, InGuest
    PROVE  Quiet /\ \A i \in 1..Len(frames) : WellPlaced(frames[i]) /\ Waiting(frames[i])
<1>1. CASE frames = <<>>
  BY <1>1 DEF Quiet
<1>2. CASE frames # <<>>
  <2>1. Top.calling /\ WellPlaced(Top) /\ Top = frames[Len(frames)] /\ Len(frames) \in Nat \ {0}
    BY <1>2, TopIs DEF InGuest
  <2>2. QED
    BY <2>1 DEF StackInv, Waiting, WellPlaced, Quiet, Stepping
<1>3. QED
  BY <1>1, <1>2

LEMMA ReturnStack ==
    ASSUME StackInv, frames # <<>>, NEW ok \in BOOLEAN, Return(ok)
    PROVE  StackInv' /\ Quiet'
<1> DEFINE rest == Front(frames)
<1>1. Len(frames) \in Nat \ {0}
  BY TopIs
<1>2. /\ rest \in Seq(Frame) /\ Len(rest) = Len(frames) - 1
      /\ \A i \in 1..Len(rest) : rest[i] = frames[i]
  <2>1. rest = SubSeq(frames, 1, Len(frames) - 1) /\ frames \in Seq(Frame)
    BY DEF Front, StackInv
  <2> DEFINE m == Len(frames) - 1
  <2>2. m \in Nat /\ \A i \in 1..m : frames[i] \in Frame /\ 1 + i - 1 = i
    BY <1>1, <2>1
  <2> HIDE DEF m
  <2>3. /\ SubSeq(frames, 1, m) \in Seq(Frame)
        /\ Len(SubSeq(frames, 1, m)) = IF 1 <= m THEN m - 1 + 1 ELSE 0
        /\ \A i \in 1..(m - 1 + 1) : SubSeq(frames, 1, m)[i] = frames[1 + i - 1]
    BY <2>2, SubSeqProperties
  <2>4. Len(SubSeq(frames, 1, m)) = m /\ \A i \in 1..m : SubSeq(frames, 1, m)[i] = frames[i]
    BY <2>2, <2>3
  <2>5. QED
    BY <2>1, <2>3, <2>4 DEF m
<1>3. \A i \in 1..Len(rest) : WellPlaced(rest[i]) /\ Waiting(rest[i])
  BY <1>1, <1>2 DEF StackInv
<1>4. frames' = IF rest # <<>> /\ Last(rest).pc = "playing"
                THEN [rest EXCEPT ![Len(rest)].pc = IF ok THEN "next" ELSE "stopped"]
                ELSE rest
  BY DEF Return
<1> DEFINE n == Len(rest)
<1>5. n \in Nat /\ (rest # <<>> <=> n # 0) /\ (n # 0 => Last(rest) = rest[n])
  BY <1>2 DEF Last
<1> HIDE DEF rest
<1>6. CASE frames' = rest /\ ~(n # 0 /\ rest[n].pc = "playing")
  <2>1. StackInv'
    BY <1>2, <1>3, <1>6 DEF StackInv, WellPlaced, Waiting
  <2>2. frames' # <<>> => Top' = rest[n] /\ WellPlaced(rest[n]) /\ Waiting(rest[n])
    BY <1>2, <1>3, <1>5, <1>6 DEF Top, Last
  <2>3. QED
    BY <2>1, <2>2 DEF Quiet, WellPlaced, Waiting, Stepping
<1>7. CASE n # 0 /\ rest[n].pc = "playing"
  <2> DEFINE pc == IF ok THEN "next" ELSE "stopped"
             f == [rest[n] EXCEPT !.pc = pc]
  <2>1. pc \in {"next", "stopped"} /\ frames' = [rest EXCEPT ![n] = f]
    BY <1>4, <1>5, <1>7
  <2>2. rest[n] \in Frame /\ WellPlaced(rest[n])
    BY <1>2, <1>3, <1>5, <1>7
  <2> HIDE DEF pc
  <2>3. /\ f \in Frame /\ f.pc = pc /\ f.op = rest[n].op /\ f.calling = rest[n].calling
        /\ f.channel = rest[n].channel
    BY <2>1, <2>2 DEF Frame, Labels
  <2> HIDE DEF f
  <2>4. WellPlaced(f)
    BY <1>7, <2>1, <2>2, <2>3 DEF WellPlaced, Stepping
  <2>5. /\ frames' \in Seq(Frame) /\ Len(frames') = n /\ frames'[n] = f
        /\ \A i \in 1..n : i # n => frames'[i] = rest[i]
    BY <1>2, <1>5, <1>7, <2>1, <2>3, ExceptSeq
  <2>6. StackInv'
    BY <1>3, <1>5, <1>7, <2>4, <2>5 DEF StackInv, WellPlaced, Waiting
  <2>7. Top' = f
    BY <2>5 DEF Top, Last
  <2>8. QED
    BY <2>1, <2>3, <2>6, <2>7 DEF Quiet, Stepping
<1>8. QED
  BY <1>4, <1>5, <1>6, <1>7

LEMMA GotoIs ==
    ASSUME NEW f \in Frame, NEW pc \in Labels
    PROVE  LET g == [f EXCEPT !.pc = pc]
           IN  /\ g \in Frame /\ g.pc = pc /\ g.calling = f.calling
               /\ g.op = f.op /\ g.channel = f.channel /\ g.chunk = f.chunk
  BY DEF Frame

LEMMA ScannedIs ==
    ASSUME NEW f \in Frame, NEW source \in Samples \cup {0}, NEW again \in BOOLEAN, NEW reps \in Nat
    PROVE  LET g == [f EXCEPT !.pc = "free", !.source = source, !.again = again, !.reps = reps]
           IN  /\ g \in Frame /\ g.pc = "free" /\ g.calling = f.calling
               /\ g.op = f.op /\ g.channel = f.channel
  BY DEF Frame, Labels

\* A step to another point of the same function.
LEMMA GotoStack ==
    ASSUME StackInv, frames # <<>>, ~Top.calling, NEW pc \in Labels, Goto(pc),
           Top.pc # "begin", pc \in Stepping => Top.pc \in Stepping,
           pc = "halt" => Top.op \in {"play", "stop"},
           pc \in {"render", "load", "start"} => Top.op = "play", pc \notin {"begin", "scan"},
           Top.op = "failed" => pc \in {"free", "reset"}
    PROVE  /\ StackInv' /\ frames' # <<>>
           /\ \A p : At(p)' <=> p = pc
           /\ Top'.op = Top.op /\ Top'.channel = Top.channel /\ Top'.chunk = Top.chunk
           /\ Top'.pc = pc
<1> DEFINE g == [Top EXCEPT !.pc = pc]
<1>1. Top \in Frame /\ WellPlaced(Top)
  BY TopIs
<1>2. /\ g \in Frame /\ g.pc = pc /\ g.calling = Top.calling
      /\ g.op = Top.op /\ g.channel = Top.channel /\ g.chunk = Top.chunk
  BY <1>1, GotoIs
<1>3. SetTop(g)
  BY DEF Goto
<1> HIDE DEF g
<1>4. WellPlaced(g)
  BY <1>1, <1>2 DEF WellPlaced
<1>5. QED
  BY <1>2, <1>3, <1>4, SetTopStack

LEMMA CallIs ==
    ASSUME NEW op \in Ops, NEW pc \in Labels, NEW c \in Channels \cup {0},
           NEW source \in Samples \cup {0}, NEW reps \in Nat
    PROVE  LET f == Call(op, pc, c, source, reps)
           IN  /\ f \in Frame /\ f.op = op /\ f.pc = pc /\ f.channel = c /\ ~f.calling
               /\ f.chunk = 0 /\ f.source = source /\ f.reps = reps
  BY DEF Call, Frame

LEMMA PumpCallIs ==
    /\ PumpCall \in Frame /\ PumpCall.op = "pump" /\ PumpCall.pc = "scan" /\ ~PumpCall.calling
    /\ PumpCall.channel \in Channels
    /\ WellPlaced(PumpCall) /\ Waiting(PumpCall)
<1>1. Min(Channels) \in Channels /\ "pump" \in Ops /\ "scan" \in Labels /\ 0 \in Nat
  BY ChannelEnds DEF Ops, Labels
<1>2. /\ PumpCall \in Frame /\ PumpCall.op = "pump" /\ PumpCall.pc = "scan" /\ ~PumpCall.calling
      /\ PumpCall.channel \in Channels
  BY <1>1, CallIs DEF PumpCall
<1>3. QED
  BY <1>2 DEF WellPlaced, Waiting, Stepping

-----------------------------------------------------------------------------
(* The steps that change neither slots nor the mixer. *)

Plain == Quiet /\ Quiet' /\ UNCHANGED <<mixerVars, slots>> /\ StackInv'

LEMMA PlainStep ==
    ASSUME SoundInv, Plain, callbacks' \in [Channels -> SUBSET Kinds]
    PROVE  SoundInv'
<1> USE DEF Plain, mixerVars
<1>1. /\ ~At("free") /\ ~At("reset") /\ ~At("start") /\ ~Carrying
      /\ ~At("free")' /\ ~At("reset")' /\ ~At("start")' /\ ~Carrying'
  BY QuietIs DEF Quiet, At, Carrying, Stepping
<1>2. ASSUME NEW c \in Channels PROVE ChannelInv(c)'
  BY <1>1 DEF SoundInv, ChannelInv, AtOn
<1>3. OwnsInv'
  BY <1>1 DEF SoundInv, OwnsInv, AtOn
<1>4. MixerTypeOK' /\ slots' \in SlotTypes
  BY DEF SoundInv, MixerTypeOK
<1>5. QED
  BY <1>2, <1>3, <1>4 DEF SoundInv, SlotTypes

\* One function called from the game or from the pump, at a point where it waits.
LEMMA EnterStack ==
    ASSUME NEW base \in Seq(Frame), \A i \in 1..Len(base) : WellPlaced(base[i]) /\ Waiting(base[i]),
           NEW f \in Frame, WellPlaced(f), f.pc \notin Stepping \/ (f.pc = "halt" /\ f.op = "stop"),
           frames' = Append(base, f)
    PROVE  StackInv' /\ Quiet'
<1> DEFINE above == <<f>>
<1>1. /\ above \in Seq(Frame) /\ Len(above) = 1 /\ above[1] = f /\ above # <<>>
      /\ Append(base, f) = base \o above
  OBVIOUS
<1> HIDE DEF above
<1>2. \A i \in 1..Len(above) : WellPlaced(above[i]) /\ (i < Len(above) => Waiting(above[i]))
  BY <1>1
<1>3. StackInv' /\ frames' # <<>> /\ Top' = f
  BY <1>1, <1>2, PushStack
<1>4. QED
  BY <1>3 DEF Quiet

LEMMA PlayEnters ==
    ASSUME SoundInv, NEW c \in Channels \cup {0}, NEW source \in Samples, NEW repeat \in Repeats,
           Play(c, source, repeat)
    PROVE  SoundInv'
<1>1. Quiet /\ \A i \in 1..Len(frames) : WellPlaced(frames[i]) /\ Waiting(frames[i])
  BY InGuestIs DEF SoundInv, Play
<1>2. frames \in Seq(Frame)
  BY DEF SoundInv, StackInv
<1> DEFINE f == Call("play", "begin", c, source, repeat)
           n == IF c = 0 THEN 2 ELSE 1
<1>3. f \in Frame /\ WellPlaced(f) /\ f.pc = "begin"
  <2>1. "play" \in Ops /\ "begin" \in Labels /\ source \in Samples \cup {0} /\ repeat \in Nat
    BY SoundConstants DEF Ops, Labels
  <2>2. f \in Frame /\ f.op = "play" /\ f.pc = "begin" /\ ~f.calling
    BY <2>1, CallIs
  <2>3. QED
    BY <2>2 DEF WellPlaced, Stepping
<1>4. frames' = frames \o <<f>> \o Pumps(n) /\ UNCHANGED <<mixerVars, slots, callbacks>>
  BY DEF Play
<1>5. n \in {1, 2}
  OBVIOUS
<1> HIDE DEF f, n
<1> DEFINE base == Append(frames, f)
<1>6. /\ base \in Seq(Frame) /\ base = frames \o <<f>>
      /\ \A i \in 1..Len(base) : WellPlaced(base[i]) /\ Waiting(base[i])
  <2>1. /\ base \in Seq(Frame) /\ Len(base) = Len(frames) + 1 /\ base[Len(frames) + 1] = f
        /\ \A i \in 1..Len(frames) : base[i] = frames[i]
    BY <1>2, <1>3, AppendProperties
  <2>2. \A i \in 1..Len(base) : i \in 1..Len(frames) \/ i = Len(frames) + 1
    BY <1>2, <2>1
  <2>3. base = frames \o <<f>>
    BY <1>2, <1>3
  <2>4. QED
    BY <1>1, <1>3, <2>1, <2>2, <2>3 DEF Waiting
<1>7. CASE Pumps(n) = <<>>
  <2>1. frames' = Append(frames, f)
    BY <1>4, <1>6, <1>7, ConcatEmptySeq
  <2>2. StackInv' /\ Quiet'
    BY <1>1, <1>2, <1>3, <2>1, EnterStack DEF Stepping
  <2>3. QED
    BY <1>1, <1>4, <2>2, PlainStep DEF Plain, SoundInv
<1>8. CASE Pumps(n) = [i \in 1..n |-> PumpCall]
  <2> DEFINE above == Pumps(n)
  <2>1. /\ above \in Seq(Frame) /\ Len(above) = n /\ above # <<>>
        /\ \A i \in 1..n : above[i] = PumpCall
    BY <1>5, <1>8, PumpCallIs
  <2>2. frames' = base \o above
    BY <1>4, <1>6
  <2> HIDE DEF above, base
  <2>3. StackInv' /\ frames' # <<>> /\ Top' = above[Len(above)]
    BY <1>6, <2>1, <2>2, PumpCallIs, PushStack
  <2>4. Quiet'
    BY <1>5, <2>1, <2>3, PumpCallIs DEF Quiet, Stepping
  <2>5. QED
    BY <1>1, <1>4, <2>3, <2>4, PlainStep DEF Plain, SoundInv
<1>9. QED
  BY <1>7, <1>8 DEF Pumps

LEMMA GuestCalls ==
    ASSUME SoundInv,
           \/ \E c \in Channels : \/ \E kind \in Kinds : Register(c, kind) \/ UnRegister(c, kind)
                                  \/ Stop(c)
           \/ PumpBegin
    PROVE  SoundInv'
<1>1. Quiet /\ \A i \in 1..Len(frames) : WellPlaced(frames[i]) /\ Waiting(frames[i])
  BY InGuestIs DEF SoundInv, Register, UnRegister, Stop, PumpBegin
<1>2. frames \in Seq(Frame) /\ callbacks \in [Channels -> SUBSET Kinds]
  BY DEF SoundInv, StackInv
<1>3. ASSUME NEW c \in Channels, NEW kind \in Kinds, Register(c, kind) \/ UnRegister(c, kind)
      PROVE  SoundInv'
  <2>1. callbacks' \in [Channels -> SUBSET Kinds] /\ UNCHANGED <<mixerVars, slots, frames>>
    BY <1>2, <1>3 DEF Register, UnRegister
  <2>2. StackInv' /\ Quiet'
    BY <1>1, <2>1 DEF SoundInv, StackInv, Quiet, Top
  <2>3. QED
    BY <1>1, <2>1, <2>2, PlainStep DEF Plain
<1>4. ASSUME NEW c \in Channels, Stop(c) PROVE SoundInv'
  <2> DEFINE call == Call("stop", "halt", c, 0, 0)
             again == slots[c].chunk # 0
             f == [call EXCEPT !.again = again]
  <2>1. call \in Frame /\ call.op = "stop" /\ call.pc = "halt" /\ call.channel = c /\ ~call.calling
    <3>1. "stop" \in Ops /\ "halt" \in Labels /\ 0 \in Nat
      BY DEF Ops, Labels
    <3>2. QED
      BY <3>1, CallIs
  <2>2. again \in BOOLEAN /\ frames' = Append(frames, f)
    BY <1>4 DEF Stop
  <2> HIDE DEF call, again
  <2>3. f \in Frame /\ f.op = "stop" /\ f.pc = "halt" /\ f.channel = c /\ ~f.calling
    BY <2>1, <2>2 DEF Frame
  <2> HIDE DEF f
  <2>4. WellPlaced(f)
    BY <2>3 DEF WellPlaced
  <2>5. StackInv' /\ Quiet'
    BY <1>1, <1>2, <2>2, <2>3, <2>4, EnterStack
  <2>6. QED
    BY <1>1, <1>2, <1>4, <2>5, PlainStep DEF Plain, Stop
<1>5. CASE PumpBegin
  <2>1. StackInv' /\ Quiet'
    BY <1>1, <1>2, <1>5, PumpCallIs, EnterStack DEF PumpBegin, Stepping
  <2>2. QED
    BY <1>1, <1>2, <1>5, <2>1, PlainStep DEF Plain, PumpBegin
<1>6. QED
  BY <1>3, <1>4, <1>5

\* What is known of a function at one of its steps.
LEMMA AtStep ==
    ASSUME SoundInv, NEW pc, At(pc)
    PROVE  /\ StackInv /\ frames # <<>> /\ ~Top.calling /\ Top.pc = pc
           /\ Top \in Frame /\ WellPlaced(Top)
           /\ pc # "begin" => Top.channel \in Channels
<1>1. frames # <<>> /\ ~Top.calling /\ Top.pc = pc /\ StackInv
  BY DEF At, SoundInv
<1>2. QED
  BY <1>1, TopIs DEF WellPlaced

\* To another point of the same function, with or without a callback before it.
LEMMA TurnStep ==
    ASSUME SoundInv, Quiet, frames # <<>>, NEW pc \in Labels \ (Stepping \cup {"begin", "scan"}),
           NEW calling \in BOOLEAN, calling => pc \in {"load", "answered", "done", "next"},
           Top.pc # "begin", Top.op # "failed", pc \in {"render", "load"} => Top.op = "play",
           SetTop([Top EXCEPT !.pc = pc, !.calling = calling]),
           UNCHANGED <<mixerVars, slots, callbacks>>
    PROVE  SoundInv'
<1> DEFINE g == [Top EXCEPT !.pc = pc, !.calling = calling]
<1>1. Top \in Frame /\ WellPlaced(Top) /\ StackInv
  BY TopIs DEF SoundInv
<1>2. /\ g \in Frame /\ g.pc = pc /\ g.calling = calling
      /\ g.op = Top.op /\ g.channel = Top.channel
  <2>1. pc \in Labels
    OBVIOUS
  <2>2. QED
    BY <1>1, <2>1 DEF Frame
<1> HIDE DEF g
<1>3. WellPlaced(g)
  BY <1>1, <1>2 DEF WellPlaced, Stepping
<1>4. SetTop(g)
  BY DEF g
<1>5. StackInv' /\ frames' # <<>> /\ Top' = g
  BY <1>1, <1>2, <1>3, <1>4, SetTopStack
<1>6. Quiet'
  BY <1>2, <1>5 DEF Quiet
<1>7. QED
  BY <1>5, <1>6, PlainStep DEF Plain, SoundInv

LEMMA TurnTo ==
    ASSUME SoundInv, Quiet, frames # <<>>, ~Top.calling,
           NEW pc \in Labels \ (Stepping \cup {"begin", "scan"}), Goto(pc),
           Top.pc # "begin", Top.op # "failed", pc \in {"render", "load"} => Top.op = "play",
           UNCHANGED <<mixerVars, slots, callbacks>>
    PROVE  SoundInv'
<1>1. StackInv
  BY DEF SoundInv
<1>2. StackInv' /\ frames' # <<>> /\ Top'.pc = pc
  <2>1. /\ pc \in Labels /\ pc \notin Stepping /\ pc # "halt" /\ pc \notin {"begin", "scan"}
        /\ pc \in {"render", "load", "start"} => Top.op = "play"
    BY DEF Stepping
  <2>2. QED
    BY <1>1, <2>1, GotoStack
<1>3. Quiet'
  BY <1>2 DEF Quiet
<1>4. QED
  BY <1>2, <1>3, PlainStep DEF Plain, SoundInv

LEMMA ReturnStep ==
    ASSUME SoundInv, Quiet, frames # <<>>, NEW ok \in BOOLEAN, Return(ok),
           UNCHANGED <<mixerVars, slots, callbacks>>
    PROVE  SoundInv'
<1>1. StackInv' /\ Quiet'
  BY ReturnStack DEF SoundInv
<1>2. QED
  BY <1>1, PlainStep DEF Plain, SoundInv

LEMMA PlayAgainStep ==
    ASSUME SoundInv, At("ended") \/ At("answered"), NEW source \in Samples \cup {0}, NEW reps \in Nat,
           PlayAgain(source, reps), UNCHANGED <<mixerVars, slots, callbacks>>
    PROVE  SoundInv'
<1>1. /\ StackInv /\ frames # <<>> /\ ~Top.calling /\ Top \in Frame /\ WellPlaced(Top)
      /\ Top.channel \in Channels /\ Top.pc \in {"ended", "answered"}
  BY AtStep
<1>2. Quiet
  BY <1>1 DEF Quiet, Stepping
<1> DEFINE n == Len(frames)
           g == [Top EXCEPT !.pc = "playing"]
           base == [frames EXCEPT ![n] = g]
           f == Call("play", "render", Top.channel, source, reps)
<1>3. n \in Nat \ {0} /\ Top = frames[n] /\ frames \in Seq(Frame)
  BY <1>1, TopIs DEF StackInv
<1>4. /\ g \in Frame /\ g.pc = "playing" /\ ~g.calling /\ g.op = Top.op /\ g.channel = Top.channel
  <2>1. "playing" \in Labels
    BY DEF Labels
  <2>2. QED
    BY <1>1, <2>1, GotoIs
<1>5. frames' = Append(base, f)
  BY <1>3 DEF PlayAgain
<1>6. f \in Frame /\ f.op = "play" /\ f.pc = "render" /\ f.channel = Top.channel /\ ~f.calling
  <2>1. "play" \in Ops /\ "render" \in Labels /\ Top.channel \in Channels \cup {0}
    BY <1>1 DEF Ops, Labels
  <2>2. QED
    BY <2>1 DEF Call, Frame
<1> HIDE DEF g, f
<1>7. WellPlaced(g) /\ Waiting(g) /\ WellPlaced(f)
  BY <1>1, <1>4, <1>6 DEF WellPlaced, Waiting, Stepping
<1>8. /\ base \in Seq(Frame) /\ Len(base) = n /\ base[n] = g
      /\ \A i \in 1..n : i # n => base[i] = frames[i]
  BY <1>3, <1>4, ExceptSeq
<1> HIDE DEF base
<1>9. \A i \in 1..Len(base) : WellPlaced(base[i]) /\ Waiting(base[i])
  BY <1>1, <1>3, <1>7, <1>8 DEF StackInv
<1>10. f.pc \notin Stepping
  BY <1>6 DEF Stepping
<1>11. StackInv' /\ Quiet'
  BY <1>5, <1>6, <1>7, <1>8, <1>9, <1>10, EnterStack
<1>12. QED
  BY <1>2, <1>11, PlainStep DEF Plain, SoundInv

LEMMA FunctionTurns ==
    ASSUME SoundInv, \/ CallbackReturn \/ Begin \/ Render \/ StopDone \/ ScanOn
                     \/ EndSample \/ Answered \/ SayStop \/ NextChannel
    PROVE  SoundInv'
<1>1. UNCHANGED <<mixerVars, slots, callbacks>>
  BY DEF CallbackReturn, Begin, Render, StopDone, ScanOn, EndSample, Answered, SayStop, NextChannel
<1>2. CASE CallbackReturn
  <2> DEFINE g == [Top EXCEPT !.calling = FALSE]
  <2>1. frames # <<>> /\ Top.calling /\ SetTop(g) /\ StackInv
    BY <1>2 DEF CallbackReturn, SoundInv
  <2>2. Top \in Frame /\ WellPlaced(Top)
    BY <2>1, TopIs
  <2>3. Top.pc \in {"load", "answered", "done", "next"}
    BY <2>1, <2>2 DEF WellPlaced
  <2>4. g \in Frame /\ g.pc = Top.pc /\ ~g.calling /\ g.op = Top.op /\ g.channel = Top.channel
    BY <2>2 DEF Frame
  <2> HIDE DEF g
  <2>5. WellPlaced(g)
    BY <2>2, <2>3, <2>4 DEF WellPlaced, Stepping
  <2>6. StackInv' /\ frames' # <<>> /\ Top' = g
    BY <2>1, <2>4, <2>5, SetTopStack
  <2>7. Quiet /\ Quiet'
    BY <2>3, <2>4, <2>6 DEF Quiet, Stepping
  <2>8. QED
    BY <1>1, <2>6, <2>7, PlainStep DEF Plain, SoundInv
<1>3. CASE Begin
  <2>1. /\ StackInv /\ frames # <<>> /\ ~Top.calling /\ Top.pc = "begin" /\ Top \in Frame
        /\ WellPlaced(Top)
    BY <1>3, AtStep DEF Begin
  <2>2. Quiet
    BY <2>1 DEF Quiet, Stepping
  <2>3. CASE Return(FALSE)
    BY <1>1, <2>1, <2>2, <2>3, ReturnStep
  <2>4. CASE ~(Top.channel = 0 /\ FreeChannels = {})
    <3> DEFINE c == IF Top.channel = 0 THEN Min(FreeChannels) ELSE Top.channel
               g == [Top EXCEPT !.pc = "render", !.channel = c]
    <3>1. c \in Channels
      <4>1. Top.channel \in Channels \cup {0} /\ FreeChannels \in SUBSET Channels
        BY <2>1 DEF Frame, FreeChannels
      <4>2. QED
        BY <2>4, <4>1, MinIsIn
    <3>2. SetTop(g)
      BY <1>3, <2>4 DEF Begin
    <3> HIDE DEF c
    <3>3. g \in Frame /\ g.pc = "render" /\ g.channel = c /\ ~g.calling /\ g.op = Top.op
      BY <2>1, <3>1 DEF Frame, Labels
    <3> HIDE DEF g
    <3>4. WellPlaced(g)
      BY <2>1, <3>1, <3>3 DEF WellPlaced, Stepping
    <3>5. StackInv' /\ frames' # <<>> /\ Top' = g
      BY <2>1, <3>2, <3>3, <3>4, SetTopStack
    <3>6. Quiet'
      BY <3>3, <3>5 DEF Quiet, Stepping
    <3>7. QED
      BY <1>1, <2>2, <3>5, <3>6, PlainStep DEF Plain, SoundInv
  <2>5. QED
    BY <1>3, <2>3, <2>4 DEF Begin
<1>4. ASSUME NEW pc \in {"render", "done", "scan", "ended", "answered", "stopped", "next"}, At(pc)
      PROVE  /\ Quiet /\ frames # <<>> /\ ~Top.calling /\ Top.pc # "begin" /\ Top.op # "failed"
             /\ Top.channel \in Channels /\ Top \in Frame /\ (pc = "render" => Top.op = "play")
  <2>1. /\ frames # <<>> /\ ~Top.calling /\ Top.pc = pc /\ Top \in Frame /\ WellPlaced(Top)
        /\ Top.channel \in Channels
    BY <1>4, AtStep
  <2>2. QED
    BY <2>1 DEF Quiet, Stepping, WellPlaced
<1>5. \A pc \in {"load", "answered", "done", "next", "ended", "stopped"} :
         pc \in Labels \ (Stepping \cup {"begin", "scan"})
  BY DEF Labels, Stepping
<1>6. CASE Render
  <2>1. /\ SetTop([Top EXCEPT !.pc = "load", !.calling = "gen" \in callbacks[Top.channel]])
        /\ At("render")
    BY <1>6 DEF Render
  <2>2. ("gen" \in callbacks[Top.channel]) \in BOOLEAN
    OBVIOUS
  <2>3. QED
    BY <1>1, <1>4, <1>5, <2>1, <2>2, TurnStep
<1>7. CASE StopDone
  BY <1>1, <1>4, <1>7, ReturnStep DEF StopDone
<1>8. CASE ScanOn
  BY <1>1, <1>4, <1>5, <1>8, TurnTo DEF ScanOn
<1>9. CASE EndSample
  <2>1. CASE SetTop([Top EXCEPT !.pc = "answered", !.calling = TRUE])
    BY <1>1, <1>4, <1>5, <1>9, <2>1, TurnStep DEF EndSample
  <2>2. CASE PlayAgain(Top.source, Top.reps)
    <3>1. At("ended") /\ Top.source \in Samples \cup {0} /\ Top.reps \in Nat
      BY <1>4, <1>9 DEF EndSample, Frame
    <3>2. QED
      BY <1>1, <2>2, <3>1, PlayAgainStep
  <2>3. CASE Goto("stopped")
    BY <1>1, <1>4, <1>5, <1>9, <2>3, TurnTo DEF EndSample
  <2>4. QED
    BY <1>9, <2>1, <2>2, <2>3 DEF EndSample
<1>10. CASE Answered
  <2>1. CASE Goto("stopped")
    BY <1>1, <1>4, <1>5, <1>10, <2>1, TurnTo DEF Answered
  <2>2. ASSUME NEW source \in Samples, NEW reps \in Repeats \cup {Top.reps}, PlayAgain(source, reps)
        PROVE  SoundInv'
    <3>1. At("answered") /\ source \in Samples \cup {0} /\ reps \in Nat
      BY <1>4, <1>10, SoundConstants DEF Answered, Frame
    <3>2. QED
      BY <1>1, <2>2, <3>1, PlayAgainStep
  <2>3. QED
    BY <1>10, <2>1, <2>2 DEF Answered
<1>11. CASE SayStop
  <2>1. /\ SetTop([Top EXCEPT !.pc = "next", !.calling = "stop" \in callbacks[Top.channel]])
        /\ At("stopped")
    BY <1>11 DEF SayStop
  <2>2. ("stop" \in callbacks[Top.channel]) \in BOOLEAN
    OBVIOUS
  <2>3. QED
    BY <1>1, <1>4, <1>5, <2>1, <2>2, TurnStep
<1>12. CASE NextChannel
  <2>1. CASE Return(TRUE)
    BY <1>1, <1>4, <1>12, <2>1, ReturnStep DEF NextChannel
  <2>2. CASE Top.channel # Max(Channels)
    <3> DEFINE c == Top.channel + 1
               g == [PumpCall EXCEPT !.channel = c]
    <3>1. c \in Channels
      BY <1>4, <1>12, <2>2, ChannelEnds DEF NextChannel
    <3>2. SetTop(g)
      BY <1>12, <2>2 DEF NextChannel
    <3> HIDE DEF c
    <3>3. g \in Frame /\ g.op = "pump" /\ g.pc = "scan" /\ ~g.calling /\ g.channel = c
      BY <3>1, PumpCallIs DEF Frame
    <3> HIDE DEF g
    <3>4. WellPlaced(g)
      BY <3>1, <3>3 DEF WellPlaced, Stepping
    <3>5. StackInv /\ Quiet /\ frames # <<>>
      BY <1>4, <1>12 DEF NextChannel, SoundInv
    <3>6. StackInv' /\ frames' # <<>> /\ Top' = g
      BY <3>2, <3>3, <3>4, <3>5, SetTopStack
    <3>7. Quiet'
      BY <3>3, <3>6 DEF Quiet, Stepping
    <3>8. QED
      BY <1>1, <3>5, <3>6, <3>7, PlainStep DEF Plain, SoundInv
  <2>3. QED
    BY <1>12, <2>1, <2>2 DEF NextChannel
<1>13. QED
  BY <1>2, <1>3, <1>6, <1>7, <1>8, <1>9, <1>10, <1>11, <1>12

-----------------------------------------------------------------------------
(* The steps that do the work, on the channel of the function they are in. *)

LEMMA ScanDueStep == ASSUME SoundInv, ScanDue PROVE SoundInv'
<1> DEFINE c == Top.channel
           source == slots[c].source
           again == slots[c].reps = 0
           reps == Decremented(slots[c].reps)
           g == [Top EXCEPT !.pc = "free", !.source = source, !.again = again, !.reps = reps]
<1>1. /\ StackInv /\ frames # <<>> /\ ~Top.calling /\ Top.pc = "scan" /\ Top \in Frame
      /\ WellPlaced(Top) /\ c \in Channels
  BY AtStep DEF ScanDue
<1>2. Top.op = "pump" /\ Quiet
  BY <1>1 DEF WellPlaced, Quiet, Stepping
<1>3. SetTop(g) /\ Due(c) /\ UNCHANGED <<mixerVars, slots, callbacks>>
  BY DEF ScanDue
<1>4. source \in Samples \cup {0} /\ again \in BOOLEAN /\ reps \in Nat
  <2>1. slots[c] \in [chunk : Chunks \cup {0}, source : Samples \cup {0}, reps : Nat]
    BY <1>1 DEF SoundInv, SlotTypes
  <2>2. QED
    BY <2>1 DEF Decremented
<1> HIDE DEF source, again, reps
<1>5. g \in Frame /\ g.pc = "free" /\ ~g.calling /\ g.op = "pump" /\ g.channel = c
  BY <1>1, <1>2, <1>4 DEF Frame, Labels
<1> HIDE DEF g
<1>6. WellPlaced(g)
  BY <1>1, <1>5 DEF WellPlaced
<1>7. StackInv' /\ frames' # <<>> /\ Top' = g /\ \A p : At(p)' <=> p = "free"
  BY <1>1, <1>3, <1>5, <1>6, SetTopStack
<1>8. ~At("free") /\ ~At("reset") /\ ~At("start") /\ ~Carrying /\ ~Carrying'
  BY <1>2, <1>5, <1>7, QuietIs DEF Carrying
<1>9. ASSUME NEW d \in Channels PROVE ChannelInv(d)'
  <2>1. ChannelInv(d) /\ ~AtOn("reset", d)' /\ ~AtOn("start", d)' /\ (AtOn("free", d)' => d = c)
    BY <1>5, <1>7 DEF SoundInv, AtOn
  <2>2. d = c => mixer[d] = 0 /\ slots[d].chunk # 0
    BY <1>3, <2>1 DEF Due, Playing, ChannelInv
  <2>3. QED
    BY <1>3, <2>1, <2>2 DEF ChannelInv, mixerVars
<1>10. OwnsInv'
  BY <1>3, <1>7, <1>8 DEF SoundInv, OwnsInv, AtOn, mixerVars
<1>11. QED
  BY <1>3, <1>7, <1>9, <1>10 DEF SoundInv, MixerTypeOK, mixerVars

LEMMA LoadStep == ASSUME SoundInv, Load PROVE SoundInv'
<1> DEFINE k == Min(Chunks \ live)
           g == [Top EXCEPT !.pc = "halt", !.chunk = k]
<1>1. /\ StackInv /\ frames # <<>> /\ ~Top.calling /\ Top.pc = "load" /\ Top \in Frame
      /\ WellPlaced(Top) /\ Top.channel \in Channels
  BY AtStep DEF Load
<1>2. Top.op = "play" /\ Quiet /\ UNCHANGED <<slots, callbacks>>
  BY <1>1 DEF WellPlaced, Quiet, Stepping, Load
<1>3. CASE Return(FALSE) /\ UNCHANGED mixerVars
  BY <1>1, <1>2, <1>3, ReturnStep
<1>4. CASE LoadChunk(k) /\ SetTop(g)
  <2>1. k \in Chunks \ live /\ live' = live \cup {k} /\ UNCHANGED <<mixer, lock, finished>>
    BY <1>4 DEF LoadChunk
  <2>2. k # 0
    BY <2>1
  <2>3. /\ g \in Frame /\ g.pc = "halt" /\ ~g.calling /\ g.op = "play" /\ g.channel = Top.channel
        /\ g.chunk = k
    BY <1>1, <1>2, <2>1 DEF Frame, Labels
  <2> HIDE DEF g, k
  <2>4. WellPlaced(g)
    BY <1>1, <2>2, <2>3 DEF WellPlaced
  <2>5. StackInv' /\ frames' # <<>> /\ Top' = g /\ \A p : At(p)' <=> p = "halt"
    BY <1>1, <1>4, <2>3, <2>4, SetTopStack
  <2>6. ~At("free") /\ ~At("reset") /\ ~At("start") /\ ~Carrying /\ Carrying'
    BY <1>2, <2>3, <2>5, QuietIs DEF Carrying
  <2>7. ASSUME NEW d \in Channels PROVE ChannelInv(d)'
    BY <1>2, <2>1, <2>5 DEF SoundInv, ChannelInv, AtOn
  <2>8. OwnsInv'
    <3>1. OwnsInv /\ \A d \in Channels : slots[d].chunk # 0 => slots[d].chunk \in live
      BY <2>6 DEF SoundInv, OwnsInv, AtOn
    <3>2. \A d \in Channels : slots[d].chunk # k
      BY <2>1, <2>2, <3>1
    <3>3. Top'.chunk = k /\ \A d \in Channels : ~AtOn("reset", d)'
      BY <2>3, <2>5 DEF AtOn
    <3>4. \A j \in live' : (\E d \in Channels : slots'[d].chunk = j) \/ j = k
      BY <1>2, <2>1, <2>6, <3>1 DEF OwnsInv
    <3>5. QED
      BY <1>2, <2>1, <2>6, <3>1, <3>2, <3>3, <3>4 DEF OwnsInv
  <2>9. QED
    BY <1>2, <2>1, <2>5, <2>7, <2>8 DEF SoundInv, MixerTypeOK
<1>5. QED
  BY <1>3, <1>4 DEF Load

LEMMA HaltStep == ASSUME SoundInv, Halt PROVE SoundInv'
<1> DEFINE c == Top.channel
<1>1. /\ StackInv /\ frames # <<>> /\ ~Top.calling /\ Top.pc = "halt" /\ Top \in Frame
      /\ WellPlaced(Top) /\ c \in Channels
  BY AtStep DEF Halt
<1>2. Top.op \in {"play", "stop"}
  BY <1>1 DEF WellPlaced
<1>3. /\ lock = 0 /\ mixer' = [mixer EXCEPT ![c] = 0] /\ UNCHANGED <<lock, live, slots, callbacks>>
      /\ finished' = [finished EXCEPT ![c] = @ \/ mixer[c] # 0] /\ Goto("free")
  BY DEF Halt, HaltChannel
<1>4. /\ StackInv' /\ frames' # <<>> /\ (\A p : At(p)' <=> p = "free")
      /\ Top'.op = Top.op /\ Top'.channel = c /\ Top'.chunk = Top.chunk /\ Top'.pc = "free"
  <2>1. "free" \in Labels
    BY DEF Labels
  <2>2. QED
    BY <1>1, <1>2, <1>3, <2>1, GotoStack DEF Stepping
<1>5. (Carrying' <=> Carrying) /\ \A p : At(p) => p = "halt"
  BY <1>1, <1>4 DEF Carrying, At
<1>6. MixerTypeOK'
  BY <1>3 DEF SoundInv, MixerTypeOK
<1>7. mixer'[c] = 0 /\ \A d \in Channels : d # c => mixer'[d] = mixer[d] /\ finished'[d] = finished[d]
  BY <1>1, <1>3 DEF SoundInv, MixerTypeOK
<1>8. ASSUME NEW d \in Channels PROVE ChannelInv(d)'
  BY <1>1, <1>3, <1>4, <1>7 DEF SoundInv, ChannelInv, AtOn
<1>9. OwnsInv'
  BY <1>3, <1>4, <1>5 DEF SoundInv, OwnsInv, AtOn
<1>10. QED
  BY <1>3, <1>4, <1>6, <1>8, <1>9 DEF SoundInv

LEMMA FreeStep == ASSUME SoundInv, Free PROVE SoundInv'
<1> DEFINE c == Top.channel
           k == slots[Top.channel].chunk
<1>1. /\ StackInv /\ frames # <<>> /\ ~Top.calling /\ Top.pc = "free" /\ Top \in Frame
      /\ WellPlaced(Top) /\ c \in Channels /\ At("free")
  BY AtStep DEF Free
<1>2. Goto("reset") /\ UNCHANGED <<slots, callbacks>>
  BY DEF Free
<1>3. /\ StackInv' /\ frames' # <<>> /\ (\A p : At(p)' <=> p = "reset")
      /\ Top'.op = Top.op /\ Top'.channel = c /\ Top'.chunk = Top.chunk /\ Top'.pc = "reset"
  <2>1. "reset" \in Labels
    BY DEF Labels
  <2>2. QED
    BY <1>1, <1>2, <2>1, GotoStack DEF Stepping
<1>4. (Carrying' <=> Carrying) /\ ~At("reset") /\ ~At("start")
  BY <1>1, <1>3 DEF Carrying, At
<1>5. MixerTypeOK /\ slots \in SlotTypes
  BY DEF SoundInv
<1>6. /\ k = 0 => UNCHANGED mixerVars
      /\ k # 0 => /\ lock = 0 /\ live' = live \ {k} /\ UNCHANGED <<lock, finished>>
                  /\ mixer' = [d \in Channels |-> IF mixer[d] = k THEN 0 ELSE mixer[d]]
  BY DEF Free, FreeChunk
<1>7. UNCHANGED <<lock, finished>> /\ live' = live \ {k}
  BY <1>5, <1>6 DEF mixerVars, MixerTypeOK
<1>8. \A d \in Channels : mixer'[d] = IF k # 0 /\ mixer[d] = k THEN 0 ELSE mixer[d]
  BY <1>6 DEF mixerVars
<1>9. MixerTypeOK'
  BY <1>5, <1>6, <1>7 DEF mixerVars, MixerTypeOK
<1>10. ASSUME NEW d \in Channels PROVE ChannelInv(d)'
  <2>1. ChannelInv(d) /\ d # 0
    BY DEF SoundInv
  <2>2. ~AtOn("free", d)' /\ ~AtOn("start", d)' /\ (AtOn("reset", d)' <=> d = c)
    BY <1>3 DEF AtOn
  <2>3. d = c => mixer[d] = 0 /\ (lock # d \/ k # 0)
    BY <1>1, <2>1 DEF ChannelInv, AtOn
  <2>4. d = c => mixer'[d] = 0 /\ lock' # d
    BY <1>6, <1>7, <1>8, <2>1, <2>3
  <2>5. QED
    BY <1>2, <1>7, <1>8, <2>1, <2>2, <2>4 DEF ChannelInv
<1>11. OwnsInv'
  <2>1. OwnsInv
    BY DEF SoundInv
  <2>2. \A d \in Channels : AtOn("reset", d)' <=> d = c
    BY <1>3 DEF AtOn
  <2>3. \A d \in Channels : slots[d].chunk # 0 => (slots[d].chunk \in live' <=> d # c)
    BY <1>1, <1>4, <1>7, <2>1 DEF OwnsInv, AtOn
  <2>4. Carrying => Top.chunk \in live' /\ \A d \in Channels : slots[d].chunk # Top.chunk
    BY <1>1, <1>7, <2>1 DEF OwnsInv
  <2>5. \A j \in live' : (\E d \in Channels : slots[d].chunk = j) \/ (Carrying /\ Top.chunk = j)
    BY <1>7, <2>1 DEF OwnsInv
  <2>6. QED
    BY <1>2, <1>3, <1>4, <2>1, <2>2, <2>3, <2>4, <2>5 DEF OwnsInv
<1>12. QED
  BY <1>2, <1>3, <1>5, <1>9, <1>10, <1>11 DEF SoundInv

\* Where a function goes once it has given its slot up or taken it.
LEMMA ResetTurns ==
    ASSUME SoundInv, Reset
    PROVE  /\ StackInv' /\ ~At("free")' /\ ~At("reset")' /\ ~Carrying'
           /\ At("start")' => /\ Top.op = "play" /\ Top'.channel = Top.channel
                              /\ Top'.chunk = Top.chunk
<1>1. /\ StackInv /\ frames # <<>> /\ ~Top.calling /\ Top.pc = "reset" /\ Top \in Frame
      /\ WellPlaced(Top) /\ Top.channel \in Channels
  BY AtStep DEF Reset
<1>2. Top.op \in {"play", "failed", "pump", "stop"}
  BY <1>1 DEF Frame, Ops
<1>3. CASE Top.op = "play"
  <2>1. Goto("start") /\ "start" \in Labels
    BY <1>3 DEF Reset, Labels
  <2>2. /\ StackInv' /\ frames' # <<>> /\ (\A p : At(p)' <=> p = "start")
        /\ Top'.channel = Top.channel /\ Top'.chunk = Top.chunk /\ Top'.pc = "start"
    BY <1>1, <1>3, <2>1, GotoStack DEF Stepping
  <2>3. QED
    BY <1>3, <2>2 DEF Carrying
<1>4. CASE Top.op = "failed"
  <2>1. Return(FALSE)
    BY <1>4 DEF Reset
  <2>2. StackInv' /\ Quiet'
    BY <1>1, <2>1, ReturnStack
  <2>3. QED
    BY <2>2, QuietIs DEF Quiet, At, Carrying, Stepping
<1>5. CASE Top.op = "pump"
  <2>1. Goto("ended") /\ "ended" \in Labels
    BY <1>5 DEF Reset, Labels
  <2>2. StackInv' /\ (\A p : At(p)' <=> p = "ended") /\ Top'.pc = "ended"
    BY <1>1, <1>5, <2>1, GotoStack DEF Stepping
  <2>3. QED
    BY <2>2 DEF Carrying
<1>6. CASE Top.op = "stop"
  <2> DEFINE calling == Top.again /\ "stop" \in callbacks[Top.channel]
             g == [Top EXCEPT !.pc = "done", !.calling = calling]
  <2>1. SetTop(g)
    BY <1>6 DEF Reset
  <2>2. calling \in BOOLEAN
    OBVIOUS
  <2> HIDE DEF calling
  <2>3. /\ g \in Frame /\ g.pc = "done" /\ g.calling = calling /\ g.op = "stop"
        /\ g.channel = Top.channel
    BY <1>1, <1>6, <2>2 DEF Frame, Labels
  <2> HIDE DEF g
  <2>4. WellPlaced(g)
    BY <1>1, <2>3 DEF WellPlaced, Stepping
  <2>5. StackInv' /\ Top' = g /\ \A p : At(p)' <=> ~g.calling /\ g.pc = p
    BY <1>1, <2>1, <2>3, <2>4, SetTopStack
  <2>6. QED
    BY <2>3, <2>5 DEF Carrying
<1>7. QED
  BY <1>2, <1>3, <1>4, <1>5, <1>6

LEMMA ResetStep == ASSUME SoundInv, Reset PROVE SoundInv'
<1> DEFINE c == Top.channel
           k == IF Top.op = "play" THEN Top.chunk ELSE 0
           slot == Taken
<1>1. /\ StackInv /\ frames # <<>> /\ ~Top.calling /\ Top.pc = "reset" /\ Top \in Frame
      /\ WellPlaced(Top) /\ c \in Channels /\ At("reset")
  BY AtStep DEF Reset
<1>2. /\ slots' = [slots EXCEPT ![c] = slot] /\ finished' = [finished EXCEPT ![c] = FALSE]
      /\ UNCHANGED <<mixer, lock, live, callbacks>>
  BY DEF Reset, Unmark
<1>3. /\ slot \in [chunk : Chunks \cup {0}, source : Samples \cup {0}, reps : Nat]
      /\ slot.chunk = k
  BY <1>1 DEF Taken, Silent, Frame
<1>4. /\ StackInv' /\ ~At("free")' /\ ~At("reset")' /\ ~Carrying'
      /\ At("start")' => Top.op = "play" /\ Top'.channel = c /\ Top'.chunk = k
  BY ResetTurns
<1>5. MixerTypeOK /\ slots \in SlotTypes /\ ~At("free") /\ ~At("start")
  BY <1>1 DEF SoundInv, At
<1>6. (Carrying <=> Top.op = "play") /\ (Carrying => Top.chunk = k)
  BY <1>1 DEF Carrying
<1> HIDE DEF slot
<1>7. MixerTypeOK' /\ slots' \in SlotTypes
  BY <1>1, <1>2, <1>3, <1>5 DEF MixerTypeOK, SlotTypes
<1>8. /\ slots'[c].chunk = k /\ ~finished'[c]
      /\ \A d \in Channels : d # c => slots'[d] = slots[d] /\ finished'[d] = finished[d]
  BY <1>1, <1>2, <1>3, <1>5 DEF MixerTypeOK, SlotTypes
<1>9. ASSUME NEW d \in Channels PROVE ChannelInv(d)'
  <2>1. ChannelInv(d)
    BY DEF SoundInv
  <2>2. ~AtOn("free", d)' /\ ~AtOn("reset", d)' /\ (AtOn("start", d)' => d = c /\ Top'.chunk = k)
    BY <1>4 DEF AtOn
  <2>3. d = c => mixer[d] = 0 /\ lock # d
    BY <1>1, <2>1 DEF ChannelInv, AtOn
  <2>4. QED
    BY <1>2, <1>8, <2>1, <2>2, <2>3 DEF ChannelInv
<1>10. OwnsInv'
  <2>1. OwnsInv /\ (\A d \in Channels : AtOn("reset", d) <=> d = c) /\ 0 \notin live
    BY <1>1, <1>5 DEF SoundInv, AtOn, MixerTypeOK
  <2>2. slots[c].chunk \notin live
    BY <1>1, <2>1 DEF OwnsInv
  <2>3. k # 0 => k \in live /\ \A d \in Channels : slots[d].chunk # k
    BY <1>6, <2>1 DEF OwnsInv
  <2>4. \A d, e \in Channels : d # e /\ slots'[d].chunk = slots'[e].chunk => slots'[d].chunk = 0
    BY <1>8, <2>1, <2>3 DEF OwnsInv
  <2>5. \A d \in Channels : slots'[d].chunk # 0 => slots'[d].chunk \in live
    BY <1>8, <2>1, <2>3 DEF OwnsInv
  <2>6. \A j \in live : \E d \in Channels : slots'[d].chunk = j
    <3> SUFFICES ASSUME NEW j \in live PROVE \E d \in Channels : slots'[d].chunk = j
      OBVIOUS
    <3>1. CASE Carrying /\ Top.chunk = j
      BY <1>1, <1>6, <1>8, <3>1
    <3>2. ASSUME NEW d \in Channels, slots[d].chunk = j PROVE slots'[d].chunk = j
      BY <1>8, <2>2, <3>2
    <3>3. QED
      BY <2>1, <3>1, <3>2 DEF OwnsInv
  <2>7. \A d \in Channels : ~AtOn("reset", d)'
    BY <1>4 DEF AtOn
  <2>8. QED
    BY <1>2, <1>4, <2>4, <2>5, <2>6, <2>7 DEF OwnsInv
<1>11. QED
  BY <1>2, <1>4, <1>7, <1>9, <1>10 DEF SoundInv

LEMMA StartStep == ASSUME SoundInv, Start PROVE SoundInv'
<1> DEFINE c == Top.channel
<1>1. /\ StackInv /\ frames # <<>> /\ ~Top.calling /\ Top.pc = "start" /\ Top \in Frame
      /\ WellPlaced(Top) /\ c \in Channels /\ At("start")
  BY AtStep DEF Start
<1>2. Top.op = "play" /\ Top.chunk \in Chunks
  BY <1>1 DEF WellPlaced, Stepping, Frame
<1>3. /\ UNCHANGED <<slots, callbacks>> /\ MixerTypeOK /\ OwnsInv
      /\ ~At("free") /\ ~At("reset") /\ ~Carrying
  BY <1>1 DEF Start, SoundInv, At, Carrying
<1>4. /\ mixer[c] = 0 /\ ~finished[c] /\ slots[c].chunk = Top.chunk
  BY <1>1 DEF SoundInv, ChannelInv, AtOn
<1>5. CASE PlayChannel(c, Top.chunk) /\ Return(TRUE)
  <2>1. /\ lock = 0 /\ mixer' = [mixer EXCEPT ![c] = Top.chunk] /\ UNCHANGED <<lock, live>>
        /\ finished' = [finished EXCEPT ![c] = @ \/ mixer[c] # 0]
    BY <1>5 DEF PlayChannel
  <2>2. StackInv' /\ Quiet'
    BY <1>1, <1>5, ReturnStack
  <2>3. ~At("free")' /\ ~At("reset")' /\ ~At("start")' /\ ~Carrying'
    BY <2>2 DEF Quiet, At, Carrying, Stepping
  <2>4. MixerTypeOK'
    BY <1>2, <1>3, <2>1 DEF MixerTypeOK
  <2>5. /\ mixer'[c] = Top.chunk /\ ~finished'[c]
        /\ \A d \in Channels : d # c => mixer'[d] = mixer[d] /\ finished'[d] = finished[d]
    BY <1>1, <1>3, <1>4, <2>1 DEF MixerTypeOK
  <2>6. ASSUME NEW d \in Channels PROVE ChannelInv(d)'
    BY <1>3, <1>4, <2>1, <2>3, <2>5 DEF SoundInv, ChannelInv, AtOn
  <2>7. OwnsInv'
    BY <1>3, <2>1, <2>3 DEF OwnsInv, AtOn
  <2>8. QED
    BY <1>3, <2>2, <2>4, <2>6, <2>7 DEF SoundInv
<1>6. CASE lock = 0 /\ UNCHANGED mixerVars /\ SetTop([Top EXCEPT !.op = "failed", !.pc = "free"])
  <2> DEFINE g == [Top EXCEPT !.op = "failed", !.pc = "free"]
  <2>1. g \in Frame /\ g.op = "failed" /\ g.pc = "free" /\ ~g.calling /\ g.channel = c
    BY <1>1 DEF Frame, Ops, Labels
  <2> HIDE DEF g
  <2>2. WellPlaced(g)
    BY <1>1, <2>1 DEF WellPlaced
  <2>3. SetTop(g)
    BY <1>6 DEF g
  <2>4. StackInv' /\ frames' # <<>> /\ Top' = g /\ \A p : At(p)' <=> p = "free"
    BY <1>1, <2>1, <2>2, <2>3, SetTopStack
  <2>5. ~Carrying'
    BY <2>1, <2>4 DEF Carrying
  <2>6. ASSUME NEW d \in Channels PROVE ChannelInv(d)'
    <3>1. ~AtOn("reset", d)' /\ ~AtOn("start", d)' /\ (AtOn("free", d)' => d = c)
      BY <2>1, <2>4 DEF AtOn
    <3>2. QED
      BY <1>3, <1>4, <1>6, <3>1 DEF SoundInv, ChannelInv, mixerVars
  <2>7. OwnsInv'
    BY <1>3, <1>6, <2>4, <2>5 DEF OwnsInv, AtOn, mixerVars
  <2>8. QED
    BY <1>3, <1>6, <2>4, <2>6, <2>7 DEF SoundInv, MixerTypeOK, mixerVars
<1>7. QED
  BY <1>5, <1>6 DEF Start

-----------------------------------------------------------------------------
(* The mixer's thread, and the end. *)

LEMMA ThreadOfMixer ==
    ASSUME SoundInv, (\E c \in Channels : SampleEnds(c)) \/ MarkFinished
    PROVE  SoundInv'
<1> USE DEF SoundInv
<1>1. UNCHANGED <<slots, callbacks, frames, live>>
  BY DEF SampleEnds, MarkFinished, ChunkEnds, ChannelFinished
<1>2. StackInv' /\ Top' = Top /\ (Carrying' <=> Carrying) /\ \A pc : At(pc)' <=> At(pc)
  BY <1>1 DEF StackInv, At, Top, Carrying
<1>3. OwnsInv'
  BY <1>1, <1>2 DEF OwnsInv, AtOn
<1>4. ASSUME NEW c \in Channels, SampleEnds(c) PROVE SoundInv'
  <2>1. /\ mixer[c] # 0 /\ lock' = c /\ mixer' = [mixer EXCEPT ![c] = 0] /\ UNCHANGED finished
    BY <1>4 DEF SampleEnds, ChunkEnds
  <2>2. c \in Nat \ {0}
    OBVIOUS
  <2>3. MixerTypeOK'
    BY <1>1, <2>1, <2>2 DEF MixerTypeOK
  <2>4. mixer'[c] = 0 /\ \A d \in Channels : d # c => mixer'[d] = mixer[d]
    BY <2>1 DEF MixerTypeOK
  <2>5. ASSUME NEW d \in Channels PROVE ChannelInv(d)'
    <3>1. ChannelInv(d)
      OBVIOUS
    <3>2. CASE d = c
      BY <1>1, <1>2, <2>1, <2>4, <3>1, <3>2 DEF ChannelInv, AtOn
    <3>3. CASE d # c
      BY <1>1, <1>2, <2>1, <2>4, <3>1, <3>3 DEF ChannelInv, AtOn
    <3>4. QED
      BY <3>2, <3>3
  <2>6. QED
    BY <1>1, <1>2, <1>3, <2>3, <2>5
<1>5. CASE MarkFinished
  <2>1. /\ lock \in Channels /\ lock' = 0 /\ UNCHANGED mixer
        /\ finished' = [finished EXCEPT ![lock] = TRUE]
    BY <1>5 DEF MarkFinished, ChannelFinished
  <2>2. MixerTypeOK'
    BY <1>1, <2>1 DEF MixerTypeOK
  <2>3. \A d \in Channels : d # lock => finished'[d] = finished[d]
    BY <2>1 DEF MixerTypeOK
  <2>4. ASSUME NEW d \in Channels PROVE ChannelInv(d)'
    <3>1. ChannelInv(d) /\ d # 0
      OBVIOUS
    <3>2. QED
      BY <1>1, <1>2, <2>1, <2>3, <3>1 DEF ChannelInv, AtOn
  <2>5. QED
    BY <1>1, <1>2, <1>3, <2>2, <2>4
<1>6. QED
  BY <1>4, <1>5

LEMMA AllSilent ==
    ASSUME frames = <<>>, lock = 0, live = {}, mixer = [c \in Channels |-> 0],
           finished = [c \in Channels |-> FALSE], slots = [c \in Channels |-> Silent],
           callbacks = [c \in Channels |-> {}]
    PROVE  SoundInv
<1>1. MixerTypeOK
  BY DEF MixerTypeOK
<1>2. slots \in SlotTypes /\ callbacks \in [Channels -> SUBSET Kinds]
  BY DEF SlotTypes, Silent
<1>3. StackInv /\ ~Carrying /\ \A pc : ~At(pc)
  BY EmptySeq DEF StackInv, Carrying, At
<1>4. \A c \in Channels : ChannelInv(c)
  BY <1>3 DEF ChannelInv, AtOn
<1>5. OwnsInv
  BY <1>3 DEF OwnsInv, AtOn, Silent
<1>6. QED
  BY <1>1, <1>2, <1>3, <1>4, <1>5 DEF SoundInv

LEMMA ShutdownStep == ASSUME SoundInv, Shutdown PROVE SoundInv'
<1>1. /\ frames' = <<>> /\ lock' = 0 /\ live' = {} /\ mixer' = [c \in Channels |-> 0]
      /\ finished' = [c \in Channels |-> FALSE] /\ slots' = [c \in Channels |-> Silent]
      /\ callbacks' = [c \in Channels |-> {}]
  BY DEF Shutdown
<1>2. MixerTypeOK'
  BY <1>1 DEF MixerTypeOK
<1>3. slots' \in SlotTypes /\ callbacks' \in [Channels -> SUBSET Kinds]
  BY <1>1 DEF SlotTypes, Silent
<1>4. StackInv' /\ ~Carrying' /\ \A pc : ~At(pc)'
  BY <1>1, EmptySeq DEF StackInv, Carrying, At
<1>5. \A c \in Channels : ChannelInv(c)'
  BY <1>1, <1>4 DEF ChannelInv, AtOn
<1>6. OwnsInv'
  BY <1>1, <1>4 DEF OwnsInv, AtOn, Silent
<1>7. QED
  BY <1>2, <1>3, <1>4, <1>5, <1>6 DEF SoundInv

LEMMA SoundStep == SoundInv /\ [Next]_vars => SoundInv'
<1> SUFFICES ASSUME SoundInv, [Next]_vars PROVE SoundInv'
  OBVIOUS
<1>1. CASE \/ \E c \in Channels : \/ \E kind \in Kinds : Register(c, kind) \/ UnRegister(c, kind)
                                  \/ Stop(c)
           \/ PumpBegin
  BY <1>1, GuestCalls
<1>2. CASE \E c \in Channels \cup {0}, source \in Samples, repeat \in Repeats : Play(c, source, repeat)
  BY <1>2, PlayEnters
<1>3. CASE \/ CallbackReturn \/ Begin \/ Render \/ StopDone \/ ScanOn
           \/ EndSample \/ Answered \/ SayStop \/ NextChannel
  BY <1>3, FunctionTurns
<1>4. CASE ScanDue \/ Load \/ Halt \/ Free \/ Reset \/ Start
  BY <1>4, ScanDueStep, LoadStep, HaltStep, FreeStep, ResetStep, StartStep
<1>5. CASE (\E c \in Channels : SampleEnds(c)) \/ MarkFinished
  BY <1>5, ThreadOfMixer
<1>6. CASE Shutdown
  BY <1>6, ShutdownStep
<1>7. CASE UNCHANGED vars
  <2>1. /\ UNCHANGED <<mixer, lock, finished, live, slots, callbacks, frames>>
        /\ Top' = Top /\ (Carrying' <=> Carrying) /\ \A pc : At(pc)' <=> At(pc)
    BY <1>7 DEF vars, Top, Carrying, At
  <2>2. StackInv' /\ OwnsInv' /\ \A c \in Channels : ChannelInv(c)'
    BY <2>1 DEF SoundInv, StackInv, OwnsInv, ChannelInv, AtOn
  <2>3. QED
    BY <2>1, <2>2 DEF SoundInv, MixerTypeOK
<1>8. QED
  BY <1>1, <1>2, <1>3, <1>4, <1>5, <1>6, <1>7 DEF Next, Step

\* Every step of the guest's thread in play_sound_channel, s3eSoundChannelStop and
\* service_finished_sound, and of the mixer's.
THEOREM SoundAlways == Spec => []SoundInv
<1>1. Init => SoundInv
  BY AllSilent DEF Init, MixerInit
<1>2. QED
  BY <1>1, SoundStep, PTL DEF Spec

\* What a channel plays is its slot's chunk, and no mark of an earlier end or halt is
\* left to cut it short (play_sound_channel clears the flag between halt and play).
THEOREM PlaysItsSlotAlways == Spec => []PlaysItsSlot
<1>1. SoundInv => PlaysItsSlot
  BY DEF SoundInv, ChannelInv, PlaysItsSlot, Playing
<1>2. QED
  BY <1>1, SoundAlways, PTL

LEMMA HoldersCounted == SoundInv => ChunksHeld
<1> SUFFICES ASSUME SoundInv, NEW k \in Chunks
             PROVE  \/ k \in live /\ Cardinality(Holders(k)) = 1
                    \/ k \notin live /\ \A h \in Holders(k) :
                          h[1] = "slot" /\ \E i \in DOMAIN frames :
                              frames[i].channel = h[2] /\ frames[i].pc = "reset"
  BY DEF ChunksHeld
<1>1. OwnsInv /\ StackInv /\ k # 0
  BY DEF SoundInv
<1>2. ASSUME NEW i \in DOMAIN frames, frames[i].op = "play", frames[i].pc \in {"halt", "free", "reset"}
      PROVE  Carrying /\ i = Len(frames) /\ Top.chunk = frames[i].chunk
  <2>1. i \in 1..Len(frames) /\ Len(frames) \in Nat
    BY <1>1 DEF StackInv
  <2>2. ~Waiting(frames[i])
    BY <1>1, <1>2, <2>1 DEF StackInv, WellPlaced, Waiting
  <2>3. i = Len(frames)
    BY <1>1, <2>1, <2>2 DEF StackInv
  <2>4. frames # <<>>
    BY <2>1
  <2>5. Top = frames[i]
    BY <2>3 DEF Top, Last
  <2>6. QED
    BY <1>2, <2>3, <2>4, <2>5 DEF Carrying
<1>3. \A h \in Holders(k) :
         \/ \E c \in Channels : h = <<"slot", c>> /\ slots[c].chunk = k
         \/ h = <<"call", Len(frames)>> /\ Carrying /\ Top.chunk = k
  BY <1>2 DEF Holders
<1>4. CASE k \notin live
  <2>1. ~(Carrying /\ Top.chunk = k)
    BY <1>1, <1>4 DEF OwnsInv
  <2>2. ASSUME NEW c \in Channels, slots[c].chunk = k
        PROVE  \E i \in DOMAIN frames : frames[i].channel = c /\ frames[i].pc = "reset"
    <3>1. AtOn("reset", c)
      BY <1>1, <1>4, <2>2 DEF OwnsInv
    <3>2. frames # <<>> /\ Top.pc = "reset" /\ Top.channel = c
      BY <3>1 DEF AtOn, At
    <3>3. Len(frames) \in DOMAIN frames /\ frames[Len(frames)] = Top
      BY <1>1, <3>2, TopIs DEF StackInv
    <3>4. QED
      BY <3>2, <3>3
  <2>3. QED
    BY <1>3, <1>4, <2>1, <2>2
<1>5. ASSUME k \in live, NEW c \in Channels, slots[c].chunk = k
      PROVE  Cardinality(Holders(k)) = 1
  <2>1. ~(Carrying /\ Top.chunk = k)
    BY <1>1, <1>5 DEF OwnsInv
  <2>2. \A d \in Channels : slots[d].chunk = k => d = c
    BY <1>1, <1>5 DEF OwnsInv
  <2>3. <<"slot", c>> \in Holders(k)
    BY <1>5 DEF Holders
  <2>4. Holders(k) = {<<"slot", c>>}
    BY <1>3, <2>1, <2>2, <2>3
  <2>5. QED
    BY <2>4, FS_Singleton
<1>6. CASE k \in live /\ Carrying /\ Top.chunk = k
  <2>1. \A d \in Channels : slots[d].chunk # k
    BY <1>1, <1>6 DEF OwnsInv
  <2>2. /\ Len(frames) \in DOMAIN frames /\ frames[Len(frames)] = Top
    BY <1>1, <1>6, TopIs DEF Carrying, StackInv
  <2>3. <<"call", Len(frames)>> \in Holders(k)
    BY <1>6, <2>2 DEF Holders, Carrying
  <2>4. Holders(k) = {<<"call", Len(frames)>>}
    BY <1>3, <2>1, <2>3
  <2>5. QED
    BY <1>6, <2>4, FS_Singleton
<1>7. QED
  BY <1>1, <1>4, <1>5, <1>6 DEF OwnsInv

\* Every chunk not freed has one holder, through every interleaving of a play, a stop, a
\* pump, their callbacks and the mixer's thread.
THEOREM ChunksHeldAlways == Spec => []ChunksHeld
  BY HoldersCounted, SoundAlways, PTL
=============================================================================
