---------------------------- MODULE SocketProofs ----------------------------
(***************************************************************************)
(* Proofs about SocketSlots, for any number of slots, pumps, generations   *)
(* and callbacks.  A callback in a slot was given for the socket that is   *)
(* there now, and is nowhere else; since a pump looks at a slot only while *)
(* its generation is the one it polled, what it calls was given for the    *)
(* socket it polled.                                                       *)
(***************************************************************************)
EXTENDS SocketSlots, SequenceTheorems, TLAPS

\* Every callback that waits in a slot.
WaitInv ==
    \A s \in Slots, k \in Kind :
        LET callback == slots[s].callback[k]
        IN  callback # NoCallback =>
               /\ callback.gen = slots[s].gen
               /\ callback.id \in 1..registered
               /\ \A u \in Slots, j \in Kind : slots[u].callback[j].id = callback.id => u = s /\ j = k
               /\ \A i \in 1..Len(calls) : calls[i].callback.id # callback.id

\* Every callback that was made.
MadeInv == \A i \in 1..Len(calls) :
              /\ calls[i].callback.id \in 1..registered
              /\ calls[i].callback.gen = calls[i].polled
              /\ \A j \in 1..Len(calls) : calls[i].callback.id = calls[j].callback.id => i = j

SocketsInv == TypeOK /\ WaitInv /\ MadeInv /\ ConnectCallbackPolled

LEMMA SlotShape ==
    ASSUME TypeOK, NEW s \in Slots
    PROVE  /\ slots[s] = [open |-> slots[s].open, gen |-> slots[s].gen,
                          pending |-> slots[s].pending, callback |-> slots[s].callback]
           /\ slots[s].open \in BOOLEAN /\ slots[s].pending \in BOOLEAN /\ slots[s].gen \in 0..MaxGen
           /\ slots[s].callback \in [Kind -> Registration \cup {NoCallback}]
  BY DEF TypeOK, Slot

LEMMA NoCallbackIsNone == NoCallback \notin Registration /\ NoCallback.id = 0
  BY SlotConstants DEF NoCallback, Registration

LEMMA SocketsInitially == Init => SocketsInv
<1> SUFFICES ASSUME Init PROVE SocketsInv
  OBVIOUS
<1>1. TypeOK
  BY SlotConstants DEF Init, TypeOK, Slot, NoCallbacks
<1>2. \A s \in Slots, k \in Kind : slots[s].callback[k] = NoCallback
  BY DEF Init, NoCallbacks
<1>3. WaitInv
  BY <1>2 DEF WaitInv
<1>4. calls = <<>>
  BY DEF Init
<1>5. MadeInv
  BY <1>4 DEF MadeInv
<1>6. "connect" \in Kind
  BY DEF Kind
<1>7. QED
  BY <1>1, <1>2, <1>3, <1>5, <1>6 DEF SocketsInv, ConnectCallbackPolled

-----------------------------------------------------------------------------
(* The calls that only change slots. *)

\* A slot cleared holds nothing; one left alone holds what it held.
LEMMA Clearing ==
    ASSUME SocketsInv, UNCHANGED <<pumps, registered, calls>>,
           slots' \in [Slots -> Slot],
           \A s \in Slots :
              \/ slots'[s].callback = NoCallbacks
              \/ /\ slots'[s].gen = slots[s].gen /\ slots'[s].pending = slots[s].pending
                 /\ \A k \in Kind : slots'[s].callback[k] \in {slots[s].callback[k], NoCallback}
    PROVE  SocketsInv'
<1>1. TypeOK'
  BY DEF SocketsInv, TypeOK
<1>2. ASSUME NEW s \in Slots, NEW k \in Kind
      PROVE  \/ slots'[s].callback[k] = NoCallback
             \/ /\ slots'[s].callback[k] = slots[s].callback[k] /\ slots'[s].gen = slots[s].gen
                /\ slots'[s].pending = slots[s].pending
  BY DEF NoCallbacks
<1>3. WaitInv'
  BY <1>2, NoCallbackIsNone DEF SocketsInv, WaitInv
<1>4. MadeInv'
  BY DEF SocketsInv, MadeInv
<1>5. "connect" \in Kind
  BY DEF Kind
<1>6. ConnectCallbackPolled'
  BY <1>2, <1>5 DEF SocketsInv, ConnectCallbackPolled
<1>7. QED
  BY <1>1, <1>3, <1>4, <1>6 DEF SocketsInv

LEMMA ClearedShape ==
    ASSUME TypeOK, NEW s \in Slots, slots[s].gen < MaxGen, NEW open \in BOOLEAN
    PROVE  /\ Cleared(slots[s], open) \in Slot
           /\ Cleared(slots[s], open).callback = NoCallbacks
<1>1. slots[s] \in Slot /\ slots[s].gen \in 0..MaxGen /\ MaxGen \in Nat
  BY SlotShape, SlotConstants DEF TypeOK
<1>2. slots[s].gen + 1 \in 0..MaxGen
  BY <1>1
<1>3. NoCallbacks \in [Kind -> Registration \cup {NoCallback}]
  BY DEF NoCallbacks
<1>4. ASSUME NEW slot \in Slot, NEW gen \in 0..MaxGen, gen = slot.gen + 1
      PROVE  Cleared(slot, open) \in Slot /\ Cleared(slot, open).callback = NoCallbacks
  BY <1>3, <1>4 DEF Slot, Cleared
<1>5. QED
  BY <1>1, <1>2, <1>4

LEMMA ClearingSteps ==
    ASSUME SocketsInv,
           Create \/ Shutdown \/ \E s \in Slots : Close(s) \/ AcceptNow(s)
    PROVE  SocketsInv'
<1>1. TypeOK /\ slots \in [Slots -> Slot]
  BY DEF SocketsInv, TypeOK
<1>2. CASE Create
  <2> DEFINE m == Min(Free)
  <2>1. slots' = [slots EXCEPT ![m] = Cleared(slots[m], TRUE)] /\ slots[m].gen < MaxGen
    BY <1>2 DEF Create
  <2> HIDE DEF m
  <2>2. m \in Slots => /\ Cleared(slots[m], TRUE) \in Slot
                       /\ Cleared(slots[m], TRUE).callback = NoCallbacks
    BY <1>1, <2>1, ClearedShape
  <2>3. QED
    BY <1>1, <1>2, <2>1, <2>2, Clearing DEF Create
<1>3. CASE Shutdown
  <2>1. \A s \in Slots : /\ Cleared(slots[s], FALSE) \in Slot
                         /\ Cleared(slots[s], FALSE).callback = NoCallbacks
    BY <1>1, <1>3, ClearedShape DEF Shutdown
  <2>2. slots' = [s \in Slots |-> IF slots[s].open THEN Cleared(slots[s], FALSE) ELSE slots[s]]
    BY <1>3 DEF Shutdown
  <2>3. QED
    BY <1>1, <1>3, <2>1, <2>2, Clearing DEF Shutdown
<1>4. ASSUME NEW s \in Slots, Close(s) PROVE SocketsInv'
  <2>1. slots' = [slots EXCEPT ![s] = Cleared(slots[s], FALSE)] /\ slots[s].gen < MaxGen
    BY <1>4 DEF Close
  <2>2. Cleared(slots[s], FALSE) \in Slot /\ Cleared(slots[s], FALSE).callback = NoCallbacks
    BY <1>1, <2>1, ClearedShape
  <2>3. QED
    BY <1>1, <1>4, <2>1, <2>2, Clearing DEF Close
<1>5. ASSUME NEW s \in Slots, AcceptNow(s) PROVE SocketsInv'
  <2> DEFINE m == Min(Free)
             new == Cleared(slots[m], TRUE)
             cleared == [slots EXCEPT ![m] = new]
             accepted == [cleared[s] EXCEPT !.callback = [cleared[s].callback EXCEPT !["accept"] = NoCallback]]
  <2>1. slots' = [cleared EXCEPT ![s] = accepted] /\ slots[m].gen < MaxGen
    BY <1>5 DEF AcceptNow
  <2> HIDE DEF m
  <2>2. m \in Slots => new \in Slot /\ new.callback = NoCallbacks
    BY <1>1, <2>1, ClearedShape
  <2> HIDE DEF new
  <2>3. /\ cleared \in [Slots -> Slot]
        /\ \A u \in Slots : cleared[u] = slots[u] \/ cleared[u].callback = NoCallbacks
    BY <1>1, <2>2
  <2> HIDE DEF cleared
  <2>4. cleared[s] \in Slot
    BY <2>3
  <2>5. /\ accepted \in Slot /\ accepted.gen = cleared[s].gen /\ accepted.pending = cleared[s].pending
        /\ \A k \in Kind : accepted.callback[k] \in {cleared[s].callback[k], NoCallback}
    BY <2>4 DEF Slot
  <2> HIDE DEF accepted
  <2>6. slots' \in [Slots -> Slot] /\ slots'[s] = accepted /\ \A u \in Slots \ {s} : slots'[u] = cleared[u]
    BY <2>1, <2>3, <2>5
  <2>7. cleared[s].callback = NoCallbacks => accepted.callback = NoCallbacks
    <3>1. accepted.callback \in [Kind -> Registration \cup {NoCallback}]
      BY <2>5 DEF Slot
    <3>2. QED
      BY <2>5, <3>1 DEF NoCallbacks
  <2>8. ASSUME NEW u \in Slots
        PROVE  \/ slots'[u].callback = NoCallbacks
               \/ /\ slots'[u].gen = slots[u].gen /\ slots'[u].pending = slots[u].pending
                  /\ \A k \in Kind : slots'[u].callback[k] \in {slots[u].callback[k], NoCallback}
    BY <2>3, <2>5, <2>6, <2>7
  <2>9. UNCHANGED <<pumps, registered, calls>>
    BY <1>5 DEF AcceptNow
  <2>10. QED
    BY <2>6, <2>8, <2>9, Clearing
<1>6. QED
  BY <1>2, <1>3, <1>4, <1>5

-----------------------------------------------------------------------------
(* The calls that register a callback. *)

\* Slot s gets a callback that is new, or none, and may lose others.
LEMMA Registering ==
    ASSUME SocketsInv, NEW s \in Slots, NEW kind \in Kind, NEW callback,
           Given(s, callback), UNCHANGED <<pumps, calls>>,
           NEW slot \in Slot, slots' = [slots EXCEPT ![s] = slot],
           slot.gen = slots[s].gen, slot.callback[kind] = callback,
           \A k \in Kind \ {kind} : slot.callback[k] \in {slots[s].callback[k], NoCallback},
           slot.callback["connect"] # NoCallback => slot.pending
    PROVE  SocketsInv'
<1>1. TypeOK /\ slots \in [Slots -> Slot] /\ registered \in 0..MaxReg /\ MaxReg \in Nat
  BY SlotConstants DEF SocketsInv, TypeOK
<1>2. /\ slots' \in [Slots -> Slot] /\ slots'[s] = slot
      /\ \A u \in Slots \ {s} : slots'[u] = slots[u]
  BY <1>1
<1>3. \/ callback = NoCallback /\ registered' = registered
      \/ /\ callback.id = registered + 1 /\ callback.gen = slots[s].gen
         /\ registered' = registered + 1 /\ registered + 1 <= MaxReg
  BY <1>1 DEF Given
<1>4. registered' \in 0..MaxReg /\ registered' >= registered
  BY <1>1, <1>3
<1>5. TypeOK'
  BY <1>2, <1>4 DEF SocketsInv, TypeOK
<1>6. ASSUME NEW u \in Slots, NEW k \in Kind, slots'[u].callback[k] # NoCallback
      PROVE  \/ u = s /\ k = kind /\ slots'[u].callback[k] = callback
             \/ /\ slots'[u].callback[k] = slots[u].callback[k] /\ ~(u = s /\ k = kind)
                /\ slots'[u].gen = slots[u].gen
  BY <1>2, <1>6
<1>7. \A u \in Slots, k \in Kind : slots[u].callback[k].id \in 0..registered
  BY <1>1, NoCallbackIsNone DEF SocketsInv, WaitInv
<1>8. \A u \in Slots, k \in Kind :
         \/ slots'[u].callback[k] \in {slots[u].callback[k], NoCallback}
         \/ u = s /\ k = kind
  BY <1>6
<1>9. \A i \in 1..Len(calls) : calls[i].callback.id \in 1..registered
  BY DEF SocketsInv, MadeInv
<1>10. WaitInv'
  <2> SUFFICES ASSUME NEW u \in Slots, NEW k \in Kind, slots'[u].callback[k] # NoCallback
               PROVE  LET c == slots'[u].callback[k]
                      IN  /\ c.gen = slots'[u].gen
                          /\ c.id \in 1..registered'
                          /\ \A v \in Slots, j \in Kind :
                                slots'[v].callback[j].id = c.id => v = u /\ j = k
                          /\ \A i \in 1..Len(calls') : calls'[i].callback.id # c.id
    BY DEF WaitInv
  <2>1. CASE u = s /\ k = kind /\ slots'[u].callback[k] = callback
    <3>1. /\ callback.id = registered + 1 /\ callback.gen = slots[s].gen
          /\ registered' = registered + 1
      BY <1>3, <2>1
    <3>2. QED
      BY <1>1, <1>2, <1>7, <1>8, <1>9, <2>1, <3>1, NoCallbackIsNone
  <2>2. CASE /\ slots'[u].callback[k] = slots[u].callback[k] /\ ~(u = s /\ k = kind)
             /\ slots'[u].gen = slots[u].gen
    <3>1. /\ slots[u].callback[k].gen = slots[u].gen
          /\ slots[u].callback[k].id \in 1..registered
          /\ \A v \in Slots, j \in Kind :
                slots[v].callback[j].id = slots[u].callback[k].id => v = u /\ j = k
          /\ \A i \in 1..Len(calls) : calls[i].callback.id # slots[u].callback[k].id
      BY <2>2 DEF SocketsInv, WaitInv
    <3>2. callback.id # slots[u].callback[k].id
      BY <1>1, <1>3, <3>1, NoCallbackIsNone
    <3>3. slots'[s].callback[kind] = callback
      BY <1>2
    <3>4. \A v \in Slots, j \in Kind :
             slots'[v].callback[j].id = slots[u].callback[k].id => v = u /\ j = k
      BY <1>1, <1>4, <2>2, <3>1, <3>2, <3>3, NoCallbackIsNone
    <3>5. QED
      BY <1>1, <1>4, <1>8, <2>2, <3>1, <3>4, NoCallbackIsNone
  <2>3. QED
    BY <1>6, <2>1, <2>2
<1>11. MadeInv'
  BY <1>1, <1>4 DEF SocketsInv, MadeInv
<1>12. ConnectCallbackPolled'
  BY <1>2 DEF SocketsInv, ConnectCallbackPolled
<1>13. QED
  BY <1>5, <1>10, <1>11, <1>12 DEF SocketsInv

\* A table of slots with one callback of slot s set, and with its mark set.
Holding(table, s, kind, callback) == [table EXCEPT ![s].callback[kind] = callback]
Marked(table, s, pending) == [table EXCEPT ![s].pending = pending]

LEMMA SetCallback ==
    ASSUME NEW table \in [Slots -> Slot], NEW s \in Slots, NEW kind \in Kind,
           NEW callback \in Registration \cup {NoCallback}
    PROVE  LET set == Holding(table, s, kind, callback)
           IN  /\ set \in [Slots -> Slot]
               /\ \A u \in Slots \ {s} : set[u] = table[u]
               /\ set[s].gen = table[s].gen /\ set[s].pending = table[s].pending
               /\ set[s].callback[kind] = callback
               /\ \A k \in Kind \ {kind} : set[s].callback[k] = table[s].callback[k]
<1> DEFINE slot == [table[s] EXCEPT !.callback = [table[s].callback EXCEPT ![kind] = callback]]
<1>1. /\ slot \in Slot /\ slot.gen = table[s].gen /\ slot.pending = table[s].pending
      /\ slot.callback[kind] = callback
      /\ \A k \in Kind \ {kind} : slot.callback[k] = table[s].callback[k]
  BY DEF Slot
<1> HIDE DEF slot
<1>2. [table EXCEPT ![s] = slot] \in [Slots -> Slot]
  BY <1>1
<1>3. QED
  BY <1>1, <1>2 DEF slot, Holding

LEMMA SetPending ==
    ASSUME NEW table \in [Slots -> Slot], NEW s \in Slots, NEW pending \in BOOLEAN
    PROVE  LET set == Marked(table, s, pending)
           IN  /\ set \in [Slots -> Slot]
               /\ \A u \in Slots \ {s} : set[u] = table[u]
               /\ set[s].gen = table[s].gen /\ set[s].pending = pending
               /\ set[s].callback = table[s].callback
<1> DEFINE slot == [table[s] EXCEPT !.pending = pending]
<1>1. /\ slot \in Slot /\ slot.gen = table[s].gen /\ slot.pending = pending
      /\ slot.callback = table[s].callback
  BY DEF Slot
<1> HIDE DEF slot
<1>2. [table EXCEPT ![s] = slot] \in [Slots -> Slot]
  BY <1>1
<1>3. QED
  BY <1>1, <1>2 DEF slot, Marked

\* Each of the four calls sets one callback, may clear another and may set the mark.
LEMMA RegisteringSteps ==
    ASSUME SocketsInv, NEW s \in Slots, NEW callback \in Arguments(s), NEW inProgress \in BOOLEAN,
           \/ Connect(s, callback, inProgress) \/ Readable(s, callback)
           \/ Writable(s, callback) \/ AcceptLater(s, callback)
    PROVE  SocketsInv'
<1>1. TypeOK /\ slots \in [Slots -> Slot] /\ registered \in 0..MaxReg /\ MaxReg \in Nat
  BY SlotConstants DEF SocketsInv, TypeOK
<1>2. Given(s, callback) /\ UNCHANGED <<pumps, calls>>
  BY DEF Connect, Readable, Writable, AcceptLater
<1>3. /\ callback \in Registration \cup {NoCallback}
      /\ NoCallback \in Registration \cup {NoCallback}
  BY <1>1, <1>2 DEF Given, Registration, TypeOK, Slot
<1>4. "connect" \in Kind /\ "accept" \in Kind /\ "readable" \in Kind /\ "writable" \in Kind
  BY DEF Kind
<1>5. slots[s].callback["connect"] # NoCallback => slots[s].pending
  BY <1>4 DEF SocketsInv, ConnectCallbackPolled
<1>6. ASSUME NEW kind \in Kind, NEW table \in [Slots -> Slot], slots' = table,
             \A u \in Slots \ {s} : table[u] = slots[u],
             table[s].gen = slots[s].gen, table[s].callback[kind] = callback,
             \A k \in Kind \ {kind} : table[s].callback[k] \in {slots[s].callback[k], NoCallback},
             \/ table[s].pending = slots[s].pending /\ kind # "connect"
             \/ kind = "connect" /\ (callback # NoCallback => table[s].pending)
      PROVE  SocketsInv'
  <2>1. slots' = [slots EXCEPT ![s] = table[s]]
    BY <1>1, <1>6
  <2>2. table[s].callback["connect"] # NoCallback => table[s].pending
    BY <1>4, <1>5, <1>6
  <2>3. table[s] \in Slot
    OBVIOUS
  <2>4. QED
    BY <1>2, <1>6, <2>1, <2>2, <2>3, Registering
<1>7. CASE Connect(s, callback, inProgress)
  <2> DEFINE pending == inProgress \/ callback # NoCallback
             marked == Marked(slots, s, pending)
             table == Holding(marked, s, "connect", callback)
  <2>1. slots' = table
    BY <1>7 DEF Connect, Marked, Holding
  <2>2. pending \in BOOLEAN /\ (callback # NoCallback => pending)
    OBVIOUS
  <2> HIDE DEF pending
  <2>3. /\ marked \in [Slots -> Slot] /\ \A u \in Slots \ {s} : marked[u] = slots[u]
        /\ marked[s].gen = slots[s].gen /\ marked[s].pending = pending
        /\ marked[s].callback = slots[s].callback
    BY <1>1, <2>2, SetPending
  <2> HIDE DEF marked
  <2>4. /\ table \in [Slots -> Slot] /\ \A u \in Slots \ {s} : table[u] = marked[u]
        /\ table[s].gen = marked[s].gen /\ table[s].pending = marked[s].pending
        /\ table[s].callback["connect"] = callback
        /\ \A k \in Kind \ {"connect"} : table[s].callback[k] = marked[s].callback[k]
    BY <1>3, <1>4, <2>3, SetCallback
  <2> HIDE DEF table
  <2>5. QED
    BY <1>4, <1>6, <2>1, <2>2, <2>3, <2>4
<1>8. CASE Writable(s, callback)
  <2> DEFINE table == Holding(slots, s, "writable", callback)
  <2>1. slots' = table
    BY <1>8 DEF Writable, Holding
  <2>2. /\ table \in [Slots -> Slot] /\ \A u \in Slots \ {s} : table[u] = slots[u]
        /\ table[s].gen = slots[s].gen /\ table[s].pending = slots[s].pending
        /\ table[s].callback["writable"] = callback
        /\ \A k \in Kind \ {"writable"} : table[s].callback[k] = slots[s].callback[k]
    BY <1>1, <1>3, <1>4, SetCallback
  <2> HIDE DEF table
  <2>3. QED
    BY <1>4, <1>6, <2>1, <2>2
<1>9. ASSUME NEW gets \in Kind, NEW loses \in Kind, gets # loses, gets # "connect",
             slots' = [slots EXCEPT ![s].callback[gets] = callback,
                                    ![s].callback[loses] = NoCallback]
      PROVE  SocketsInv'
  <2> DEFINE given == Holding(slots, s, gets, callback)
             table == Holding(given, s, loses, NoCallback)
  <2>1. slots' = table
    BY <1>9 DEF Holding
  <2>2. given \in [Slots -> Slot] /\ \A u \in Slots \ {s} : given[u] = slots[u]
    BY <1>1, <1>3, SetCallback
  <2>3. given[s].gen = slots[s].gen /\ given[s].pending = slots[s].pending
    BY <1>1, <1>3, SetCallback
  <2>4. /\ given[s].callback[gets] = callback
        /\ \A k \in Kind \ {gets} : given[s].callback[k] = slots[s].callback[k]
    BY <1>1, <1>3, SetCallback
  <2> HIDE DEF given
  <2>5. table \in [Slots -> Slot] /\ \A u \in Slots \ {s} : table[u] = given[u]
    BY <1>3, <2>2, SetCallback
  <2>6. table[s].gen = given[s].gen /\ table[s].pending = given[s].pending
    BY <1>3, <2>2, SetCallback
  <2>7. /\ table[s].callback[loses] = NoCallback
        /\ \A k \in Kind \ {loses} : table[s].callback[k] = given[s].callback[k]
    BY <1>3, <2>2, SetCallback
  <2> HIDE DEF table
  <2>8. QED
    BY <1>6, <1>9, <2>1, <2>2, <2>3, <2>4, <2>5, <2>6, <2>7
<1>10. CASE Readable(s, callback)
  BY <1>4, <1>9, <1>10 DEF Readable
<1>11. CASE AcceptLater(s, callback)
  BY <1>4, <1>9, <1>11 DEF AcceptLater
<1>12. QED
  BY <1>7, <1>8, <1>10, <1>11

-----------------------------------------------------------------------------
(* The pump. *)

LEMMA OnlyPumps ==
    ASSUME SocketsInv, UNCHANGED <<slots, registered, calls>>, pumps' \in Seq(Pump)
    PROVE  SocketsInv'
<1>1. TypeOK'
  BY DEF SocketsInv, TypeOK
<1>2. WaitInv'
  BY DEF SocketsInv, WaitInv
<1>3. MadeInv' /\ ConnectCallbackPolled'
  BY DEF SocketsInv, MadeInv, ConnectCallbackPolled
<1>4. QED
  BY <1>1, <1>2, <1>3 DEF SocketsInv

\* The innermost pump, and the stacks the pump's steps make.
LEMMA Innermost ==
    ASSUME TypeOK, pumps # <<>>
    PROVE  /\ Last(pumps) \in Pump
           /\ \A pump \in Pump : [pumps EXCEPT ![Len(pumps)] = pump] \in Seq(Pump)
           /\ Front(pumps) \in Seq(Pump)
<1>1. pumps \in Seq(Pump) /\ Len(pumps) \in Nat /\ Len(pumps) >= 1
  BY EmptySeq DEF TypeOK
<1>2. Last(pumps) \in Pump
  BY <1>1 DEF Last
<1>3. \A pump \in Pump : [pumps EXCEPT ![Len(pumps)] = pump] \in Seq(Pump)
  BY <1>1, ExceptSeq
<1>4. SubSeq(pumps, 1, Len(pumps) - 1) \in Seq(Pump)
  BY <1>1, SubSeqProperties
<1>5. QED
  BY <1>2, <1>3, <1>4 DEF Front

\* One callback of slot s is taken out and, if there was one, made.
LEMMA Making ==
    ASSUME SocketsInv, NEW s \in Slots, NEW kind \in Kind, NEW callback,
           callback = slots[s].callback[kind],
           NEW table \in [Slots -> Slot], slots' = table,
           \A u \in Slots \ {s} : table[u] = slots[u],
           table[s].gen = slots[s].gen, table[s].callback[kind] = NoCallback,
           \A k \in Kind \ {kind} : table[s].callback[k] = slots[s].callback[k],
           table[s].pending = slots[s].pending \/ kind = "connect",
           pumps' \in Seq(Pump), registered' = registered,
           calls' = IF callback = NoCallback THEN calls
                    ELSE Append(calls, [callback |-> callback, slot |-> s, polled |-> slots[s].gen])
    PROVE  SocketsInv'
<1>1. TypeOK /\ slots \in [Slots -> Slot] /\ registered \in 0..MaxReg /\ calls \in Seq(Call)
  BY DEF SocketsInv, TypeOK
<1>2. callback \in Registration \cup {NoCallback}
  BY <1>1 DEF Slot
<1> DEFINE call == [callback |-> callback, slot |-> s, polled |-> slots[s].gen]
<1>3. callback # NoCallback => call \in Call
  BY <1>1, <1>2, SlotShape DEF Call
<1>4. callback # NoCallback => /\ callback.gen = slots[s].gen
                              /\ callback.id \in 1..registered
                              /\ \A u \in Slots, j \in Kind :
                                    slots[u].callback[j].id = callback.id => u = s /\ j = kind
                              /\ \A i \in 1..Len(calls) : calls[i].callback.id # callback.id
  BY DEF SocketsInv, WaitInv
<1>5. call.callback = callback /\ call.polled = slots[s].gen
  OBVIOUS
<1>6. \/ callback = NoCallback /\ calls' = calls
      \/ callback # NoCallback /\ calls' = Append(calls, call)
  OBVIOUS
<1> HIDE DEF call
<1>7. \/ callback = NoCallback /\ calls' = calls
      \/ /\ callback # NoCallback /\ calls' \in Seq(Call) /\ Len(calls') = Len(calls) + 1
         /\ calls'[Len(calls) + 1] = call
         /\ \A i \in 1..Len(calls) : calls'[i] = calls[i]
  BY <1>1, <1>3, <1>6, AppendProperties
<1>8. Len(calls) \in Nat
  BY <1>1
<1>9. TypeOK'
  BY <1>1, <1>7 DEF TypeOK
<1>10. ASSUME NEW u \in Slots, NEW k \in Kind
       PROVE  \/ table[u].callback[k] = NoCallback
              \/ /\ table[u].callback[k] = slots[u].callback[k] /\ table[u].gen = slots[u].gen
                 /\ ~(u = s /\ k = kind)
  OBVIOUS
<1>11. WaitInv'
  <2> SUFFICES ASSUME NEW u \in Slots, NEW k \in Kind, table[u].callback[k] # NoCallback
               PROVE  LET c == table[u].callback[k]
                      IN  /\ c.gen = table[u].gen
                          /\ c.id \in 1..registered
                          /\ \A v \in Slots, j \in Kind : table[v].callback[j].id = c.id => v = u /\ j = k
                          /\ \A i \in 1..Len(calls') : calls'[i].callback.id # c.id
    BY DEF WaitInv
  <2>1. /\ table[u].callback[k] = slots[u].callback[k] /\ table[u].gen = slots[u].gen
        /\ ~(u = s /\ k = kind)
    BY <1>10
  <2>2. /\ slots[u].callback[k].gen = slots[u].gen
        /\ slots[u].callback[k].id \in 1..registered
        /\ \A v \in Slots, j \in Kind :
              slots[v].callback[j].id = slots[u].callback[k].id => v = u /\ j = k
        /\ \A i \in 1..Len(calls) : calls[i].callback.id # slots[u].callback[k].id
    BY <2>1 DEF SocketsInv, WaitInv
  <2>3. callback # NoCallback => callback.id # slots[u].callback[k].id
    BY <1>4, <2>1
  <2>4. \A i \in 1..Len(calls') : calls'[i].callback.id # slots[u].callback[k].id
    BY <1>5, <1>7, <1>8, <2>2, <2>3
  <2>5. \A v \in Slots, j \in Kind :
           table[v].callback[j].id = slots[u].callback[k].id => v = u /\ j = k
    BY <1>1, <1>10, <2>2, NoCallbackIsNone
  <2>6. QED
    BY <2>1, <2>2, <2>4, <2>5
<1>12. MadeInv'
  <2>1. \A i \in 1..Len(calls) :
           /\ calls[i].callback.id \in 1..registered
           /\ calls[i].callback.gen = calls[i].polled
           /\ \A j \in 1..Len(calls) : calls[i].callback.id = calls[j].callback.id => i = j
    BY DEF SocketsInv, MadeInv
  <2>2. CASE calls' = calls
    BY <2>1, <2>2 DEF MadeInv
  <2>3. CASE calls' # calls
    <3>1. /\ Len(calls') = Len(calls) + 1 /\ calls'[Len(calls) + 1].callback = callback
          /\ calls'[Len(calls) + 1].polled = slots[s].gen
          /\ \A i \in 1..Len(calls) : calls'[i] = calls[i] /\ calls[i].callback.id # callback.id
      BY <2>3, <1>4, <1>5, <1>7
    <3>2. callback.gen = slots[s].gen /\ callback.id \in 1..registered
      BY <2>3, <1>4, <1>7
    <3>3. ASSUME NEW i \in 1..Len(calls')
          PROVE  /\ calls'[i].callback.id \in 1..registered'
                 /\ calls'[i].callback.gen = calls'[i].polled
      BY <1>8, <2>1, <3>1, <3>2
    <3>4. ASSUME NEW i \in 1..Len(calls'), NEW j \in 1..Len(calls'),
                 calls'[i].callback.id = calls'[j].callback.id
          PROVE  i = j
      BY <1>8, <2>1, <3>1, <3>4
    <3>5. QED
      BY <3>3, <3>4 DEF MadeInv
  <2>4. QED
    BY <2>2, <2>3
<1>13. ConnectCallbackPolled'
  BY <1>10 DEF SocketsInv, ConnectCallbackPolled, Kind
<1>14. QED
  BY <1>9, <1>11, <1>12, <1>13 DEF SocketsInv

\* What one step of the dispatch does, to the slot the pump is at.
LEMMA Dispatched ==
    ASSUME SocketsInv, Dispatch
    PROVE  \E s \in Slots, kind \in Kind, table \in [Slots -> Slot] :
             LET callback == slots[s].callback[kind]
             IN  /\ slots' = table
                 /\ \A u \in Slots \ {s} : table[u] = slots[u]
                 /\ table[s].gen = slots[s].gen /\ table[s].callback[kind] = NoCallback
                 /\ \A k \in Kind \ {kind} : table[s].callback[k] = slots[s].callback[k]
                 /\ table[s].pending = slots[s].pending \/ kind = "connect"
                 /\ pumps' \in Seq(Pump) /\ registered' = registered
                 /\ calls' = IF callback = NoCallback THEN calls
                             ELSE Append(calls, [callback |-> callback, slot |-> s,
                                                 polled |-> slots[s].gen])
<1>1. TypeOK /\ slots \in [Slots -> Slot] /\ SlotCount \in Nat
  BY SlotConstants DEF SocketsInv, TypeOK
<1> DEFINE pump == Last(pumps)
<1>2. pumps # <<>> /\ pump.at <= SlotCount
  BY DEF Dispatch, AtEntry, Dispatching
<1>3. pump \in Pump
  BY <1>1, <1>2, Innermost
<1> HIDE DEF pump
<1>4. PICK stage \in pump.stage..4 :
         /\ NextDue(pump, stage)
         /\ slots' = [slots EXCEPT ![pump.at] = Disarmed(slots[pump.at], Kinds[stage])]
         /\ pumps' = [pumps EXCEPT ![Len(pumps)] =
                [pump EXCEPT !.stage = stage + 1,
                             !.calling = slots[pump.at].callback[Kinds[stage]] # NoCallback]]
         /\ calls' = IF slots[pump.at].callback[Kinds[stage]] = NoCallback THEN calls
                     ELSE Append(calls, [callback |-> slots[pump.at].callback[Kinds[stage]],
                                         slot |-> pump.at, polled |-> pump.entry[pump.at].gen])
  BY DEF Dispatch, SetPump, pump
<1>5. pump.at \in Slots /\ stage \in 1..4 /\ stage + 1 \in 1..5
  BY <1>1, <1>2, <1>3 DEF Pump, Slots
<1>6. Kinds[stage] \in Kind
  BY <1>5 DEF Kinds, Kind
<1>7. pump.entry[pump.at].gen = slots[pump.at].gen
  BY <1>4 DEF NextDue, SlotMatches
<1>8. PICK s \in Slots, kind \in Kind : s = pump.at /\ kind = Kinds[stage]
  BY <1>5, <1>6
<1> DEFINE callback == slots[s].callback[kind]
           calling == callback # NoCallback
           disarmed == Disarmed(slots[s], kind)
           table == [slots EXCEPT ![s] = disarmed]
<1>9. NoCallback \in Registration \cup {NoCallback}
  OBVIOUS
<1>10. /\ disarmed \in Slot /\ disarmed.gen = slots[s].gen /\ disarmed.callback[kind] = NoCallback
       /\ \A k \in Kind \ {kind} : disarmed.callback[k] = slots[s].callback[k]
       /\ disarmed.pending = slots[s].pending \/ kind = "connect"
  BY <1>1, <1>9 DEF Disarmed, Slot
<1>11. slots' = table
  BY <1>4, <1>8
<1> HIDE DEF disarmed
<1>12. table \in [Slots -> Slot] /\ table[s] = disarmed /\ \A u \in Slots \ {s} : table[u] = slots[u]
  BY <1>1, <1>10
<1>13. calling \in BOOLEAN
  OBVIOUS
<1>14. pumps' = [pumps EXCEPT ![Len(pumps)] = [pump EXCEPT !.stage = stage + 1, !.calling = calling]]
  BY <1>4, <1>8
<1> HIDE DEF calling
<1>15. [pump EXCEPT !.stage = stage + 1, !.calling = calling] \in Pump
  BY <1>3, <1>5, <1>13 DEF Pump
<1>16. pumps' \in Seq(Pump)
  BY <1>1, <1>2, <1>14, <1>15, Innermost
<1>17. registered' = registered
  BY DEF Dispatch
<1>18. calls' = IF callback = NoCallback THEN calls
                ELSE Append(calls, [callback |-> callback, slot |-> s, polled |-> slots[s].gen])
  BY <1>4, <1>7, <1>8
<1> HIDE DEF table, callback
<1>19. QED
  BY <1>10, <1>11, <1>12, <1>16, <1>17, <1>18 DEF callback

LEMMA PumpSteps ==
    ASSUME SocketsInv, PumpBegin \/ Dispatch \/ CallbackReturn \/ EntryDone \/ PumpEnd
    PROVE  SocketsInv'
<1>1. TypeOK /\ slots \in [Slots -> Slot] /\ SlotCount \in Nat /\ SlotCount >= 1
  BY SlotConstants DEF SocketsInv, TypeOK
<1> DEFINE pump == Last(pumps)
<1>2. CASE PumpBegin
  <2>1. PICK ready \in [Slots -> Events] :
           pumps' = Append(pumps, [entry |-> [s \in Slots |-> [gen |-> slots[s].gen, events |-> ready[s]]],
                                   at |-> 1, stage |-> 1, calling |-> FALSE])
    BY <1>2 DEF PumpBegin
  <2> DEFINE entry == [s \in Slots |-> [gen |-> slots[s].gen, events |-> ready[s]]]
  <2>2. \A s \in Slots : slots[s].gen \in 0..MaxGen
    BY <1>1, SlotShape
  <2>3. entry \in [Slots -> [gen : 0..MaxGen, events : Events]]
    BY <2>2
  <2> HIDE DEF entry
  <2>4. [entry |-> entry, at |-> 1, stage |-> 1, calling |-> FALSE] \in Pump
    BY <1>1, <2>3 DEF Pump
  <2>5. pumps' \in Seq(Pump)
    BY <1>1, <2>1, <2>4, AppendProperties DEF TypeOK, entry
  <2>6. UNCHANGED <<slots, registered, calls>>
    BY <1>2 DEF PumpBegin
  <2>7. QED
    BY <2>5, <2>6, OnlyPumps
<1>3. CASE Dispatch
  <2>1. PICK s \in Slots, kind \in Kind, table \in [Slots -> Slot] :
           /\ slots' = table
           /\ \A u \in Slots \ {s} : table[u] = slots[u]
           /\ table[s].gen = slots[s].gen /\ table[s].callback[kind] = NoCallback
           /\ \A k \in Kind \ {kind} : table[s].callback[k] = slots[s].callback[k]
           /\ table[s].pending = slots[s].pending \/ kind = "connect"
           /\ pumps' \in Seq(Pump) /\ registered' = registered
           /\ calls' = IF slots[s].callback[kind] = NoCallback THEN calls
                       ELSE Append(calls, [callback |-> slots[s].callback[kind], slot |-> s,
                                           polled |-> slots[s].gen])
    BY <1>3, Dispatched
  <2>2. QED
    BY <2>1, Making
<1>4. CASE CallbackReturn
  <2>1. pumps # <<>> /\ pumps' = [pumps EXCEPT ![Len(pumps)] = [pump EXCEPT !.calling = FALSE]]
    BY <1>4 DEF CallbackReturn, SetPump
  <2>2. pump \in Pump
    BY <1>1, <2>1, Innermost
  <2> HIDE DEF pump
  <2>3. [pump EXCEPT !.calling = FALSE] \in Pump
    BY <2>2 DEF Pump
  <2>4. pumps' \in Seq(Pump)
    BY <1>1, <2>1, <2>3, Innermost
  <2>5. QED
    BY <1>4, <2>4, OnlyPumps DEF CallbackReturn
<1>5. CASE EntryDone
  <2>1. /\ pumps # <<>> /\ pump.at <= SlotCount
        /\ pumps' = [pumps EXCEPT ![Len(pumps)] = [pump EXCEPT !.at = pump.at + 1, !.stage = 1]]
    BY <1>5 DEF EntryDone, SetPump, AtEntry, Dispatching
  <2>2. pump \in Pump
    BY <1>1, <2>1, Innermost
  <2> HIDE DEF pump
  <2>3. pump.at + 1 \in 1..(SlotCount + 1)
    BY <1>1, <2>1, <2>2 DEF Pump
  <2>4. [pump EXCEPT !.at = pump.at + 1, !.stage = 1] \in Pump
    <3>1. ASSUME NEW at \in 1..(SlotCount + 1), NEW stage \in 1..5
          PROVE  [pump EXCEPT !.at = at, !.stage = stage] \in Pump
      BY <2>2 DEF Pump
    <3>2. 1 \in 1..5
      OBVIOUS
    <3> DEFINE next == pump.at + 1
    <3>3. next \in 1..(SlotCount + 1)
      BY <2>3
    <3> HIDE DEF next
    <3>4. [pump EXCEPT !.at = next, !.stage = 1] \in Pump
      BY <3>1, <3>2, <3>3, Zenon
    <3>5. QED
      BY <3>4 DEF next
  <2>5. pumps' \in Seq(Pump)
    BY <1>1, <2>1, <2>4, Innermost
  <2>6. QED
    BY <1>5, <2>5, OnlyPumps DEF EntryDone
<1>6. CASE PumpEnd
  <2>1. pumps' \in Seq(Pump)
    BY <1>1, <1>6, Innermost DEF PumpEnd, Dispatching
  <2>2. QED
    BY <1>6, <2>1, OnlyPumps DEF PumpEnd
<1>7. QED
  BY <1>2, <1>3, <1>4, <1>5, <1>6

-----------------------------------------------------------------------------
(* The theorems. *)

LEMMA SocketsStep ==
    ASSUME SocketsInv, [Next]_vars
    PROVE  SocketsInv'
<1>1. ASSUME NEW s \in Slots, NEW callback \in Arguments(s),
             \/ \E inProgress \in BOOLEAN : Connect(s, callback, inProgress)
             \/ Readable(s, callback) \/ Writable(s, callback) \/ AcceptLater(s, callback)
      PROVE  SocketsInv'
  BY <1>1, RegisteringSteps
<1>2. CASE UNCHANGED vars
  <2>1. pumps' \in Seq(Pump) /\ UNCHANGED <<slots, registered, calls>>
    BY <1>2 DEF SocketsInv, TypeOK, vars
  <2>2. QED
    BY <2>1, OnlyPumps
<1>3. CASE Next
  BY <1>1, <1>3, ClearingSteps, PumpSteps DEF Next
<1>4. QED
  BY <1>2, <1>3

\* Every slot, pump and call has its shape, whatever the guest and the kernel do.
THEOREM SocketsTyped == Spec => []TypeOK
<1>1. SocketsInv => TypeOK
  BY DEF SocketsInv
<1>2. QED
  BY <1>1, SocketsInitially, SocketsStep, PTL DEF Spec

\* No callback is made twice, however often it is polled and however pumps nest.
THEOREM CallbacksMadeOnce == Spec => []CalledOnce
<1>1. SocketsInv => CalledOnce
  <2>1. SocketsInv => Len(calls) \in Nat /\ DOMAIN calls = 1..Len(calls)
    BY DEF SocketsInv, TypeOK
  <2>2. QED
    BY <2>1 DEF SocketsInv, MadeInv, CalledOnce
<1>2. QED
  BY <1>1, SocketsInitially, SocketsStep, PTL DEF Spec

\* What is polled on one socket never reaches a callback of the slot's next owner.
THEOREM EventsKeepTheirSocket == Spec => []CalledOnItsSocket
<1>1. SocketsInv => CalledOnItsSocket
  <2>1. SocketsInv => Len(calls) \in Nat /\ DOMAIN calls = 1..Len(calls)
    BY DEF SocketsInv, TypeOK
  <2>2. QED
    BY <2>1 DEF SocketsInv, MadeInv, CalledOnItsSocket
<1>2. QED
  BY <1>1, SocketsInitially, SocketsStep, PTL DEF Spec

\* A connect callback that waits is polled for.
THEOREM ConnectIsPolled == Spec => []ConnectCallbackPolled
<1>1. SocketsInv => ConnectCallbackPolled
  BY DEF SocketsInv
<1>2. QED
  BY <1>1, SocketsInitially, SocketsStep, PTL DEF Spec

\* The pump takes no callback out of a slot without making it.
THEOREM PumpLosesNone == Spec => PumpDropsNone
<1> DEFINE Kept == \A s \in Slots, k \in Kind :
                      slots[s].callback[k] # slots'[s].callback[k] =>
                         \E i \in DOMAIN calls' : calls'[i].callback = slots[s].callback[k]
<1>1. ASSUME SocketsInv, [Next]_vars, pumps' # pumps PROVE Kept
  <2>1. Dispatch \/ UNCHANGED slots
    BY <1>1 DEF Next, vars, Create, Close, AcceptNow, Connect, Readable, Writable, AcceptLater,
                Shutdown, PumpBegin, CallbackReturn, EntryDone, PumpEnd
  <2>2. CASE Dispatch
    <3>1. PICK s \in Slots, kind \in Kind, table \in [Slots -> Slot] :
             /\ slots' = table
             /\ \A u \in Slots \ {s} : table[u] = slots[u]
             /\ table[s].callback[kind] = NoCallback
             /\ \A k \in Kind \ {kind} : table[s].callback[k] = slots[s].callback[k]
             /\ calls' = IF slots[s].callback[kind] = NoCallback THEN calls
                         ELSE Append(calls, [callback |-> slots[s].callback[kind], slot |-> s,
                                             polled |-> slots[s].gen])
      BY <1>1, <2>2, Dispatched
    <3> DEFINE callback == slots[s].callback[kind]
               call == [callback |-> callback, slot |-> s, polled |-> slots[s].gen]
    <3>2. callback # NoCallback => /\ calls' = Append(calls, call)
                                  /\ calls \in Seq(Call) /\ callback \in Registration
                                  /\ slots[s].gen \in 0..MaxGen
      BY <1>1, <3>1, SlotShape DEF SocketsInv, TypeOK, Slot
    <3>3. callback # NoCallback => call \in Call /\ call.callback = callback
      BY <3>2 DEF Call
    <3> HIDE DEF call
    <3>4. callback # NoCallback => /\ calls' \in Seq(Call)
                                  /\ Len(calls) \in Nat /\ Len(calls') = Len(calls) + 1
                                  /\ calls'[Len(calls) + 1] = call
      BY <3>2, <3>3, AppendProperties
    <3>5. callback # NoCallback => /\ Len(calls) + 1 \in DOMAIN calls'
                                  /\ calls'[Len(calls) + 1].callback = callback
      BY <3>3, <3>4
    <3>6. QED
      BY <3>1, <3>5
  <2>3. CASE UNCHANGED slots
    BY <2>3
  <2>4. QED
    BY <2>1, <2>2, <2>3
<1>2. QED
  BY <1>1, SocketsInitially, SocketsStep, PTL DEF Spec, PumpDropsNone
=============================================================================
