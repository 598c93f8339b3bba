---------------------------- MODULE SocketSlots -----------------------------
(***************************************************************************)
(* The sockets of src/s3e_socket.c: a table of slots whose index is the    *)
(* handle the guest holds, each with a generation that moves on when the   *)
(* slot is taken and when it is given back, and four one-shot callbacks.   *)
(* s3e_socket_pump takes a snapshot of the slots with something to wait    *)
(* for, polls it, and dispatches what is ready.  A callback may close,     *)
(* create and register sockets and may pump again, so the slot an entry of *)
(* the snapshot names may since belong to another socket.                  *)
(*                                                                         *)
(* Everything runs on the guest's thread; the kernel decides which events  *)
(* a poll reports.  Calls that fail in the kernel change no slot and are   *)
(* stuttering steps.                                                       *)
(***************************************************************************)
EXTENDS Naturals, Sequences, SequencesExt, FiniteSetsExt

CONSTANTS SlotCount, \* S3E_SOCKET_SLOT_COUNT, 32 in the code
          MaxDepth,  \* bound on nested pumps
          MaxGen,    \* bound on a slot's generation (32 bits in the code)
          MaxReg     \* bound on the callbacks registered

ASSUME SlotConstants == /\ SlotCount \in Nat \ {0}
                        /\ MaxDepth \in Nat /\ MaxGen \in Nat /\ MaxReg \in Nat

VARIABLES slots,     \* g_socket_slots
          pumps,     \* the activations of s3e_socket_pump, innermost last
          registered,\* how many callbacks have been registered
          calls      \* the callbacks invoked so far (history)

vars == <<slots, pumps, registered, calls>>

Slots == 1..SlotCount

\* The order in which dispatch_socket_event looks at the four callbacks.
Kinds == <<"connect", "accept", "readable", "writable">>
Kind == {"connect", "accept", "readable", "writable"}

\* A callback the guest gave, numbered, with the generation it was given for.
Registration == [id : 1..MaxReg, gen : 0..MaxGen]
NoCallback == [id |-> 0, gen |-> 0]

Slot == [open : BOOLEAN, gen : 0..MaxGen, pending : BOOLEAN,
         callback : [Kind -> Registration \cup {NoCallback}]]

\* POLLERR, POLLHUP and POLLNVAL count as both.
Events == SUBSET {"in", "out"}

\* What a pump's snapshot has of each socket, the one it is at, the next callback to
\* look at there, and whether one is running.  A socket that was not polled has no
\* events.
Pump == [entry : [Slots -> [gen : 0..MaxGen, events : Events]],
         at : 1..(SlotCount + 1), stage : 1..5, calling : BOOLEAN]

Call == [callback : Registration, slot : Slots, polled : 0..MaxGen]

TypeOK == /\ slots \in [Slots -> Slot]
          /\ pumps \in Seq(Pump)
          /\ registered \in 0..MaxReg
          /\ calls \in Seq(Call)

NoCallbacks == [k \in Kind |-> NoCallback]

Init == /\ slots = [s \in Slots |-> [open |-> FALSE, gen |-> 0, pending |-> FALSE,
                                     callback |-> NoCallbacks]]
        /\ pumps = <<>>
        /\ registered = 0
        /\ calls = <<>>

InGuest == pumps # <<>> => Last(pumps).calling

-----------------------------------------------------------------------------
(* allocate_socket_slot takes the lowest free slot. *)
Free == {s \in Slots : ~slots[s].open}

Cleared(slot, open) == [slot EXCEPT !.open = open, !.gen = @ + 1, !.pending = FALSE,
                                    !.callback = NoCallbacks]

Create == /\ InGuest
          /\ Free # {}
          /\ slots[Min(Free)].gen < MaxGen
          /\ slots' = [slots EXCEPT ![Min(Free)] = Cleared(@, TRUE)]
          /\ UNCHANGED <<pumps, registered, calls>>

Close(s) == /\ InGuest
            /\ slots[s].open
            /\ slots[s].gen < MaxGen
            /\ slots' = [slots EXCEPT ![s] = Cleared(@, FALSE)]
            /\ UNCHANGED <<pumps, registered, calls>>

\* s3e_socket_shutdown closes every socket, when the game has returned.
Shutdown == /\ pumps = <<>>
            /\ \A s \in Slots : slots[s].gen < MaxGen
            /\ slots' = [s \in Slots |-> IF slots[s].open THEN Cleared(slots[s], FALSE) ELSE slots[s]]
            /\ UNCHANGED <<pumps, registered, calls>>

\* The callback argument of a call on socket s: a new one, or NULL.
Given(s, callback) == /\ InGuest
                      /\ slots[s].open
                      /\ \/ callback = NoCallback /\ registered' = registered
                         \/ /\ registered < MaxReg
                            /\ callback = [id |-> registered + 1, gen |-> slots[s].gen]
                            /\ registered' = registered + 1

Arguments(s) == {NoCallback, [id |-> registered + 1, gen |-> slots[s].gen]}

\* connect() is under way, or done at once: then only a callback keeps it pending.
ConnectDoneAtOnce(s, callback, inProgress) ==
    /\ Given(s, callback)
    /\ slots' = [slots EXCEPT ![s].pending = inProgress,
                              ![s].callback["connect"] = callback]
    /\ UNCHANGED <<pumps, calls>>

Connect(s, callback, inProgress) ==
    /\ Given(s, callback)
    /\ slots' = [slots EXCEPT ![s].pending = inProgress \/ callback # NoCallback,
                              ![s].callback["connect"] = callback]
    /\ UNCHANGED <<pumps, calls>>

Readable(s, callback) ==
    /\ Given(s, callback)
    /\ slots' = [slots EXCEPT ![s].callback["readable"] = callback,
                              ![s].callback["accept"] = NoCallback]
    /\ UNCHANGED <<pumps, calls>>

Writable(s, callback) ==
    /\ Given(s, callback)
    /\ slots' = [slots EXCEPT ![s].callback["writable"] = callback]
    /\ UNCHANGED <<pumps, calls>>

\* No connection is waiting: the callback is kept and the readable one dropped.
AcceptLater(s, callback) ==
    /\ Given(s, callback)
    /\ callback # NoCallback
    /\ slots' = [slots EXCEPT ![s].callback["accept"] = callback,
                              ![s].callback["readable"] = NoCallback]
    /\ UNCHANGED <<pumps, calls>>

\* A connection was waiting and a slot is free for it.
AcceptNow(s) ==
    /\ InGuest
    /\ slots[s].open
    /\ Free # {}
    /\ slots[Min(Free)].gen < MaxGen
    /\ slots' = [slots EXCEPT ![Min(Free)] = Cleared(@, TRUE),
                              ![s].callback["accept"] = NoCallback]
    /\ UNCHANGED <<pumps, registered, calls>>

-----------------------------------------------------------------------------
\* What the pump asks poll() about socket s.
Interest(s) ==
    IF ~slots[s].open THEN {}
    ELSE {e \in {"in", "out"} :
            \/ e = "in" /\ \E k \in {"accept", "readable"} : slots[s].callback[k] # NoCallback
            \/ e = "out" /\ (slots[s].pending \/ slots[s].callback["writable"] # NoCallback)}

\* poll() reports what was asked for, or an error, which no mask keeps out.
Reports(s) == IF Interest(s) = {} THEN {{}} ELSE (SUBSET Interest(s)) \cup {{"in", "out"}}

PumpBegin ==
    /\ InGuest
    /\ Len(pumps) < MaxDepth
    /\ \E ready \in [Slots -> Events] :
          /\ \A s \in Slots : ready[s] \in Reports(s)
          /\ LET entry == [s \in Slots |-> [gen |-> slots[s].gen, events |-> ready[s]]]
             IN  pumps' = Append(pumps, [entry |-> entry, at |-> 1, stage |-> 1, calling |-> FALSE])
    /\ UNCHANGED <<slots, registered, calls>>

Dispatching == pumps # <<>> /\ ~Last(pumps).calling
AtEntry == Dispatching /\ Last(pumps).at <= SlotCount

SetPump(pump) == pumps' = [pumps EXCEPT ![Len(pumps)] = pump]

\* slot_matches: the slot still is the socket that was polled.
SlotMatchesAny(pump) == slots[pump.at].open

SlotMatches(pump) == slots[pump.at].open /\ slots[pump.at].gen = pump.entry[pump.at].gen

\* The event calls for the callback at this stage.
Due(pump, stage) ==
    LET slot == slots[pump.at]  kind == Kinds[stage]
    IN  /\ IF kind = "connect" THEN slot.pending ELSE slot.callback[kind] # NoCallback
        /\ (IF kind \in {"accept", "readable"} THEN "in" ELSE "out") \in pump.entry[pump.at].events

NextDue(pump, stage) ==
    /\ SlotMatches(pump)
    /\ Due(pump, stage)
    /\ \A earlier \in pump.stage..(stage - 1) : ~Due(pump, earlier)

\* Mutation of Disarmed: the callback stays in the slot.
DisarmedNever(slot, kind) == [slot EXCEPT !.pending = @ /\ kind # "connect"]

\* Mutation of Disarmed: all of the slot's callbacks are cleared.
DisarmedAll(slot, kind) == [slot EXCEPT !.callback = NoCallbacks, !.pending = @ /\ kind # "connect"]

\* A one-shot callback is taken out of the slot before it is invoked.
Disarmed(slot, kind) == [slot EXCEPT !.callback[kind] = NoCallback,
                                     !.pending = @ /\ kind # "connect"]

\* dispatch_socket_event finds the next callback to make; a connection that was
\* pending without one is only marked as made.
Dispatch ==
    /\ AtEntry
    /\ \E stage \in Last(pumps).stage..4 :
          LET pump == Last(pumps)  kind == Kinds[stage]
              callback == slots[pump.at].callback[kind]
          IN  /\ NextDue(pump, stage)
              /\ slots' = [slots EXCEPT ![pump.at] = Disarmed(@, kind)]
              /\ SetPump([pump EXCEPT !.stage = stage + 1, !.calling = callback # NoCallback])
              /\ calls' = IF callback = NoCallback THEN calls
                          ELSE Append(calls, [callback |-> callback, slot |-> pump.at,
                                              polled |-> pump.entry[pump.at].gen])
    /\ UNCHANGED registered

CallbackReturn == /\ pumps # <<>>
                  /\ Last(pumps).calling
                  /\ SetPump([Last(pumps) EXCEPT !.calling = FALSE])
                  /\ UNCHANGED <<slots, registered, calls>>

\* Nothing more for this entry, or its socket is gone.
EntryDone == /\ AtEntry
             /\ \A stage \in Last(pumps).stage..4 : ~NextDue(Last(pumps), stage)
             /\ SetPump([Last(pumps) EXCEPT !.at = @ + 1, !.stage = 1])
             /\ UNCHANGED <<slots, registered, calls>>

PumpEnd == /\ Dispatching
           /\ Last(pumps).at > SlotCount
           /\ pumps' = Front(pumps)
           /\ UNCHANGED <<slots, registered, calls>>

Next == \/ Create
        \/ \E s \in Slots :
              \/ Close(s)
              \/ AcceptNow(s)
              \/ \E callback \in Arguments(s) :
                    \/ \E inProgress \in BOOLEAN : Connect(s, callback, inProgress)
                    \/ Readable(s, callback)
                    \/ Writable(s, callback)
                    \/ AcceptLater(s, callback)
        \/ Shutdown
        \/ PumpBegin
        \/ Dispatch
        \/ CallbackReturn
        \/ EntryDone
        \/ PumpEnd

Spec == Init /\ [][Next]_vars

-----------------------------------------------------------------------------
\* A callback is invoked once for each time it was registered, however pumps nest.
CalledOnce == \A i, j \in DOMAIN calls : calls[i].callback.id = calls[j].callback.id => i = j

\* An event polled on one socket is never delivered to a callback of another, even
\* if the slot was closed and taken again while earlier callbacks ran.
CalledOnItsSocket == \A i \in DOMAIN calls : calls[i].callback.gen = calls[i].polled

\* A connect callback is never left armed with no connection pending: it would not
\* be polled for and would never run.
ConnectCallbackPolled ==
    \A s \in Slots : slots[s].callback["connect"] # NoCallback => slots[s].pending

\* An armed callback is only lost to its own invocation, a later registration, a
\* NULL one, the one that excludes it, an accepted connection or the close; the pump itself
\* takes none without calling it.
PumpDropsNone ==
    [][pumps' # pumps =>
         \A s \in Slots, k \in Kind :
            slots[s].callback[k] # slots'[s].callback[k] =>
                \E i \in DOMAIN calls' : calls'[i].callback = slots[s].callback[k]]_vars
=============================================================================
