------------------------------ MODULE S3ETimer ------------------------------
(***************************************************************************)
(* The guest timers of src/s3e_timer.c: g_timers, a list kept in the order *)
(* of the due times under g_timer_mutex, and dispatch_due_timers, which    *)
(* any guest thread enters from s3eDeviceYield, the pointer and keyboard   *)
(* updates or the buffer swap, and which calls the guest back with the     *)
(* mutex released.  A callback may set and cancel timers and may itself    *)
(* yield, so passes nest: each thread has a stack of them.                 *)
(*                                                                         *)
(* Each critical section is one step.  A call with a NULL callback and a   *)
(* failed calloc return an error and change nothing (no stored timer has a *)
(* NULL callback), so they are stuttering steps.                           *)
(***************************************************************************)
EXTENDS Naturals, Sequences, SequencesExt

CONSTANTS Threads,      \* guest threads that use timers
          Main,         \* the thread that runs main() and the host's shutdown
          Events,       \* the (callback, user_data) pairs that identify a timer
          Periods,      \* the periods given to s3eTimerSetTimer, in milliseconds
          MaxEvents,    \* S3E_TIMER_MAX_EVENTS, 32 in the code
          MaxDepth,     \* bound on the nesting of passes of one thread
          MaxClock,     \* bound on the monotonic clock
          MaxSequence,  \* bound on g_timer_sequence (64 bits: it never wraps)
          NoTimer       \* the pass is between two callbacks

VARIABLES timers,       \* g_timers, head first
          sequence,     \* g_timer_sequence
          clock,        \* monotonic_ms()
          passes        \* thread -> its stack of dispatch_due_timers frames

vars == <<timers, sequence, clock, passes>>

Timer == [event : Events, due : Nat, seq : Nat]

ASSUME TimerConstants == /\ Main \in Threads
                         /\ Periods \subseteq Nat
                         /\ MaxEvents \in Nat
                         /\ MaxDepth \in Nat
                         /\ MaxClock \in Nat
                         /\ MaxSequence \in Nat
                         /\ NoTimer \notin Timer

(* A frame of dispatch_due_timers.  "limit": the clock is read and         *)
(* g_timer_sequence is not; "scan": at the head of the loop; "callback":   *)
(* the guest runs.  fired is a history of the timers the pass has called.  *)
Pass == [pc : {"limit", "scan", "callback"}, now : Nat, limit : Nat,
         running : Timer \cup {NoTimer}, fired : SUBSET Timer]

TypeOK == /\ timers \in Seq(Timer)
          /\ sequence \in Nat
          /\ clock \in Nat
          /\ passes \in [Threads -> Seq(Pass)]

Init == /\ timers = <<>>
        /\ sequence = 0
        /\ clock = 0
        /\ passes = [t \in Threads |-> <<>>]

-----------------------------------------------------------------------------
Top(t) == passes[t][Len(passes[t])]

\* Thread t executes guest code: its own, or a timer callback's.
InGuest(t) == passes[t] # <<>> => Top(t).pc = "callback"

AtPc(t, pc) == passes[t] # <<>> /\ Top(t).pc = pc

SetTop(t, pass) == passes' = [passes EXCEPT ![t] = [@ EXCEPT ![Len(@)] = pass]]

\* The timer at position i is the one remove_timer_locked unlinks for e.
Matches(i, e) == timers[i].event = e /\ \A j \in 1..(i - 1) : timers[j].event # e

Armed(e) == \E i \in DOMAIN timers : timers[i].event = e

\* Mutation of InsertPosition: the loop stops in front of an equal due time.
InsertBeforeEquals(q, k, due) == /\ \A j \in 1..(k - 1) : q[j].due < due
                                 /\ k <= Len(q) => q[k].due >= due

\* Where the insertion loop stops: behind every timer due no later than the new one.
InsertPosition(q, k, due) == /\ \A j \in 1..(k - 1) : q[j].due <= due
                             /\ k <= Len(q) => q[k].due > due

InsertByDue(q, timer) ==
    {InsertAt(q, k, timer) : k \in {k \in 1..(Len(q) + 1) : InsertPosition(q, k, timer.due)}}

NewTimer(e, period) == [event |-> e, due |-> clock + period, seq |-> sequence + 1]

-----------------------------------------------------------------------------
Tick == /\ clock < MaxClock
        /\ clock' = clock + 1
        /\ UNCHANGED <<timers, sequence, passes>>

\* Mutation of Rearm: the armed timer is not unlinked first.
RearmKeepsOld(e, period) == /\ Armed(e)
                            /\ timers' \in InsertByDue(timers, NewTimer(e, period))

\* s3eTimerSetTimer on a timer that is armed: it is moved, whatever the count.
Rearm(e, period) ==
    \E i \in DOMAIN timers :
        /\ Matches(i, e)
        /\ timers' \in InsertByDue(RemoveAt(timers, i), NewTimer(e, period))

\* s3eTimerSetTimer on a timer that is not armed.
Arm(e, period) == /\ ~Armed(e)
                  /\ Len(timers) < MaxEvents
                  /\ timers' \in InsertByDue(timers, NewTimer(e, period))

SetTimer(t, e, period) == /\ InGuest(t)
                          /\ sequence < MaxSequence
                          /\ Rearm(e, period) \/ Arm(e, period)
                          /\ sequence' = sequence + 1
                          /\ UNCHANGED <<clock, passes>>

CancelTimer(t, e) == /\ InGuest(t)
                     /\ \E i \in DOMAIN timers : /\ Matches(i, e)
                                                 /\ timers' = RemoveAt(timers, i)
                     /\ UNCHANGED <<sequence, clock, passes>>

\* dispatch_due_timers reads the clock before it takes the mutex ...
DispatchEnter(t) ==
    /\ InGuest(t)
    /\ Len(passes[t]) < MaxDepth
    /\ passes' = [passes EXCEPT ![t] = Append(@, [pc |-> "limit", now |-> clock, limit |-> 0,
                                                  running |-> NoTimer, fired |-> {}])]
    /\ UNCHANGED <<timers, sequence, clock>>

\* Mutation of DispatchLimit: the limit excludes the newest timer.
DispatchLimitShort(t) == /\ AtPc(t, "limit")
                         /\ SetTop(t, [Top(t) EXCEPT !.pc = "scan", !.limit = sequence - 1])
                         /\ UNCHANGED <<timers, sequence, clock>>

\* ... and the sequence limit under it.
DispatchLimit(t) == /\ AtPc(t, "limit")
                    /\ SetTop(t, [Top(t) EXCEPT !.pc = "scan", !.limit = sequence])
                    /\ UNCHANGED <<timers, sequence, clock>>

\* Mutation of Eligible: no sequence limit.
EligibleAnyAge(pass, timer) == timer.due <= pass.now

\* Mutation of Eligible: a timer is taken one millisecond early.
EligibleEarly(pass, timer) == timer.due <= pass.now + 1 /\ timer.seq <= pass.limit

\* The pass takes this timer if it is at the head of the list.
Eligible(pass, timer) == timer.due <= pass.now /\ timer.seq <= pass.limit

DispatchPop(t) == /\ AtPc(t, "scan")
                  /\ timers # <<>>
                  /\ Eligible(Top(t), Head(timers))
                  /\ timers' = Tail(timers)
                  /\ SetTop(t, [Top(t) EXCEPT !.pc = "callback", !.running = Head(timers),
                                              !.fired = @ \cup {Head(timers)}])
                  /\ UNCHANGED <<sequence, clock>>

\* The callback returns and its timer is freed.
CallbackReturn(t) == /\ AtPc(t, "callback")
                     /\ SetTop(t, [Top(t) EXCEPT !.pc = "scan", !.running = NoTimer])
                     /\ UNCHANGED <<timers, sequence, clock>>

DispatchLeave(t) == /\ AtPc(t, "scan")
                    /\ timers # <<>> => ~Eligible(Top(t), Head(timers))
                    /\ passes' = [passes EXCEPT ![t] = Front(@)]
                    /\ UNCHANGED <<timers, sequence, clock>>

\* clear_timers, from s3e_host_shutdown on the main thread.
ClearTimers == /\ passes[Main] = <<>>
               /\ timers' = <<>>
               /\ UNCHANGED <<sequence, clock, passes>>

Next == \/ Tick
        \/ ClearTimers
        \/ \E t \in Threads :
              \/ \E e \in Events, p \in Periods : SetTimer(t, e, p)
              \/ \E e \in Events : CancelTimer(t, e)
              \/ DispatchEnter(t)
              \/ DispatchLimit(t)
              \/ DispatchPop(t)
              \/ CallbackReturn(t)
              \/ DispatchLeave(t)

Spec == Init /\ [][Next]_vars

(* The guest's main loop yields once a frame, callbacks return, and a      *)
(* thread inside dispatch_due_timers keeps running.                        *)
Fairness == /\ WF_vars(passes[Main] = <<>> /\ DispatchEnter(Main))
            /\ \A t \in Threads : /\ WF_vars(DispatchLimit(t))
                                  /\ WF_vars(DispatchPop(t))
                                  /\ WF_vars(CallbackReturn(t))
                                  /\ WF_vars(DispatchLeave(t))

FairSpec == Spec /\ Fairness

-----------------------------------------------------------------------------
Earlier(a, b) == a.due < b.due \/ (a.due = b.due /\ a.seq < b.seq)

\* The list is in the order the timers must go off: by due time, and timers due
\* in the same millisecond in the order they were set (s3eTimerSetTimer 102-105).
Ordered == \A i, j \in DOMAIN timers : i < j => Earlier(timers[i], timers[j])

\* An event is armed at most once, and the list never exceeds its capacity,
\* whatever the threads and the callbacks do between a pass's steps.
OneTimerPerEvent == /\ \A i, j \in DOMAIN timers :
                          timers[i].event = timers[j].event => i = j
                    /\ Len(timers) <= MaxEvents

\* The passes that look at the list: their limit is known.
Scanning(pass) == pass.pc \in {"scan", "callback"}

\* A pass that stops at the head of the list misses nothing: if any timer is due
\* and was set before the pass began, the head is one.  It needs the order, its
\* stability and a clock that never goes back, all at once: a timer set during
\* the pass with a zero period must not get in front of an older one.
NothingOverlooked ==
    \A t \in Threads : \A n \in DOMAIN passes[t] :
        LET pass == passes[t][n] IN
        Scanning(pass) =>
            \A i \in DOMAIN timers : Eligible(pass, timers[i]) => Eligible(pass, timers[1])

\* One pass calls an event at most once, even if its callback sets it again with a
\* zero period: the sequence limit keeps a self-rearming timer from spinning.
PassFiresOnce ==
    \A t \in Threads : \A n \in DOMAIN passes[t] :
        \A a, b \in passes[t][n].fired : a.event = b.event => a = b

\* A pass calls timers in order: what it has called precedes all it may still call.
PassInOrder ==
    \A t \in Threads : \A n \in DOMAIN passes[t] : \A i \in DOMAIN timers :
        Eligible(passes[t][n], timers[i]) =>
            \A a \in passes[t][n].fired : Earlier(a, timers[i])

RunningTimers ==
    (UNION {{passes[t][n].running : n \in DOMAIN passes[t]} : t \in Threads}) \ {NoTimer}

\* The list, the mutex and the passes implement the abstract timer service.
Service == INSTANCE TimerService WITH armed <- {timers[i] : i \in DOMAIN timers},
                                      running <- RunningTimers
ServiceSpec == Service!ServiceSpec

\* A due timer does not stay in the list for ever: it is called, replaced,
\* cancelled or cleared.
DueTimerLeaves ==
    \A s \in 1..MaxSequence :
        (\E i \in DOMAIN timers : timers[i].seq = s /\ timers[i].due <= clock)
            ~> (\A i \in DOMAIN timers : timers[i].seq # s)
=============================================================================
