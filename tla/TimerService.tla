---------------------------- MODULE TimerService ----------------------------
(***************************************************************************)
(* What the S3E timer API promises, without its list, its lock or its      *)
(* passes: a set of armed one-shot timers, at most one for each            *)
(* (callback, user_data) pair, of which only the earliest may go off, and  *)
(* never before it is due.  S3ETimer implements this module.               *)
(***************************************************************************)
EXTENDS Naturals

CONSTANTS Events,     \* the (callback, user_data) pairs that identify a timer
          Periods,    \* the periods given to s3eTimerSetTimer, in milliseconds
          MaxClock,   \* bound on the clock
          MaxSequence \* bound on the number of timers ever armed

VARIABLES armed,      \* the timers that are set and have not gone off
          running,    \* the timers whose callback is executing
          clock,      \* monotonic milliseconds
          sequence    \* how many timers have been set

serviceVars == <<armed, running, clock, sequence>>

ServiceTimer == [event : Events, due : Nat, seq : Nat]

\* a goes off before b: the earlier one, and of two due together the older one.
Earlier(a, b) == a.due < b.due \/ (a.due = b.due /\ a.seq < b.seq)

ServiceInit == /\ armed = {}
               /\ running = {}
               /\ clock = 0
               /\ sequence = 0

ServiceTick == /\ clock < MaxClock
               /\ clock' = clock + 1
               /\ UNCHANGED <<armed, running, sequence>>

\* Setting a timer replaces the one armed for the same event.
ServiceSet(e, period) ==
    /\ sequence < MaxSequence
    /\ sequence' = sequence + 1
    /\ armed' = {a \in armed : a.event # e}
                  \cup {[event |-> e, due |-> clock + period, seq |-> sequence + 1]}
    /\ UNCHANGED <<running, clock>>

ServiceCancel(e) == /\ armed' = {a \in armed : a.event # e}
                    /\ UNCHANGED <<running, clock, sequence>>

ServiceFire(a) == /\ a.due <= clock
                  /\ \A b \in armed \ {a} : Earlier(a, b)
                  /\ armed' = armed \ {a}
                  /\ running' = running \cup {a}
                  /\ UNCHANGED <<clock, sequence>>

ServiceReturn(a) == /\ running' = running \ {a}
                    /\ UNCHANGED <<armed, clock, sequence>>

ServiceClear == /\ armed' = {}
                /\ UNCHANGED <<running, clock, sequence>>

ServiceNext == \/ ServiceTick
               \/ \E e \in Events, p \in Periods : ServiceSet(e, p)
               \/ \E e \in Events : ServiceCancel(e)
               \/ \E a \in armed : ServiceFire(a)
               \/ \E a \in running : ServiceReturn(a)
               \/ ServiceClear

ServiceSpec == ServiceInit /\ [][ServiceNext]_serviceVars
=============================================================================
