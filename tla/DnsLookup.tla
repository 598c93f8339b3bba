----------------------------- MODULE DnsLookup ------------------------------
(***************************************************************************)
(* Asynchronous name resolution of src/s3e_socket.c.  s3eInetLookup makes  *)
(* a dns_lookup, publishes it in g_dns_lookup and starts a thread for it;  *)
(* the thread resolves and reports under g_dns_mutex; s3e_socket_pump, on  *)
(* the guest's thread, takes a lookup that is done out of g_dns_lookup,    *)
(* joins its thread, calls the guest and frees it; s3e_socket_shutdown     *)
(* detaches a thread that has not reported and leaves it to free its       *)
(* lookup.  The guest's callback may look up, cancel and pump again.       *)
(*                                                                         *)
(* The host exports no threads to the guest, so the guest and the pump are *)
(* one thread: what runs beside it are the resolver threads.  A call that  *)
(* fails before anything is published, or finds a lookup in flight, and a  *)
(* synchronous lookup change no state and are stuttering steps.            *)
(***************************************************************************)
EXTENDS Naturals, Sequences, SequencesExt

CONSTANT MaxLookups \* bound on the lookups started

ASSUME LookupConstants == MaxLookups \in Nat

Lookup == 1..MaxLookups

None == 0

VARIABLES started,   \* how many lookups have been allocated
          current,   \* g_dns_lookup
          done,      \* the lookups with done set
          cancelled, \* the lookups with cancelled set and the callback dropped
          detached,  \* the lookups with detached set
          resolver,  \* lookup -> where its thread is
          frees,     \* lookup -> how often it has been freed
          joining,   \* the lookup the guest's thread is joining
          calling,   \* the lookups whose callbacks are running, innermost last
          phase      \* "running", "closing" (shutdown waits for a thread), "closed"

vars == <<started, current, done, cancelled, detached, resolver, frees, joining, calling, phase>>

\* "reported": the thread has left the critical section and read detached there.
ResolverState == {"none", "resolving", "keep", "free", "exited"}

TypeOK == /\ started \in 0..MaxLookups
          /\ current \in Lookup \cup {None}
          /\ done \subseteq Lookup
          /\ cancelled \subseteq Lookup
          /\ detached \subseteq Lookup
          /\ resolver \in [Lookup -> ResolverState]
          /\ frees \in [Lookup -> Nat]
          /\ joining \in Lookup \cup {None}
          /\ calling \in Seq(Lookup)
          /\ phase \in {"running", "closing", "closed"}

Init == /\ started = 0
        /\ current = None
        /\ done = {}
        /\ cancelled = {}
        /\ detached = {}
        /\ resolver = [l \in Lookup |-> "none"]
        /\ frees = [l \in Lookup |-> 0]
        /\ joining = None
        /\ calling = <<>>
        /\ phase = "running"

Free(l) == frees' = [frees EXCEPT ![l] = @ + 1]

\* Guest code runs, at the top level or in a callback.
InGuest == phase = "running" /\ joining = None

-----------------------------------------------------------------------------
\* s3eInetLookup with a callback, up to the created thread.
StartLookup == /\ InGuest
               /\ current = None
               /\ started < MaxLookups
               /\ started' = started + 1
               /\ current' = started + 1
               /\ resolver' = [resolver EXCEPT ![started + 1] = "resolving"]
               /\ UNCHANGED <<done, cancelled, detached, frees, joining, calling, phase>>

\* pthread_create fails: the lookup is withdrawn and freed.
StartFails == /\ InGuest
              /\ current = None
              /\ started < MaxLookups
              /\ started' = started + 1
              /\ Free(started + 1)
              /\ UNCHANGED <<current, done, cancelled, detached, resolver, joining, calling, phase>>

CancelLookup == /\ InGuest
                /\ current # None
                /\ cancelled' = cancelled \cup {current}
                /\ UNCHANGED <<started, current, done, detached, resolver, frees, joining, calling,
                               phase>>

\* Mutation of Report: done is not set.
ReportSilently(l) ==
    /\ resolver[l] = "resolving"
    /\ resolver' = [resolver EXCEPT ![l] = IF l \in detached THEN "free" ELSE "keep"]
    /\ UNCHANGED <<started, current, done, cancelled, detached, frees, joining, calling, phase>>

\* The thread leaves getaddrinfo and, under the mutex, reports and reads detached.
Report(l) == /\ resolver[l] = "resolving"
             /\ done' = done \cup {l}
             /\ resolver' = [resolver EXCEPT ![l] = IF l \in detached THEN "free" ELSE "keep"]
             /\ UNCHANGED <<started, current, cancelled, detached, frees, joining, calling, phase>>

\* It frees the lookup if it found itself detached, and ends.
ResolverExit(l) == /\ resolver[l] \in {"keep", "free"}
                   /\ resolver' = [resolver EXCEPT ![l] = "exited"]
                   /\ IF resolver[l] = "free" THEN Free(l) ELSE UNCHANGED frees
                   /\ UNCHANGED <<started, current, done, cancelled, detached, joining, calling,
                                  phase>>

\* Mutation of PumpTake: done is not tested.
PumpTakeEarly == /\ InGuest
                 /\ current # None
                 /\ joining' = current
                 /\ current' = None
                 /\ UNCHANGED <<started, done, cancelled, detached, resolver, frees, calling, phase>>

\* pump_dns_lookup takes a finished lookup out of g_dns_lookup ...
PumpTake == /\ InGuest
            /\ current # None
            /\ current \in done
            /\ joining' = current
            /\ current' = None
            /\ UNCHANGED <<started, done, cancelled, detached, resolver, frees, calling, phase>>

\* Mutation of PumpCall: cancelled is not tested.
PumpCallAlways ==
    /\ phase = "running"
    /\ joining # None
    /\ resolver[joining] = "exited"
    /\ calling' = Append(calling, joining)
    /\ joining' = None
    /\ UNCHANGED <<started, current, done, cancelled, detached, resolver, frees, phase>>

\* ... waits for its thread, and calls the guest back unless it was cancelled ...
PumpCall == /\ phase = "running"
            /\ joining # None
            /\ resolver[joining] = "exited"
            /\ joining \notin cancelled
            /\ calling' = Append(calling, joining)
            /\ joining' = None
            /\ UNCHANGED <<started, current, done, cancelled, detached, resolver, frees, phase>>

\* Mutation of PumpDrop: a cancelled lookup is not freed.
PumpDropLeaks ==
    /\ phase = "running"
    /\ joining # None
    /\ resolver[joining] = "exited"
    /\ joining \in cancelled
    /\ joining' = None
    /\ UNCHANGED <<started, current, done, cancelled, detached, resolver, frees, calling, phase>>

PumpDrop == /\ phase = "running"
            /\ joining # None
            /\ resolver[joining] = "exited"
            /\ joining \in cancelled
            /\ Free(joining)
            /\ joining' = None
            /\ UNCHANGED <<started, current, done, cancelled, detached, resolver, calling, phase>>

\* ... and frees it when the callback has returned.
PumpReturn == /\ InGuest
              /\ calling # <<>>
              /\ Free(Last(calling))
              /\ calling' = Front(calling)
              /\ UNCHANGED <<started, current, done, cancelled, detached, resolver, joining, phase>>

\* Mutation of Shutdown: the thread is detached and not told.
ShutdownUntold(detachOk) ==
    /\ InGuest
    /\ calling = <<>>
    /\ current # None /\ current \notin done /\ detachOk
    /\ cancelled' = cancelled \cup {current}
    /\ current' = None
    /\ phase' = "closed"
    /\ UNCHANGED <<started, done, detached, resolver, frees, joining, calling>>

\* s3e_socket_shutdown, after the guest's main function has returned.
Shutdown(detachOk) ==
    /\ InGuest
    /\ calling = <<>>
    /\ cancelled' = cancelled \cup ({current} \ {None})
    /\ \/ /\ current = None
          /\ phase' = "closed"
          /\ UNCHANGED <<current, detached, joining>>
       \/ /\ current # None /\ current \notin done /\ detachOk
          /\ detached' = detached \cup {current}
          /\ current' = None
          /\ phase' = "closed"
          /\ UNCHANGED joining
       \/ /\ current # None /\ (current \in done \/ ~detachOk)
          /\ joining' = current
          /\ phase' = "closing"
          /\ UNCHANGED <<current, detached>>
    /\ UNCHANGED <<started, done, resolver, frees, calling>>

ShutdownJoined == /\ phase = "closing"
                  /\ resolver[joining] = "exited"
                  /\ current' = None
                  /\ Free(joining)
                  /\ joining' = None
                  /\ phase' = "closed"
                  /\ UNCHANGED <<started, done, cancelled, detached, resolver, calling>>

\* Everything but the start of a lookup.
OtherNext ==
        \/ CancelLookup
        \/ \E l \in Lookup : Report(l) \/ ResolverExit(l)
        \/ PumpTake
        \/ PumpCall
        \/ PumpDrop
        \/ PumpReturn
        \/ \E detachOk \in BOOLEAN : Shutdown(detachOk)
        \/ ShutdownJoined

Next == StartLookup \/ StartFails \/ OtherNext

Spec == Init /\ [][Next]_vars

(* getaddrinfo returns, threads run, callbacks return, and the guest's     *)
(* loop keeps pumping until the host shuts down.                           *)
Fairness == /\ \A l \in Lookup : WF_vars(Report(l)) /\ WF_vars(ResolverExit(l))
            /\ WF_vars(PumpTake) /\ WF_vars(PumpCall) /\ WF_vars(PumpDrop) /\ WF_vars(PumpReturn)
            /\ WF_vars(ShutdownJoined)

FairSpec == Spec /\ Fairness

-----------------------------------------------------------------------------
Threaded(l) == resolver[l] \in {"resolving", "keep", "free"}

InCallback(l) == \E i \in DOMAIN calling : calling[i] = l

Role == {"global", "joining", "callback", "resolver"}

\* Lookup l is held through g_dns_lookup, by the pump or the shutdown that joins
\* its thread, by its running callback, or by its detached thread.  While the
\* shutdown joins, it is the holder of what g_dns_lookup still points at.
Holds(role, l) == \/ role = "global" /\ current = l /\ phase # "closing"
                  \/ role = "joining" /\ joining = l
                  \/ role = "callback" /\ InCallback(l)
                  \/ role = "resolver" /\ l \in detached /\ Threaded(l)

\* A lookup that has a thread and is not freed is held by someone who will free it,
\* and by no other; it is freed once, by the caller whose pthread_create failed, the
\* pump, the shutdown or the detached thread, and then nobody holds it, nor does a
\* thread still resolve the name stored in it.
OneOwner ==
    \A l \in Lookup :
        IF frees[l] = 0 THEN resolver[l] # "none" => \E role \in Role :
                                 /\ Holds(role, l)
                                 /\ \A other \in Role : Holds(other, l) => other = role
        ELSE /\ frees[l] = 1
             /\ \A role \in Role : ~Holds(role, l)
             /\ resolver[l] # "resolving"

\* s3eInetLookupCancel is definitive: the callback of a lookup it cancelled never
\* runs, and its address is not written, whatever the resolver does meanwhile.
CancelledNeverCalled == \A l \in cancelled : ~InCallback(l)

\* The pump joins a thread only after it has reported: no frame of the game waits
\* for a name server.
PumpNeverWaitsForDns == phase = "running" /\ joining # None => resolver[joining] # "resolving"

\* Every lookup is answered, or dropped because it was cancelled, or given up at
\* the shutdown; in every case its memory is given back.
LookupEnds == \A l \in Lookup : l <= started ~> frees[l] = 1

\* The guest is called back for a lookup it neither cancels nor abandons.
LookupAnswered ==
    \A l \in Lookup : current = l ~> InCallback(l) \/ l \in cancelled
=============================================================================
