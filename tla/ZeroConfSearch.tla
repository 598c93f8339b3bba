--------------------------- MODULE ZeroConfSearch ---------------------------
(***************************************************************************)
(* The searches of src/s3e_zeroconf.c: what a search knows of the services *)
(* on the network, the identities it gives the game for them, and the      *)
(* found, update and lost callbacks by which the game follows along.       *)
(*                                                                         *)
(* Everything runs on the guest's thread.  s3e_zero_conf_pump takes        *)
(* packets, applies each to every search and calls the game for what       *)
(* changed; then it lets records expire and does the same.  A callback may *)
(* stop and start searches, its own among them, but not pump again: the    *)
(* pump refuses (g_zero_conf_pumping, g_callback_depth).  So no record     *)
(* changes while a callback runs, and the change_sequence the code         *)
(* compares after each one always matches and is left out.                 *)
(*                                                                         *)
(* Names, addresses and texts are small numbers, 0 for none; text 0 of a   *)
(* record that gives one is a text the code refuses.  Time is left out:    *)
(* which records a pump finds expired is chosen freely.  The queries a     *)
(* search sends are left out.                                              *)
(***************************************************************************)
EXTENDS Naturals, Sequences, SequencesExt, FiniteSetsExt

CONSTANTS SearchCount,     \* ZERO_CONF_MAX_SEARCHES, 4 in the code
          DiscoveredCount, \* ZERO_CONF_MAX_DISCOVERED, 64 in the code
          AddressCount,    \* ZERO_CONF_MAX_ADDRESSES, 32 in the code
          Hosts,           \* the hosts named by records
          Packets,         \* the packets the network delivers
          Expiring,        \* the kinds of record the network lets expire
          CallbackSets,    \* which of the three callbacks a search is given
          MallocFails,     \* whether the allocation of an identity may fail
          MaxGen           \* bound on the searches started

Kinds == {"found", "update", "lost"}

ASSUME SearchConstants == /\ {SearchCount, DiscoveredCount} \subseteq Nat \ {0}
                          /\ {AddressCount, MaxGen} \subseteq Nat
                          /\ 0 \notin Hosts
                          /\ Expiring \subseteq {"ptr", "srv", "txt", "a"}
                          /\ CallbackSets \subseteq SUBSET Kinds
                          /\ MallocFails \in BOOLEAN

VARIABLES searches, \* g_searches
          work,     \* where the pump is, and the callback it is making
          started,  \* g_search_generation: searches started so far
          live,     \* the identities not freed
          retired,  \* g_retired_service_ids
          heard     \* what the game was told of each identity (history)

vars == <<searches, work, started, live, retired, heard>>

Searches == 1..SearchCount
Discovered == 1..DiscoveredCount

\* Identities are known to the game by address, so one freed may come again: at most
\* one per entry and the one being lost are allocated at a time.
Ids == 1..(SearchCount * DiscoveredCount + 1)

\* An entry is in use while it has an identity, id # 0.  port, text and ipv4 are 0
\* when the record is not held (has_srv, has_txt and has_ipv4); host outlives its record.
Blank == [instance |-> 0, id |-> 0, ptr |-> FALSE, host |-> 0, port |-> 0, text |-> 0, ipv4 |-> 0,
          notified |-> FALSE, remove |-> FALSE, endpointChanged |-> FALSE, txtChanged |-> FALSE]

NoSearch == [gen |-> 0, callbacks |-> {}, discovered |-> [d \in Discovered |-> Blank],
             addresses |-> [h \in Hosts |-> 0]]

\* record: the next record of the packet; entry: the entry the search has come to, 0
\* while records are being applied.
Idle == [stage |-> "idle", packet |-> <<>>, record |-> 1, search |-> 1, gen |-> 0, entry |-> 0,
         phase |-> "look", calling |-> FALSE, kind |-> "none", id |-> 0]

View(entry) == [host |-> entry.host, port |-> entry.port, text |-> entry.text, ipv4 |-> entry.ipv4]

Unheard == [state |-> "never", view |-> View(Blank)]

TypeOK == /\ \A s \in Searches :
                /\ searches[s].gen \in 0..MaxGen
                /\ searches[s].callbacks \subseteq Kinds
                /\ \A d \in Discovered : searches[s].discovered[d].id \in Ids \cup {0}
          /\ work.stage \in {"idle", "receive", "packet", "expire"}
          /\ work.search \in Searches
          /\ work.entry \in 0..(DiscoveredCount + 1)
          /\ work.phase \in {"look", "lost", "told"}
          /\ started \in 0..MaxGen
          /\ live \subseteq Ids /\ retired \subseteq Ids
          /\ \A i \in Ids : heard[i].state \in {"never", "here", "gone"}

Init == /\ searches = [s \in Searches |-> NoSearch]
        /\ work = Idle
        /\ started = 0
        /\ live = {}
        /\ retired = {}
        /\ heard = [i \in Ids |-> Unheard]

-----------------------------------------------------------------------------
(* What the game calls, between pumps or in a callback. *)

InGuest == work.stage # "idle" => work.calling

InUse(s) == searches[s].gen # 0

StartSearch(callbacks) ==
    /\ InGuest
    /\ started < MaxGen
    /\ \E s \in Searches : ~InUse(s)
    /\ started' = started + 1
    /\ searches' = [searches EXCEPT ![Min({s \in Searches : ~InUse(s)})] =
                       [NoSearch EXCEPT !.gen = started + 1, !.callbacks = callbacks]]
    /\ UNCHANGED <<work, live, retired, heard>>

\* Mutation of IdsOf: only the identities the game was told.
IdsTold(search) == {search.discovered[d].id : d \in {e \in Discovered : search.discovered[e].notified}}

IdsOf(search) == {search.discovered[d].id : d \in Discovered} \ {0}

\* What the game heard of an identity ends with it.
Past(ids) == [i \in Ids |-> IF i \in ids THEN Unheard ELSE heard[i]]

Freed(ids) == live' = live \ ids /\ heard' = Past(ids)

\* Mutation of Retire: freed though a callback runs.
RetireAtOnce(ids) == Freed(ids) /\ UNCHANGED retired

\* An identity the game may be looking at is kept until its callback is left.
Retire(ids) == IF work.calling THEN retired' = retired \cup ids /\ UNCHANGED <<live, heard>>
               ELSE Freed(ids) /\ UNCHANGED retired

StopSearch(s) == /\ InGuest
                 /\ InUse(s)
                 /\ Retire(IdsOf(searches[s]))
                 /\ searches' = [searches EXCEPT ![s] = NoSearch]
                 /\ UNCHANGED <<work, started>>

Shutdown == /\ work.stage = "idle"
            /\ Retire(UNION {IdsOf(searches[s]) : s \in Searches})
            /\ searches' = [s \in Searches |-> NoSearch]
            /\ UNCHANGED <<work, started>>

-----------------------------------------------------------------------------
(* A record, applied to one search: known is the search together with the   *)
(* identities not free.                                                     *)

Revised(known, Concerned(_), Revision(_)) ==
    [known EXCEPT !.search.discovered =
        [d \in Discovered |-> IF @[d].id # 0 /\ Concerned(@[d]) THEN Revision(@[d]) ELSE @[d]]]

\* allocate_discovered: the entry of that name, or a new one if there is room and an
\* identity for it.
WithEntry(known, name, id) ==
    LET entries == known.search.discovered
        unused == {d \in Discovered : entries[d].id = 0}
    IN  IF \/ unused = {} \/ id = 0
           \/ \E d \in Discovered : entries[d].id # 0 /\ entries[d].instance = name
        THEN known
        ELSE [known EXCEPT
                !.search.discovered[Min(unused)] = [Blank EXCEPT !.instance = name, !.id = id],
                !.live = @ \cup {id}]

ApplyPtr(known, record, id) ==
    IF record.gone
    THEN Revised(known, LAMBDA e : e.instance = record.name,
                 LAMBDA e : [e EXCEPT !.ptr = FALSE, !.remove = TRUE])
    ELSE Revised(WithEntry(known, record.name, id), LAMBDA e : e.instance = record.name,
                 LAMBDA e : [e EXCEPT !.ptr = TRUE, !.remove = FALSE])

\* Mutation of Endpoint: only a changed port counts.
EndpointOverlooked(entry, record, addresses) ==
    LET cached == addresses[record.host]
    IN  [entry EXCEPT !.endpointChanged = @ \/ (entry.port # 0 /\ entry.port # record.port),
                      !.port = record.port,
                      !.host = record.host,
                      !.ipv4 = IF cached # 0 THEN cached ELSE @]

\* The service moved to another port or host; a new host has the address held for
\* it, if any.
Endpoint(entry, record, addresses) ==
    LET moved == entry.host \notin {0, record.host}
        ipv4 == IF moved THEN 0 ELSE entry.ipv4
        cached == addresses[record.host]
    IN  [entry EXCEPT !.endpointChanged = \/ @
                                          \/ entry.port # 0 /\ (entry.port # record.port \/ moved)
                                          \/ cached # 0 /\ ipv4 \notin {0, cached},
                      !.port = record.port,
                      !.host = record.host,
                      !.ipv4 = IF cached # 0 THEN cached ELSE ipv4]

\* A text that is refused may still make the entry it is of.
ApplyService(known, record, id) ==
    LET ours(e) == e.instance = record.name
        revision(e) == IF record.kind = "srv" THEN Endpoint(e, record, known.search.addresses)
                       ELSE IF record.text = 0 THEN e
                       ELSE [e EXCEPT !.txtChanged = @ \/ e.text \notin {0, record.text},
                                      !.text = record.text]
        removal(e) == IF record.kind = "srv" THEN [e EXCEPT !.port = 0] ELSE [e EXCEPT !.text = 0]
    IN  IF record.gone THEN Revised(known, ours, removal)
        ELSE Revised(WithEntry(known, record.name, id), ours, revision)

\* allocate_address fails when the cache is full: then the record is not applied.
ApplyAddress(known, record) ==
    LET cached == {h \in Hosts : known.search.addresses[h] # 0}
        there(e) == e.port # 0 /\ e.host = record.name
        applied == [known EXCEPT !.search.addresses[record.name] = IF record.gone THEN 0 ELSE record.ipv4]
        changed(e) == ~record.gone /\ e.ipv4 \notin {0, record.ipv4}
    IN  IF ~record.gone /\ record.name \notin cached /\ Cardinality(cached) >= AddressCount THEN known
        ELSE Revised(applied, there,
                     LAMBDA e : [e EXCEPT !.endpointChanged = @ \/ changed(e),
                                          !.ipv4 = IF record.gone THEN 0 ELSE record.ipv4])

Applied(known, record, id) == IF record.kind = "ptr" THEN ApplyPtr(known, record, id)
                              ELSE IF record.kind = "a" THEN ApplyAddress(known, record)
                              ELSE ApplyService(known, record, id)

\* All the pointers are applied first, then the services, then the addresses.
InOrder(packet) ==
    LET OfKind(kinds) == SelectSeq(packet, LAMBDA record : record.kind \in kinds)
    IN  OfKind({"ptr"}) \o OfKind({"srv", "txt"}) \o OfKind({"a"})

\* What a pump finds expired: records of each entry, and the addresses of hosts.
Expired(search, records, hosts) ==
    [search EXCEPT
       !.addresses = [h \in Hosts |-> IF h \in hosts THEN 0 ELSE @[h]],
       !.discovered = [d \in Discovered |->
          LET e == @[d]
              ptr == e.ptr /\ "ptr" \notin records[d]
              port == IF "srv" \in records[d] THEN 0 ELSE e.port
              text == IF "txt" \in records[d] THEN 0 ELSE e.text
          IN  IF e.id = 0 THEN e
              ELSE [e EXCEPT !.ptr = ptr, !.port = port, !.text = text,
                             !.ipv4 = IF e.host \in hosts THEN 0 ELSE @,
                             !.remove = \/ @ \/ (e.ptr /\ ~ptr)
                                        \/ (~ptr /\ port = 0 /\ text = 0)]]]

-----------------------------------------------------------------------------
(* The pump. *)

PumpBegin == /\ work.stage = "idle"
             /\ work' = [work EXCEPT !.stage = "receive"]
             /\ UNCHANGED <<searches, started, live, retired, heard>>

Receive(packet) == /\ work.stage = "receive"
                   /\ work' = [work EXCEPT !.stage = "packet", !.packet = InOrder(packet)]
                   /\ UNCHANGED <<searches, started, live, retired, heard>>

\* No more packets.
Expire == /\ work.stage = "receive"
          /\ work' = [work EXCEPT !.stage = "expire"]
          /\ UNCHANGED <<searches, started, live, retired, heard>>

Working == work.stage \in {"packet", "expire"} /\ ~work.calling

\* allocate_service_id, which may find no memory.
NewIds == {Min(Ids \ live)} \cup (IF MallocFails THEN {0} ELSE {})

Applying == Working /\ work.stage = "packet" /\ work.entry = 0 /\ InUse(work.search)

Apply == /\ Applying /\ work.record \in DOMAIN work.packet
         /\ \E id \in NewIds :
               LET known == Applied([search |-> searches[work.search], live |-> live],
                                    work.packet[work.record], id)
               IN  /\ searches' = [searches EXCEPT ![work.search] = known.search]
                   /\ live' = known.live
         /\ work' = [work EXCEPT !.record = @ + 1]
         /\ UNCHANGED <<started, retired, heard>>

\* The search goes through its entries to tell the game what changed.
Begin == work' = [work EXCEPT !.entry = 1, !.gen = searches[work.search].gen]

Dispatch == /\ Applying /\ work.record \notin DOMAIN work.packet
            /\ Begin
            /\ UNCHANGED <<searches, started, live, retired, heard>>

ApplyExpiry == /\ Working /\ work.stage = "expire" /\ work.entry = 0
               /\ InUse(work.search)
               /\ \E records \in [Discovered -> SUBSET (Expiring \ {"a"})],
                     hosts \in IF "a" \in Expiring THEN SUBSET Hosts ELSE {{}} :
                     searches' = [searches EXCEPT ![work.search] = Expired(@, records, hosts)]
               /\ Begin
               /\ UNCHANGED <<started, live, retired, heard>>

\* The search was stopped, and perhaps its slot taken again, by a callback.
Restarted == searches[work.search].gen # work.gen

SearchDone == \/ work.entry = 0 /\ ~InUse(work.search)
              \/ work.entry > DiscoveredCount

\* On to the next search; after the last, to the next packet or out of the pump.
Onward ==
    IF work.search < SearchCount THEN [Idle EXCEPT !.stage = work.stage, !.packet = work.packet,
                                                   !.search = work.search + 1]
    ELSE IF work.stage = "packet" THEN [Idle EXCEPT !.stage = "receive"] ELSE Idle

NextSearch == /\ Working /\ work.phase = "look" /\ SearchDone
              /\ work' = Onward
              /\ UNCHANGED <<searches, started, live, retired, heard>>

Current == searches[work.search].discovered[work.entry]

SetCurrent(entry) == searches' = [searches EXCEPT ![work.search].discovered[work.entry] = entry]

Complete(entry) == entry.ptr /\ entry.port # 0 /\ entry.text # 0 /\ entry.ipv4 # 0

Settled(entry) == [entry EXCEPT !.endpointChanged = FALSE, !.txtChanged = FALSE]

NextEntry == [work EXCEPT !.entry = @ + 1, !.phase = "look", !.kind = "none", !.id = 0]

Looking == Working /\ work.phase = "look" /\ work.entry \in Discovered

\* A callback is made if the search has one; either way the code after it follows.
\* past is what the game had heard.
Call(past, kind, id, phase) ==
    /\ work' = [work EXCEPT !.phase = phase, !.kind = kind, !.id = id,
                            !.calling = kind \in searches[work.search].callbacks]
    /\ heard' = IF kind \notin searches[work.search].callbacks THEN past
                ELSE [past EXCEPT ![id] = [state |-> IF kind = "lost" THEN "gone" ELSE "here",
                                            view |-> IF kind = "found" THEN View(Current)
                                                     ELSE IF kind = "lost" THEN View(Blank)
                                                     ELSE [@.view EXCEPT !.text = Current.text]]]

MustLose(entry) == entry.notified /\ (entry.remove \/ ~Complete(entry) \/ entry.endpointChanged)

\* Nothing to tell of this entry.
Quiet == /\ Looking
         /\ ~Current.notified /\ ~Current.remove /\ ~Complete(Current)
         /\ SetCurrent(Settled(Current))
         /\ work' = NextEntry
         /\ UNCHANGED <<started, live, retired, heard>>

Unchanged == /\ Looking
             /\ Current.notified /\ Complete(Current)
             /\ ~(Current.remove \/ Current.endpointChanged \/ Current.txtChanged)
             /\ work' = NextEntry
             /\ UNCHANGED <<searches, started, live, retired, heard>>

\* clear_discovered: never with a callback running.
RemoveUntold == /\ Looking
                /\ Current.remove /\ ~Current.notified
                /\ Freed({Current.id})
                /\ SetCurrent(Blank)
                /\ work' = NextEntry
                /\ UNCHANGED <<started, retired>>

\* rotate_service_id_after_lost: the entry has its next identity before the game
\* hears that the last one is lost.
Lose == /\ Looking
        /\ MustLose(Current)
        /\ \E next \in NewIds \ {0} :
              /\ live' = live \cup {next}
              /\ SetCurrent([Current EXCEPT !.id = next, !.notified = FALSE])
              /\ Call(heard, "lost", Current.id, "lost")
        /\ UNCHANGED <<started, retired>>

\* No memory for the next identity: nothing is said, and the entry stays as it is.
LoseFails == /\ Looking
             /\ 0 \in NewIds
             /\ MustLose(Current)
             /\ work' = NextEntry
             /\ UNCHANGED <<searches, started, live, retired, heard>>

\* dispatch_found, of an entry just completed or just lost under its last identity.
TellFound(past) == SetCurrent([Current EXCEPT !.notified = TRUE]) /\ Call(past, "found", Current.id, "told")

\* Mutation of Found: notified is not tested.
FoundAgain == /\ Looking
              /\ ~Current.remove /\ Complete(Current)
              /\ TellFound(heard)
              /\ UNCHANGED <<started, live, retired>>

Found == /\ Looking
         /\ ~Current.notified /\ ~Current.remove /\ Complete(Current)
         /\ TellFound(heard)
         /\ UNCHANGED <<started, live, retired>>

Update == /\ Looking
          /\ Current.notified /\ ~MustLose(Current) /\ Current.txtChanged
          /\ Call(heard, "update", Current.id, "told")
          /\ UNCHANGED <<searches, started, live, retired>>

\* callback_leave frees what was retired meanwhile.
CallbackReturn == /\ work.calling
                  /\ work' = [work EXCEPT !.calling = FALSE]
                  /\ Freed(retired)
                  /\ retired' = {}
                  /\ UNCHANGED <<searches, started>>

\* The identity that was lost is freed, whatever became of the search.
AfterLost ==
    /\ Working /\ work.phase = "lost"
    /\ \/ /\ Restarted
          /\ Freed({work.id})
          /\ work' = Onward
          /\ UNCHANGED searches
       \/ /\ ~Restarted /\ Current.remove
          /\ Freed({work.id, Current.id})
          /\ SetCurrent(Blank)
          /\ work' = NextEntry
       \/ /\ ~Restarted /\ ~Current.remove /\ ~Complete(Current)
          /\ Freed({work.id})
          /\ SetCurrent(Settled(Current))
          /\ work' = NextEntry
       \/ /\ ~Restarted /\ ~Current.remove /\ Complete(Current)
          /\ live' = live \ {work.id}
          /\ TellFound(Past({work.id}))
    /\ UNCHANGED <<started, retired>>

AfterTold ==
    /\ Working /\ work.phase = "told"
    /\ \/ Restarted /\ work' = Onward /\ UNCHANGED searches
       \/ ~Restarted /\ SetCurrent(Settled(Current)) /\ work' = NextEntry
    /\ UNCHANGED <<started, live, retired, heard>>

Next == \/ \E callbacks \in CallbackSets : StartSearch(callbacks)
        \/ \E s \in Searches : StopSearch(s)
        \/ Shutdown
        \/ PumpBegin
        \/ \E packet \in Packets : Receive(packet)
        \/ Expire
        \/ Apply \/ Dispatch \/ ApplyExpiry \/ NextSearch
        \/ Quiet \/ Unchanged \/ RemoveUntold
        \/ Lose \/ LoseFails \/ Found \/ Update
        \/ CallbackReturn \/ AfterLost \/ AfterTold

Spec == Init /\ [][Next]_vars

-----------------------------------------------------------------------------
\* Every identity not yet freed has one holder, an entry, the list of the retired or
\* the lost callback under way: none is leaked or freed twice, whichever searches
\* the callbacks stop.
Holders(i) == {e \in Searches \X Discovered : searches[e[1]].discovered[e[2]].id = i}
              \cup {h \in {<<0, 0>>} : i \in retired}
              \cup {h \in {<<0, 1>>} : work.phase = "lost" /\ i = work.id}

OneHolder == \A i \in Ids : Cardinality(Holders(i)) = (IF i \in live THEN 1 ELSE 0)

\* While a callback runs, the identity it was given is not freed, even if the
\* callback stops the search it came from.
CallbackIdLives == work.calling => work.id \in live

\* The game hears of an identity in order: found once, then updates, then lost once,
\* even when the search is stopped and started again in between.
HeardInOrder ==
    [][\A i \in Ids : heard'[i] # heard[i] =>
          \/ i \in live \ live' 
          \/ heard[i].state = "never" /\ heard'[i].state = "here" /\ work'.kind = "found"
          \/ heard[i].state = "here" /\ work'.kind # "found"]_vars

\* Whenever the pump is not at work on a packet, what the game was told is what the
\* search knows: it was told of every service whose records are complete, with its
\* present host, port, address and text, and of no other.
Told(entry) == heard[entry.id].state = "here"

ViewCurrent ==
    work.stage \in {"idle", "receive"} =>
        \A s \in Searches, d \in Discovered :
            LET entry == searches[s].discovered[d]
            IN  InUse(s) /\ searches[s].callbacks = Kinds /\ entry.id # 0 =>
                   /\ entry.notified <=> Complete(entry)
                   /\ entry.notified <=> Told(entry)
                   /\ entry.notified => heard[entry.id].view = View(entry)

\* Packets of which ViewCurrent speaks: they are of known hosts, and what one withdraws
\* of a service or a host it does not give further on (s3e_zeroconf.c:663).
Orderly(records) ==
    \A i \in DOMAIN records :
       LET record == records[i]
       IN  /\ record.kind \in {"ptr", "srv", "txt", "a"}
           /\ record.kind = "srv" /\ ~record.gone => record.host \in Hosts
           /\ record.kind = "a" => record.name \in Hosts
           /\ record.kind # "ptr" /\ record.gone =>
                 \A j \in DOMAIN records \ (1..i) :
                    records[j].kind = record.kind /\ records[j].name = record.name => records[j].gone

=============================================================================
