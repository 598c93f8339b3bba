--------------------------- MODULE ZeroConfProofs ---------------------------
(***************************************************************************)
(* Proofs about both halves of s3e_zeroconf.c, for any number of searches, *)
(* entries, publishers, hosts, packets and texts.                          *)
(*                                                                         *)
(* The searches: an identity is held by one entry, or kept until a         *)
(* callback is over, and what the game heard of it is what the entry says. *)
(* That is stated of any searches, identities and history (Consistent), so *)
(* that a step of the pump is a composition of a few changes that keep it: *)
(* an entry is revised, renewed or cleared, or what is kept is freed.      *)
(*                                                                         *)
(* The publishers: a change waits exactly while there is one, and changes  *)
(* are announced no closer than the interval, whichever sends fail.        *)
(***************************************************************************)
EXTENDS ZeroConfSearch, ZeroConfPublisher, FiniteSetTheorems, WellFoundedInduction, TLAPS

\* A set of numbers that is not empty has a least one, and Min returns it.
LEMMA MinIsLeast ==
    ASSUME NEW S \in SUBSET Nat, S # {}
    PROVE  Min(S) \in S /\ \A y \in S : Min(S) <= y
<1> DEFINE Below == OpToRel(<, Nat)
<1>1. \A x, y \in Nat : <<y, x>> \in Below <=> y < x
  BY DEF OpToRel
<1>2. IsWellFoundedOn(Below, Nat)
  BY NatLessThanWellFounded
<1> HIDE DEF Below
<1>3. PICK x \in S : \A y \in S : ~(<<y, x>> \in Below)
  BY <1>2, WFMin
<1>4. \A y \in S : x =< y
  <2> SUFFICES ASSUME NEW y \in S PROVE ~(y < x)
    OBVIOUS
  <2>1. x \in Nat /\ y \in Nat
    OBVIOUS
  <2>2. QED
    BY <1>1, <1>3, <2>1, Zenon
<1>5. QED
  BY <1>4 DEF Min

-----------------------------------------------------------------------------
(* The searches. *)

USE SearchConstants

\* The games' searches are all told of what is found.
AllFound == \A callbacks \in CallbackSets : "found" \in callbacks

\* An entry not in use says nothing.
EntryInv(e) == /\ DOMAIN e = DOMAIN Blank
               /\ e.id \in Ids \cup {0}
               /\ e.id = 0 => e.notified = FALSE /\ e.remove = FALSE /\ e.port = 0

SearchInv(search) == /\ DOMAIN search = DOMAIN NoSearch
                     /\ DOMAIN search.discovered = Discovered
                     /\ \A d \in Discovered : EntryInv(search.discovered[d])

SearchesInv(all) == DOMAIN all = Searches /\ \A s \in Searches : SearchInv(all[s])

\* What was heard of the identity of an entry.
HeardOf(told, e) == IF e.notified THEN AllFound => told[e.id].state = "here" ELSE told[e.id] = Unheard

\* Every identity not freed is kept for a callback or held by one entry; of one that
\* is freed nothing was heard.
Accounted(all, ids, kept) ==
    /\ ids \subseteq Ids
    /\ kept \subseteq ids
    /\ \A s \in Searches, d \in Discovered :
          all[s].discovered[d].id # 0 => all[s].discovered[d].id \in ids \ kept
    /\ \A s, t \in Searches, d, e \in Discovered :
          all[s].discovered[d].id # 0 /\ all[s].discovered[d].id = all[t].discovered[e].id
          => s = t /\ d = e
    /\ \A i \in ids \ kept : \E s \in Searches, d \in Discovered : all[s].discovered[d].id = i

HeardRight(all, ids, told) ==
    /\ DOMAIN told = Ids
    /\ \A i \in Ids \ ids : told[i] = Unheard
    /\ \A s \in Searches, d \in Discovered :
          all[s].discovered[d].id # 0 => HeardOf(told, all[s].discovered[d])

Consistent(all, ids, kept, told) ==
    SearchesInv(all) /\ Accounted(all, ids, kept) /\ HeardRight(all, ids, told)

SameIds(all, other) == \A s \in Searches, d \in Discovered :
                           other[s].discovered[d].id = all[s].discovered[d].id

-----------------------------------------------------------------------------
\* What entries say changes, and what was heard.
LEMMA Retold ==
    ASSUME NEW all, NEW ids, NEW kept, NEW told, NEW other, NEW now,
           Consistent(all, ids, kept, told), SearchesInv(other), SameIds(all, other),
           HeardRight(other, ids, now)
    PROVE  Consistent(other, ids, kept, now)
  BY DEF Consistent, Accounted, SameIds

\* What is kept is freed.
FreedFrom(told, free) == [i \in Ids |-> IF i \in free THEN Unheard ELSE told[i]]

LEMMA FreeKept ==
    ASSUME NEW all, NEW ids, NEW kept, NEW told, NEW free,
           Consistent(all, ids, kept, told), free \subseteq kept
    PROVE  Consistent(all, ids \ free, kept \ free, FreedFrom(told, free))
<1>1. Accounted(all, ids \ free, kept \ free)
  BY DEF Consistent, Accounted
<1>2. HeardRight(all, ids \ free, FreedFrom(told, free))
  <2> DEFINE now == FreedFrom(told, free)
  <2>1. DOMAIN now = Ids /\ \A i \in Ids : now[i] = IF i \in free THEN Unheard ELSE told[i]
    BY DEF FreedFrom
  <2> HIDE DEF now
  <2>2. \A i \in Ids \ (ids \ free) : now[i] = Unheard
    BY <2>1 DEF Consistent, HeardRight
  <2>3. ASSUME NEW s \in Searches, NEW d \in Discovered, all[s].discovered[d].id # 0
        PROVE  HeardOf(now, all[s].discovered[d])
    <3>1. all[s].discovered[d].id \in ids \ kept /\ ids \subseteq Ids
      BY <2>3 DEF Consistent, Accounted
    <3>2. now[all[s].discovered[d].id] = told[all[s].discovered[d].id]
      BY <3>1, <2>1
    <3>3. HeardOf(told, all[s].discovered[d])
      BY <2>3 DEF Consistent, HeardRight
    <3> QED BY <3>2, <3>3 DEF HeardOf
  <2>4. HeardRight(all, ids \ free, now)
    BY <2>1, <2>2, <2>3 DEF HeardRight
  <2> QED BY <2>4 DEF now
<1> QED BY <1>1, <1>2 DEF Consistent

\* An entry gets an identity that was free, and the one it had, if any, is kept.
LEMMA Renewed ==
    ASSUME NEW all, NEW ids, NEW kept, NEW told, NEW other,
           NEW s \in Searches, NEW d \in Discovered, NEW id \in Ids,
           Consistent(all, ids, kept, told), SearchesInv(other), id \notin ids,
           other[s].discovered[d].id = id, ~other[s].discovered[d].notified,
           \A t \in Searches, e \in Discovered :
              \/ t = s /\ e = d
              \/ /\ other[t].discovered[e].id = all[t].discovered[e].id
                 /\ other[t].discovered[e].notified = all[t].discovered[e].notified
    PROVE  Consistent(other, ids \cup {id}, kept \cup ({all[s].discovered[d].id} \ {0}), told)
<1> DEFINE old == all[s].discovered[d].id
           more == kept \cup ({old} \ {0})
<1>0. id # 0
  BY DEF Ids
<1>1. Accounted(other, ids \cup {id}, more)
  <2>1. ids \cup {id} \subseteq Ids /\ more \subseteq ids \cup {id} /\ id \notin more
    BY DEF Consistent, Accounted
  <2>2. ASSUME NEW t \in Searches, NEW e \in Discovered, ~(t = s /\ e = d),
               other[t].discovered[e].id # 0
        PROVE  other[t].discovered[e].id \in ids \ more
    <3>1. other[t].discovered[e].id = all[t].discovered[e].id
      BY <2>2
    <3>2. all[t].discovered[e].id \in ids \ kept
      BY <2>2, <3>1 DEF Consistent, Accounted
    <3>3. all[t].discovered[e].id # old
      BY <2>2, <3>1 DEF Consistent, Accounted
    <3> QED BY <3>1, <3>2, <3>3
  <2>3. \A t \in Searches, e \in Discovered :
           other[t].discovered[e].id # 0 => other[t].discovered[e].id \in (ids \cup {id}) \ more
    BY <2>1, <2>2
  <2>4. ASSUME NEW t \in Searches, NEW u \in Searches, NEW e \in Discovered, NEW f \in Discovered,
               other[t].discovered[e].id # 0, other[t].discovered[e].id = other[u].discovered[f].id
        PROVE  t = u /\ e = f
    <3>1. CASE t = s /\ e = d
      BY <3>1, <2>2, <2>4, <1>0
    <3>2. CASE u = s /\ f = d
      BY <3>2, <2>2, <2>4, <1>0
    <3>3. CASE ~(t = s /\ e = d) /\ ~(u = s /\ f = d)
      <4>1. all[t].discovered[e].id # 0 /\ all[t].discovered[e].id = all[u].discovered[f].id
        BY <3>3, <2>4
      <4> QED BY <4>1 DEF Consistent, Accounted
    <3> QED BY <3>1, <3>2, <3>3
  <2>5. ASSUME NEW i \in (ids \cup {id}) \ more
        PROVE  \E t \in Searches, e \in Discovered : other[t].discovered[e].id = i
    <3>1. CASE i = id
      BY <3>1
    <3>2. CASE i # id
      <4>1. i \in ids \ kept
        BY <3>2
      <4>2. PICK t \in Searches, e \in Discovered : all[t].discovered[e].id = i
        BY <4>1 DEF Consistent, Accounted
      <4>3. ~(t = s /\ e = d)
        BY <4>2, <4>1, <2>5, <1>0 DEF Ids, Consistent, Accounted
      <4> QED BY <4>2, <4>3
    <3> QED BY <3>1, <3>2
  <2> HIDE DEF more, old
  <2> QED BY <2>1, <2>3, <2>4, <2>5 DEF Accounted
<1>2. HeardRight(other, ids \cup {id}, told)
  <2>1. DOMAIN told = Ids /\ \A i \in Ids \ (ids \cup {id}) : told[i] = Unheard
    BY DEF Consistent, HeardRight
  <2>2. ASSUME NEW t \in Searches, NEW e \in Discovered, other[t].discovered[e].id # 0
        PROVE  HeardOf(told, other[t].discovered[e])
    <3>1. CASE t = s /\ e = d
      BY <3>1 DEF HeardOf, Consistent, HeardRight
    <3>2. CASE ~(t = s /\ e = d)
      <4>1. HeardOf(told, all[t].discovered[e])
        BY <3>2, <2>2 DEF Consistent, HeardRight
      <4> QED BY <3>2, <4>1 DEF HeardOf
    <3> QED BY <3>1, <3>2
  <2> QED BY <2>1, <2>2 DEF HeardRight
<1> QED BY <1>1, <1>2 DEF Consistent

\* Entries are cleared, and the identities they had are kept.
LEMMA Cleared ==
    ASSUME NEW all, NEW ids, NEW kept, NEW told, NEW other, NEW dropped,
           Consistent(all, ids, kept, told), SearchesInv(other),
           0 \notin dropped,
           \A s \in Searches, d \in Discovered :
              IF all[s].discovered[d].id \in dropped THEN other[s].discovered[d].id = 0
              ELSE /\ other[s].discovered[d].id = all[s].discovered[d].id
                   /\ other[s].discovered[d].notified = all[s].discovered[d].notified,
           \A i \in dropped : \E s \in Searches, d \in Discovered : all[s].discovered[d].id = i
    PROVE  Consistent(other, ids, kept \cup dropped, told)
<1>1. Accounted(other, ids, kept \cup dropped)
  <2>1. ids \subseteq Ids /\ kept \cup dropped \subseteq ids
    BY DEF Consistent, Accounted
  <2>2. \A s \in Searches, d \in Discovered :
           other[s].discovered[d].id # 0 => other[s].discovered[d].id \in ids \ (kept \cup dropped)
    BY DEF Consistent, Accounted
  <2>3. \A s, t \in Searches, d, e \in Discovered :
          other[s].discovered[d].id # 0 /\ other[s].discovered[d].id = other[t].discovered[e].id
          => s = t /\ d = e
    BY DEF Consistent, Accounted
  <2>4. ASSUME NEW i \in ids \ (kept \cup dropped)
        PROVE  \E s \in Searches, d \in Discovered : other[s].discovered[d].id = i
    <3>1. PICK s \in Searches, d \in Discovered : all[s].discovered[d].id = i
      BY DEF Consistent, Accounted
    <3> QED BY <3>1
  <2> QED BY <2>1, <2>2, <2>3, <2>4 DEF Accounted
<1>2. HeardRight(other, ids, told)
  <2>1. ASSUME NEW t \in Searches, NEW e \in Discovered, other[t].discovered[e].id # 0
        PROVE  HeardOf(told, other[t].discovered[e])
    <3>1. HeardOf(told, all[t].discovered[e])
      BY <2>1 DEF Consistent, HeardRight
    <3> QED BY <3>1, <2>1 DEF HeardOf
  <2> QED BY <2>1 DEF Consistent, HeardRight
<1> QED BY <1>1, <1>2 DEF Consistent
-----------------------------------------------------------------------------
\* The search after is the search before with other records.
Identical(before, after) ==
    /\ SearchInv(after)
    /\ after.gen = before.gen /\ after.callbacks = before.callbacks
    /\ \A d \in Discovered : /\ after.discovered[d].id = before.discovered[d].id
                             /\ after.discovered[d].notified = before.discovered[d].notified

\* It is the search before with one entry more.
Joined(before, after, d, id) ==
    /\ SearchInv(after)
    /\ after.gen = before.gen /\ after.callbacks = before.callbacks
    /\ before.discovered[d].id = 0
    /\ after.discovered[d].id = id /\ ~after.discovered[d].notified
    /\ \A e \in Discovered \ {d} : /\ after.discovered[e].id = before.discovered[e].id
                                   /\ after.discovered[e].notified = before.discovered[e].notified

Outcome(before, ids, id, known) ==
    /\ DOMAIN known = {"search", "live"}
    /\ \/ Identical(before, known.search) /\ known.live = ids
       \/ /\ id # 0 /\ known.live = ids \cup {id}
          /\ \E d \in Discovered : Joined(before, known.search, d, id)

LEMMA OutcomeRevised ==
    ASSUME NEW before, NEW ids, NEW id, NEW known, NEW search,
           Outcome(before, ids, id, known), Identical(known.search, search)
    PROVE  Outcome(before, ids, id, [search |-> search, live |-> known.live])
<1> DEFINE next == [search |-> search, live |-> known.live]
<1>1. DOMAIN next = {"search", "live"} /\ next.search = search /\ next.live = known.live
  OBVIOUS
<1> HIDE DEF next
<1>2. Identical(before, known.search) => Identical(before, search)
  BY DEF Identical
<1>3. ASSUME NEW d \in Discovered, Joined(before, known.search, d, id)
      PROVE  Joined(before, search, d, id)
  BY <1>3 DEF Identical, Joined
<1>4. Outcome(before, ids, id, next)
  BY <1>1, <1>2, <1>3 DEF Outcome
<1> QED BY <1>4 DEF next

LEMMA WithEntryIs ==
    ASSUME NEW search, SearchInv(search), NEW ids, NEW name, NEW id \in Ids \cup {0}
    PROVE  Outcome(search, ids, id, WithEntry([search |-> search, live |-> ids], name, id))
<1> DEFINE unused == {d \in Discovered : search.discovered[d].id = 0}
           known == [search |-> search, live |-> ids]
           r == WithEntry(known, name, id)
<1>1. Identical(search, search)
  BY DEF Identical
<1>2. CASE r = known
  BY <1>1, <1>2 DEF Outcome
<1>3. CASE r # known
  <2>1. unused # {} /\ id # 0
    BY <1>3 DEF WithEntry
  <2> DEFINE d == Min(unused)
             e == [Blank EXCEPT !.instance = name, !.id = id]
             after == [search EXCEPT !.discovered = [@ EXCEPT ![d] = e]]
  <2>2. d \in unused
    <3>1. unused \in SUBSET Nat
      BY DEF Discovered
    <3> HIDE DEF unused
    <3> QED BY <2>1, <3>1, MinIsLeast
  <2>3. r = [search |-> after, live |-> ids \cup {id}]
    BY <1>3 DEF WithEntry
  <2>4. EntryInv(e) /\ e.id = id /\ ~e.notified
    BY <2>1 DEF EntryInv, Blank
  <2>5. d \in Discovered /\ search.discovered[d].id = 0
    BY <2>2
  <2> HIDE DEF d, e, r, known
  <2>6. Joined(search, after, d, id)
    BY <2>4, <2>5 DEF Joined, SearchInv, NoSearch
  <2> HIDE DEF after
  <2>7. Outcome(search, ids, id, [search |-> after, live |-> ids \cup {id}])
    BY <2>1, <2>5, <2>6 DEF Outcome
  <2> QED BY <2>3, <2>7 DEF r, known
<1> QED BY <1>2, <1>3

\* An entry in use may be revised, its identity and what was notified may not.
Revision(was, is) == \/ is = was
                     \/ /\ was.id # 0 /\ DOMAIN is = DOMAIN was
                        /\ is.id = was.id /\ is.notified = was.notified

\* The entries in use may be revised, their identities and what was notified may not.
LEMMA RevisedIs ==
    ASSUME NEW before, NEW ids, NEW id, NEW known, Outcome(before, ids, id, known),
           NEW discovered, DOMAIN discovered = Discovered,
           \A d \in Discovered : Revision(known.search.discovered[d], discovered[d])
    PROVE  Outcome(before, ids, id, [known EXCEPT !.search.discovered = discovered])
<1> DEFINE after == [known.search EXCEPT !.discovered = discovered]
<1>1. SearchInv(known.search)
  BY DEF Outcome, Identical, Joined
<1>2. SearchInv(after)
  BY <1>1 DEF Revision, SearchInv, EntryInv, NoSearch
<1>3. Identical(known.search, after)
  BY <1>1, <1>2 DEF Revision, Identical, SearchInv, NoSearch
<1>4. [known EXCEPT !.search.discovered = discovered] = [search |-> after, live |-> known.live]
  BY DEF Outcome
<1> HIDE DEF after
<1>5. Outcome(before, ids, id, [search |-> after, live |-> known.live])
  BY <1>3, OutcomeRevised
<1> QED BY <1>4, <1>5

LEMMA AppliedIs ==
    ASSUME NEW search, SearchInv(search), NEW ids, NEW record, NEW id \in Ids \cup {0}
    PROVE  Outcome(search, ids, id, Applied([search |-> search, live |-> ids], record, id))
<1> DEFINE known == [search |-> search, live |-> ids]
           more == WithEntry(known, record.name, id)
<1>1. Outcome(search, ids, id, known)
  BY DEF Outcome, Identical
<1>2. Outcome(search, ids, id, more)
  BY WithEntryIs
<1> HIDE DEF more
<1>3. Outcome(search, ids, id, ApplyPtr(known, record, id))
  <2> DEFINE gone == [d \in Discovered |->
                         IF known.search.discovered[d].id # 0 /\ known.search.discovered[d].instance = record.name
                         THEN [known.search.discovered[d] EXCEPT !.ptr = FALSE, !.remove = TRUE]
                         ELSE known.search.discovered[d]]
             there == [d \in Discovered |->
                         IF more.search.discovered[d].id # 0 /\ more.search.discovered[d].instance = record.name
                         THEN [more.search.discovered[d] EXCEPT !.ptr = TRUE, !.remove = FALSE]
                         ELSE more.search.discovered[d]]
  <2>1. Outcome(search, ids, id, [known EXCEPT !.search.discovered = gone])
    <3>1. DOMAIN gone = Discovered
      OBVIOUS
    <3>2. \A d \in Discovered : Revision(known.search.discovered[d], gone[d])
      BY DEF Revision, Blank
    <3> HIDE DEF gone, known
    <3> QED BY <1>1, <3>1, <3>2, RevisedIs
  <2>2. Outcome(search, ids, id, [more EXCEPT !.search.discovered = there])
    <3>1. DOMAIN there = Discovered
      OBVIOUS
    <3>2. \A d \in Discovered : Revision(more.search.discovered[d], there[d])
      BY DEF Revision, Blank
    <3> HIDE DEF there, known
    <3> QED BY <1>2, <3>1, <3>2, RevisedIs
  <2>3. ApplyPtr(known, record, id) = IF record.gone THEN [known EXCEPT !.search.discovered = gone]
                                      ELSE [more EXCEPT !.search.discovered = there]
    BY DEF ApplyPtr, Revised, more
  <2> QED BY <2>1, <2>2, <2>3
<1>4. Outcome(search, ids, id, ApplyService(known, record, id))
  <2> DEFINE removal(e) == IF record.kind = "srv" THEN [e EXCEPT !.port = 0] ELSE [e EXCEPT !.text = 0]
             revision(e) == IF record.kind = "srv" THEN Endpoint(e, record, known.search.addresses)
                            ELSE IF record.text = 0 THEN e
                            ELSE [e EXCEPT !.txtChanged = @ \/ e.text \notin {0, record.text},
                                           !.text = record.text]
             gone == [d \in Discovered |->
                         IF known.search.discovered[d].id # 0 /\ known.search.discovered[d].instance = record.name
                         THEN removal(known.search.discovered[d]) ELSE known.search.discovered[d]]
             there == [d \in Discovered |->
                         IF more.search.discovered[d].id # 0 /\ more.search.discovered[d].instance = record.name
                         THEN revision(more.search.discovered[d]) ELSE more.search.discovered[d]]
  <2>1. Outcome(search, ids, id, [known EXCEPT !.search.discovered = gone])
    <3>1. DOMAIN gone = Discovered
      OBVIOUS
    <3>2. \A d \in Discovered : Revision(known.search.discovered[d], gone[d])
      BY DEF Revision, Blank
    <3> HIDE DEF gone, known
    <3> QED BY <1>1, <3>1, <3>2, RevisedIs
  <2>2. Outcome(search, ids, id, [more EXCEPT !.search.discovered = there])
    <3>1. DOMAIN there = Discovered
      OBVIOUS
    <3>2. ASSUME NEW d \in Discovered PROVE Revision(more.search.discovered[d], there[d])
      <4> DEFINE e == more.search.discovered[d]
      <4>1. DOMAIN revision(e) = DOMAIN e /\ revision(e).id = e.id /\ revision(e).notified = e.notified
        BY DEF Blank, Endpoint
      <4>2. there[d] = e \/ (e.id # 0 /\ there[d] = revision(e))
        OBVIOUS
      <4> HIDE DEF e, there, revision
      <4> QED BY <4>1, <4>2 DEF Revision, e
    <3> HIDE DEF there, known
    <3> QED BY <1>2, <3>1, <3>2, RevisedIs
  <2>3. ApplyService(known, record, id) = IF record.gone THEN [known EXCEPT !.search.discovered = gone]
                                          ELSE [more EXCEPT !.search.discovered = there]
    BY DEF ApplyService, Revised, more
  <2> QED BY <2>1, <2>2, <2>3
<1>5. Outcome(search, ids, id, ApplyAddress(known, record))
  <2> DEFINE cached == {h \in Hosts : known.search.addresses[h] # 0}
             applied == [known EXCEPT !.search.addresses[record.name] = IF record.gone THEN 0 ELSE record.ipv4]
             changed(e) == ~record.gone /\ e.ipv4 \notin {0, record.ipv4}
             there(e) == e.port # 0 /\ e.host = record.name
             revision(e) == [e EXCEPT !.endpointChanged = @ \/ changed(e),
                                      !.ipv4 = IF record.gone THEN 0 ELSE record.ipv4]
             told == [d \in Discovered |->
                         IF applied.search.discovered[d].id # 0 /\ there(applied.search.discovered[d])
                         THEN revision(applied.search.discovered[d]) ELSE applied.search.discovered[d]]
  <2>1. Outcome(search, ids, id, applied)
    <3> DEFINE addresses == [search.addresses EXCEPT ![record.name] = IF record.gone THEN 0 ELSE record.ipv4]
               after == [search EXCEPT !.addresses = addresses]
    <3>1. applied = [search |-> after, live |-> ids]
      OBVIOUS
    <3> HIDE DEF addresses
    <3>2. Identical(search, after)
      BY DEF Identical, SearchInv, NoSearch
    <3> HIDE DEF after, applied
    <3> QED BY <3>1, <3>2 DEF Outcome
  <2>2. Outcome(search, ids, id, [applied EXCEPT !.search.discovered = told])
    <3>1. DOMAIN told = Discovered
      OBVIOUS
    <3> HIDE DEF applied
    <3>2. \A d \in Discovered : Revision(applied.search.discovered[d], told[d])
      BY DEF Revision, Blank
    <3> HIDE DEF told
    <3> QED BY <2>1, <3>1, <3>2, RevisedIs
  <2>3. \/ ApplyAddress(known, record) = known
        \/ ApplyAddress(known, record) = [applied EXCEPT !.search.discovered = told]
    BY DEF ApplyAddress, Revised
  <2> QED BY <1>1, <2>2, <2>3
<1> QED BY <1>3, <1>4, <1>5 DEF Applied

\* An expiry revises entries and forgets addresses.
LEMMA ExpiredIs ==
    ASSUME NEW search, SearchInv(search), NEW records, NEW hosts
    PROVE  Identical(search, Expired(search, records, hosts))
<1> DEFINE addresses == [h \in Hosts |-> IF h \in hosts THEN 0 ELSE search.addresses[h]]
           ptr(d) == search.discovered[d].ptr /\ "ptr" \notin records[d]
           port(d) == IF "srv" \in records[d] THEN 0 ELSE search.discovered[d].port
           text(d) == IF "txt" \in records[d] THEN 0 ELSE search.discovered[d].text
           expired(d) == [search.discovered[d] EXCEPT
                             !.ptr = ptr(d), !.port = port(d), !.text = text(d),
                             !.ipv4 = IF search.discovered[d].host \in hosts THEN 0 ELSE @,
                             !.remove = \/ @ \/ (search.discovered[d].ptr /\ ~ptr(d))
                                        \/ (~ptr(d) /\ port(d) = 0 /\ text(d) = 0)]
           discovered == [d \in Discovered |-> IF search.discovered[d].id = 0 THEN search.discovered[d]
                                               ELSE expired(d)]
           after == [search EXCEPT !.addresses = addresses, !.discovered = discovered]
<1>1. Expired(search, records, hosts) = after
  BY DEF Expired
<1>2. DOMAIN discovered = Discovered
  OBVIOUS
<1>3. \A d \in Discovered : Revision(search.discovered[d], discovered[d])
  BY DEF Revision, SearchInv, EntryInv, Blank
<1> HIDE DEF addresses, discovered
<1>4. SearchInv(after)
  BY <1>2, <1>3 DEF Revision, SearchInv, EntryInv, NoSearch
<1>5. Identical(search, after)
  BY <1>2, <1>3, <1>4 DEF Revision, Identical, SearchInv, NoSearch
<1> QED BY <1>1, <1>5
-----------------------------------------------------------------------------
\* With nothing kept, the entries do not use up the identities.
LEMMA IdLeft ==
    ASSUME NEW all, NEW ids, NEW told, Consistent(all, ids, {}, told)
    PROVE  Min(Ids \ ids) \in Ids \ ids
<1> DEFINE n == SearchCount * DiscoveredCount
           Entries == Searches \X Discovered
           idOf == [e \in Entries |-> IF all[e[1]].discovered[e[2]].id = 0 THEN 1
                                      ELSE all[e[1]].discovered[e[2]].id]
<1>1. n \in Nat
  OBVIOUS
<1>2. IsFiniteSet(Searches) /\ Cardinality(Searches) = SearchCount
  BY FS_Interval DEF Searches
<1>3. IsFiniteSet(Discovered) /\ Cardinality(Discovered) = DiscoveredCount
  BY FS_Interval DEF Discovered
<1>4. IsFiniteSet(Entries) /\ Cardinality(Entries) = n
  BY <1>2, <1>3, FS_Product
<1>5. Ids = 1..(n + 1)
  BY DEF Ids
<1> HIDE DEF n
<1>6. IsFiniteSet(Ids) /\ Cardinality(Ids) = n + 1
  BY <1>1, <1>5, FS_Interval
<1>7. Ids \ ids # {}
  <2> SUFFICES ASSUME Ids \subseteq ids PROVE FALSE
    OBVIOUS
  <2>1. idOf \in [Entries -> Ids]
    <3> SUFFICES ASSUME NEW s \in Searches, NEW d \in Discovered
                 PROVE  (IF all[s].discovered[d].id = 0 THEN 1 ELSE all[s].discovered[d].id) \in Ids
      OBVIOUS
    <3>1. 1 \in Ids
      BY <1>1, <1>5
    <3>2. all[s].discovered[d].id # 0 => all[s].discovered[d].id \in Ids
      BY DEF Consistent, Accounted
    <3> QED BY <3>1, <3>2
  <2>2. \A i \in Ids : \E e \in Entries : idOf[e] = i
    <3> SUFFICES ASSUME NEW i \in Ids PROVE \E e \in Entries : idOf[e] = i
      OBVIOUS
    <3>1. PICK s \in Searches, d \in Discovered : all[s].discovered[d].id = i
      BY DEF Consistent, Accounted
    <3>2. i # 0
      BY <1>1, <1>5
    <3>3. <<s, d>> \in Entries /\ idOf[<<s, d>>] = i
      BY <3>1, <3>2
    <3> QED BY <3>3
  <2> HIDE DEF idOf, Entries
  <2>3. idOf \in Surjection(Entries, Ids)
    BY <2>1, <2>2 DEF Surjection
  <2>4. Cardinality(Ids) <= Cardinality(Entries)
    BY <2>3, <1>4, FS_Surjection
  <2> QED BY <2>4, <1>1, <1>4, <1>6
<1>8. Ids \ ids \in SUBSET Nat
  BY <1>1, <1>5
<1> QED BY <1>7, <1>8, MinIsLeast

-----------------------------------------------------------------------------
\* The identity being lost, if one is.
Lost == IF work.phase = "lost" THEN {work.id} ELSE {}
Kept == retired \cup Lost

StartedInv == /\ started \in Nat
              /\ \A s \in Searches : /\ searches[s].gen \in 0..started
                                     /\ InUse(s) => searches[s].callbacks \in CallbackSets
                                     /\ ~InUse(s) => IdsOf(searches[s]) = {}

\* Between a callback and the code after it the pump stands at an entry of a search
\* it knows by its generation.
WorkInv == /\ DOMAIN work = DOMAIN Idle
           /\ work.stage \in {"idle", "receive", "packet", "expire"}
           /\ work.search \in Searches
           /\ work.entry \in 0..(DiscoveredCount + 1)
           /\ work.phase \in {"look", "lost", "told"}
           /\ work.calling \in BOOLEAN
           /\ work.phase # "look" => work.entry \in Discovered
           /\ work.entry # 0 => work.stage \in {"packet", "expire"} /\ work.gen \in 1..started

CallInv == /\ work.calling => work.phase # "look" /\ work.id \in live
           /\ retired # {} => work.calling
           /\ retired \cap Lost = {}
           /\ work.phase = "lost" /\ ~Restarted => ~Current.notified

IInv == Consistent(searches, live, Kept, heard) /\ StartedInv /\ WorkInv /\ CallInv

LEMMA ConsistentNext == Consistent(searches', live', Kept', heard') => Consistent(searches, live, Kept, heard)'
<1> SUFFICES ASSUME Consistent(searches', live', Kept', heard')
             PROVE  Consistent(searches, live, Kept, heard)'
  OBVIOUS
<1>1. SearchesInv(searches)'
  BY DEF Consistent
<1>2. Accounted(searches, live, Kept)'
  BY DEF Consistent, Accounted
<1>3. HeardRight(searches, live, heard)'
  BY DEF Consistent, HeardRight, HeardOf
<1> QED BY <1>1, <1>2, <1>3 DEF Consistent

Resting == work.phase = "look" /\ ~work.calling

LEMMA AtRest ==
    ASSUME IInv, Resting
    PROVE  /\ Consistent(searches, live, {}, heard)
           /\ retired = {}
<1>1. retired = {} /\ Kept = {}
  BY DEF IInv, CallInv, Kept, Lost, Resting
<1> QED BY <1>1 DEF IInv

LEMMA AtRestAgain ==
    ASSUME Consistent(searches', live', {}, heard'), StartedInv', WorkInv', Resting', retired' = {}
    PROVE  IInv'
<1>1. Kept' = {}
  BY DEF Kept, Lost, Resting
<1>2. CallInv'
  BY DEF CallInv, Resting
<1> QED BY <1>1, <1>2, ConsistentNext DEF IInv

LEMMA StartedKept ==
    ASSUME StartedInv, UNCHANGED <<searches, started>>
    PROVE  StartedInv'
  BY DEF StartedInv, InUse, IdsOf

\* The pump goes on.
LEMMA NextEntryIs ==
    ASSUME IInv, work.entry \in Discovered, ~work.calling, work' = NextEntry, started' = started
    PROVE  WorkInv' /\ Resting'
<1>1. work.entry + 1 \in 0..(DiscoveredCount + 1) /\ work.entry # 0
  BY DEF Discovered
<1> QED BY <1>1 DEF IInv, WorkInv, NextEntry, Resting, Idle

LEMMA OnwardIs ==
    ASSUME IInv, ~work.calling, work.stage \in {"packet", "expire"}, work' = Onward, started' = started
    PROVE  WorkInv' /\ Resting'
<1>1. work.search < SearchCount => work.search + 1 \in Searches
  BY DEF IInv, WorkInv, Searches
<1>2. 1 \in Searches
  BY DEF Searches
<1>3. 0 \notin Discovered /\ 0 \in 0..(DiscoveredCount + 1)
  BY DEF Discovered
<1> QED BY <1>1, <1>2, <1>3 DEF IInv, WorkInv, Onward, Resting, Idle

\* Steps that change nothing but where the pump is.
LEMMA GoingOnKeepsIt ==
    ASSUME IInv,
           \/ PumpBegin \/ Expire \/ Dispatch \/ NextSearch \/ Unchanged \/ LoseFails
           \/ \E packet \in Packets : Receive(packet)
    PROVE  IInv'
<1>1. UNCHANGED <<searches, started, live, retired, heard>>
  BY DEF PumpBegin, Expire, Dispatch, NextSearch, Unchanged, LoseFails, Receive
<1>2. Resting
  <2>1. work.entry = 0 => Resting
    BY DEF IInv, WorkInv, CallInv, Resting, Discovered
  <2>2. work.stage \in {"idle", "receive"} => work.entry = 0
    BY DEF IInv, WorkInv
  <2> QED BY <2>1, <2>2 DEF PumpBegin, Expire, Dispatch, Applying, NextSearch, Unchanged, LoseFails,
                           Receive, Looking, Working, Resting
<1>3. WorkInv' /\ Resting'
  <2>1. CASE PumpBegin \/ Expire \/ \E packet \in Packets : Receive(packet)
    <3>1. work.entry = 0
      BY <2>1 DEF PumpBegin, Expire, Receive, IInv, WorkInv
    <3>2. DOMAIN work = DOMAIN Idle /\ work.search \in Searches
      BY DEF IInv, WorkInv
    <3>3. \E stage \in {"receive", "expire", "packet"} :
             \/ work' = [work EXCEPT !.stage = stage]
             \/ \E packet : work' = [work EXCEPT !.stage = stage, !.packet = packet]
      <4>1. CASE PumpBegin
        BY <4>1 DEF PumpBegin
      <4>2. CASE Expire
        BY <4>2 DEF Expire
      <4>3. ASSUME NEW p \in Packets, Receive(p)
            PROVE  \E packet : work' = [work EXCEPT !.stage = "packet", !.packet = packet]
        BY <4>3 DEF Receive
      <4> QED BY <2>1, <4>1, <4>2, <4>3
    <3>4. /\ DOMAIN work' = DOMAIN Idle /\ work'.stage \in {"receive", "expire", "packet"}
          /\ work'.search = work.search /\ work'.entry = 0
          /\ work'.phase = "look" /\ work'.calling = FALSE
      BY <1>2, <3>1, <3>2, <3>3 DEF Idle, Resting, IInv, WorkInv
    <3>5. 0 \in 0..(DiscoveredCount + 1)
      OBVIOUS
    <3> QED BY <3>2, <3>4, <3>5 DEF WorkInv, Resting
  <2>2. CASE Dispatch
    <3>1. searches[work.search].gen \in 1..started
      BY <2>2 DEF Dispatch, Applying, InUse, IInv, WorkInv, StartedInv
    <3>2. 1 \in 0..(DiscoveredCount + 1)
      OBVIOUS
    <3> QED BY <2>2, <3>1, <3>2, <1>1, <1>2
            DEF Dispatch, Begin, Applying, Working, IInv, WorkInv, Resting, Idle
  <2>3. CASE NextSearch
    BY <2>3, OnwardIs DEF NextSearch, Working
  <2>4. CASE Unchanged \/ LoseFails
    BY <2>4, NextEntryIs DEF Unchanged, LoseFails, Looking, Working
  <2> QED BY <2>1, <2>2, <2>3, <2>4
<1>4. Consistent(searches', live', {}, heard') /\ retired' = {}
  BY <1>1, <1>2, AtRest
<1>5. StartedInv'
  BY <1>1, StartedKept DEF IInv
<1> QED BY <1>3, <1>4, <1>5, AtRestAgain

\* What the game heard is forgotten of what is freed.
LEMMA FreedIs ==
    ASSUME NEW ids, Freed(ids)
    PROVE  live' = live \ ids /\ heard' = FreedFrom(heard, ids)
  BY DEF Freed, Past, FreedFrom

-----------------------------------------------------------------------------
(* What the game calls. *)

LEMMA NoSearchIs == SearchInv(NoSearch) /\ IdsOf(NoSearch) = {}
<1>1. EntryInv(Blank)
  BY DEF EntryInv, Blank
<1>2. Blank.id = 0
  BY DEF Blank
<1> HIDE DEF Blank
<1> QED BY <1>1, <1>2 DEF SearchInv, NoSearch, IdsOf

LEMMA StartKeepsIt ==
    ASSUME IInv, NEW callbacks \in CallbackSets, StartSearch(callbacks)
    PROVE  IInv'
<1> DEFINE fresh == [NoSearch EXCEPT !.gen = started + 1, !.callbacks = callbacks]
<1>1. PICK s \in Searches : ~InUse(s) /\ searches' = [searches EXCEPT ![s] = fresh]
  <2> DEFINE unused == {t \in Searches : ~InUse(t)}
  <2>1. unused \in SUBSET Nat /\ unused # {}
    BY DEF StartSearch, Searches
  <2>2. searches' = [searches EXCEPT ![Min(unused)] = fresh]
    BY DEF StartSearch
  <2> HIDE DEF unused, fresh
  <2>3. Min(unused) \in unused
    BY <2>1, MinIsLeast
  <2> QED BY <2>2, <2>3 DEF unused
<1>2. started' = started + 1 /\ UNCHANGED <<work, live, retired, heard>>
  BY DEF StartSearch
<1>3. /\ SearchInv(fresh) /\ fresh.gen = started + 1 /\ fresh.callbacks = callbacks
      /\ \A d \in Discovered : fresh.discovered[d].id = 0
  <2>1. \A d \in Discovered : NoSearch.discovered[d].id = 0
    BY DEF NoSearch, Blank
  <2>2. /\ DOMAIN fresh = DOMAIN NoSearch /\ fresh.discovered = NoSearch.discovered
        /\ fresh.gen = started + 1 /\ fresh.callbacks = callbacks
    BY DEF NoSearch
  <2> QED BY <2>1, <2>2, NoSearchIs DEF SearchInv
<1> HIDE DEF fresh
<1>4. \A d \in Discovered : searches[s].discovered[d].id = 0
  BY <1>1 DEF IInv, StartedInv, IdsOf
<1>5. /\ DOMAIN searches' = Searches /\ searches'[s] = fresh
      /\ \A t \in Searches \ {s} : searches'[t] = searches[t]
  BY <1>1 DEF IInv, Consistent, SearchesInv
<1>6. Consistent(searches', live, Kept, heard)
  <2>1. SearchesInv(searches') /\ SameIds(searches, searches')
    BY <1>1, <1>3, <1>4, <1>5 DEF IInv, Consistent, SearchesInv, SameIds
  <2>2. HeardRight(searches', live, heard)
    BY <1>1, <1>3, <1>5 DEF IInv, Consistent, HeardRight
  <2> QED BY <2>1, <2>2, Retold DEF IInv
<1>7. Kept' = Kept /\ Lost' = Lost
  BY <1>2 DEF Kept, Lost
<1>8. StartedInv'
  <2>1. started + 1 \in Nat /\ started + 1 # 0 /\ 0..started \subseteq 0..(started + 1)
    BY DEF IInv, StartedInv
  <2>2. ASSUME NEW t \in Searches \ {s}
        PROVE  /\ searches'[t].gen \in 0..(started + 1)
               /\ InUse(t)' => searches'[t].callbacks \in CallbackSets
               /\ ~InUse(t)' => IdsOf(searches'[t]) = {}
    BY <1>5, <2>1 DEF IInv, StartedInv, InUse
  <2>3. searches'[s].gen = started + 1 /\ searches'[s].callbacks \in CallbackSets /\ InUse(s)'
    BY <1>3, <1>5, <2>1 DEF InUse
  <2>4. started + 1 \in 0..(started + 1)
    BY <2>1
  <2> QED BY <1>2, <2>1, <2>2, <2>3, <2>4 DEF StartedInv
<1>9. WorkInv'
  <2>1. 1..started \subseteq 1..started'
    BY <1>2 DEF IInv, StartedInv
  <2> QED BY <1>2, <2>1 DEF IInv, WorkInv
<1>10. CallInv'
  <2>1. ASSUME work.phase = "lost", ~Restarted' PROVE ~Current'.notified
    <3>1. work.gen \in 1..started
      BY <2>1 DEF IInv, WorkInv, Discovered
    <3>2. work.search # s
      BY <2>1, <3>1, <1>2, <1>3, <1>5 DEF Restarted, IInv, StartedInv
    <3> QED BY <2>1, <3>2, <1>2, <1>5 DEF IInv, WorkInv, CallInv, Restarted, Current
  <2> QED BY <2>1, <1>2, <1>7 DEF IInv, CallInv
<1>11. Consistent(searches', live', Kept', heard')
  BY <1>2, <1>6, <1>7
<1> QED BY <1>8, <1>9, <1>10, <1>11, ConsistentNext DEF IInv

LEMMA StopKeepsIt ==
    ASSUME IInv, NEW s \in Searches, StopSearch(s)
    PROVE  IInv'
<1> DEFINE dropped == IdsOf(searches[s])
<1>1. searches' = [searches EXCEPT ![s] = NoSearch] /\ UNCHANGED <<work, started>>
  BY DEF StopSearch
<1>2. /\ DOMAIN searches' = Searches /\ searches'[s] = NoSearch
      /\ \A t \in Searches \ {s} : searches'[t] = searches[t]
  BY <1>1 DEF IInv, Consistent, SearchesInv
<1>3. SearchesInv(searches')
  BY <1>2, NoSearchIs DEF IInv, Consistent, SearchesInv
<1>4. Consistent(searches', live, Kept \cup dropped, heard)
  <2>1. 0 \notin dropped
    BY DEF IdsOf
  <2>2. \A i \in dropped : \E t \in Searches, d \in Discovered : searches[t].discovered[d].id = i
    BY DEF IdsOf
  <2>3. ASSUME NEW t \in Searches, NEW d \in Discovered
        PROVE  IF searches[t].discovered[d].id \in dropped THEN searches'[t].discovered[d].id = 0
               ELSE /\ searches'[t].discovered[d].id = searches[t].discovered[d].id
                    /\ searches'[t].discovered[d].notified = searches[t].discovered[d].notified
    <3>1. CASE t = s
      <4>1. searches'[t].discovered[d] = Blank /\ Blank.id = 0 /\ Blank.notified = FALSE
        BY <3>1, <1>2 DEF NoSearch, Blank
      <4>2. \/ searches[t].discovered[d].id \in dropped
            \/ searches[t].discovered[d].id = 0 /\ searches[t].discovered[d].notified = FALSE
        BY <3>1 DEF IdsOf, IInv, Consistent, SearchesInv, SearchInv, EntryInv
      <4> QED BY <4>1, <4>2
    <3>2. CASE t # s
      <4>1. searches[t].discovered[d].id \notin dropped
        <5>1. Accounted(searches, live, Kept)
          BY DEF IInv, Consistent
        <5>2. ASSUME NEW e \in Discovered, searches[s].discovered[e].id # 0
              PROVE  searches[t].discovered[d].id # searches[s].discovered[e].id
          BY <3>2, <5>1, <5>2 DEF Accounted
        <5> QED BY <5>2 DEF IdsOf
      <4> QED BY <3>2, <4>1, <1>2
    <3> QED BY <3>1, <3>2
  <2> HIDE DEF dropped
  <2> QED BY <2>1, <2>2, <2>3, <1>3, Cleared DEF IInv
<1>5. StartedInv'
  <2>1. NoSearch.gen = 0
    BY DEF NoSearch
  <2> QED BY <1>1, <1>2, <2>1, NoSearchIs DEF IInv, StartedInv, InUse
<1>6. WorkInv'
  BY <1>1 DEF IInv, WorkInv
<1> HIDE DEF dropped
<1>7. CASE work.calling
  <2>1. retired' = retired \cup dropped /\ UNCHANGED <<live, heard>>
    BY <1>7 DEF StopSearch, Retire, dropped
  <2>2. Kept' = Kept \cup dropped /\ Lost' = Lost
    BY <2>1, <1>1 DEF Kept, Lost
  <2>3. Consistent(searches', live', Kept', heard')
    BY <1>4, <2>1, <2>2
  <2>4. dropped \cap Lost = {}
    BY DEF dropped, IdsOf, Kept, IInv, Consistent, Accounted
  <2>5. ASSUME work.phase = "lost", ~Restarted' PROVE ~Current'.notified
    <3>1. work.gen \in 1..started
      BY <2>5 DEF IInv, WorkInv, Discovered
    <3>2. work.search # s
      BY <2>5, <3>1, <1>1, <1>2 DEF Restarted, NoSearch, IInv, StartedInv
    <3> QED BY <2>5, <3>2, <1>1, <1>2 DEF IInv, WorkInv, CallInv, Restarted, Current
  <2>6. CallInv'
    BY <1>7, <1>1, <2>1, <2>2, <2>4, <2>5 DEF IInv, CallInv
  <2> QED BY <2>3, <2>6, <1>5, <1>6, ConsistentNext DEF IInv
<1>8. CASE ~work.calling
  <2>1. Resting
    BY <1>8 DEF StopSearch, InGuest, IInv, WorkInv, Discovered, Resting
  <2>2. Freed(dropped) /\ retired' = retired
    BY <1>8 DEF StopSearch, Retire, dropped
  <2>3. live' = live \ dropped /\ heard' = FreedFrom(heard, dropped)
    BY <2>2, FreedIs
  <2>4. Kept = {} /\ retired = {}
    BY <2>1 DEF IInv, CallInv, Resting, Kept, Lost
  <2>5. Consistent(searches', live \ dropped, (Kept \cup dropped) \ dropped, FreedFrom(heard, dropped))
    BY <1>4, FreeKept
  <2>6. (Kept \cup dropped) \ dropped = {}
    BY <2>4
  <2>7. Consistent(searches', live', {}, heard')
    BY <2>3, <2>5, <2>6
  <2>8. Resting'
    BY <2>1, <1>1 DEF Resting
  <2> QED BY <2>2, <2>4, <2>7, <2>8, <1>5, <1>6, AtRestAgain
<1> QED BY <1>7, <1>8

LEMMA ShutdownKeepsIt ==
    ASSUME IInv, Shutdown
    PROVE  IInv'
<1> DEFINE dropped == UNION {IdsOf(searches[s]) : s \in Searches}
<1>1. searches' = [s \in Searches |-> NoSearch] /\ UNCHANGED <<work, started>>
  BY DEF Shutdown
<1>2. Resting
  BY DEF Shutdown, IInv, WorkInv, CallInv, Discovered, Resting
<1>3. SearchesInv(searches')
  BY <1>1, NoSearchIs DEF SearchesInv
<1>4. Kept = {} /\ retired = {}
  BY <1>2 DEF IInv, CallInv, Resting, Kept, Lost
<1>5. Consistent(searches', live, Kept \cup dropped, heard)
  <2>1. 0 \notin dropped
    BY DEF IdsOf
  <2>2. \A i \in dropped : \E t \in Searches, d \in Discovered : searches[t].discovered[d].id = i
    BY DEF IdsOf
  <2>3. ASSUME NEW t \in Searches, NEW d \in Discovered
        PROVE  IF searches[t].discovered[d].id \in dropped THEN searches'[t].discovered[d].id = 0
               ELSE /\ searches'[t].discovered[d].id = searches[t].discovered[d].id
                    /\ searches'[t].discovered[d].notified = searches[t].discovered[d].notified
    <3>1. searches'[t].discovered[d] = Blank /\ Blank.id = 0 /\ Blank.notified = FALSE
      BY <1>1 DEF NoSearch, Blank
    <3>2. \/ searches[t].discovered[d].id \in dropped
          \/ searches[t].discovered[d].id = 0 /\ searches[t].discovered[d].notified = FALSE
      <4>1. EntryInv(searches[t].discovered[d])
        BY DEF IInv, Consistent, SearchesInv, SearchInv
      <4> QED BY <4>1 DEF IdsOf, EntryInv
    <3> QED BY <3>1, <3>2
  <2> HIDE DEF dropped
  <2> QED BY <2>1, <2>2, <2>3, <1>3, Cleared DEF IInv
<1>6. StartedInv'
  <2>1. NoSearch.gen = 0
    BY DEF NoSearch
  <2> QED BY <1>1, <2>1, NoSearchIs DEF IInv, StartedInv, InUse
<1>7. WorkInv' /\ Resting'
  BY <1>1, <1>2 DEF IInv, WorkInv, Resting
<1>8. Freed(dropped) /\ retired' = retired
  BY <1>2 DEF Shutdown, Retire, Resting
<1> HIDE DEF dropped
<1>9. live' = live \ dropped /\ heard' = FreedFrom(heard, dropped)
  BY <1>8, FreedIs
<1>10. Consistent(searches', live \ dropped, (Kept \cup dropped) \ dropped, FreedFrom(heard, dropped))
  BY <1>5, FreeKept
<1>11. (Kept \cup dropped) \ dropped = {}
  BY <1>4
<1>12. Consistent(searches', live', {}, heard')
  BY <1>9, <1>10, <1>11
<1> QED BY <1>4, <1>6, <1>7, <1>8, <1>12, AtRestAgain

-----------------------------------------------------------------------------
(* What the pump does. *)

\* A search in use changes but for its generation and its callbacks.
LEMMA SearchChanged ==
    ASSUME IInv, NEW s \in Searches, NEW search, SearchInv(search),
           search.gen = searches[s].gen, search.callbacks = searches[s].callbacks,
           InUse(s) \/ IdsOf(search) = {},
           searches' = [searches EXCEPT ![s] = search], started' = started
    PROVE  /\ SearchesInv(searches') /\ StartedInv'
           /\ searches'[s] = search
           /\ \A t \in Searches \ {s} : searches'[t] = searches[t]
<1>1. /\ DOMAIN searches' = Searches /\ searches'[s] = search
      /\ \A t \in Searches \ {s} : searches'[t] = searches[t]
  BY DEF IInv, Consistent, SearchesInv
<1>2. SearchesInv(searches')
  BY <1>1 DEF IInv, Consistent, SearchesInv
<1>3. StartedInv'
  <2>1. ASSUME NEW t \in Searches
        PROVE  /\ searches'[t].gen \in 0..started
               /\ searches'[t].gen # 0 => searches'[t].callbacks \in CallbackSets
               /\ searches'[t].gen = 0 => IdsOf(searches'[t]) = {}
    BY <1>1 DEF IInv, StartedInv, InUse
  <2> QED BY <2>1 DEF IInv, StartedInv, InUse
<1> QED BY <1>1, <1>2, <1>3

LEMMA EntrySet ==
    ASSUME IInv, work.entry \in Discovered, NEW e, EntryInv(e), e.id # 0 => Current.id # 0,
           SetCurrent(e), started' = started
    PROVE  /\ SearchesInv(searches') /\ StartedInv'
           /\ \A s \in Searches, d \in Discovered :
                 searches'[s].discovered[d] = IF s = work.search /\ d = work.entry THEN e
                                              ELSE searches[s].discovered[d]
           /\ \A s \in Searches : /\ searches'[s].gen = searches[s].gen
                                  /\ searches'[s].callbacks = searches[s].callbacks
                                  /\ searches'[s].addresses = searches[s].addresses
<1> DEFINE s == work.search
           search == [searches[s] EXCEPT !.discovered = [@ EXCEPT ![work.entry] = e]]
<1>1. s \in Searches /\ SearchInv(searches[s])
  BY DEF IInv, WorkInv, Consistent, SearchesInv
<1>2. searches' = [searches EXCEPT ![s] = search]
  BY DEF SetCurrent
<1>3. /\ SearchInv(search) /\ search.gen = searches[s].gen /\ search.callbacks = searches[s].callbacks
      /\ search.addresses = searches[s].addresses
      /\ \A d \in Discovered : search.discovered[d] = IF d = work.entry THEN e ELSE searches[s].discovered[d]
  BY <1>1 DEF SearchInv, NoSearch
<1> HIDE DEF search, s
<1>4. InUse(s) \/ IdsOf(search) = {}
  <2>1. Current.id # 0 => InUse(s)
    BY <1>1 DEF IInv, StartedInv, IdsOf, Current, s
  <2>2. ASSUME ~InUse(s) PROVE \A d \in Discovered : search.discovered[d].id = 0
    <3>1. e.id = 0
      BY <2>1, <2>2
    <3>2. IdsOf(searches[s]) = {}
      BY <2>2, <1>1 DEF IInv, StartedInv
    <3>3. \A d \in Discovered : searches[s].discovered[d].id = 0
      BY <3>2 DEF IdsOf
    <3> QED BY <1>3, <3>1, <3>3
  <2> QED BY <2>2 DEF IdsOf
<1>5. /\ SearchesInv(searches') /\ StartedInv'
      /\ searches'[s] = search
      /\ \A t \in Searches \ {s} : searches'[t] = searches[t]
  BY <1>1, <1>2, <1>3, <1>4, SearchChanged
<1> QED BY <1>1, <1>3, <1>5 DEF s

LEMMA NewIdsAre ==
    ASSUME IInv, Resting
    PROVE  NewIds \subseteq {0} \cup (Ids \ live)
<1>1. Min(Ids \ live) \in Ids \ live
  BY AtRest, IdLeft
<1> QED BY <1>1 DEF NewIds

LEMMA ApplyKeepsIt ==
    ASSUME IInv, Apply
    PROVE  IInv'
<1> DEFINE s == work.search
           before == searches[s]
<1>1. /\ s \in Searches /\ InUse(s) /\ Resting
      /\ work' = [work EXCEPT !.record = @ + 1] /\ UNCHANGED <<started, retired, heard>>
  BY DEF Apply, Applying, Working, Resting, IInv, WorkInv, Discovered
<1>2. Consistent(searches, live, {}, heard) /\ retired = {}
  BY <1>1, AtRest
<1>3. SearchInv(before)
  BY <1>1 DEF IInv, Consistent, SearchesInv
<1> DEFINE known(id) == Applied([search |-> before, live |-> live], work.packet[work.record], id)
<1>4. PICK id \in NewIds : /\ searches' = [searches EXCEPT ![s] = known(id).search]
                           /\ live' = known(id).live
  BY DEF Apply
<1>5. id \in Ids \cup {0} /\ (id # 0 => id \in Ids \ live)
  BY <1>1, NewIdsAre
<1>6. Outcome(before, live, id, known(id))
  BY <1>3, <1>5, AppliedIs
<1> DEFINE after == known(id).search
<1>7. SearchInv(after) /\ after.gen = before.gen /\ after.callbacks = before.callbacks
  BY <1>6 DEF Outcome, Identical, Joined
<1> HIDE DEF known
<1>8. /\ SearchesInv(searches') /\ StartedInv'
      /\ searches'[s] = after
      /\ \A t \in Searches \ {s} : searches'[t] = searches[t]
  BY <1>1, <1>4, <1>7, SearchChanged
<1>9. WorkInv' /\ Resting'
  BY <1>1 DEF IInv, WorkInv, Resting, Idle
<1> HIDE DEF after, s
<1>10. Consistent(searches', live', {}, heard)
  <2>1. CASE Identical(before, after) /\ live' = live
    <3>1. SameIds(searches, searches')
      BY <2>1, <1>8 DEF SameIds, Identical
    <3>2. HeardRight(searches', live, heard)
      <4>1. ASSUME NEW t \in Searches, NEW d \in Discovered
            PROVE  /\ searches'[t].discovered[d].id = searches[t].discovered[d].id
                   /\ searches'[t].discovered[d].notified = searches[t].discovered[d].notified
        BY <2>1, <1>8 DEF Identical
      <4> QED BY <4>1, <1>2 DEF Consistent, HeardRight, HeardOf
    <3> QED BY <2>1, <3>1, <3>2, <1>2, <1>8, Retold
  <2>2. CASE id # 0 /\ live' = live \cup {id} /\ \E d \in Discovered : Joined(before, after, d, id)
    <3>1. PICK d \in Discovered : Joined(before, after, d, id)
      BY <2>2
    <3>2. /\ searches'[s].discovered[d].id = id /\ ~searches'[s].discovered[d].notified
          /\ searches[s].discovered[d].id = 0
          /\ \A t \in Searches, e \in Discovered :
                \/ t = s /\ e = d
                \/ /\ searches'[t].discovered[e].id = searches[t].discovered[e].id
                   /\ searches'[t].discovered[e].notified = searches[t].discovered[e].notified
      BY <3>1, <1>8 DEF Joined
    <3>3. Consistent(searches', live \cup {id}, {} \cup ({searches[s].discovered[d].id} \ {0}), heard)
      BY <3>2, <2>2, <1>1, <1>2, <1>5, <1>8, Renewed
    <3>4. {} \cup ({searches[s].discovered[d].id} \ {0}) = {}
      BY <3>2
    <3> QED BY <2>2, <3>3, <3>4
  <2> QED BY <1>4, <1>6, <2>1, <2>2 DEF Outcome, after
<1>11. Consistent(searches', live', {}, heard')
  BY <1>1, <1>10
<1> QED BY <1>1, <1>2, <1>8, <1>9, <1>11, AtRestAgain

\* The entry says something else of itself, but its identity and whether the game
\* was told of it.
LEMMA EntryRevised ==
    ASSUME IInv, work.entry \in Discovered, NEW e, EntryInv(e), e.id = Current.id,
           e.notified = Current.notified, SetCurrent(e), started' = started
    PROVE  Consistent(searches', live, Kept, heard) /\ StartedInv'
<1>1. /\ SearchesInv(searches') /\ StartedInv'
      /\ \A s \in Searches, d \in Discovered :
            searches'[s].discovered[d] = IF s = work.search /\ d = work.entry THEN e
                                         ELSE searches[s].discovered[d]
  BY EntrySet
<1>2. SameIds(searches, searches')
  BY <1>1 DEF SameIds, Current
<1>3. HeardRight(searches', live, heard)
  <2>1. ASSUME NEW s \in Searches, NEW d \in Discovered, searches'[s].discovered[d].id # 0
        PROVE  HeardOf(heard, searches'[s].discovered[d])
    <3>1. searches[s].discovered[d].id = searches'[s].discovered[d].id
      BY <1>2 DEF SameIds
    <3>2. searches[s].discovered[d].notified = searches'[s].discovered[d].notified
      BY <1>1 DEF Current
    <3>3. HeardOf(heard, searches[s].discovered[d])
      BY <2>1, <3>1 DEF IInv, Consistent, HeardRight
    <3> QED BY <3>1, <3>2, <3>3 DEF HeardOf
  <2> QED BY <2>1 DEF IInv, Consistent, HeardRight
<1> QED BY <1>1, <1>2, <1>3, Retold DEF IInv

\* The entry is cleared.
LEMMA EntryCleared ==
    ASSUME IInv, work.entry \in Discovered, Current.id # 0, SetCurrent(Blank), started' = started
    PROVE  Consistent(searches', live, Kept \cup {Current.id}, heard) /\ StartedInv'
<1>0. EntryInv(Blank) /\ Blank.id = 0
  BY DEF EntryInv, Blank
<1>1. /\ SearchesInv(searches') /\ StartedInv'
      /\ \A s \in Searches, d \in Discovered :
            searches'[s].discovered[d] = IF s = work.search /\ d = work.entry THEN Blank
                                         ELSE searches[s].discovered[d]
  BY <1>0, EntrySet
<1>2. work.search \in Searches
  BY DEF IInv, WorkInv
<1>3. \A s \in Searches, d \in Discovered :
         IF searches[s].discovered[d].id \in {Current.id} THEN searches'[s].discovered[d].id = 0
         ELSE /\ searches'[s].discovered[d].id = searches[s].discovered[d].id
              /\ searches'[s].discovered[d].notified = searches[s].discovered[d].notified
  <2> TAKE s \in Searches, d \in Discovered
  <2>1. CASE s = work.search /\ d = work.entry
    BY <2>1, <1>0, <1>1 DEF Current
  <2>2. CASE ~(s = work.search /\ d = work.entry)
    <3>1. searches[s].discovered[d].id # Current.id
      BY <2>2, <1>2 DEF Current, IInv, Consistent, Accounted
    <3> QED BY <2>2, <3>1, <1>1
  <2> QED BY <2>1, <2>2
<1>4. \A i \in {Current.id} : \E s \in Searches, d \in Discovered : searches[s].discovered[d].id = i
  BY <1>2 DEF Current
<1>5. Consistent(searches', live, Kept \cup {Current.id}, heard)
  <2> DEFINE dropped == {Current.id}
  <2>1. 0 \notin dropped
    OBVIOUS
  <2>2. /\ \A s \in Searches, d \in Discovered :
              IF searches[s].discovered[d].id \in dropped THEN searches'[s].discovered[d].id = 0
              ELSE /\ searches'[s].discovered[d].id = searches[s].discovered[d].id
                   /\ searches'[s].discovered[d].notified = searches[s].discovered[d].notified
        /\ \A i \in dropped : \E s \in Searches, d \in Discovered : searches[s].discovered[d].id = i
    BY <1>3, <1>4
  <2> HIDE DEF dropped
  <2>3. Consistent(searches', live, Kept \cup dropped, heard)
    BY <1>1, <2>1, <2>2, Cleared DEF IInv
  <2> QED BY <2>3 DEF dropped
<1> QED BY <1>1, <1>5

LEMMA CurrentIs ==
    ASSUME IInv, work.entry \in Discovered
    PROVE  /\ EntryInv(Current) /\ EntryInv(Settled(Current))
           /\ Settled(Current).id = Current.id /\ Settled(Current).notified = Current.notified
           /\ Current.id = 0 => ~Current.notified /\ ~Current.remove /\ ~Complete(Current)
           /\ Current.id # 0 => Current.id \in live \ Kept
<1>1. EntryInv(Current)
  BY DEF Current, IInv, WorkInv, Consistent, SearchesInv, SearchInv
<1>2. DOMAIN Current = DOMAIN Blank
  BY <1>1 DEF EntryInv
<1>3. /\ DOMAIN Settled(Current) = DOMAIN Current
      /\ Settled(Current).id = Current.id /\ Settled(Current).notified = Current.notified
      /\ Settled(Current).remove = Current.remove /\ Settled(Current).port = Current.port
  BY <1>2 DEF Settled, Blank
<1>4. EntryInv(Settled(Current))
  BY <1>1, <1>3 DEF EntryInv
<1>5. Current.id = 0 => ~Current.notified /\ ~Current.remove /\ ~Complete(Current)
  BY <1>1 DEF EntryInv, Complete
<1>6. Current.id # 0 => Current.id \in live \ Kept
  BY DEF Current, IInv, WorkInv, Consistent, Accounted
<1> QED BY <1>1, <1>3, <1>4, <1>5, <1>6 DEF EntryInv

LEMMA RevisingKeepsIt ==
    ASSUME IInv, ApplyExpiry \/ Quiet
    PROVE  IInv'
<1>1. Resting /\ UNCHANGED <<started, live, retired, heard>>
  BY DEF ApplyExpiry, Quiet, Looking, Working, Resting, IInv, WorkInv, Discovered
<1>2. Consistent(searches, live, {}, heard) /\ retired = {} /\ Kept = {}
  BY <1>1, AtRest DEF Kept, Lost, Resting
<1>3. Consistent(searches', live, {}, heard) /\ StartedInv' /\ WorkInv' /\ Resting'
  <2>1. CASE ApplyExpiry
    <3> DEFINE s == work.search
    <3>1. s \in Searches /\ InUse(s) /\ SearchInv(searches[s])
      BY <2>1 DEF ApplyExpiry, IInv, WorkInv, Consistent, SearchesInv
    <3>2. PICK records, hosts : searches' = [searches EXCEPT ![s] = Expired(searches[s], records, hosts)]
      BY <2>1 DEF ApplyExpiry
    <3> DEFINE after == Expired(searches[s], records, hosts)
    <3>3. Identical(searches[s], after)
      BY <3>1, ExpiredIs
    <3> HIDE DEF after
    <3>4. /\ SearchesInv(searches') /\ StartedInv'
          /\ searches'[s] = after
          /\ \A t \in Searches \ {s} : searches'[t] = searches[t]
      <4>1. searches' = [searches EXCEPT ![s] = after]
        BY <3>2 DEF after
      <4> HIDE DEF s
      <4> QED BY <4>1, <3>1, <3>3, <1>1, SearchChanged DEF Identical
    <3>5. SameIds(searches, searches') /\ HeardRight(searches', live, heard)
      <4>1. ASSUME NEW t \in Searches, NEW d \in Discovered
            PROVE  /\ searches'[t].discovered[d].id = searches[t].discovered[d].id
                   /\ searches'[t].discovered[d].notified = searches[t].discovered[d].notified
        BY <3>3, <3>4 DEF Identical
      <4>2. SameIds(searches, searches')
        BY <4>1 DEF SameIds
      <4>3. HeardRight(searches', live, heard)
        BY <4>1, <1>2 DEF Consistent, HeardRight, HeardOf
      <4> QED BY <4>2, <4>3
    <3>6. WorkInv' /\ Resting'
      <4>1. searches[s].gen \in 1..started /\ 1 \in 0..(DiscoveredCount + 1)
        BY <3>1 DEF InUse, IInv, StartedInv
      <4> QED BY <2>1, <4>1, <1>1 DEF ApplyExpiry, Begin, Working, IInv, WorkInv, Resting, Idle
    <3> QED BY <3>4, <3>5, <3>6, <1>2, Retold
  <2>2. CASE Quiet
    <3>1. work.entry \in Discovered /\ work' = NextEntry /\ SetCurrent(Settled(Current)) /\ ~work.calling
      BY <2>2 DEF Quiet, Looking, Working
    <3>2. Consistent(searches', live, Kept, heard) /\ StartedInv'
      BY <3>1, <1>1, CurrentIs, EntryRevised
    <3>3. WorkInv' /\ Resting'
      BY <3>1, <1>1, NextEntryIs
    <3> QED BY <3>2, <3>3, <1>2
  <2> QED BY <2>1, <2>2
<1>4. Consistent(searches', live', {}, heard')
  BY <1>1, <1>3
<1> QED BY <1>1, <1>2, <1>3, <1>4, AtRestAgain

LEMMA AfterToldKeepsIt ==
    ASSUME IInv, AfterTold
    PROVE  IInv'
<1>1. /\ ~work.calling /\ work.phase = "told" /\ work.entry \in Discovered
      /\ work.stage \in {"packet", "expire"} /\ UNCHANGED <<started, live, retired, heard>>
  BY DEF AfterTold, Working, IInv, WorkInv
<1>2. retired = {} /\ Kept = {}
  BY <1>1 DEF Kept, Lost, IInv, CallInv
<1>3. Consistent(searches', live, Kept, heard) /\ StartedInv' /\ WorkInv' /\ Resting'
  <2>1. CASE work' = Onward /\ UNCHANGED searches
    <3>1. StartedInv'
      BY <2>1, <1>1, StartedKept DEF IInv
    <3>2. WorkInv' /\ Resting'
      BY <2>1, <1>1, OnwardIs
    <3> QED BY <2>1, <3>1, <3>2 DEF IInv
  <2>2. CASE SetCurrent(Settled(Current)) /\ work' = NextEntry
    BY <2>2, <1>1, CurrentIs, EntryRevised, NextEntryIs
  <2> QED BY <2>1, <2>2 DEF AfterTold
<1>4. Consistent(searches', live', {}, heard')
  BY <1>1, <1>2, <1>3
<1> QED BY <1>1, <1>2, <1>3, <1>4, AtRestAgain

\* Nothing is kept while the pump looks, so what is cleared is freed at once.
LEMMA RemoveKeepsIt ==
    ASSUME IInv, RemoveUntold
    PROVE  IInv'
<1>1. /\ work.entry \in Discovered /\ work' = NextEntry /\ SetCurrent(Blank) /\ Resting
      /\ Current.id # 0 /\ Freed({Current.id}) /\ UNCHANGED <<started, retired>>
  BY CurrentIs DEF RemoveUntold, Looking, Working, Resting
<1>2. retired = {} /\ Kept = {}
  BY <1>1, AtRest DEF Kept, Lost, Resting
<1>3. WorkInv' /\ Resting'
  BY <1>1, NextEntryIs DEF Resting
<1> DEFINE dropped == {Current.id}
<1>4. Consistent(searches', live, Kept \cup dropped, heard) /\ StartedInv'
  BY <1>1, EntryCleared
<1> HIDE DEF dropped
<1>5. live' = live \ dropped /\ heard' = FreedFrom(heard, dropped)
  BY <1>1, FreedIs DEF dropped
<1>6. Consistent(searches', live \ dropped, (Kept \cup dropped) \ dropped, FreedFrom(heard, dropped))
  BY <1>4, FreeKept
<1>7. (Kept \cup dropped) \ dropped = {}
  BY <1>2
<1>8. Consistent(searches', live', {}, heard')
  BY <1>5, <1>6, <1>7
<1> QED BY <1>1, <1>2, <1>3, <1>4, <1>8, AtRestAgain

LEMMA LoseKeepsIt ==
    ASSUME IInv, Lose
    PROVE  IInv'
<1>1. /\ work.entry \in Discovered /\ Resting /\ Current.notified /\ work.search \in Searches
      /\ UNCHANGED <<started, retired>>
  BY DEF Lose, Looking, Working, Resting, MustLose, IInv, WorkInv
<1>2. Consistent(searches, live, {}, heard) /\ retired = {} /\ Kept = {}
  BY <1>1, AtRest DEF Kept, Lost, Resting
<1>3. PICK next \in NewIds \ {0} :
         /\ live' = live \cup {next}
         /\ SetCurrent([Current EXCEPT !.id = next, !.notified = FALSE])
         /\ Call(heard, "lost", Current.id, "lost")
  BY DEF Lose
<1>4. next \in Ids \ live /\ next # 0
  BY <1>1, <1>3, NewIdsAre
<1> DEFINE old == Current.id
           e == [Current EXCEPT !.id = next, !.notified = FALSE]
<1>5. EntryInv(Current) /\ old # 0 /\ old \in live
  BY <1>1, CurrentIs
<1>6. EntryInv(e) /\ e.id = next /\ e.notified = FALSE
  <2>1. DOMAIN e = DOMAIN Blank /\ e.id = next /\ e.notified = FALSE
    BY <1>5 DEF EntryInv, Blank
  <2> QED BY <2>1, <1>4 DEF EntryInv
<1> HIDE DEF e
<1>7. /\ SearchesInv(searches') /\ StartedInv'
      /\ \A s \in Searches, d \in Discovered :
            searches'[s].discovered[d] = IF s = work.search /\ d = work.entry THEN e
                                         ELSE searches[s].discovered[d]
      /\ \A s \in Searches : searches'[s].gen = searches[s].gen
  <2>1. SetCurrent(e)
    BY <1>3 DEF e
  <2> QED BY <2>1, <1>1, <1>5, <1>6, EntrySet
<1>8. Consistent(searches', live \cup {next}, {old}, heard)
  <2>1. Consistent(searches', live \cup {next},
                   {} \cup ({searches[work.search].discovered[work.entry].id} \ {0}), heard)
    <3>1. \A t \in Searches, d \in Discovered :
             \/ t = work.search /\ d = work.entry
             \/ /\ searches'[t].discovered[d].id = searches[t].discovered[d].id
                /\ searches'[t].discovered[d].notified = searches[t].discovered[d].notified
      BY <1>7
    <3>2. /\ searches'[work.search].discovered[work.entry].id = next
          /\ ~searches'[work.search].discovered[work.entry].notified
      BY <1>1, <1>6, <1>7
    <3>3. work.search \in Searches /\ work.entry \in Discovered /\ SearchesInv(searches')
      BY <1>1, <1>7
    <3> QED BY <1>2, <1>4, <3>1, <3>2, <3>3, Renewed
  <2>2. {} \cup ({searches[work.search].discovered[work.entry].id} \ {0}) = {old}
    BY <1>5 DEF Current
  <2> QED BY <2>1, <2>2
<1>9. /\ work' = [work EXCEPT !.phase = "lost", !.kind = "lost", !.id = old,
                              !.calling = "lost" \in searches[work.search].callbacks]
      /\ DOMAIN heard' = Ids
      /\ \A i \in Ids \ {old} : heard'[i] = heard[i]
  BY <1>2, <1>3 DEF Call, Consistent, HeardRight
<1>10. /\ work'.phase = "lost" /\ work'.id = old /\ work'.calling \in BOOLEAN
       /\ work'.search = work.search /\ work'.entry = work.entry /\ work'.gen = work.gen
       /\ work'.stage = work.stage /\ DOMAIN work' = DOMAIN work
  BY <1>9 DEF IInv, WorkInv, Idle
<1>11. HeardRight(searches', live', heard')
  <2>1. ASSUME NEW s \in Searches, NEW d \in Discovered, searches'[s].discovered[d].id # 0
        PROVE  HeardOf(heard', searches'[s].discovered[d])
    <3>1. searches'[s].discovered[d].id \in Ids \ {old}
      BY <2>1, <1>8 DEF Consistent, Accounted
    <3>2. HeardOf(heard, searches'[s].discovered[d])
      BY <2>1, <1>8 DEF Consistent, HeardRight
    <3> QED BY <3>1, <3>2, <1>9 DEF HeardOf
  <2>2. \A i \in Ids \ live' : heard'[i] = Unheard
    BY <1>3, <1>5, <1>8, <1>9 DEF Consistent, HeardRight
  <2> QED BY <2>1, <2>2, <1>9 DEF HeardRight
<1>12. Kept' = {old} /\ Lost' = {old}
  BY <1>1, <1>2, <1>10 DEF Kept, Lost
<1>13. Consistent(searches', live', Kept', heard')
  BY <1>3, <1>8, <1>11, <1>12 DEF Consistent
<1>14. WorkInv'
  BY <1>1, <1>10 DEF IInv, WorkInv
<1>15. CallInv'
  <2>1. Current' = e
    BY <1>1, <1>7, <1>10 DEF Current
  <2> QED BY <2>1, <1>1, <1>2, <1>3, <1>5, <1>6, <1>10, <1>12 DEF CallInv
<1>16. Consistent(searches', live', Kept', heard')
  BY <1>13
<1> QED BY <1>7, <1>14, <1>15, <1>16, ConsistentNext DEF IInv

\* A service is told of as found or changed, with nothing kept: past is what was heard.
LEMMA TellingKeepsIt ==
    ASSUME IInv, ~work.calling, work.entry \in Discovered, retired = {}, Current.id # 0,
           NEW ids, NEW past, NEW kind \in {"found", "update"}, Consistent(searches, ids, {}, past),
           NEW e, e.id = Current.id, e.notified, kind = "update" => Current.notified,
           SearchesInv(searches'), StartedInv',
           \A s \in Searches, d \in Discovered :
              searches'[s].discovered[d] = IF s = work.search /\ d = work.entry THEN e
                                           ELSE searches[s].discovered[d],
           Call(past, kind, Current.id, "told"), live' = ids, UNCHANGED <<started, retired>>
    PROVE  IInv'
<1> DEFINE id == Current.id
<1>1. work.search \in Searches /\ id \in ids /\ id \in Ids
  BY DEF IInv, WorkInv, Current, Consistent, Accounted
<1>3. /\ work' = [work EXCEPT !.phase = "told", !.kind = kind, !.id = id,
                              !.calling = kind \in searches[work.search].callbacks]
      /\ DOMAIN heard' = Ids
      /\ \A i \in Ids \ {id} : heard'[i] = past[i]
      /\ heard'[id] = past[id] \/ heard'[id].state = "here"
      /\ kind \in searches[work.search].callbacks => heard'[id].state = "here"
  BY <1>1 DEF Call, Consistent, HeardRight
<1>4. /\ work'.phase = "told" /\ work'.id = id /\ work'.calling \in BOOLEAN
      /\ work'.search = work.search /\ work'.entry = work.entry /\ work'.gen = work.gen
      /\ work'.stage = work.stage /\ DOMAIN work' = DOMAIN work
  BY <1>3 DEF IInv, WorkInv, Idle
<1>5. AllFound => heard'[id].state = "here"
  <2>1. CASE kind = "found"
    <3>1. searches[work.search].callbacks \in CallbackSets
      <4>1. IdsOf(searches[work.search]) # {}
        BY <1>1 DEF IdsOf, Current
      <4> QED BY <4>1, <1>1 DEF IInv, StartedInv
    <3> QED BY <2>1, <3>1, <1>3 DEF AllFound
  <2>2. CASE kind = "update"
    <3>1. HeardOf(past, Current)
      BY <1>1 DEF Consistent, HeardRight, Current
    <3> QED BY <2>2, <3>1, <1>3 DEF HeardOf
  <2> QED BY <2>1, <2>2
<1>6. HeardRight(searches', ids, heard')
  <2>1. ASSUME NEW s \in Searches, NEW d \in Discovered, searches'[s].discovered[d].id # 0
        PROVE  HeardOf(heard', searches'[s].discovered[d])
    <3>1. CASE s = work.search /\ d = work.entry
      BY <3>1, <1>5 DEF HeardOf
    <3>2. CASE ~(s = work.search /\ d = work.entry)
      <4>1. searches'[s].discovered[d] = searches[s].discovered[d]
        BY <3>2
      <4>2. searches[s].discovered[d].id \in Ids \ {id}
        <5>1. searches[s].discovered[d].id \in Ids
          BY <2>1, <4>1 DEF Consistent, Accounted
        <5>2. searches[s].discovered[d].id # searches[work.search].discovered[work.entry].id
          BY <2>1, <3>2, <4>1, <1>1 DEF Consistent, Accounted
        <5> QED BY <5>1, <5>2 DEF Current
      <4>3. HeardOf(past, searches[s].discovered[d])
        BY <2>1, <4>1 DEF Consistent, HeardRight
      <4>4. heard'[searches[s].discovered[d].id] = past[searches[s].discovered[d].id]
        BY <4>2, <1>3
      <4> QED BY <4>1, <4>3, <4>4 DEF HeardOf
    <3> QED BY <3>1, <3>2
  <2>2. \A i \in Ids \ ids : heard'[i] = Unheard
    BY <1>1, <1>3 DEF Consistent, HeardRight
  <2> QED BY <2>1, <2>2, <1>3 DEF HeardRight
<1>7. SameIds(searches, searches')
  BY DEF SameIds, Current
<1>8. Consistent(searches', ids, {}, heard')
  BY <1>6, <1>7, Retold
<1>9. Kept' = {} /\ Lost' = {}
  BY <1>4 DEF Kept, Lost
<1>10. Consistent(searches', live', Kept', heard')
  BY <1>8, <1>9
<1>11. WorkInv'
  BY <1>4 DEF IInv, WorkInv
<1>12. CallInv'
  BY <1>1, <1>4, <1>9 DEF CallInv
<1> QED BY <1>10, <1>11, <1>12, ConsistentNext DEF IInv

LEMMA FoundKeepsIt ==
    ASSUME IInv, Found \/ Update
    PROVE  IInv'
<1>1. /\ ~work.calling /\ work.entry \in Discovered /\ Resting /\ UNCHANGED <<started, live, retired>>
      /\ Complete(Current) \/ Current.notified
  BY DEF Found, Update, TellFound, Looking, Working, Resting
<1>2. Consistent(searches, live, {}, heard) /\ retired = {}
  BY <1>1, AtRest
<1>3. EntryInv(Current) /\ Current.id # 0
  BY <1>1, CurrentIs
<1>4. CASE Found
  <2> DEFINE e == [Current EXCEPT !.notified = TRUE]
  <2>1. EntryInv(e) /\ e.id = Current.id /\ e.notified
    BY <1>3 DEF EntryInv, Blank
  <2>2. SetCurrent(e) /\ Call(heard, "found", Current.id, "told")
    BY <1>4 DEF Found, TellFound
  <2> HIDE DEF e
  <2>3. /\ SearchesInv(searches') /\ StartedInv'
        /\ \A s \in Searches, d \in Discovered :
              searches'[s].discovered[d] = IF s = work.search /\ d = work.entry THEN e
                                           ELSE searches[s].discovered[d]
    BY <1>1, <1>3, <2>1, <2>2, EntrySet
  <2> QED BY <1>1, <1>2, <1>3, <2>1, <2>2, <2>3, TellingKeepsIt
<1>5. CASE Update
  <2>1. Current.notified /\ Call(heard, "update", Current.id, "told") /\ searches' = searches
    BY <1>5 DEF Update
  <2>2. SearchesInv(searches') /\ StartedInv'
    BY <1>1, <2>1, StartedKept DEF IInv, Consistent
  <2>3. \A s \in Searches, d \in Discovered :
           searches'[s].discovered[d] = IF s = work.search /\ d = work.entry THEN Current
                                        ELSE searches[s].discovered[d]
    BY <2>1 DEF Current
  <2> QED BY <1>1, <1>2, <1>3, <2>1, <2>2, <2>3, TellingKeepsIt
<1> QED BY <1>4, <1>5

LEMMA ReturnKeepsIt ==
    ASSUME IInv, CallbackReturn
    PROVE  IInv'
<1>1. /\ work' = [work EXCEPT !.calling = FALSE] /\ Freed(retired) /\ retired' = {}
      /\ work.phase # "look" /\ UNCHANGED <<searches, started>>
  BY DEF CallbackReturn, IInv, CallInv
<1>2. /\ work'.calling = FALSE /\ work'.phase = work.phase /\ work'.id = work.id
      /\ work'.search = work.search /\ work'.entry = work.entry /\ work'.gen = work.gen
      /\ work'.stage = work.stage /\ DOMAIN work' = DOMAIN work
  BY <1>1 DEF IInv, WorkInv, Idle
<1>3. Lost' = Lost /\ Kept' = Lost /\ Kept \ retired = Lost
  BY <1>1, <1>2 DEF Kept, Lost, IInv, CallInv
<1>4. live' = live \ retired /\ heard' = FreedFrom(heard, retired)
  BY <1>1, FreedIs
<1>5. Consistent(searches, live \ retired, Kept \ retired, FreedFrom(heard, retired))
  BY FreeKept DEF IInv, Kept
<1>6. Consistent(searches', live', Kept', heard')
  BY <1>1, <1>3, <1>4, <1>5
<1>7. WorkInv'
  BY <1>1, <1>2 DEF IInv, WorkInv
<1>8. CallInv'
  BY <1>1, <1>2 DEF IInv, CallInv, Restarted, Current
<1>9. StartedInv'
  BY <1>1, StartedKept DEF IInv
<1> QED BY <1>6, <1>7, <1>8, <1>9, ConsistentNext DEF IInv

\* The identity that was lost is freed after its callback; the entry may go on, be
\* cleared with its next identity, or be told of as found under it.
LEMMA AfterLostKeepsIt ==
    ASSUME IInv, AfterLost
    PROVE  IInv'
<1>1. /\ ~work.calling /\ work.phase = "lost" /\ work.entry \in Discovered
      /\ work.stage \in {"packet", "expire"} /\ UNCHANGED <<started, retired>>
  BY DEF AfterLost, Working, IInv, WorkInv
<1>2. retired = {} /\ Kept = {work.id}
  BY <1>1 DEF Kept, Lost, IInv, CallInv
<1>3. Current.id # 0 => Current.id # work.id
  BY <1>1, <1>2, CurrentIs
<1>4. ASSUME NEW dropped, Freed(Kept \cup dropped), StartedInv', WorkInv', Resting',
             Consistent(searches', live, Kept \cup dropped, heard)
      PROVE  IInv'
  <2> DEFINE free == Kept \cup dropped
  <2>1. Consistent(searches', live \ free, free \ free, FreedFrom(heard, free))
    BY <1>4, FreeKept
  <2>2. live' = live \ free /\ heard' = FreedFrom(heard, free)
    BY <1>4, FreedIs
  <2>3. free \ free = {}
    OBVIOUS
  <2> HIDE DEF free
  <2>4. Consistent(searches', live', {}, heard')
    BY <2>1, <2>2, <2>3
  <2> QED BY <1>1, <1>2, <1>4, <2>4, AtRestAgain
<1>5. CASE Freed({work.id}) /\ work' = Onward /\ UNCHANGED searches
  <2>1. StartedInv' /\ WorkInv' /\ Resting'
    BY <1>1, <1>5, StartedKept, OnwardIs DEF IInv
  <2>2. Kept \cup {} = {work.id} /\ Kept \cup {} = Kept
    BY <1>2
  <2>3. Consistent(searches', live, Kept \cup {}, heard)
    BY <1>5, <2>2 DEF IInv
  <2> QED BY <1>4, <1>5, <2>1, <2>2, <2>3
<1>6. CASE /\ Current.remove /\ Freed({work.id, Current.id}) /\ SetCurrent(Blank) /\ work' = NextEntry
  <2>1. Current.id # 0
    BY <1>1, <1>6, CurrentIs
  <2>2. WorkInv' /\ Resting'
    BY <1>1, <1>6, NextEntryIs
  <2>3. Consistent(searches', live, Kept \cup {Current.id}, heard) /\ StartedInv'
    BY <1>1, <1>6, <2>1, EntryCleared
  <2>4. Kept \cup {Current.id} = {work.id, Current.id}
    BY <1>2
  <2> QED BY <1>4, <1>6, <2>2, <2>3, <2>4
<1>7. CASE Freed({work.id}) /\ SetCurrent(Settled(Current)) /\ work' = NextEntry
  <2>1. WorkInv' /\ Resting'
    BY <1>1, <1>7, NextEntryIs
  <2>2. Consistent(searches', live, Kept, heard) /\ StartedInv'
    BY <1>1, <1>7, CurrentIs, EntryRevised
  <2>3. Kept \cup {} = {work.id} /\ Kept \cup {} = Kept
    BY <1>2
  <2> QED BY <1>4, <1>7, <2>1, <2>2, <2>3
<1>8. CASE Complete(Current) /\ live' = live \ {work.id} /\ TellFound(Past({work.id}))
  <2> DEFINE e == [Current EXCEPT !.notified = TRUE]
             past == Past({work.id})
  <2>1. EntryInv(Current) /\ Current.id # 0
    BY <1>1, <1>8, CurrentIs
  <2>2. EntryInv(e) /\ e.id = Current.id /\ e.notified
    BY <2>1 DEF EntryInv, Blank
  <2>3. SetCurrent(e) /\ Call(past, "found", Current.id, "told")
    BY <1>8 DEF TellFound
  <2>4. past = FreedFrom(heard, {work.id})
    BY DEF Past, FreedFrom
  <2> HIDE DEF e, past
  <2>5. /\ SearchesInv(searches') /\ StartedInv'
        /\ \A s \in Searches, d \in Discovered :
              searches'[s].discovered[d] = IF s = work.search /\ d = work.entry THEN e
                                           ELSE searches[s].discovered[d]
    BY <1>1, <2>1, <2>2, <2>3, EntrySet
  <2>6. Consistent(searches, live \ {work.id}, {}, past)
    <3>1. Consistent(searches, live \ Kept, Kept \ Kept, FreedFrom(heard, Kept))
      BY FreeKept DEF IInv
    <3>2. Kept \ Kept = {}
      OBVIOUS
    <3> QED BY <3>1, <3>2, <1>2, <2>4
  <2> QED BY <1>1, <1>2, <1>8, <2>1, <2>2, <2>3, <2>5, <2>6, TellingKeepsIt
<1> QED BY <1>5, <1>6, <1>7, <1>8 DEF AfterLost

-----------------------------------------------------------------------------
LEMMA SearchInit == Init => IInv
<1> SUFFICES ASSUME Init PROVE IInv
  OBVIOUS
<1>1. /\ searches = [s \in Searches |-> NoSearch] /\ started = 0 /\ live = {} /\ retired = {}
      /\ heard = [i \in Ids |-> Unheard] /\ work = Idle
  BY DEF Init
<1>2. SearchInv(NoSearch) /\ IdsOf(NoSearch) = {} /\ NoSearch.gen = 0
  BY NoSearchIs DEF NoSearch
<1>3. SearchesInv(searches) /\ \A s \in Searches, d \in Discovered : searches[s].discovered[d].id = 0
  BY <1>1, <1>2 DEF SearchesInv, IdsOf
<1>4. work.phase = "look" /\ work.calling = FALSE
  BY <1>1 DEF Idle
<1>5. Kept = {} /\ Lost = {}
  BY <1>1, <1>4 DEF Kept, Lost
<1>6. Consistent(searches, live, Kept, heard)
  BY <1>1, <1>3, <1>5 DEF Consistent, Accounted, HeardRight
<1>7. StartedInv
  BY <1>1, <1>2 DEF StartedInv, InUse
<1>8. WorkInv
  BY <1>1 DEF WorkInv, Idle, Searches
<1>9. CallInv
  BY <1>1, <1>4, <1>5 DEF CallInv
<1> QED BY <1>6, <1>7, <1>8, <1>9, ConsistentNext DEF IInv

LEMMA SearchStep == IInv /\ [Next]_vars => IInv'
<1> SUFFICES ASSUME IInv, [Next]_vars PROVE IInv'
  OBVIOUS
<1>1. CASE \E callbacks \in CallbackSets : StartSearch(callbacks)
  BY <1>1, StartKeepsIt
<1>2. CASE \E s \in Searches : StopSearch(s)
  BY <1>2, StopKeepsIt
<1>3. CASE Shutdown
  BY <1>3, ShutdownKeepsIt
<1>4. CASE \/ PumpBegin \/ Expire \/ Dispatch \/ NextSearch \/ Unchanged \/ LoseFails
           \/ \E packet \in Packets : Receive(packet)
  BY <1>4, GoingOnKeepsIt
<1>5. CASE Apply
  BY <1>5, ApplyKeepsIt
<1>6. CASE ApplyExpiry \/ Quiet
  BY <1>6, RevisingKeepsIt
<1>7. CASE RemoveUntold
  BY <1>7, RemoveKeepsIt
<1>8. CASE Lose
  BY <1>8, LoseKeepsIt
<1>9. CASE Found \/ Update
  BY <1>9, FoundKeepsIt
<1>10. CASE CallbackReturn
  BY <1>10, ReturnKeepsIt
<1>11. CASE AfterLost
  BY <1>11, AfterLostKeepsIt
<1>12. CASE AfterTold
  BY <1>12, AfterToldKeepsIt
<1>13. CASE UNCHANGED vars
  <2>1. UNCHANGED <<searches, work, started, live, retired, heard>>
    BY <1>13 DEF vars
  <2>2. Kept' = Kept /\ Lost' = Lost
    BY <2>1 DEF Kept, Lost
  <2>3. Consistent(searches', live', Kept', heard')
    <3>1. Consistent(searches, live, Kept, heard)
      BY DEF IInv
    <3> QED BY <2>1, <2>2, <3>1
  <2>4. StartedInv'
    BY <2>1, StartedKept DEF IInv
  <2>5. WorkInv' /\ CallInv'
    BY <2>1, <2>2 DEF IInv, WorkInv, CallInv, Restarted, Current
  <2> QED BY <2>3, <2>4, <2>5, ConsistentNext DEF IInv
<1> QED BY <1>1, <1>2, <1>3, <1>4, <1>5, <1>6, <1>7, <1>8, <1>9, <1>10, <1>11, <1>12, <1>13 DEF Next

\* The inductive invariant of the searches: every identity is accounted for, and what
\* the game heard of it is what its entry says.
THEOREM SearchesAlways == Spec => []IInv
  BY SearchInit, SearchStep, PTL DEF Spec

LEMMA OneHolderEach == IInv => OneHolder
<1> SUFFICES ASSUME IInv, NEW i \in Ids
             PROVE  Cardinality(Holders(i)) = IF i \in live THEN 1 ELSE 0
  BY DEF OneHolder
<1> DEFINE Entries == {e \in Searches \X Discovered : searches[e[1]].discovered[e[2]].id = i}
           Retiring == {h \in {<<0, 0>>} : i \in retired}
           Going == {h \in {<<0, 1>>} : work.phase = "lost" /\ i = work.id}
<1>1. Holders(i) = Entries \cup Retiring \cup Going
  BY DEF Holders
<1>2. i # 0
  BY DEF Ids
<1>3. Retiring = IF i \in retired THEN {<<0, 0>>} ELSE {}
  OBVIOUS
<1>4. Going = IF i \in Lost THEN {<<0, 1>>} ELSE {}
  BY DEF Lost
<1>5. Entries # {} => i \in live \ Kept
  BY <1>2 DEF IInv, Consistent, Accounted
<1>6. i \in live \ Kept => \E e : Entries = {e}
  <2> SUFFICES ASSUME i \in live \ Kept PROVE \E e : Entries = {e}
    OBVIOUS
  <2>1. PICK s \in Searches, d \in Discovered : searches[s].discovered[d].id = i
    BY DEF IInv, Consistent, Accounted
  <2>2. \A t \in Searches, c \in Discovered : searches[t].discovered[c].id = i => t = s /\ c = d
    BY <1>2, <2>1 DEF IInv, Consistent, Accounted
  <2>3. Entries = {<<s, d>>}
    BY <2>1, <2>2
  <2> QED BY <2>3
<1>7. Kept = retired \cup Lost /\ retired \cap Lost = {} /\ Kept \subseteq live
  BY DEF Kept, IInv, CallInv, Consistent, Accounted
<1> HIDE DEF Entries, Retiring, Going
<1>8. i \in live => \E h : Holders(i) = {h}
  BY <1>1, <1>3, <1>4, <1>5, <1>6, <1>7
<1>9. i \notin live => Holders(i) = {}
  BY <1>1, <1>3, <1>4, <1>5, <1>7
<1> QED BY <1>8, <1>9, FS_Singleton, FS_EmptySet

\* For any searches, packets, callbacks and failures: no identity is leaked or freed
\* twice, whichever searches the callbacks stop.
THEOREM OneHolderAlways == Spec => []OneHolder
  BY SearchesAlways, OneHolderEach, PTL

\* An identity is not freed while a callback is given it.
THEOREM CallbackIdLivesAlways == Spec => []CallbackIdLives
<1>1. IInv => CallbackIdLives
  BY DEF IInv, CallInv, CallbackIdLives
<1> QED BY <1>1, SearchesAlways, PTL

-----------------------------------------------------------------------------
\* One step of what the game hears of one identity.
HeardNext(i) == heard'[i] # heard[i] =>
                   \/ i \in live \ live'
                   \/ heard[i].state = "never" /\ heard'[i].state = "here" /\ work'.kind = "found"
                   \/ heard[i].state = "here" /\ work'.kind # "found"

LEMMA FreedHeard ==
    ASSUME IInv, NEW ids, Freed(ids), NEW i \in Ids
    PROVE  HeardNext(i)
  BY DEF Freed, Past, IInv, Consistent, HeardRight, HeardNext

\* A service is told of as found under an identity of which nothing was heard.
LEMMA FoundHeard ==
    ASSUME IInv, work.entry \in Discovered, Complete(Current), ~Current.notified, NEW past,
           DOMAIN past = Ids, past[Current.id] = heard[Current.id], TellFound(past),
           NEW i \in Ids, past[i] # heard[i] => i \in live \ live'
    PROVE  HeardNext(i)
<1>1. Current.id # 0 /\ Current.id \in Ids
  BY CurrentIs DEF IInv, Consistent, Accounted
<1>2. heard[Current.id] = Unheard
  BY <1>1 DEF Current, IInv, WorkInv, Consistent, HeardRight, HeardOf
<1>3. heard[Current.id].state = "never"
  BY <1>2 DEF Unheard
<1>4. work'.kind = "found"
  BY DEF TellFound, Call, IInv, WorkInv, Idle
<1>5. /\ heard'[i] # past[i] => i = Current.id /\ heard'[i].state = "here"
  BY <1>1 DEF TellFound, Call
<1> QED BY <1>3, <1>4, <1>5 DEF HeardNext

LEMMA HeardStep ==
    ASSUME AllFound, IInv, [Next]_vars, NEW i \in Ids
    PROVE  HeardNext(i)
<1>1. CASE UNCHANGED heard
  BY <1>1 DEF HeardNext
<1>2. CASE (\E s \in Searches : StopSearch(s)) \/ Shutdown
  BY <1>1, <1>2, FreedHeard DEF StopSearch, Shutdown, Retire
<1>3. CASE RemoveUntold \/ CallbackReturn
  BY <1>3, FreedHeard DEF RemoveUntold, CallbackReturn
<1>4. CASE Lose \/ Update
  <2>1. PICK kind \in {"lost", "update"}, phase \in {"lost", "told"} : Call(heard, kind, Current.id, phase)
    BY <1>4 DEF Lose, Update
  <2>2. Current.notified /\ work.entry \in Discovered
    BY <1>4 DEF Lose, Update, MustLose, Looking
  <2>3. Current.id # 0
    BY <2>2, CurrentIs
  <2>4. heard[Current.id].state = "here"
    BY <2>2, <2>3 DEF Current, IInv, WorkInv, Consistent, HeardRight, HeardOf
  <2>5. work'.kind = kind
    BY <2>1 DEF Call, IInv, WorkInv, Idle
  <2>6. heard'[i] # heard[i] => i = Current.id
    BY <2>1 DEF Call, IInv, Consistent, HeardRight
  <2> QED BY <2>4, <2>5, <2>6 DEF HeardNext
<1>5. CASE Found
  BY <1>5, FoundHeard DEF Found, Looking, IInv, Consistent, HeardRight
<1>6. CASE AfterLost
  <2>1. work.phase = "lost" /\ work.entry \in Discovered
    BY <1>6 DEF AfterLost, IInv, WorkInv
  <2>2. CASE \E ids : Freed(ids)
    BY <2>2, FreedHeard
  <2>3. CASE ~Restarted /\ Complete(Current) /\ live' = live \ {work.id} /\ TellFound(Past({work.id}))
    <3> DEFINE past == Past({work.id})
    <3>1. /\ DOMAIN past = Ids
          /\ \A j \in Ids : past[j] = IF j = work.id THEN Unheard ELSE heard[j]
      BY DEF Past
    <3> HIDE DEF past
    <3>2. work.id \in live
      BY <2>1 DEF IInv, Consistent, Accounted, Kept, Lost
    <3>3. Current.id \in Ids /\ Current.id # work.id
      BY <2>1, <2>3, CurrentIs DEF IInv, Consistent, Accounted, Kept, Lost
    <3>4. past[Current.id] = heard[Current.id] /\ (past[i] # heard[i] => i \in live \ live')
      BY <2>3, <3>1, <3>2, <3>3
    <3>5. ~Current.notified
      BY <2>1, <2>3 DEF IInv, CallInv
    <3>6. TellFound(past)
      BY <2>3 DEF past
    <3> QED BY <2>1, <2>3, <3>1, <3>4, <3>5, <3>6, FoundHeard
  <2> QED BY <1>6, <2>2, <2>3 DEF AfterLost
<1> QED BY <1>1, <1>2, <1>3, <1>4, <1>5, <1>6
        DEF Next, vars, StartSearch, PumpBegin, Receive, Expire, Apply, Dispatch, ApplyExpiry,
            NextSearch, Quiet, Unchanged, LoseFails, AfterTold

\* Where every search is told of what is found, the game hears of an identity in
\* order: found, then updates, then lost, each of a service it knows.
THEOREM HeardInOrderAlways ==
    ASSUME \A callbacks \in CallbackSets : "found" \in callbacks
    PROVE  Spec => HeardInOrder
<1>1. IInv /\ [Next]_vars => [\A i \in Ids : HeardNext(i)]_vars
  BY HeardStep DEF AllFound
<1>2. Spec => [][\A i \in Ids : HeardNext(i)]_vars
  BY <1>1, SearchesAlways, PTL DEF Spec
<1> QED BY <1>2 DEF HeardInOrder, HeardNext

-----------------------------------------------------------------------------
(* What the game was told, and what the searches know.                      *)

HostKnown(e) == e.port # 0 => e.host \in Hosts

\* A view of a service whose records are complete.
IsView(v) == /\ v = [host |-> v.host, port |-> v.port, text |-> v.text, ipv4 |-> v.ipv4]
             /\ v.host \in Hosts /\ v.port # 0 /\ v.text # 0 /\ v.ipv4 # 0

\* Between packets: told of what is complete, and nothing has changed since.
Right(e, told) ==
    /\ e.notified <=> Complete(e)
    /\ e.notified => /\ told[e.id].state = "here" /\ told[e.id].view = View(e)
                     /\ ~e.endpointChanged /\ ~e.txtChanged

Hears(e, told) == told[e.id].state = "here" /\ IsView(told[e.id].view)

\* Before the search comes to the entry: the game will be told of what it sees otherwise.
Pending(e, told) ==
    e.notified =>
       LET v == told[e.id].view
       IN  /\ Hears(e, told)
           /\ \/ MustLose(e)
              \/ /\ e.host = v.host /\ e.port = v.port /\ e.ipv4 = v.ipv4
                 /\ e.text = v.text \/ e.txtChanged

\* From the n-th record on none of that kind and name is given.
Withdrawn(kind, name, packet, n) ==
    \A i \in DOMAIN packet \ (1..(n - 1)) :
       packet[i].kind = kind /\ packet[i].name = name => packet[i].gone

\* Before the n-th record is applied: what the game sees otherwise has been noted, or is
\* withdrawn and will not come again.
EndpointMidway(e, v, addresses, packet, n) ==
    \/ e.endpointChanged
    \/ e.port = 0 /\ Withdrawn("srv", e.instance, packet, n)
    \/ /\ e.port = v.port /\ e.host = v.host
       /\ \/ e.ipv4 = v.ipv4
          \/ e.ipv4 = 0 /\ addresses[v.host] = 0 /\ Withdrawn("a", v.host, packet, n)

TextMidway(e, v, packet, n) == \/ e.txtChanged
                               \/ e.text = v.text
                               \/ e.text = 0 /\ Withdrawn("txt", e.instance, packet, n)

Midway(e, told, addresses, packet, n) ==
    e.notified => /\ Hears(e, told)
                  /\ EndpointMidway(e, told[e.id].view, addresses, packet, n)
                  /\ TextMidway(e, told[e.id].view, packet, n)

LEMMA StaysWithdrawn ==
    ASSUME NEW n \in Nat, NEW packet, NEW kind, NEW name, Withdrawn(kind, name, packet, n)
    PROVE  Withdrawn(kind, name, packet, n + 1)
<1>1. 1..(n - 1) \subseteq 1..((n + 1) - 1)
  OBVIOUS
<1> QED BY <1>1 DEF Withdrawn

LEMMA NowWithdrawn ==
    ASSUME NEW packet, Orderly(packet), NEW n \in Nat, n \in DOMAIN packet,
           packet[n].kind # "ptr", packet[n].gone
    PROVE  Withdrawn(packet[n].kind, packet[n].name, packet, n + 1)
<1>1. (n + 1) - 1 = n
  OBVIOUS
<1> QED BY <1>1 DEF Withdrawn, Orderly

LEMMA NotWithdrawn ==
    ASSUME NEW packet, NEW n \in Nat, n \in DOMAIN packet, ~packet[n].gone
    PROVE  ~Withdrawn(packet[n].kind, packet[n].name, packet, n)
<1>1. n \notin 1..(n - 1)
  OBVIOUS
<1> QED BY <1>1 DEF Withdrawn

\* A record that says nothing of the endpoint, or of the text, leaves what is known of it.
LEMMA EndpointStays ==
    ASSUME NEW e, NEW f, NEW v, NEW addresses, NEW packet, NEW n \in Nat,
           EndpointMidway(e, v, addresses, packet, n),
           f.instance = e.instance, f.host = e.host, f.port = e.port, f.ipv4 = e.ipv4,
           f.endpointChanged = e.endpointChanged
    PROVE  EndpointMidway(f, v, addresses, packet, n + 1)
  BY StaysWithdrawn DEF EndpointMidway

LEMMA TextStays ==
    ASSUME NEW e, NEW f, NEW v, NEW packet, NEW n \in Nat, TextMidway(e, v, packet, n),
           f.instance = e.instance, f.text = e.text, f.txtChanged = e.txtChanged
    PROVE  TextMidway(f, v, packet, n + 1)
  BY StaysWithdrawn DEF TextMidway

LEMMA EntryStays ==
    ASSUME NEW e, NEW told, NEW addresses, NEW packet, NEW n \in Nat,
           Midway(e, told, addresses, packet, n)
    PROVE  Midway(e, told, addresses, packet, n + 1)
  BY EndpointStays, TextStays DEF Midway

LEMMA PtrMidway ==
    ASSUME NEW e, DOMAIN e = DOMAIN Blank, NEW told, NEW addresses, NEW packet, NEW n \in Nat,
           Midway(e, told, addresses, packet, n), NEW ptr, NEW remove
    PROVE  LET f == [e EXCEPT !.ptr = ptr, !.remove = remove]
           IN  Midway(f, told, addresses, packet, n + 1) /\ (HostKnown(e) => HostKnown(f))
<1> DEFINE f == [e EXCEPT !.ptr = ptr, !.remove = remove]
<1>1. /\ f.id = e.id /\ f.notified = e.notified /\ f.instance = e.instance /\ f.host = e.host
      /\ f.port = e.port /\ f.ipv4 = e.ipv4 /\ f.endpointChanged = e.endpointChanged
      /\ f.text = e.text /\ f.txtChanged = e.txtChanged
  BY DEF Blank
<1> HIDE DEF f
<1>2. Midway(f, told, addresses, packet, n + 1)
  BY <1>1, EndpointStays, TextStays DEF Midway, Hears
<1> QED BY <1>1, <1>2 DEF HostKnown, f

LEMMA SrvMidway ==
    ASSUME NEW e, DOMAIN e = DOMAIN Blank, NEW told, NEW addresses, NEW packet, NEW n \in Nat,
           Midway(e, told, addresses, packet, n), n \in DOMAIN packet, Orderly(packet),
           packet[n].kind = "srv", packet[n].name = e.instance
    PROVE  LET f == IF packet[n].gone THEN [e EXCEPT !.port = 0] ELSE Endpoint(e, packet[n], addresses)
           IN  Midway(f, told, addresses, packet, n + 1) /\ HostKnown(f)
<1> DEFINE record == packet[n]
           gone == [e EXCEPT !.port = 0]
           given == Endpoint(e, record, addresses)
<1>1. CASE record.gone
  <2>1. /\ gone.id = e.id /\ gone.notified = e.notified /\ gone.instance = e.instance
        /\ gone.port = 0 /\ gone.text = e.text /\ gone.txtChanged = e.txtChanged
    BY DEF Blank
  <2> HIDE DEF gone
  <2>2. Withdrawn("srv", gone.instance, packet, n + 1)
    BY <1>1, <2>1, NowWithdrawn
  <2>3. Midway(gone, told, addresses, packet, n + 1)
    BY <2>1, <2>2, TextStays DEF Midway, Hears, EndpointMidway
  <2> QED BY <1>1, <2>1, <2>3 DEF HostKnown, gone
<1>2. CASE ~record.gone
  <2> DEFINE moved == e.host \notin {0, record.host}
             ipv4 == IF moved THEN 0 ELSE e.ipv4
             cached == addresses[record.host]
  <2>1. /\ given.id = e.id /\ given.notified = e.notified /\ given.instance = e.instance
        /\ given.text = e.text /\ given.txtChanged = e.txtChanged
        /\ given.host = record.host /\ given.port = record.port
        /\ given.ipv4 = IF cached # 0 THEN cached ELSE ipv4
        /\ given.endpointChanged = \/ e.endpointChanged
                                   \/ e.port # 0 /\ (e.port # record.port \/ moved)
                                   \/ cached # 0 /\ ipv4 \notin {0, cached}
    BY DEF Blank, Endpoint
  <2>2. record.host \in Hosts
    BY <1>2 DEF Orderly
  <2>3. ~Withdrawn("srv", e.instance, packet, n)
    BY <1>2, NotWithdrawn
  <2> HIDE DEF given, cached
  <2>4. ASSUME NEW v, IsView(v), EndpointMidway(e, v, addresses, packet, n)
        PROVE  EndpointMidway(given, v, addresses, packet, n + 1)
    <3>1. CASE given.endpointChanged
      BY <3>1 DEF EndpointMidway
    <3>2. CASE ~given.endpointChanged
      <4>1. e.port = v.port /\ e.host = v.host /\ v.port # 0 /\ v.host # 0 /\ v.ipv4 # 0
        BY <2>1, <2>3, <2>4, <3>2 DEF EndpointMidway, IsView
      <4>2. given.port = v.port /\ given.host = v.host /\ ~moved
        BY <2>1, <3>2, <4>1
      <4>3. given.ipv4 = (IF cached # 0 THEN cached ELSE e.ipv4) /\ (cached # 0 => e.ipv4 \in {0, cached})
            /\ cached = addresses[v.host]
        BY <2>1, <3>2, <4>1, <4>2 DEF cached
      <4>4. \/ e.ipv4 = v.ipv4
            \/ e.ipv4 = 0 /\ addresses[v.host] = 0 /\ Withdrawn("a", v.host, packet, n)
        BY <2>1, <2>3, <2>4, <3>2 DEF EndpointMidway
      <4> QED BY <4>1, <4>2, <4>3, <4>4, StaysWithdrawn DEF EndpointMidway
    <3> QED BY <3>1, <3>2
  <2>5. Midway(given, told, addresses, packet, n + 1)
    BY <2>1, <2>4, TextStays DEF Midway, Hears
  <2> QED BY <1>2, <2>1, <2>2, <2>5 DEF HostKnown, given
<1> QED BY <1>1, <1>2

LEMMA TxtMidway ==
    ASSUME NEW e, DOMAIN e = DOMAIN Blank, NEW told, NEW addresses, NEW packet, NEW n \in Nat,
           Midway(e, told, addresses, packet, n), n \in DOMAIN packet, Orderly(packet),
           packet[n].kind = "txt", packet[n].name = e.instance
    PROVE  LET f == IF packet[n].gone THEN [e EXCEPT !.text = 0]
                    ELSE IF packet[n].text = 0 THEN e
                    ELSE [e EXCEPT !.txtChanged = @ \/ e.text \notin {0, packet[n].text},
                                   !.text = packet[n].text]
           IN  Midway(f, told, addresses, packet, n + 1) /\ (HostKnown(e) => HostKnown(f))
<1> DEFINE record == packet[n]
           gone == [e EXCEPT !.text = 0]
           given == [e EXCEPT !.txtChanged = @ \/ e.text \notin {0, packet[n].text},
                              !.text = packet[n].text]
<1>1. CASE record.gone
  <2>1. /\ gone.id = e.id /\ gone.notified = e.notified /\ gone.instance = e.instance
        /\ gone.host = e.host /\ gone.port = e.port /\ gone.ipv4 = e.ipv4
        /\ gone.endpointChanged = e.endpointChanged /\ gone.text = 0
    BY DEF Blank
  <2> HIDE DEF gone
  <2>2. Withdrawn("txt", gone.instance, packet, n + 1)
    BY <1>1, <2>1, NowWithdrawn
  <2>3. Midway(gone, told, addresses, packet, n + 1)
    BY <2>1, <2>2, EndpointStays DEF Midway, Hears, TextMidway
  <2> QED BY <1>1, <2>1, <2>3 DEF HostKnown, gone
<1>2. CASE ~record.gone /\ record.text = 0
  <2>1. Midway(e, told, addresses, packet, n + 1)
    BY EntryStays
  <2> QED BY <1>2, <2>1
<1>3. CASE ~record.gone /\ record.text # 0
  <2>1. /\ given.id = e.id /\ given.notified = e.notified /\ given.instance = e.instance
        /\ given.host = e.host /\ given.port = e.port /\ given.ipv4 = e.ipv4
        /\ given.endpointChanged = e.endpointChanged /\ given.text = record.text
        /\ given.txtChanged = (e.txtChanged \/ e.text \notin {0, record.text})
    BY DEF Blank
  <2>2. ~Withdrawn("txt", e.instance, packet, n)
    BY <1>3, NotWithdrawn
  <2> HIDE DEF given
  <2>3. ASSUME NEW v, IsView(v), TextMidway(e, v, packet, n)
        PROVE  TextMidway(given, v, packet, n + 1)
    BY <2>1, <2>2, <2>3 DEF TextMidway, IsView
  <2>4. Midway(given, told, addresses, packet, n + 1)
    BY <2>1, <2>3, EndpointStays DEF Midway, Hears
  <2> QED BY <1>3, <2>1, <2>4 DEF HostKnown, given
<1> QED BY <1>1, <1>2, <1>3

\* An address is held for its host, and every service on it has it.
Given(record) == IF record.gone THEN 0 ELSE record.ipv4
Held(addresses, record) == [addresses EXCEPT ![record.name] = Given(record)]
There(e, record) == e.port # 0 /\ e.host = record.name
Addressed(e, record) ==
    [e EXCEPT !.endpointChanged = @ \/ (~record.gone /\ e.ipv4 \notin {0, record.ipv4}),
              !.ipv4 = Given(record)]

LEMMA AddressMidway ==
    ASSUME NEW e, DOMAIN e = DOMAIN Blank, NEW told, NEW addresses, DOMAIN addresses = Hosts,
           NEW packet, NEW n \in Nat, Midway(e, told, addresses, packet, n),
           n \in DOMAIN packet, Orderly(packet), packet[n].kind = "a"
    PROVE  LET f == IF There(e, packet[n]) THEN Addressed(e, packet[n]) ELSE e
           IN  /\ Midway(f, told, Held(addresses, packet[n]), packet, n + 1)
               /\ HostKnown(e) => HostKnown(f)
<1> DEFINE record == packet[n]
           ipv4 == Given(record)
           held == Held(addresses, record)
           given == Addressed(e, record)
           there == There(e, record)
           f == IF there THEN given ELSE e
<1>1. /\ given.id = e.id /\ given.notified = e.notified /\ given.instance = e.instance
      /\ given.host = e.host /\ given.port = e.port /\ given.text = e.text
      /\ given.txtChanged = e.txtChanged /\ given.ipv4 = ipv4
      /\ given.endpointChanged = (e.endpointChanged \/ (~record.gone /\ e.ipv4 \notin {0, record.ipv4}))
  BY DEF Blank, Addressed
<1>2. /\ record.name \in Hosts /\ held[record.name] = ipv4
      /\ \A h \in Hosts \ {record.name} : held[h] = addresses[h]
  BY DEF Orderly, Held
<1>3. /\ record.gone => Withdrawn("a", record.name, packet, n + 1)
      /\ ~record.gone => ~Withdrawn("a", record.name, packet, n)
  BY NowWithdrawn, NotWithdrawn
<1>4. /\ ipv4 = IF record.gone THEN 0 ELSE record.ipv4
      /\ there = (e.port # 0 /\ e.host = record.name)
  BY DEF Given, There
<1> HIDE DEF held, given, there, ipv4
<1>5. /\ f.id = e.id /\ f.notified = e.notified /\ f.instance = e.instance
      /\ f.host = e.host /\ f.port = e.port /\ f.text = e.text /\ f.txtChanged = e.txtChanged
      /\ f.ipv4 = (IF there THEN ipv4 ELSE e.ipv4)
      /\ e.endpointChanged => f.endpointChanged
      /\ there /\ ~record.gone /\ e.ipv4 \notin {0, record.ipv4} => f.endpointChanged
  BY <1>1, <1>4
<1>6. ASSUME NEW v, IsView(v), EndpointMidway(e, v, addresses, packet, n)
      PROVE  EndpointMidway(f, v, held, packet, n + 1)
  <2> HIDE DEF f
  <2>1. CASE f.endpointChanged
    BY <2>1 DEF EndpointMidway
  <2>2. CASE e.port = 0 /\ Withdrawn("srv", e.instance, packet, n)
    BY <2>2, <1>5, StaysWithdrawn DEF EndpointMidway
  <2>3. CASE ~f.endpointChanged /\ e.port = v.port /\ e.host = v.host /\ e.ipv4 = v.ipv4
    <3>1. v.port # 0 /\ v.ipv4 # 0
      BY <1>6 DEF IsView
    <3>2. CASE there /\ record.gone
      BY <1>2, <1>3, <1>4, <1>5, <2>3, <3>2 DEF EndpointMidway
    <3>3. CASE there /\ ~record.gone
      BY <1>4, <1>5, <2>3, <3>1, <3>3 DEF EndpointMidway
    <3>4. CASE ~there
      BY <1>2, <1>4, <1>5, <1>6, <2>3, <3>4 DEF EndpointMidway, IsView
    <3> QED BY <3>2, <3>3, <3>4
  <2>4. CASE /\ e.port = v.port /\ e.host = v.host
             /\ e.ipv4 = 0 /\ addresses[v.host] = 0 /\ Withdrawn("a", v.host, packet, n)
    <3>1. record.name = v.host => record.gone
      BY <1>3, <2>4
    <3>2. held[v.host] = 0
      BY <1>2, <1>4, <1>6, <2>4, <3>1 DEF IsView
    <3>3. f.ipv4 = 0
      BY <1>4, <1>5, <2>4, <3>1
    <3> QED BY <1>5, <2>4, <3>2, <3>3, StaysWithdrawn DEF EndpointMidway
  <2> QED BY <1>5, <1>6, <2>1, <2>2, <2>3, <2>4 DEF EndpointMidway
<1>7. Midway(f, told, held, packet, n + 1) /\ (HostKnown(e) => HostKnown(f))
  <2> HIDE DEF f
  <2> QED BY <1>5, <1>6, TextStays DEF Midway, Hears, HostKnown
<1> QED BY <1>7 DEF f, held, given, there

-----------------------------------------------------------------------------
\* A search while a packet is applied to it.
Known(search) == /\ DOMAIN search.addresses = Hosts
                 /\ \A d \in Discovered : HostKnown(search.discovered[d])

Midst(search, told, packet, n) ==
    /\ Known(search)
    /\ \A d \in Discovered : Midway(search.discovered[d], told, search.addresses, packet, n)

LEMMA RevisedMidst ==
    ASSUME NEW known, DOMAIN known = {"search", "live"}, SearchInv(known.search),
           NEW told, NEW packet, NEW n \in Nat, Midst(known.search, told, packet, n),
           NEW discovered, DOMAIN discovered = Discovered,
           \A d \in Discovered :
              \/ discovered[d] = known.search.discovered[d]
              \/ /\ HostKnown(known.search.discovered[d]) => HostKnown(discovered[d])
                 /\ Midway(discovered[d], told, known.search.addresses, packet, n + 1)
    PROVE  Midst([known EXCEPT !.search.discovered = discovered].search, told, packet, n + 1)
<1> DEFINE after == [known.search EXCEPT !.discovered = discovered]
<1>1. [known EXCEPT !.search.discovered = discovered].search = after
  OBVIOUS
<1>2. after.discovered = discovered /\ after.addresses = known.search.addresses
  BY DEF SearchInv, NoSearch
<1> HIDE DEF after
<1>3. ASSUME NEW d \in Discovered
      PROVE  HostKnown(discovered[d]) /\ Midway(discovered[d], told, known.search.addresses, packet, n + 1)
  BY EntryStays DEF Midst, Known
<1>4. Midst(after, told, packet, n + 1)
  BY <1>2, <1>3 DEF Midst, Known
<1> QED BY <1>1, <1>4

LEMMA WithEntryMidst ==
    ASSUME NEW search, SearchInv(search), NEW ids, NEW name, NEW id \in Ids \cup {0},
           NEW told, NEW packet, NEW n \in Nat, Midst(search, told, packet, n)
    PROVE  LET more == WithEntry([search |-> search, live |-> ids], name, id)
           IN  /\ DOMAIN more = {"search", "live"} /\ SearchInv(more.search)
               /\ Midst(more.search, told, packet, n)
<1> DEFINE unused == {d \in Discovered : search.discovered[d].id = 0}
           known == [search |-> search, live |-> ids]
           more == WithEntry(known, name, id)
           e == [Blank EXCEPT !.instance = name, !.id = id]
           after == [search EXCEPT !.discovered = [@ EXCEPT ![Min(unused)] = e]]
<1>1. DOMAIN more = {"search", "live"} /\ SearchInv(more.search)
  <2>1. Outcome(search, ids, id, more)
    BY WithEntryIs
  <2> HIDE DEF more
  <2> QED BY <2>1 DEF Outcome, Identical, Joined
<1>2. more.search = search \/ more.search = after
  BY DEF WithEntry
<1>3. e.notified = FALSE /\ e.port = 0
  BY DEF Blank
<1> HIDE DEF e, more
<1>4. Midst(after, told, packet, n)
  <2>1. /\ after.addresses = search.addresses
        /\ \A d \in Discovered : after.discovered[d] \in {search.discovered[d], e}
    BY DEF SearchInv, NoSearch
  <2> HIDE DEF after
  <2>2. HostKnown(e) /\ Midway(e, told, search.addresses, packet, n)
    BY <1>3 DEF HostKnown, Midway
  <2> QED BY <2>1, <2>2 DEF Midst, Known
<1> HIDE DEF after
<1>5. Midst(more.search, told, packet, n)
  BY <1>2, <1>4
<1> QED BY <1>1, <1>5 DEF more

LEMMA AppliedMidst ==
    ASSUME NEW search, SearchInv(search), NEW ids, NEW id \in Ids \cup {0},
           NEW told, NEW packet, Orderly(packet), NEW n \in Nat, n \in DOMAIN packet,
           Midst(search, told, packet, n)
    PROVE  Midst(Applied([search |-> search, live |-> ids], packet[n], id).search, told, packet, n + 1)
<1> DEFINE known == [search |-> search, live |-> ids]
           record == packet[n]
           more == WithEntry(known, record.name, id)
<1>1. DOMAIN known = {"search", "live"} /\ known.search = search
  OBVIOUS
<1>2. DOMAIN more = {"search", "live"} /\ SearchInv(more.search) /\ Midst(more.search, told, packet, n)
  BY WithEntryMidst
<1> HIDE DEF more, known
<1>3. ASSUME NEW state, state \in {known, more}, NEW d \in Discovered
      PROVE  LET e == state.search.discovered[d]
             IN  /\ DOMAIN e = DOMAIN Blank
                 /\ Midway(e, told, state.search.addresses, packet, n)
  BY <1>1, <1>2, <1>3 DEF Midst, SearchInv, EntryInv
<1>4. CASE record.kind = "ptr"
  <2> DEFINE gone == [d \in Discovered |->
                         IF known.search.discovered[d].id # 0 /\ known.search.discovered[d].instance = record.name
                         THEN [known.search.discovered[d] EXCEPT !.ptr = FALSE, !.remove = TRUE]
                         ELSE known.search.discovered[d]]
             there == [d \in Discovered |->
                         IF more.search.discovered[d].id # 0 /\ more.search.discovered[d].instance = record.name
                         THEN [more.search.discovered[d] EXCEPT !.ptr = TRUE, !.remove = FALSE]
                         ELSE more.search.discovered[d]]
  <2>1. Midst([known EXCEPT !.search.discovered = gone].search, told, packet, n + 1)
    <3>1. DOMAIN gone = Discovered
      OBVIOUS
    <3>2. ASSUME NEW d \in Discovered
          PROVE  \/ gone[d] = known.search.discovered[d]
                 \/ /\ HostKnown(known.search.discovered[d]) => HostKnown(gone[d])
                    /\ Midway(gone[d], told, known.search.addresses, packet, n + 1)
      <4>1. \/ gone[d] = known.search.discovered[d]
            \/ gone[d] = [known.search.discovered[d] EXCEPT !.ptr = FALSE, !.remove = TRUE]
        OBVIOUS
      <4> DEFINE e == known.search.discovered[d]
      <4>2. DOMAIN e = DOMAIN Blank /\ Midway(e, told, known.search.addresses, packet, n)
        BY <1>3
      <4> HIDE DEF gone, e
      <4>3. LET f == [e EXCEPT !.ptr = FALSE, !.remove = TRUE]
            IN  Midway(f, told, known.search.addresses, packet, n + 1) /\ (HostKnown(e) => HostKnown(f))
        BY <4>2, PtrMidway
      <4> QED BY <4>1, <4>3 DEF e
    <3> HIDE DEF gone
    <3> QED BY <1>1, <3>1, <3>2, RevisedMidst
  <2>2. Midst([more EXCEPT !.search.discovered = there].search, told, packet, n + 1)
    <3>1. DOMAIN there = Discovered
      OBVIOUS
    <3>2. ASSUME NEW d \in Discovered
          PROVE  \/ there[d] = more.search.discovered[d]
                 \/ /\ HostKnown(more.search.discovered[d]) => HostKnown(there[d])
                    /\ Midway(there[d], told, more.search.addresses, packet, n + 1)
      <4>1. \/ there[d] = more.search.discovered[d]
            \/ there[d] = [more.search.discovered[d] EXCEPT !.ptr = TRUE, !.remove = FALSE]
        OBVIOUS
      <4> DEFINE e == more.search.discovered[d]
      <4>2. DOMAIN e = DOMAIN Blank /\ Midway(e, told, more.search.addresses, packet, n)
        BY <1>3
      <4> HIDE DEF there, e
      <4>3. LET f == [e EXCEPT !.ptr = TRUE, !.remove = FALSE]
            IN  Midway(f, told, more.search.addresses, packet, n + 1) /\ (HostKnown(e) => HostKnown(f))
        BY <4>2, PtrMidway
      <4> QED BY <4>1, <4>3 DEF e
    <3> HIDE DEF there
    <3> QED BY <1>2, <3>1, <3>2, RevisedMidst
  <2>3. Applied(known, record, id) = IF record.gone THEN [known EXCEPT !.search.discovered = gone]
                                     ELSE [more EXCEPT !.search.discovered = there]
    BY <1>4 DEF Applied, ApplyPtr, Revised, more
  <2> HIDE DEF gone, there
  <2> QED BY <2>1, <2>2, <2>3 DEF known
<1>5. CASE record.kind \in {"srv", "txt"}
  <2> DEFINE removal(e) == IF record.kind = "srv" THEN [e EXCEPT !.port = 0] ELSE [e EXCEPT !.text = 0]
             revision(e) == IF record.kind = "srv" THEN Endpoint(e, record, known.search.addresses)
                            ELSE IF record.text = 0 THEN e
                            ELSE [e EXCEPT !.txtChanged = @ \/ e.text \notin {0, record.text},
                                           !.text = record.text]
             gone == [d \in Discovered |->
                         IF known.search.discovered[d].id # 0 /\ known.search.discovered[d].instance = record.name
                         THEN removal(known.search.discovered[d]) ELSE known.search.discovered[d]]
             there == [d \in Discovered |->
                         IF more.search.discovered[d].id # 0 /\ more.search.discovered[d].instance = record.name
                         THEN revision(more.search.discovered[d]) ELSE more.search.discovered[d]]
  <2>1. ASSUME NEW e, DOMAIN e = DOMAIN Blank, e.instance = record.name,
               Midway(e, told, known.search.addresses, packet, n)
        PROVE  LET f == IF record.gone THEN removal(e) ELSE revision(e)
               IN  (HostKnown(e) => HostKnown(f)) /\ Midway(f, told, known.search.addresses, packet, n + 1)
    <3>1. CASE record.kind = "srv"
      BY <2>1, <3>1, SrvMidway
    <3>2. CASE record.kind = "txt"
      BY <2>1, <3>2, TxtMidway
    <3> QED BY <1>5, <3>1, <3>2
  <2>2. more.search.addresses = known.search.addresses
    BY DEF WithEntry, more, known, SearchInv, NoSearch
  <2> HIDE DEF removal, revision
  <2>3. CASE record.gone
    <3>1. DOMAIN gone = Discovered
      OBVIOUS
    <3>2. ASSUME NEW d \in Discovered
          PROVE  \/ gone[d] = known.search.discovered[d]
                 \/ /\ HostKnown(known.search.discovered[d]) => HostKnown(gone[d])
                    /\ Midway(gone[d], told, known.search.addresses, packet, n + 1)
      <4> DEFINE e == known.search.discovered[d]
      <4>1. \/ gone[d] = e
            \/ e.instance = record.name /\ gone[d] = removal(e)
        OBVIOUS
      <4>2. DOMAIN e = DOMAIN Blank /\ Midway(e, told, known.search.addresses, packet, n)
        BY <1>3
      <4> HIDE DEF gone, e
      <4>3. \/ gone[d] = e
            \/ (HostKnown(e) => HostKnown(gone[d])) /\ Midway(gone[d], told, known.search.addresses, packet, n + 1)
        BY <2>1, <2>3, <4>1, <4>2
      <4> QED BY <4>3 DEF e
    <3> HIDE DEF gone
    <3>3. Midst([known EXCEPT !.search.discovered = gone].search, told, packet, n + 1)
      BY <1>1, <3>1, <3>2, RevisedMidst
    <3>4. Applied(known, record, id) = [known EXCEPT !.search.discovered = gone]
      BY <1>5, <2>3 DEF Applied, ApplyService, Revised, gone, removal
    <3> QED BY <3>3, <3>4 DEF known
  <2>4. CASE ~record.gone
    <3>1. DOMAIN there = Discovered
      OBVIOUS
    <3>2. ASSUME NEW d \in Discovered
          PROVE  \/ there[d] = more.search.discovered[d]
                 \/ /\ HostKnown(more.search.discovered[d]) => HostKnown(there[d])
                    /\ Midway(there[d], told, more.search.addresses, packet, n + 1)
      <4> DEFINE e == more.search.discovered[d]
      <4>1. \/ there[d] = e
            \/ e.instance = record.name /\ there[d] = revision(e)
        OBVIOUS
      <4>2. DOMAIN e = DOMAIN Blank /\ Midway(e, told, known.search.addresses, packet, n)
        BY <1>3, <2>2
      <4> HIDE DEF there, e
      <4>3. \/ there[d] = e
            \/ (HostKnown(e) => HostKnown(there[d])) /\ Midway(there[d], told, known.search.addresses, packet, n + 1)
        BY <2>1, <2>4, <4>1, <4>2
      <4> QED BY <2>2, <4>3 DEF e
    <3> HIDE DEF there
    <3>3. Midst([more EXCEPT !.search.discovered = there].search, told, packet, n + 1)
      BY <1>2, <3>1, <3>2, RevisedMidst
    <3>4. Applied(known, record, id) = [more EXCEPT !.search.discovered = there]
      BY <1>5, <2>4 DEF Applied, ApplyService, Revised, there, revision, more
    <3> QED BY <3>3, <3>4 DEF known
  <2> QED BY <2>3, <2>4
<1>6. CASE record.kind = "a"
  <2> DEFINE applied == [known EXCEPT !.search.addresses = Held(@, record)]
             now == [d \in Discovered |->
                         IF applied.search.discovered[d].id # 0 /\ There(applied.search.discovered[d], record)
                         THEN Addressed(applied.search.discovered[d], record) ELSE applied.search.discovered[d]]
             after == [[search EXCEPT !.addresses = Held(@, record)] EXCEPT !.discovered = now]
  <2>1. /\ applied.search = [search EXCEPT !.addresses = Held(@, record)]
        /\ applied.search.discovered = search.discovered
    BY DEF known, SearchInv, NoSearch
  <2>2. \/ Applied(known, record, id) = known
        \/ Applied(known, record, id) = [applied EXCEPT !.search.discovered = now]
    BY <1>6 DEF Applied, ApplyAddress, Revised, Held, There, Addressed, Given
  <2>3. [applied EXCEPT !.search.discovered = now].search = after
    BY <2>1 DEF known
  <2>4. after.addresses = Held(search.addresses, record) /\ after.discovered = now
    BY DEF SearchInv, NoSearch
  <2>5. ASSUME NEW d \in Discovered
        PROVE  HostKnown(now[d]) /\ Midway(now[d], told, Held(search.addresses, record), packet, n + 1)
    <3> DEFINE e == search.discovered[d]
               f == IF There(e, record) THEN Addressed(e, record) ELSE e
    <3>1. DOMAIN e = DOMAIN Blank /\ Midway(e, told, search.addresses, packet, n) /\ HostKnown(e)
      BY DEF Midst, Known, SearchInv, EntryInv
    <3>2. HostKnown(f) /\ Midway(f, told, Held(search.addresses, record), packet, n + 1)
      BY <1>6, <3>1, AddressMidway DEF Midst, Known
    <3>3. e.id = 0 => f = e
      BY DEF SearchInv, EntryInv, There
    <3>4. now[d] = IF e.id # 0 /\ There(e, record) THEN Addressed(e, record) ELSE e
      <4> HIDE DEF applied
      <4> QED BY <2>1
    <3>5. now[d] = f
      BY <3>3, <3>4
    <3> HIDE DEF f, now
    <3> QED BY <3>2, <3>5
  <2>6. Midst(after, told, packet, n + 1)
    <3>1. DOMAIN Held(search.addresses, record) = Hosts
      BY DEF Midst, Known, Held
    <3> HIDE DEF after, now
    <3> QED BY <2>4, <2>5, <3>1 DEF Midst, Known
  <2>7. Midst(search, told, packet, n + 1)
    BY EntryStays DEF Midst
  <2> HIDE DEF applied, now, after
  <2> QED BY <1>1, <2>2, <2>3, <2>6, <2>7 DEF known
<1> QED BY <1>4, <1>5, <1>6 DEF Orderly

-----------------------------------------------------------------------------
\* From one stage of the pump to the next.

LEMMA RightIsMidway ==
    ASSUME NEW e, NEW told, Right(e, told), HostKnown(e), NEW addresses, NEW packet, NEW n
    PROVE  Midway(e, told, addresses, packet, n)
<1> SUFFICES ASSUME e.notified PROVE Midway(e, told, addresses, packet, n)
  BY DEF Midway
<1> DEFINE v == told[e.id].view
<1>1. Complete(e) /\ told[e.id].state = "here" /\ v = View(e)
  BY DEF Right
<1>2. v.host = e.host /\ v.port = e.port /\ v.text = e.text /\ v.ipv4 = e.ipv4
      /\ v = [host |-> v.host, port |-> v.port, text |-> v.text, ipv4 |-> v.ipv4]
  BY <1>1 DEF View
<1>3. IsView(v)
  BY <1>1, <1>2 DEF IsView, Complete, HostKnown
<1> HIDE DEF v
<1>4. EndpointMidway(e, v, addresses, packet, n) /\ TextMidway(e, v, packet, n)
  BY <1>2 DEF EndpointMidway, TextMidway
<1> QED BY <1>1, <1>3, <1>4 DEF Midway, Hears, v

LEMMA MidwayIsPending ==
    ASSUME NEW e, NEW told, NEW addresses, NEW packet, NEW n, Midway(e, told, addresses, packet, n)
    PROVE  Pending(e, told)
<1> SUFFICES ASSUME e.notified, ~MustLose(e) PROVE Pending(e, told)
  BY DEF Midway, Pending
<1>1. ~e.endpointChanged /\ Complete(e)
  BY DEF MustLose
<1> QED BY <1>1 DEF Midway, EndpointMidway, TextMidway, Pending, Complete

\* The entry says what the game sees of it.
LEMMA SeenAsIs ==
    ASSUME NEW e, NEW v, IsView(v), e.host = v.host, e.port = v.port, e.ipv4 = v.ipv4
    PROVE  [v EXCEPT !.text = e.text] = View(e) /\ (e.text = v.text => v = View(e))
  BY DEF IsView, View

LEMMA PendingIsRight ==
    ASSUME NEW e, NEW told, Pending(e, told), e.notified, ~MustLose(e), ~e.txtChanged
    PROVE  Right(e, told)
<1>1. Complete(e) /\ ~e.endpointChanged
  BY DEF MustLose
<1>2. told[e.id].view = View(e) /\ told[e.id].state = "here"
  BY SeenAsIs DEF Pending, Hears
<1> QED BY <1>1, <1>2 DEF Right

LEMMA BlankIsRight == \A told : Right(Blank, told) /\ HostKnown(Blank)
  BY DEF Right, HostKnown, Complete, Blank

LEMMA SettledIs ==
    ASSUME NEW e, DOMAIN e = DOMAIN Blank
    PROVE  LET f == Settled(e)
           IN  /\ f.id = e.id /\ f.notified = e.notified /\ f.endpointChanged = FALSE /\ f.txtChanged = FALSE
               /\ Complete(f) = Complete(e) /\ View(f) = View(e) /\ (HostKnown(e) => HostKnown(f))
<1> DEFINE f == Settled(e)
<1>1. /\ f.id = e.id /\ f.notified = e.notified /\ f.endpointChanged = FALSE /\ f.txtChanged = FALSE
      /\ f.ptr = e.ptr /\ f.port = e.port /\ f.text = e.text /\ f.ipv4 = e.ipv4 /\ f.host = e.host
  BY DEF Blank, Settled
<1> HIDE DEF f
<1>2. Complete(f) = Complete(e) /\ View(f) = View(e) /\ (HostKnown(e) => HostKnown(f))
  BY <1>1 DEF Complete, View, HostKnown
<1> QED BY <1>1, <1>2 DEF f

JustTold(e, told) == /\ e.notified /\ Complete(e)
                     /\ told[e.id].state = "here" /\ told[e.id].view = View(e)

LEMMA SettledIsRight ==
    ASSUME NEW e, DOMAIN e = DOMAIN Blank, NEW told,
           JustTold(e, told) \/ (~e.notified /\ ~Complete(e))
    PROVE  Right(Settled(e), told)
<1> DEFINE f == Settled(e)
<1>1. /\ f.id = e.id /\ f.notified = e.notified /\ f.endpointChanged = FALSE /\ f.txtChanged = FALSE
      /\ Complete(f) = Complete(e) /\ View(f) = View(e)
  BY SettledIs
<1> HIDE DEF f
<1>2. Right(f, told)
  BY <1>1 DEF Right, JustTold
<1> QED BY <1>2 DEF f

\* What was heard of it is all that matters of the history.
LEMMA SameHeard ==
    ASSUME NEW e, NEW told, NEW now, e.notified => now[e.id] = told[e.id]
    PROVE  /\ Right(e, told) => Right(e, now)
           /\ Pending(e, told) => Pending(e, now)
           /\ \A addresses, packet, n : Midway(e, told, addresses, packet, n) => Midway(e, now, addresses, packet, n)
           /\ JustTold(e, told) => JustTold(e, now)
<1>1. Right(e, told) => Right(e, now)
  BY DEF Right
<1>2. Pending(e, told) => Pending(e, now)
  BY DEF Pending, Hears
<1>3. ASSUME NEW addresses, NEW packet, NEW n, Midway(e, told, addresses, packet, n)
      PROVE  Midway(e, now, addresses, packet, n)
  BY <1>3 DEF Midway, Hears
<1>4. JustTold(e, told) => JustTold(e, now)
  BY DEF JustTold
<1> QED BY <1>1, <1>2, <1>3, <1>4

LEMMA ExpiredPending ==
    ASSUME NEW search, SearchInv(search), Known(search), NEW told,
           \A d \in Discovered : Right(search.discovered[d], told), NEW records, NEW hosts
    PROVE  LET after == Expired(search, records, hosts)
           IN  Known(after) /\ \A d \in Discovered : Pending(after.discovered[d], told)
<1> DEFINE addresses == [h \in Hosts |-> IF h \in hosts THEN 0 ELSE search.addresses[h]]
           ptr(d) == search.discovered[d].ptr /\ "ptr" \notin records[d]
           port(d) == IF "srv" \in records[d] THEN 0 ELSE search.discovered[d].port
           text(d) == IF "txt" \in records[d] THEN 0 ELSE search.discovered[d].text
           expired(d) == [search.discovered[d] EXCEPT
                             !.ptr = ptr(d), !.port = port(d), !.text = text(d),
                             !.ipv4 = IF search.discovered[d].host \in hosts THEN 0 ELSE @,
                             !.remove = \/ @ \/ (search.discovered[d].ptr /\ ~ptr(d))
                                        \/ (~ptr(d) /\ port(d) = 0 /\ text(d) = 0)]
           discovered == [d \in Discovered |-> IF search.discovered[d].id = 0 THEN search.discovered[d]
                                               ELSE expired(d)]
           after == [search EXCEPT !.addresses = addresses, !.discovered = discovered]
<1>1. Expired(search, records, hosts) = after
  BY DEF Expired
<1>2. after.addresses = addresses /\ after.discovered = discovered /\ DOMAIN addresses = Hosts
  BY DEF SearchInv, NoSearch
<1>3. ASSUME NEW d \in Discovered
      PROVE  HostKnown(discovered[d]) /\ Pending(discovered[d], told)
  <2> DEFINE e == search.discovered[d]
             f == expired(d)
  <2>1. Right(e, told) /\ HostKnown(e) /\ DOMAIN e = DOMAIN Blank
    BY DEF Known, SearchInv, EntryInv
  <2>2. /\ f.id = e.id /\ f.notified = e.notified /\ f.host = e.host
        /\ f.port \in {0, e.port} /\ f.text \in {0, e.text} /\ f.ipv4 \in {0, e.ipv4}
        /\ f.endpointChanged = e.endpointChanged /\ f.txtChanged = e.txtChanged
    BY <2>1 DEF Blank
  <2>3. discovered[d] \in {e, f}
    OBVIOUS
  <2>4. Midway(e, told, <<>>, <<>>, 1)
    BY <2>1, RightIsMidway
  <2> HIDE DEF e, f
  <2>5. Pending(e, told)
    BY <2>4, MidwayIsPending
  <2>6. HostKnown(f) /\ Pending(f, told)
    <3>1. HostKnown(f)
      BY <2>1, <2>2 DEF HostKnown
    <3>2. CASE ~f.notified \/ MustLose(f)
      BY <2>2, <2>5, <3>1, <3>2 DEF Pending, Hears
    <3>3. CASE f.notified /\ ~MustLose(f)
      <4>1. f.port = e.port /\ f.text = e.text /\ f.ipv4 = e.ipv4
        BY <2>2, <3>3 DEF MustLose, Complete
      <4>2. told[e.id].view = View(e) /\ Hears(e, told)
        BY <2>1, <2>2, <2>5, <3>3 DEF Right, Pending
      <4>3. told[e.id].view.host = e.host /\ told[e.id].view.port = e.port
            /\ told[e.id].view.text = e.text /\ told[e.id].view.ipv4 = e.ipv4
        BY <4>2 DEF View
      <4> QED BY <2>2, <2>5, <3>1, <3>3, <4>1, <4>2, <4>3 DEF Pending, Hears
    <3> QED BY <3>1, <3>2, <3>3
  <2> HIDE DEF discovered
  <2> QED BY <2>1, <2>3, <2>5, <2>6
<1> HIDE DEF after, discovered, addresses
<1>4. Known(after) /\ \A d \in Discovered : Pending(after.discovered[d], told)
  BY <1>2, <1>3 DEF Known
<1> QED BY <1>1, <1>4

-----------------------------------------------------------------------------
\* What the game sees of an entry, by where the pump is: the search at hand takes a
\* packet, has come to an entry, or is done with it.
ViewAt(all, at, told, s, d) ==
    LET e == all[s].discovered[d]
        here == s = at.search /\ at.entry # 0 /\ all[s].gen = at.gen
    IN  IF s = at.search /\ at.entry = 0 /\ at.stage = "packet"
        THEN Midway(e, told, all[s].addresses, at.packet, at.record)
        ELSE IF here /\ (d > at.entry \/ (d = at.entry /\ at.phase = "look")) THEN Pending(e, told)
        ELSE IF here /\ d = at.entry THEN at.phase = "told" => JustTold(e, told)
        ELSE Right(e, told)

\* A search whose game is told of everything.
Watched(all, s) == all[s].gen # 0 /\ all[s].callbacks = Kinds

PlaceInv(at) == at.record \in Nat /\ (at.stage = "packet" => Orderly(at.packet))

Views(all, at, told) ==
    /\ PlaceInv(at)
    /\ at.entry # 0 /\ at.phase = "look" => all[at.search].gen = at.gen
    /\ \A s \in Searches : Watched(all, s) =>
          Known(all[s]) /\ \A d \in Discovered : ViewAt(all, at, told, s, d)

ViewInv == Views(searches, work, heard)

AllRight(all, told) ==
    \A s \in Searches : Watched(all, s) =>
       Known(all[s]) /\ \A d \in Discovered : Right(all[s].discovered[d], told)

\* The pump goes on to a search, or out of the searches.
LEMMA RightAnywhere ==
    ASSUME NEW all, NEW at, NEW told, AllRight(all, told), PlaceInv(at), at.entry = 0
    PROVE  Views(all, at, told)
<1>1. ASSUME NEW s \in Searches, Watched(all, s), NEW d \in Discovered
      PROVE  ViewAt(all, at, told, s, d)
  <2> DEFINE e == all[s].discovered[d]
  <2>1. Right(e, told) /\ HostKnown(e)
    BY <1>1 DEF AllRight, Known
  <2> HIDE DEF e
  <2>2. Midway(e, told, all[s].addresses, at.packet, at.record)
    BY <2>1, RightIsMidway
  <2> QED BY <2>1, <2>2 DEF ViewAt, e
<1> QED BY <1>1 DEF AllRight, Views

\* An entry the game was told of holds its identity, and no other entry does.
LEMMA NotifiedIs ==
    ASSUME IInv, NEW s \in Searches, NEW d \in Discovered, searches[s].discovered[d].notified
    PROVE  /\ searches[s].discovered[d].id \in (Ids \cap live) \ Kept
           /\ \A t \in Searches, o \in Discovered :
                 t # s \/ o # d => searches[t].discovered[o].id # searches[s].discovered[d].id
<1>1. EntryInv(searches[s].discovered[d])
  BY DEF IInv, Consistent, SearchesInv, SearchInv
<1>2. searches[s].discovered[d].id # 0
  BY <1>1 DEF EntryInv
<1>3. Accounted(searches, live, Kept)
  BY DEF IInv, Consistent
<1> QED BY <1>2, <1>3 DEF Accounted

\* What the game sees of an entry stays while nothing is heard of it.
LEMMA ViewStays ==
    ASSUME NEW all, NEW at, NEW told, NEW s, NEW d, ViewAt(all, at, told, s, d),
           NEW other, other[s] = all[s], NEW now,
           all[s].discovered[d].notified => now[all[s].discovered[d].id] = told[all[s].discovered[d].id]
    PROVE  ViewAt(other, at, now, s, d)
<1> DEFINE e == all[s].discovered[d]
<1>1. /\ Right(e, told) => Right(e, now)
      /\ Pending(e, told) => Pending(e, now)
      /\ \A addresses, packet, n : Midway(e, told, addresses, packet, n) => Midway(e, now, addresses, packet, n)
      /\ JustTold(e, told) => JustTold(e, now)
  BY SameHeard
<1> QED BY <1>1 DEF ViewAt

LEMMA ViewFreed ==
    ASSUME IInv, NEW free, Freed(free), NEW s \in Searches, NEW d \in Discovered,
           searches[s].discovered[d].notified => searches[s].discovered[d].id \notin free
    PROVE  searches[s].discovered[d].notified =>
              heard'[searches[s].discovered[d].id] = heard[searches[s].discovered[d].id]
  BY NotifiedIs DEF Freed, Past

LEMMA ViewInit == Init => ViewInv
<1> SUFFICES ASSUME Init PROVE ViewInv
  OBVIOUS
<1>1. \A s \in Searches : searches[s].gen = 0
  BY DEF Init, NoSearch
<1>2. PlaceInv(work) /\ work.entry = 0
  BY DEF Init, Idle, PlaceInv
<1> QED BY <1>1, <1>2 DEF ViewInv, Views, Watched

\* Where no search is at hand, all of them are done.
LEMMA AllAreRight ==
    ASSUME IInv, ViewInv,
           \/ work.entry = 0 /\ (work.stage # "packet" \/ ~InUse(work.search))
           \/ work.entry # 0 /\ (Restarted \/ work.entry > DiscoveredCount)
    PROVE  AllRight(searches, heard)
<1>1. ASSUME NEW s \in Searches, Watched(searches, s), NEW d \in Discovered
      PROVE  Right(searches[s].discovered[d], heard)
  <2>1. ViewAt(searches, work, heard, s, d)
    BY <1>1 DEF ViewInv, Views
  <2>2. ~(s = work.search /\ work.entry = 0 /\ work.stage = "packet")
    BY <1>1 DEF Watched, InUse
  <2>3. ~(/\ s = work.search /\ work.entry # 0 /\ searches[s].gen = work.gen
          /\ d > work.entry \/ d = work.entry)
    BY DEF Restarted, Discovered, IInv, WorkInv
  <2> QED BY <2>1, <2>2, <2>3 DEF ViewAt
<1> QED BY <1>1 DEF ViewInv, Views, AllRight

LEMMA ViewGoingOn ==
    ASSUME IInv, ViewInv, \A packet \in Packets : Orderly(InOrder(packet)),
           \/ PumpBegin \/ Expire \/ NextSearch \/ \E packet \in Packets : Receive(packet)
    PROVE  ViewInv'
<1>1. UNCHANGED <<searches, heard>>
  BY DEF PumpBegin, Expire, NextSearch, Receive
<1>2. AllRight(searches, heard)
  <2>1. work.stage \in {"idle", "receive"} => work.entry = 0
    BY DEF IInv, WorkInv
  <2>2. work.entry > DiscoveredCount => work.entry # 0
    OBVIOUS
  <2> QED BY <2>1, <2>2, AllAreRight DEF PumpBegin, Expire, NextSearch, Receive, SearchDone
<1>3. PlaceInv(work') /\ work'.entry = 0
  <2>1. DOMAIN work = DOMAIN Idle /\ PlaceInv(work)
    BY DEF IInv, WorkInv, ViewInv, Views
  <2>2. CASE PumpBegin \/ Expire \/ \E packet \in Packets : Receive(packet)
    <3>1. work.entry = 0
      BY <2>2 DEF PumpBegin, Expire, Receive, IInv, WorkInv
    <3>2. /\ work'.record = work.record /\ work'.entry = 0
          /\ work'.stage = "packet" => \E packet \in Packets : work'.packet = InOrder(packet)
      BY <2>1, <2>2, <3>1 DEF PumpBegin, Expire, Receive, Idle
    <3> QED BY <2>1, <3>2 DEF PlaceInv
  <2>3. CASE NextSearch
    <3>1. work' = Onward
      BY <2>3 DEF NextSearch
    <3>2. /\ work'.record = 1 /\ work'.entry = 0
          /\ work'.stage = "packet" => work.stage = "packet" /\ work'.packet = work.packet
      BY <3>1 DEF Onward, Idle
    <3> QED BY <2>1, <3>2 DEF PlaceInv
  <2> QED BY <2>2, <2>3
<1>4. Views(searches', work', heard')
  BY <1>1, <1>2, <1>3, RightAnywhere
<1> QED BY <1>4 DEF ViewInv

\* The packet has been applied to the search, or its records have expired.
LEMMA ViewDispatch ==
    ASSUME IInv, ViewInv, Dispatch
    PROVE  ViewInv'
<1>1. /\ work.entry = 0 /\ work.stage = "packet" /\ UNCHANGED <<searches, heard>>
      /\ work' = [work EXCEPT !.entry = 1, !.gen = searches[work.search].gen]
  BY DEF Dispatch, Applying, Working, Begin
<1>2. /\ work'.entry = 1 /\ work'.gen = searches[work.search].gen /\ work'.phase = work.phase
      /\ work'.search = work.search /\ work'.stage = work.stage
      /\ work'.packet = work.packet /\ work'.record = work.record
  BY <1>1 DEF IInv, WorkInv, Idle
<1>3. work.phase = "look"
  BY <1>1 DEF IInv, WorkInv, Discovered
<1>4. ASSUME NEW s \in Searches, Watched(searches, s), NEW d \in Discovered
      PROVE  ViewAt(searches, work', heard, s, d)
  <2>1. ViewAt(searches, work, heard, s, d)
    BY <1>4 DEF ViewInv, Views
  <2>2. CASE s = work.search
    <3>1. Pending(searches[s].discovered[d], heard)
      BY <1>1, <2>1, <2>2, MidwayIsPending DEF ViewAt
    <3>2. d > 1 \/ d = 1
      BY DEF Discovered
    <3> QED BY <1>2, <1>3, <2>2, <3>1, <3>2 DEF ViewAt
  <2>3. CASE s # work.search
    BY <1>2, <2>1, <2>3 DEF ViewAt
  <2> QED BY <2>2, <2>3
<1>5. Views(searches, work', heard)
  BY <1>2, <1>4 DEF ViewInv, Views, PlaceInv
<1>6. Views(searches', work', heard')
  BY <1>1, <1>5
<1> QED BY <1>6 DEF ViewInv

LEMMA ViewApplyExpiry ==
    ASSUME IInv, ViewInv, ApplyExpiry
    PROVE  ViewInv'
<1> DEFINE w == work.search
<1>1. /\ work.entry = 0 /\ work.stage = "expire" /\ UNCHANGED heard
      /\ work' = [work EXCEPT !.entry = 1, !.gen = searches[w].gen] /\ w \in Searches
  BY DEF ApplyExpiry, Working, Begin, IInv, WorkInv
<1>2. PICK records, hosts : searches' = [searches EXCEPT ![w] = Expired(searches[w], records, hosts)]
  BY DEF ApplyExpiry
<1> DEFINE after == Expired(searches[w], records, hosts)
<1>3. /\ work'.entry = 1 /\ work'.gen = searches[w].gen /\ work'.phase = work.phase
      /\ work'.search = w /\ work'.stage = work.stage
      /\ work'.packet = work.packet /\ work'.record = work.record
  BY <1>1 DEF IInv, WorkInv, Idle
<1>4. work.phase = "look"
  BY <1>1 DEF IInv, WorkInv, Discovered
<1>5. AllRight(searches, heard)
  BY <1>1, AllAreRight
<1>6. SearchInv(searches[w])
  BY <1>1 DEF IInv, Consistent, SearchesInv
<1>7. Identical(searches[w], after)
  BY <1>6, ExpiredIs
<1>8. Watched(searches, w) => Known(after) /\ \A d \in Discovered : Pending(after.discovered[d], heard)
  <2>1. ASSUME Watched(searches, w)
        PROVE  Known(searches[w]) /\ \A d \in Discovered : Right(searches[w].discovered[d], heard)
    BY <2>1, <1>1, <1>5 DEF AllRight
  <2> HIDE DEF w
  <2> QED BY <2>1, <1>6, ExpiredPending
<1>9. searches' = [searches EXCEPT ![w] = after] /\ DOMAIN searches = Searches
  BY <1>2 DEF IInv, Consistent, SearchesInv
<1> HIDE DEF after, w
<1>10. searches'[w] = after /\ \A s \in Searches \ {w} : searches'[s] = searches[s]
  BY <1>1, <1>9
<1>11. ASSUME NEW s \in Searches, Watched(searches', s)
       PROVE  Known(searches'[s]) /\ \A d \in Discovered : ViewAt(searches', work', heard, s, d)
  <2>1. CASE s = w
    <3>1. Watched(searches, w)
      BY <1>7, <1>10, <1>11, <2>1 DEF Identical, Watched
    <3>2. Known(searches'[s]) /\ \A d \in Discovered : Pending(searches'[s].discovered[d], heard)
      BY <1>8, <1>10, <2>1, <3>1
    <3>3. searches'[s].gen = work'.gen
      BY <1>3, <1>7, <1>10, <2>1 DEF Identical
    <3>4. \A d \in Discovered : d > 1 \/ d = 1
      BY DEF Discovered
    <3> QED BY <1>3, <1>4, <2>1, <3>2, <3>3, <3>4 DEF ViewAt
  <2>2. CASE s # w
    <3>1. Watched(searches, s) /\ searches'[s] = searches[s]
      BY <1>10, <1>11, <2>2 DEF Watched
    <3>2. Known(searches[s]) /\ \A d \in Discovered : Right(searches[s].discovered[d], heard)
      BY <1>5, <3>1 DEF AllRight
    <3> QED BY <1>3, <2>2, <3>1, <3>2 DEF ViewAt
  <2> QED BY <2>1, <2>2
<1>12. searches'[w].gen = work'.gen
  BY <1>3, <1>7, <1>10 DEF Identical
<1>13. Views(searches', work', heard)
  BY <1>3, <1>11, <1>12 DEF ViewInv, Views, PlaceInv
<1>14. Views(searches', work', heard')
  BY <1>1, <1>13
<1> QED BY <1>14 DEF ViewInv

\* A record is applied to the search at hand.
LEMMA ViewApply ==
    ASSUME IInv, ViewInv, Apply
    PROVE  ViewInv'
<1> DEFINE w == work.search
<1>1. /\ w \in Searches /\ Resting /\ work.entry = 0 /\ work.stage = "packet"
      /\ work.record \in DOMAIN work.packet
      /\ work' = [work EXCEPT !.record = @ + 1] /\ UNCHANGED heard
  BY DEF Apply, Applying, Working, Resting, IInv, WorkInv, Discovered
<1>2. /\ work'.entry = 0 /\ work'.gen = work.gen /\ work'.phase = work.phase
      /\ work'.search = w /\ work'.stage = work.stage
      /\ work'.packet = work.packet /\ work'.record = work.record + 1
  BY <1>1 DEF IInv, WorkInv, Idle
<1>3. SearchInv(searches[w])
  BY <1>1 DEF IInv, Consistent, SearchesInv
<1>4. work.record \in Nat /\ Orderly(work.packet)
  BY <1>1 DEF ViewInv, Views, PlaceInv
<1> DEFINE known(id) == Applied([search |-> searches[w], live |-> live], work.packet[work.record], id)
<1>5. PICK id \in NewIds : searches' = [searches EXCEPT ![w] = known(id).search]
  BY DEF Apply
<1>6. id \in Ids \cup {0}
  BY <1>1, NewIdsAre
<1> DEFINE after == known(id).search
<1>7. after.gen = searches[w].gen /\ after.callbacks = searches[w].callbacks
  <2>1. Outcome(searches[w], live, id, known(id))
    BY <1>3, <1>6, AppliedIs
  <2> QED BY <2>1 DEF Outcome, Identical, Joined
<1>8. Watched(searches, w) => Midst(after, heard, work.packet, work.record + 1)
  <2>1. ASSUME Watched(searches, w) PROVE Midst(searches[w], heard, work.packet, work.record)
    BY <2>1, <1>1 DEF ViewInv, Views, ViewAt, Midst
  <2> HIDE DEF w
  <2> QED BY <2>1, <1>1, <1>3, <1>4, <1>6, AppliedMidst
<1>9. searches' = [searches EXCEPT ![w] = after] /\ DOMAIN searches = Searches
  BY <1>5 DEF IInv, Consistent, SearchesInv
<1> HIDE DEF known, after, w
<1>10. searches'[w] = after /\ \A s \in Searches \ {w} : searches'[s] = searches[s]
  BY <1>1, <1>9
<1>11. ASSUME NEW s \in Searches, Watched(searches', s)
       PROVE  Known(searches'[s]) /\ \A d \in Discovered : ViewAt(searches', work', heard, s, d)
  <2>1. CASE s = w
    <3>1. Watched(searches, w)
      BY <1>7, <1>10, <1>11, <2>1 DEF Watched
    <3>2. Midst(searches'[s], heard, work.packet, work.record + 1)
      BY <1>8, <1>10, <2>1, <3>1
    <3> QED BY <1>1, <1>2, <2>1, <3>2 DEF ViewAt, Midst
  <2>2. CASE s # w
    <3>1. Watched(searches, s) /\ searches'[s] = searches[s]
      BY <1>10, <1>11, <2>2 DEF Watched
    <3>2. Known(searches[s]) /\ \A d \in Discovered : ViewAt(searches, work, heard, s, d)
      BY <3>1 DEF ViewInv, Views
    <3> QED BY <1>2, <2>2, <3>1, <3>2 DEF ViewAt, w
  <2> QED BY <2>1, <2>2
<1>12. Views(searches', work', heard)
  BY <1>2, <1>4, <1>11 DEF Views, PlaceInv
<1>13. Views(searches', work', heard')
  BY <1>1, <1>12
<1> QED BY <1>13 DEF ViewInv

\* The slot it takes knows nothing, and is not the search at hand.
LEMMA ViewStart ==
    ASSUME IInv, ViewInv, NEW callbacks \in CallbackSets, StartSearch(callbacks)
    PROVE  ViewInv'
<1> DEFINE fresh == [NoSearch EXCEPT !.gen = started + 1, !.callbacks = callbacks]
           slot == Min({t \in Searches : ~InUse(t)})
<1>1. searches' = [searches EXCEPT ![slot] = fresh] /\ UNCHANGED <<work, heard>>
  BY DEF StartSearch
<1>2. /\ fresh.gen = started + 1 /\ fresh.discovered = [d \in Discovered |-> Blank]
      /\ fresh.addresses = [h \in Hosts |-> 0]
  BY DEF NoSearch
<1> HIDE DEF fresh, slot
<1>3. \A s \in Searches : searches'[s] = searches[s] \/ searches'[s] = fresh
  BY <1>1 DEF IInv, Consistent, SearchesInv
<1>4. work.phase # "look" \/ (work.entry = 0 /\ work.stage # "packet")
  BY DEF StartSearch, InGuest, IInv, WorkInv, CallInv
<1>5. work.phase # "look" => work.entry # 0 /\ work.gen # started + 1
  BY DEF IInv, WorkInv, StartedInv, Discovered
<1>6. ASSUME NEW s \in Searches, Watched(searches', s)
      PROVE  Known(searches'[s]) /\ \A d \in Discovered : ViewAt(searches', work, heard, s, d)
  <2>1. CASE searches'[s] = searches[s]
    <3>1. Watched(searches, s)
      BY <1>6, <2>1 DEF Watched
    <3>2. Known(searches[s]) /\ \A d \in Discovered : ViewAt(searches, work, heard, s, d)
      BY <3>1 DEF ViewInv, Views
    <3> QED BY <2>1, <3>2 DEF ViewAt
  <2>2. CASE searches'[s] = fresh
    <3>1. Known(fresh) /\ \A d \in Discovered : Right(fresh.discovered[d], heard)
      BY <1>2, BlankIsRight DEF Known
    <3> QED BY <1>2, <1>4, <1>5, <2>2, <3>1 DEF ViewAt
  <2> QED BY <1>3, <2>1, <2>2
<1>7. Views(searches', work, heard)
  BY <1>4, <1>6 DEF ViewInv, Views
<1>8. Views(searches', work', heard')
  BY <1>1, <1>7
<1> QED BY <1>8 DEF ViewInv

\* Nothing is heard any more of the identities of a search that is stopped, and of others no less.
LEMMA ViewStop ==
    ASSUME IInv, ViewInv, NEW s \in Searches, StopSearch(s)
    PROVE  ViewInv'
<1>1. searches' = [searches EXCEPT ![s] = NoSearch] /\ UNCHANGED work
  BY DEF StopSearch
<1>2. /\ searches'[s].gen = 0
      /\ \A t \in Searches \ {s} : searches'[t] = searches[t]
  BY <1>1 DEF NoSearch, IInv, Consistent, SearchesInv
<1>3. ASSUME NEW t \in Searches \ {s}, NEW d \in Discovered, searches[t].discovered[d].notified
      PROVE  heard'[searches[t].discovered[d].id] = heard[searches[t].discovered[d].id]
  <2>1. searches[t].discovered[d].id \notin IdsOf(searches[s])
    BY <1>3, NotifiedIs DEF IdsOf
  <2>2. CASE Freed(IdsOf(searches[s]))
    BY <1>3, <2>1, <2>2, ViewFreed
  <2>3. CASE UNCHANGED heard
    BY <2>3
  <2> QED BY <2>2, <2>3 DEF StopSearch, Retire
<1>4. ASSUME NEW t \in Searches, Watched(searches', t)
      PROVE  Known(searches'[t]) /\ \A d \in Discovered : ViewAt(searches', work, heard', t, d)
  <2>1. t # s /\ searches'[t] = searches[t]
    BY <1>2, <1>4 DEF Watched
  <2>2. Known(searches[t]) /\ \A d \in Discovered : ViewAt(searches, work, heard, t, d)
    BY <1>4, <2>1 DEF ViewInv, Views, Watched
  <2> QED BY <1>3, <2>1, <2>2, ViewStays
<1>5. work.entry = 0 \/ work.phase # "look"
  BY DEF StopSearch, InGuest, IInv, WorkInv, CallInv
<1>6. Views(searches', work, heard')
  BY <1>4, <1>5 DEF ViewInv, Views
<1>7. Views(searches', work', heard')
  BY <1>1, <1>6
<1> QED BY <1>7 DEF ViewInv

LEMMA ViewShutdown ==
    ASSUME IInv, ViewInv, Shutdown
    PROVE  ViewInv'
<1>1. \A s \in Searches : searches'[s].gen = 0
  BY DEF Shutdown, NoSearch
<1>2. work.entry = 0 /\ work' = work
  BY DEF Shutdown, IInv, WorkInv
<1>3. Views(searches', work, heard')
  BY <1>1, <1>2 DEF ViewInv, Views, Watched
<1>4. Views(searches', work', heard')
  BY <1>2, <1>3
<1> QED BY <1>4 DEF ViewInv

\* What is retired belongs to no entry.
LEMMA ViewReturn ==
    ASSUME IInv, ViewInv, CallbackReturn
    PROVE  ViewInv'
<1>1. searches' = searches /\ work' = [work EXCEPT !.calling = FALSE] /\ Freed(retired)
  BY DEF CallbackReturn
<1>2. /\ work'.entry = work.entry /\ work'.gen = work.gen /\ work'.phase = work.phase
      /\ work'.search = work.search /\ work'.stage = work.stage
      /\ work'.packet = work.packet /\ work'.record = work.record
  BY <1>1 DEF IInv, WorkInv, Idle
<1>3. ASSUME NEW s \in Searches, NEW d \in Discovered, ViewAt(searches, work, heard, s, d)
      PROVE  ViewAt(searches, work', heard', s, d)
  <2>1. searches[s].discovered[d].notified => searches[s].discovered[d].id \notin retired
    BY NotifiedIs DEF Kept
  <2>2. searches[s].discovered[d].notified =>
           heard'[searches[s].discovered[d].id] = heard[searches[s].discovered[d].id]
    BY <1>1, <2>1, ViewFreed
  <2>3. ViewAt(searches, work, heard', s, d)
    BY <1>3, <2>2, ViewStays
  <2> QED BY <1>2, <2>3 DEF ViewAt
<1>4. Views(searches, work', heard')
  BY <1>2, <1>3 DEF ViewInv, Views, PlaceInv
<1>5. Views(searches', work', heard')
  BY <1>1, <1>4
<1> QED BY <1>5 DEF ViewInv

\* The pump leaves a search that a callback stopped.
LEMMA ViewLeaves ==
    ASSUME IInv, ViewInv, work.entry # 0, Restarted, work' = Onward, searches' = searches,
           heard' = heard \/ Freed(Kept)
    PROVE  ViewInv'
<1>1. AllRight(searches, heard)
  BY AllAreRight
<1>2. AllRight(searches, heard')
  <2>1. ASSUME NEW s \in Searches, NEW d \in Discovered, Right(searches[s].discovered[d], heard)
        PROVE  Right(searches[s].discovered[d], heard')
    <3>1. searches[s].discovered[d].notified => searches[s].discovered[d].id \notin Kept
      BY NotifiedIs
    <3>2. searches[s].discovered[d].notified =>
             heard'[searches[s].discovered[d].id] = heard[searches[s].discovered[d].id]
      BY <3>1, ViewFreed
    <3> QED BY <2>1, <3>2, SameHeard
  <2> QED BY <1>1, <2>1 DEF AllRight
<1>3. PlaceInv(work') /\ work'.entry = 0
  <2>1. PlaceInv(work)
    BY DEF ViewInv, Views
  <2>2. /\ work'.record = 1 /\ work'.entry = 0
        /\ work'.stage = "packet" => work.stage = "packet" /\ work'.packet = work.packet
    BY DEF Onward, Idle
  <2> QED BY <2>1, <2>2 DEF PlaceInv
<1>4. Views(searches, work', heard')
  BY <1>2, <1>3, RightAnywhere
<1>5. Views(searches', work', heard')
  BY <1>4
<1> QED BY <1>5 DEF ViewInv

\* The search at hand is done with an entry, or calls the game for it.
LEMMA ViewMoves ==
    ASSUME IInv, ViewInv, work.entry \in Discovered, ~Restarted, NEW e,
           HostKnown(Current) => HostKnown(e),
           \A s \in Searches, d \in Discovered :
              searches'[s].discovered[d] = IF s = work.search /\ d = work.entry THEN e
                                           ELSE searches[s].discovered[d],
           \A s \in Searches : /\ searches'[s].gen = searches[s].gen
                               /\ searches'[s].callbacks = searches[s].callbacks
                               /\ searches'[s].addresses = searches[s].addresses,
           \A s \in Searches, d \in Discovered :
              searches[s].discovered[d].notified /\ ~(s = work.search /\ d = work.entry) =>
                 heard'[searches[s].discovered[d].id] = heard[searches[s].discovered[d].id],
           work'.search = work.search, work'.gen = work.gen, work'.stage = work.stage,
           work'.packet = work.packet, work'.record = work.record,
           \/ /\ work'.entry = work.entry + 1 /\ work'.phase = "look"
              /\ Watched(searches, work.search) => Right(e, heard')
           \/ work'.entry = work.entry /\ work'.phase = "lost"
           \/ /\ work'.entry = work.entry /\ work'.phase = "told"
              /\ Watched(searches, work.search) => JustTold(e, heard')
    PROVE  ViewInv'
<1>1. work.search \in Searches /\ work.entry \in Nat /\ work.entry # 0 /\ work'.entry # 0
  BY DEF IInv, WorkInv, Discovered
<1>2. ASSUME NEW s \in Searches, Watched(searches', s)
      PROVE  Known(searches'[s])
  <2>1. Watched(searches, s)
    BY <1>2 DEF Watched
  <2>2. Known(searches[s])
    BY <2>1 DEF ViewInv, Views
  <2> QED BY <2>2 DEF Known, Current
<1>3. ASSUME NEW s \in Searches, Watched(searches', s), NEW d \in Discovered
      PROVE  ViewAt(searches', work', heard', s, d)
  <2>1. Watched(searches, s)
    BY <1>3 DEF Watched
  <2>2. ViewAt(searches, work, heard, s, d)
    BY <2>1 DEF ViewInv, Views
  <2>3. d \in Nat
    BY DEF Discovered
  <2>4. CASE s = work.search /\ d = work.entry
    <3>1. searches'[s].discovered[d] = e /\ searches'[s].gen = work'.gen
      BY <2>4 DEF Restarted
    <3> QED BY <1>1, <2>1, <2>3, <2>4, <3>1 DEF ViewAt
  <2>5. CASE ~(s = work.search /\ d = work.entry)
    <3> DEFINE o == searches[s].discovered[d]
    <3>1. searches'[s].discovered[d] = o /\ searches'[s].gen = searches[s].gen
      BY <2>5
    <3>2. o.notified => heard'[o.id] = heard[o.id]
      BY <2>5
    <3>3. (Right(o, heard) => Right(o, heard')) /\ (Pending(o, heard) => Pending(o, heard'))
      BY <3>2, SameHeard
    <3>4. IF s = work.search /\ d > work.entry THEN Pending(o, heard) ELSE Right(o, heard)
      BY <1>1, <2>2, <2>3, <2>5 DEF ViewAt, Restarted
    <3>5. IF s = work.search /\ d > work.entry THEN Pending(o, heard') ELSE Right(o, heard')
      BY <3>3, <3>4
    <3> HIDE DEF o
    <3>6. s = work.search => searches'[s].gen = work'.gen
      BY <3>1 DEF Restarted
    <3>7. CASE s # work.search
      BY <1>1, <3>1, <3>5, <3>7 DEF ViewAt
    <3>8. CASE s = work.search /\ d < work.entry
      BY <1>1, <2>3, <3>1, <3>5, <3>6, <3>8 DEF ViewAt
    <3>9. CASE s = work.search /\ d > work.entry
      BY <1>1, <2>3, <3>1, <3>5, <3>6, <3>9 DEF ViewAt
    <3> QED BY <1>1, <2>3, <2>5, <3>7, <3>8, <3>9
  <2> QED BY <2>4, <2>5
<1>4. PlaceInv(work') /\ searches'[work'.search].gen = work'.gen
  BY <1>1 DEF ViewInv, Views, PlaceInv, Restarted
<1>5. Views(searches', work', heard')
  BY <1>2, <1>3, <1>4 DEF Views
<1> QED BY <1>5 DEF ViewInv

LEMMA PlaceKept ==
    ASSUME IInv
    PROVE  /\ work' = NextEntry =>
              /\ work'.search = work.search /\ work'.gen = work.gen /\ work'.stage = work.stage
              /\ work'.packet = work.packet /\ work'.record = work.record
              /\ work'.entry = work.entry + 1 /\ work'.phase = "look"
           /\ \A phase, kind, id, calling :
                 work' = [work EXCEPT !.phase = phase, !.kind = kind, !.id = id, !.calling = calling] =>
                 /\ work'.search = work.search /\ work'.gen = work.gen /\ work'.stage = work.stage
                 /\ work'.packet = work.packet /\ work'.record = work.record
                 /\ work'.entry = work.entry /\ work'.phase = phase
<1>1. DOMAIN work = DOMAIN Idle
  BY DEF IInv, WorkInv
<1>2. ASSUME work' = NextEntry
      PROVE  /\ work'.search = work.search /\ work'.gen = work.gen /\ work'.stage = work.stage
             /\ work'.packet = work.packet /\ work'.record = work.record
             /\ work'.entry = work.entry + 1 /\ work'.phase = "look"
  BY <1>1, <1>2 DEF NextEntry, Idle
<1>3. ASSUME NEW phase, NEW kind, NEW id, NEW calling,
             work' = [work EXCEPT !.phase = phase, !.kind = kind, !.id = id, !.calling = calling]
      PROVE  /\ work'.search = work.search /\ work'.gen = work.gen /\ work'.stage = work.stage
             /\ work'.packet = work.packet /\ work'.record = work.record
             /\ work'.entry = work.entry /\ work'.phase = phase
  BY <1>1, <1>3 DEF Idle
<1> QED BY <1>2, <1>3

\* What the game sees of the entry the search has come to.
LEMMA CurrentSeen ==
    ASSUME IInv, ViewInv, work.entry \in Discovered, ~Restarted
    PROVE  /\ work.search \in Searches
           /\ Watched(searches, work.search) =>
                 /\ work.phase = "look" => Pending(Current, heard)
                 /\ work.phase = "told" => JustTold(Current, heard)
<1>1. work.search \in Searches /\ work.entry # 0 /\ ~(work.entry > work.entry)
  BY DEF IInv, WorkInv, Discovered
<1> SUFFICES ASSUME Watched(searches, work.search)
             PROVE  /\ work.phase = "look" => Pending(Current, heard)
                    /\ work.phase = "told" => JustTold(Current, heard)
  BY <1>1
<1>2. ViewAt(searches, work, heard, work.search, work.entry)
  BY <1>1 DEF ViewInv, Views
<1> QED BY <1>1, <1>2 DEF ViewAt, Restarted, Current

\* The search goes on to the next entry; what was kept or was the entry's is freed, if
\* anything is.
LEMMA ViewNextEntry ==
    ASSUME IInv, ViewInv, work.entry \in Discovered, ~Restarted, work' = NextEntry, started' = started,
           NEW e, EntryInv(e), HostKnown(Current) => HostKnown(e), e.id # 0 => Current.id # 0, SetCurrent(e),
           heard' = heard \/ \E free \in SUBSET (Kept \cup {Current.id}) : Freed(free),
           Watched(searches, work.search) => Right(e, heard')
    PROVE  ViewInv'
<1>1. /\ \A s \in Searches, d \in Discovered :
            searches'[s].discovered[d] = IF s = work.search /\ d = work.entry THEN e
                                         ELSE searches[s].discovered[d]
      /\ \A s \in Searches : /\ searches'[s].gen = searches[s].gen
                             /\ searches'[s].callbacks = searches[s].callbacks
                             /\ searches'[s].addresses = searches[s].addresses
  BY EntrySet
<1>2. ASSUME NEW s \in Searches, NEW d \in Discovered,
             searches[s].discovered[d].notified, ~(s = work.search /\ d = work.entry)
      PROVE  heard'[searches[s].discovered[d].id] = heard[searches[s].discovered[d].id]
  <2>1. work.search \in Searches
    BY DEF IInv, WorkInv
  <2>2. searches[s].discovered[d].id \notin Kept \cup {Current.id}
    <3>1. searches[s].discovered[d].id \in (Ids \cap live) \ Kept
      BY <1>2, NotifiedIs
    <3>2. searches[work.search].discovered[work.entry].id # searches[s].discovered[d].id
      BY <1>2, <2>1, NotifiedIs
    <3> QED BY <3>1, <3>2 DEF Current
  <2>3. CASE heard' = heard
    BY <2>3
  <2>4. ASSUME NEW free \in SUBSET (Kept \cup {Current.id}), Freed(free)
        PROVE  heard'[searches[s].discovered[d].id] = heard[searches[s].discovered[d].id]
    <3>1. searches[s].discovered[d].id \notin free
      BY <2>2
    <3> QED BY <1>2, <2>4, <3>1, ViewFreed
  <2> QED BY <2>3, <2>4
<1>3. /\ work'.search = work.search /\ work'.gen = work.gen /\ work'.stage = work.stage
      /\ work'.packet = work.packet /\ work'.record = work.record
      /\ work'.entry = work.entry + 1 /\ work'.phase = "look"
  BY PlaceKept
<1> QED BY <1>1, <1>2, <1>3, ViewMoves

\* The game is called for the entry: past is what was heard when it is.
LEMMA ViewCalls ==
    ASSUME IInv, ViewInv, work.entry \in Discovered, ~Restarted, Current.id \in Ids, NEW e,
           HostKnown(Current) => HostKnown(e),
           \A s \in Searches, d \in Discovered :
              searches'[s].discovered[d] = IF s = work.search /\ d = work.entry THEN e
                                           ELSE searches[s].discovered[d],
           \A s \in Searches : /\ searches'[s].gen = searches[s].gen
                               /\ searches'[s].callbacks = searches[s].callbacks
                               /\ searches'[s].addresses = searches[s].addresses,
           NEW past, DOMAIN past = Ids, \A i \in Ids \ (Kept \cup {Current.id}) : past[i] = heard[i],
           NEW kind, NEW phase \in {"lost", "told"}, Call(past, kind, Current.id, phase),
           phase = "told" /\ Watched(searches, work.search) => JustTold(e, heard')
    PROVE  ViewInv'
<1>1. ASSUME NEW s \in Searches, NEW d \in Discovered,
             searches[s].discovered[d].notified, ~(s = work.search /\ d = work.entry)
      PROVE  heard'[searches[s].discovered[d].id] = heard[searches[s].discovered[d].id]
  <2>1. work.search \in Searches
    BY DEF IInv, WorkInv
  <2>2. searches[s].discovered[d].id \in Ids \ (Kept \cup {Current.id})
    <3>1. searches[s].discovered[d].id \in (Ids \cap live) \ Kept
      BY <1>1, NotifiedIs
    <3>2. searches[work.search].discovered[work.entry].id # searches[s].discovered[d].id
      BY <1>1, <2>1, NotifiedIs
    <3> QED BY <3>1, <3>2 DEF Current
  <2>3. \A i \in Ids \ {Current.id} : heard'[i] = past[i]
    BY DEF Call
  <2> QED BY <2>2, <2>3
<1>2. /\ work'.search = work.search /\ work'.gen = work.gen /\ work'.stage = work.stage
      /\ work'.packet = work.packet /\ work'.record = work.record
      /\ work'.entry = work.entry /\ work'.phase = phase
  BY PlaceKept DEF Call
<1> QED BY <1>1, <1>2, ViewMoves

LEMMA ViewAtRest ==
    ASSUME IInv, ViewInv, ~MallocFails, Quiet \/ Unchanged \/ RemoveUntold \/ LoseFails
    PROVE  ViewInv'
<1>1. /\ work.entry \in Discovered /\ work.phase = "look" /\ Resting /\ work' = NextEntry
      /\ started' = started
  BY DEF Quiet, Unchanged, RemoveUntold, LoseFails, Looking, Working, Resting
<1>2. ~Restarted
  BY <1>1 DEF ViewInv, Views, Restarted, Discovered
<1>3. EntryInv(Current) /\ DOMAIN Current = DOMAIN Blank
  BY <1>1, CurrentIs DEF EntryInv
<1>4. CASE Quiet
  <2> DEFINE e == Settled(Current)
  <2>1. EntryInv(e) /\ e.id = Current.id /\ (HostKnown(Current) => HostKnown(e))
    BY <1>1, <1>3, CurrentIs, SettledIs
  <2>2. SetCurrent(e) /\ heard' = heard /\ ~Current.notified /\ ~Complete(Current)
    BY <1>4 DEF Quiet
  <2>3. Right(e, heard')
    BY <1>3, <2>2, SettledIsRight
  <2> HIDE DEF e
  <2> QED BY <1>1, <1>2, <2>1, <2>2, <2>3, ViewNextEntry
<1>5. CASE Unchanged
  <2>1. UNCHANGED <<searches, heard>> /\ Current.notified /\ ~MustLose(Current) /\ ~Current.txtChanged
    BY <1>5 DEF Unchanged, MustLose
  <2>2. Watched(searches, work.search) => Right(Current, heard')
    BY <1>1, <1>2, <2>1, CurrentSeen, PendingIsRight
  <2>3. \A s \in Searches, d \in Discovered :
           searches'[s].discovered[d] = IF s = work.search /\ d = work.entry THEN Current
                                        ELSE searches[s].discovered[d]
    BY <2>1 DEF Current
  <2>4. /\ work'.search = work.search /\ work'.gen = work.gen /\ work'.stage = work.stage
        /\ work'.packet = work.packet /\ work'.record = work.record
        /\ work'.entry = work.entry + 1 /\ work'.phase = "look"
    BY <1>1, PlaceKept
  <2> QED BY <1>1, <1>2, <2>1, <2>2, <2>3, <2>4, ViewMoves
<1>6. CASE RemoveUntold
  <2>1. EntryInv(Blank) /\ Blank.id = 0
    BY DEF EntryInv, Blank
  <2>2. SetCurrent(Blank) /\ Freed({Current.id})
    BY <1>6 DEF RemoveUntold
  <2>3. {Current.id} \in SUBSET (Kept \cup {Current.id})
    OBVIOUS
  <2> QED BY <1>1, <1>2, <2>1, <2>2, <2>3, BlankIsRight, ViewNextEntry
<1>7. ~LoseFails
  <2>1. Min(Ids \ live) \in Ids
    BY <1>1, AtRest, IdLeft
  <2>2. 0 \notin Ids
    BY DEF Ids
  <2> QED BY <2>1, <2>2 DEF LoseFails, NewIds
<1> QED BY <1>4, <1>5, <1>6, <1>7

LEMMA ViewLose ==
    ASSUME IInv, ViewInv, Lose
    PROVE  ViewInv'
<1>1. work.entry \in Discovered /\ work.phase = "look" /\ Resting /\ Current.notified /\ started' = started
  BY DEF Lose, Looking, Working, Resting, MustLose
<1>2. ~Restarted
  BY <1>1 DEF ViewInv, Views, Restarted, Discovered
<1>3. PICK next \in NewIds \ {0} : /\ SetCurrent([Current EXCEPT !.id = next, !.notified = FALSE])
                                   /\ Call(heard, "lost", Current.id, "lost")
  BY DEF Lose
<1> DEFINE e == [Current EXCEPT !.id = next, !.notified = FALSE]
<1>4. EntryInv(Current) /\ Current.id # 0 /\ Current.id \in Ids
  BY <1>1, CurrentIs DEF EntryInv
<1>5. next \in Ids
  BY <1>1, <1>3, NewIdsAre
<1>6. EntryInv(e) /\ (HostKnown(Current) => HostKnown(e))
  BY <1>3, <1>4, <1>5 DEF EntryInv, Blank, HostKnown
<1>7. SetCurrent(e)
  BY <1>3
<1> HIDE DEF e
<1>8. /\ \A s \in Searches, d \in Discovered :
            searches'[s].discovered[d] = IF s = work.search /\ d = work.entry THEN e
                                         ELSE searches[s].discovered[d]
      /\ \A s \in Searches : /\ searches'[s].gen = searches[s].gen
                             /\ searches'[s].callbacks = searches[s].callbacks
                             /\ searches'[s].addresses = searches[s].addresses
  BY <1>1, <1>4, <1>6, <1>7, EntrySet
<1>9. DOMAIN heard = Ids
  BY DEF IInv, Consistent, HeardRight
<1>10. "lost" # "told"
  OBVIOUS
<1> QED BY <1>1, <1>2, <1>3, <1>4, <1>6, <1>8, <1>9, <1>10, ViewCalls

\* The game sees the service as it is told of it.
LEMMA ViewFound ==
    ASSUME IInv, ViewInv, work.entry \in Discovered, ~Restarted, Complete(Current), started' = started,
           NEW past, DOMAIN past = Ids, \A i \in Ids \ (Kept \cup {Current.id}) : past[i] = heard[i],
           TellFound(past)
    PROVE  ViewInv'
<1> DEFINE e == [Current EXCEPT !.notified = TRUE]
<1>1. EntryInv(Current) /\ Current.id # 0 /\ Current.id \in Ids
  BY CurrentIs DEF EntryInv
<1>2. /\ EntryInv(e) /\ e.id = Current.id /\ e.notified
      /\ Complete(e) = Complete(Current) /\ View(e) = View(Current)
      /\ HostKnown(Current) => HostKnown(e)
  <2>1. /\ DOMAIN e = DOMAIN Blank /\ e.id = Current.id /\ e.notified /\ e.host = Current.host
        /\ e.ptr = Current.ptr /\ e.port = Current.port /\ e.text = Current.text /\ e.ipv4 = Current.ipv4
    BY <1>1 DEF EntryInv, Blank
  <2> HIDE DEF e
  <2> QED BY <1>1, <2>1 DEF EntryInv, Complete, View, HostKnown
<1>3. SetCurrent(e) /\ Call(past, "found", Current.id, "told")
  BY DEF TellFound
<1> HIDE DEF e
<1>4. Watched(searches, work.search) => JustTold(e, heard')
  <2>1. ASSUME Watched(searches, work.search)
        PROVE  heard'[Current.id] = [state |-> "here", view |-> View(Current)]
    BY <1>1, <1>3, <2>1 DEF Call, Watched, Kinds
  <2>2. ASSUME heard'[Current.id] = [state |-> "here", view |-> View(Current)]
        PROVE  heard'[Current.id].state = "here" /\ heard'[Current.id].view = View(Current)
    BY <2>2
  <2> QED BY <1>2, <2>1, <2>2 DEF JustTold
<1>5. /\ \A s \in Searches, d \in Discovered :
            searches'[s].discovered[d] = IF s = work.search /\ d = work.entry THEN e
                                         ELSE searches[s].discovered[d]
      /\ \A s \in Searches : /\ searches'[s].gen = searches[s].gen
                             /\ searches'[s].callbacks = searches[s].callbacks
                             /\ searches'[s].addresses = searches[s].addresses
  BY <1>1, <1>2, <1>3, EntrySet
<1> QED BY <1>1, <1>2, <1>3, <1>4, <1>5, ViewCalls

LEMMA ViewUpdate ==
    ASSUME IInv, ViewInv, Update
    PROVE  ViewInv'
<1>1. /\ work.entry \in Discovered /\ work.phase = "look"
      /\ Current.notified /\ ~MustLose(Current) /\ searches' = searches
      /\ Call(heard, "update", Current.id, "told")
  BY DEF Update, Looking
<1>2. ~Restarted
  BY <1>1 DEF ViewInv, Views, Restarted, Discovered
<1>3. Current.id # 0 /\ Current.id \in Ids
  BY <1>1, CurrentIs DEF EntryInv
<1>4. DOMAIN heard = Ids
  BY DEF IInv, Consistent, HeardRight
<1>5. Watched(searches, work.search) => JustTold(Current, heard')
  <2> SUFFICES ASSUME Watched(searches, work.search) PROVE JustTold(Current, heard')
    OBVIOUS
  <2> DEFINE v == heard[Current.id].view
  <2>1. Pending(Current, heard)
    BY <1>1, <1>2, CurrentSeen
  <2>2. IsView(v) /\ Current.host = v.host /\ Current.port = v.port /\ Current.ipv4 = v.ipv4
    BY <1>1, <2>1 DEF Pending, Hears
  <2>3. [v EXCEPT !.text = Current.text] = View(Current)
    BY <2>2, SeenAsIs
  <2>4. heard'[Current.id] = [state |-> "here", view |-> [v EXCEPT !.text = Current.text]]
    BY <1>1, <1>3, <1>4 DEF Call, Watched, Kinds
  <2> HIDE DEF v
  <2>5. heard'[Current.id].state = "here" /\ heard'[Current.id].view = View(Current)
    BY <2>3, <2>4
  <2> QED BY <1>1, <2>5 DEF JustTold, MustLose
<1>6. \A s \in Searches, d \in Discovered :
         searches'[s].discovered[d] = IF s = work.search /\ d = work.entry THEN Current
                                      ELSE searches[s].discovered[d]
  BY <1>1 DEF Current
<1> QED BY <1>1, <1>2, <1>3, <1>4, <1>5, <1>6, ViewCalls

LEMMA ViewAfterLost ==
    ASSUME IInv, ViewInv, AfterLost
    PROVE  ViewInv'
<1>1. /\ work.entry \in Discovered /\ work.entry # 0 /\ work.phase = "lost" /\ ~work.calling
      /\ started' = started
  BY DEF AfterLost, Working, IInv, WorkInv, Discovered
<1>2. Kept = {work.id}
  BY <1>1 DEF Kept, Lost, IInv, CallInv
<1>3. EntryInv(Current) /\ DOMAIN Current = DOMAIN Blank
  BY <1>1, CurrentIs DEF EntryInv
<1>4. CASE Restarted /\ Freed({work.id}) /\ work' = Onward /\ UNCHANGED searches
  <2>1. Freed(Kept)
    BY <1>2, <1>4
  <2> QED BY <1>1, <1>4, <2>1, ViewLeaves
<1>5. CASE ~Restarted /\ Freed({work.id, Current.id}) /\ SetCurrent(Blank) /\ work' = NextEntry
  <2>1. EntryInv(Blank) /\ Blank.id = 0
    BY DEF EntryInv, Blank
  <2>2. {work.id, Current.id} \in SUBSET (Kept \cup {Current.id})
    BY <1>2
  <2> QED BY <1>1, <1>5, <2>1, <2>2, BlankIsRight, ViewNextEntry
<1>6. CASE /\ ~Restarted /\ ~Complete(Current) /\ Freed({work.id})
           /\ SetCurrent(Settled(Current)) /\ work' = NextEntry
  <2> DEFINE e == Settled(Current)
  <2>1. EntryInv(e) /\ e.id = Current.id /\ (HostKnown(Current) => HostKnown(e))
    BY <1>1, <1>3, CurrentIs, SettledIs
  <2>2. ~Current.notified
    BY <1>1, <1>6 DEF IInv, CallInv
  <2>3. Right(e, heard')
    BY <1>3, <1>6, <2>2, SettledIsRight
  <2>4. {work.id} \in SUBSET (Kept \cup {Current.id})
    BY <1>2
  <2>5. SetCurrent(e)
    BY <1>6
  <2> HIDE DEF e
  <2> QED BY <1>1, <1>6, <2>1, <2>3, <2>4, <2>5, ViewNextEntry
<1>7. CASE ~Restarted /\ Complete(Current) /\ TellFound(Past({work.id}))
  <2> DEFINE past == Past({work.id})
  <2>1. DOMAIN past = Ids /\ \A i \in Ids \ (Kept \cup {Current.id}) : past[i] = heard[i]
    BY <1>2 DEF Past
  <2>2. TellFound(past)
    BY <1>7
  <2> HIDE DEF past
  <2> QED BY <1>1, <1>7, <2>1, <2>2, ViewFound
<1> QED BY <1>4, <1>5, <1>6, <1>7 DEF AfterLost

LEMMA ViewAfterTold ==
    ASSUME IInv, ViewInv, AfterTold
    PROVE  ViewInv'
<1>1. /\ work.entry \in Discovered /\ work.entry # 0 /\ work.phase = "told"
      /\ started' = started /\ heard' = heard
  BY DEF AfterTold, Working, IInv, WorkInv, Discovered
<1>2. EntryInv(Current) /\ DOMAIN Current = DOMAIN Blank
  BY <1>1, CurrentIs DEF EntryInv
<1>3. CASE Restarted /\ work' = Onward /\ UNCHANGED searches
  BY <1>1, <1>3, ViewLeaves
<1>4. CASE ~Restarted /\ SetCurrent(Settled(Current)) /\ work' = NextEntry
  <2> DEFINE e == Settled(Current)
  <2>1. EntryInv(e) /\ e.id = Current.id /\ (HostKnown(Current) => HostKnown(e))
    BY <1>1, <1>2, CurrentIs, SettledIs
  <2>2. Watched(searches, work.search) => JustTold(Current, heard')
    BY <1>1, <1>4, CurrentSeen
  <2>3. Watched(searches, work.search) => Right(e, heard')
    BY <1>2, <2>2, SettledIsRight
  <2>4. SetCurrent(e)
    BY <1>4
  <2> HIDE DEF e
  <2> QED BY <1>1, <1>4, <2>1, <2>3, <2>4, ViewNextEntry
<1> QED BY <1>3, <1>4 DEF AfterTold

LEMMA ViewStep ==
    ASSUME ~MallocFails, \A packet \in Packets : Orderly(InOrder(packet)),
           IInv, ViewInv, [Next]_vars
    PROVE  ViewInv'
<1>1. CASE \E callbacks \in CallbackSets : StartSearch(callbacks)
  BY <1>1, ViewStart
<1>2. CASE \E s \in Searches : StopSearch(s)
  BY <1>2, ViewStop
<1>3. CASE Shutdown
  BY <1>3, ViewShutdown
<1>4. CASE PumpBegin \/ Expire \/ NextSearch \/ \E packet \in Packets : Receive(packet)
  BY <1>4, ViewGoingOn
<1>5. CASE Apply \/ Dispatch \/ ApplyExpiry
  BY <1>5, ViewApply, ViewDispatch, ViewApplyExpiry
<1>6. CASE Quiet \/ Unchanged \/ RemoveUntold \/ LoseFails
  BY <1>6, ViewAtRest
<1>7. CASE Lose
  BY <1>7, ViewLose
<1>8. CASE Found
  <2>1. /\ work.entry \in Discovered /\ work.phase = "look" /\ Complete(Current) /\ started' = started
        /\ TellFound(heard)
    BY <1>8 DEF Found, Looking
  <2>2. ~Restarted
    BY <2>1 DEF ViewInv, Views, Restarted, Discovered
  <2>3. DOMAIN heard = Ids
    BY DEF IInv, Consistent, HeardRight
  <2> QED BY <2>1, <2>2, <2>3, ViewFound
<1>9. CASE Update
  BY <1>9, ViewUpdate
<1>10. CASE CallbackReturn
  BY <1>10, ViewReturn
<1>11. CASE AfterLost
  BY <1>11, ViewAfterLost
<1>12. CASE AfterTold
  BY <1>12, ViewAfterTold
<1>13. CASE UNCHANGED vars
  BY <1>13 DEF vars, ViewInv, Views
<1> QED BY <1>1, <1>2, <1>3, <1>4, <1>5, <1>6, <1>7, <1>8, <1>9, <1>10, <1>11, <1>12, <1>13 DEF Next

LEMMA ViewIsCurrent == IInv /\ ViewInv => ViewCurrent
<1> SUFFICES ASSUME IInv, ViewInv, work.stage \in {"idle", "receive"},
                    NEW s \in Searches, NEW d \in Discovered, InUse(s), searches[s].callbacks = Kinds,
                    searches[s].discovered[d].id # 0
             PROVE  LET entry == searches[s].discovered[d]
                    IN  /\ entry.notified <=> Complete(entry)
                        /\ entry.notified <=> Told(entry)
                        /\ entry.notified => heard[entry.id].view = View(entry)
  BY DEF ViewCurrent
<1> DEFINE e == searches[s].discovered[d]
<1>1. work.entry = 0 /\ work.stage # "packet"
  BY DEF IInv, WorkInv
<1>2. Right(e, heard)
  BY <1>1, AllAreRight DEF AllRight, Watched, InUse
<1>3. HeardOf(heard, e)
  BY DEF IInv, Consistent, HeardRight
<1>4. ~e.notified => heard[e.id].state # "here"
  BY <1>3 DEF HeardOf, Unheard
<1> QED BY <1>2, <1>4 DEF Right, Told

\* Where memory does not run out and no packet gives again what it withdraws, the game
\* that follows a search sees what the search knows, between one packet and the next.
THEOREM ViewCurrentAlways ==
    ASSUME ~MallocFails, \A packet \in Packets : Orderly(InOrder(packet))
    PROVE  Spec => []ViewCurrent
<1>1. IInv /\ IInv' /\ ViewInv /\ [Next]_vars => ViewInv'
  BY ViewStep
<1>2. Spec => []ViewInv
  BY <1>1, ViewInit, SearchesAlways, PTL DEF Spec
<1> QED BY <1>2, ViewIsCurrent, SearchesAlways, PTL

-----------------------------------------------------------------------------
(* The publishers. *)

LEMMA MinOfTwo ==
    ASSUME NEW a \in Nat, NEW b \in Nat
    PROVE  Min({a, b}) = IF a <= b THEN a ELSE b
<1>1. Min({a, b}) \in {a, b} /\ \A y \in {a, b} : Min({a, b}) <= y
  BY MinIsLeast
<1>2. QED
  BY <1>1

-----------------------------------------------------------------------------
\* What is so of one publisher: a change waits exactly while there is one, and it is
\* not due before the interval since the last announcement is over.
PublisherInv(pub) ==
    /\ pub \in Publisher
    /\ pub.pending => pub.dueIn + pub.sinceLast >= TxtInterval
    /\ pub.inUse => (pub.pending <=> pub.txt # pub.announced)

PublishersInv == /\ PublisherTypeOK
                 /\ \A p \in Publishers : PublisherInv(publishers[p])

USE PublisherConstants

\* What the operators make of a publisher.

LEMMA UnusedInv == PublisherInv(Unused)
  BY DEF PublisherInv, Unused, Publisher, NoText

\* A publisher with its three instants set.
Timed(pub, due, next, since) == [pub EXCEPT !.dueIn = due, !.sinceLast = since, !.nextIn = next]

LEMMA TimedIs ==
    ASSUME NEW pub \in Publisher, NEW due \in 0..TxtInterval, NEW next \in 0..AnnounceInterval,
           NEW since \in 0..TxtInterval
    PROVE  LET r == Timed(pub, due, next, since)
           IN  /\ r \in Publisher
               /\ r.dueIn = due /\ r.sinceLast = since
               /\ r.inUse = pub.inUse /\ r.txt = pub.txt /\ r.announced = pub.announced
               /\ r.pending = pub.pending
  BY DEF Timed, Publisher

LEMMA AnnouncedInv ==
    ASSUME NEW pub \in Publisher
    PROVE  PublisherInv(Announced(pub))
<1> DEFINE told == [pub EXCEPT !.announced = pub.txt, !.pending = FALSE]
<1>1. told \in Publisher /\ told.txt = told.announced /\ ~told.pending
  BY DEF Publisher
<1>2. Announced(pub) = Timed(told, 0, AnnounceInterval, 0)
  BY DEF Announced, Timed
<1> HIDE DEF told
<1>3. 0 \in 0..TxtInterval /\ AnnounceInterval \in 0..AnnounceInterval
  OBVIOUS
<1>4. QED
  BY <1>1, <1>2, <1>3, TimedIs DEF PublisherInv

LEMMA UpdatedInv ==
    ASSUME NEW pub, PublisherInv(pub), NEW txt \in Texts
    PROVE  /\ PublisherInv(Updated(pub, txt))
           /\ Updated(pub, txt).announced = pub.announced
<1>1. pub \in Publisher
  BY DEF PublisherInv
<1>2. CASE txt = pub.announced
  <2>1. 0 \in 0..TxtInterval
    OBVIOUS
  <2>2. Updated(pub, txt) = [pub EXCEPT !.txt = txt, !.pending = FALSE, !.dueIn = 0]
    BY <1>2 DEF Updated
  <2>3. Updated(pub, txt) \in Publisher
    BY <1>1, <2>1, <2>2 DEF Publisher
  <2>4. QED
    BY <1>1, <1>2, <2>2, <2>3 DEF PublisherInv, Publisher
<1>3. CASE txt # pub.announced /\ pub.pending
  BY <1>1, <1>3 DEF PublisherInv, Updated, Publisher
<1>4. CASE txt # pub.announced /\ ~pub.pending
  <2>1. TxtInterval - pub.sinceLast \in 0..TxtInterval
    BY <1>1 DEF Publisher
  <2>2. Updated(pub, txt) = [pub EXCEPT !.txt = txt, !.pending = TRUE,
                                        !.dueIn = TxtInterval - pub.sinceLast]
    BY <1>4 DEF Updated
  <2>3. Updated(pub, txt) \in Publisher
    BY <1>1, <2>1, <2>2 DEF Publisher
  <2>4. QED
    BY <1>1, <1>4, <2>1, <2>2, <2>3 DEF PublisherInv, Publisher
<1>5. QED
  BY <1>2, <1>3, <1>4

LEMMA PumpedInv ==
    ASSUME NEW pub, PublisherInv(pub), NEW sent \in BOOLEAN
    PROVE  /\ PublisherInv(Pumped(pub, sent))
           /\ Pumped(pub, sent).announced # pub.announced => Sends(pub)
<1>1. CASE ~Sends(pub)
  BY <1>1 DEF Pumped
<1>2. CASE Sends(pub) /\ sent
  BY <1>2, AnnouncedInv DEF Pumped, PublisherInv
<1>3. CASE Sends(pub) /\ ~sent
  BY <1>3 DEF Pumped, PublisherInv, Publisher
<1>4. QED
  BY <1>1, <1>2, <1>3

Aged(pub) == [pub EXCEPT !.dueIn = Less(@), !.nextIn = Less(@),
                         !.sinceLast = Min({@ + 1, TxtInterval})]

LEMMA AgedInv ==
    ASSUME NEW pub, PublisherInv(pub)
    PROVE  PublisherInv(Aged(pub)) /\ Aged(pub).announced = pub.announced
<1> DEFINE due == Less(pub.dueIn)
           next == Less(pub.nextIn)
           since == Min({pub.sinceLast + 1, TxtInterval})
<1>1. pub \in Publisher
  BY DEF PublisherInv
<1>2. /\ pub.dueIn \in 0..TxtInterval /\ pub.nextIn \in 0..AnnounceInterval
      /\ pub.sinceLast \in 0..TxtInterval
  BY <1>1 DEF Publisher
<1>3. since = IF pub.sinceLast + 1 <= TxtInterval THEN pub.sinceLast + 1 ELSE TxtInterval
  BY <1>2, MinOfTwo
<1>4. due \in 0..TxtInterval /\ next \in 0..AnnounceInterval /\ since \in 0..TxtInterval
  BY <1>2, <1>3 DEF Less
<1>5. pub.pending => due + since >= TxtInterval
  BY <1>2, <1>3 DEF Less, PublisherInv
<1>6. Aged(pub) = Timed(pub, due, next, since)
  BY DEF Aged, Timed
<1> HIDE DEF due, next, since
<1>7. LET r == Timed(pub, due, next, since)
      IN  /\ r \in Publisher
          /\ r.dueIn = due /\ r.sinceLast = since
          /\ r.inUse = pub.inUse /\ r.txt = pub.txt /\ r.announced = pub.announced
          /\ r.pending = pub.pending
  BY <1>1, <1>4, TimedIs
<1>8. QED
  BY <1>5, <1>6, <1>7 DEF PublisherInv

-----------------------------------------------------------------------------
LEMMA PublishersInitially == PublisherInit => PublishersInv
<1> SUFFICES ASSUME PublisherInit PROVE PublishersInv
  OBVIOUS
<1>1. \A p \in Publishers : publishers[p] = Unused
  BY DEF PublisherInit
<1>2. Unused \in Publisher
  BY UnusedInv DEF PublisherInv
<1>3. QED
  BY <1>1, <1>2, UnusedInv DEF PublisherInit, PublishersInv, PublisherTypeOK

\* A slot is free when the game publishes, and the one taken is free.
LEMMA FreeSlot ==
    ASSUME NEW txt, NEW sent, Publish(txt, sent)
    PROVE  LET p == Min({q \in Publishers : ~publishers[q].inUse})
           IN  p \in Publishers /\ ~publishers[p].inUse
<1> DEFINE Free == {q \in Publishers : ~publishers[q].inUse}
<1>1. Free \in SUBSET Nat /\ Free # {}
  BY DEF Publish, Publishers
<1>2. Min(Free) \in Free
  BY <1>1, MinIsLeast
<1>3. QED
  BY <1>2

\* Every action leaves each publisher as it was or as one of the operators makes it, and
\* the text announced changes only with a publisher taken up or given up, or when the
\* pump sends.
WellKept(pub, after) == /\ PublisherInv(after)
                        /\ \/ after.announced = pub.announced
                           \/ ~pub.inUse \/ ~after.inUse
                           \/ Sends(pub)

LEMMA PublisherStep ==
    ASSUME PublishersInv, [PublisherNext]_publisherVars
    PROVE  PublishersInv' /\ \A p \in Publishers : WellKept(publishers[p], publishers'[p])
<1> USE DEF PublishersInv, PublisherTypeOK
<1> SUFFICES /\ publishers' \in [Publishers -> Publisher]
             /\ listeners' \in [Publishers -> Texts \cup {Nothing}]
             /\ \A p \in Publishers : WellKept(publishers[p], publishers'[p])
  BY DEF WellKept
<1>1. ASSUME NEW txt \in Texts, NEW sent \in BOOLEAN, Publish(txt, sent)
      PROVE  /\ publishers' \in [Publishers -> Publisher]
             /\ listeners' \in [Publishers -> Texts \cup {Nothing}]
             /\ \A p \in Publishers : WellKept(publishers[p], publishers'[p])
  <2>1. PICK p \in Publishers :
           /\ ~publishers[p].inUse
           /\ publishers' = [publishers EXCEPT ![p] =
                               Announced([Unused EXCEPT !.inUse = TRUE, !.txt = txt])]
           /\ listeners' = [listeners EXCEPT ![p] = IF sent THEN txt ELSE Nothing]
    BY <1>1, FreeSlot DEF Publish
  <2>2. [Unused EXCEPT !.inUse = TRUE, !.txt = txt] \in Publisher
    <3>1. Unused \in Publisher
      BY UnusedInv DEF PublisherInv
    <3>2. QED
      BY <3>1 DEF Publisher
  <2>3. PublisherInv(Announced([Unused EXCEPT !.inUse = TRUE, !.txt = txt]))
    BY <2>2, AnnouncedInv
  <2>4. Announced([Unused EXCEPT !.inUse = TRUE, !.txt = txt]) \in Publisher
    BY <2>3 DEF PublisherInv
  <2>5. QED
    BY <2>1, <2>3, <2>4 DEF WellKept
<1>2. ASSUME NEW p \in Publishers, NEW txt \in Texts, UpdateTxtRecord(p, txt)
      PROVE  /\ publishers' \in [Publishers -> Publisher]
             /\ listeners' \in [Publishers -> Texts \cup {Nothing}]
             /\ \A q \in Publishers : WellKept(publishers[q], publishers'[q])
  <2>1. WellKept(publishers[p], Updated(publishers[p], txt))
    BY UpdatedInv DEF WellKept
  <2>2. Updated(publishers[p], txt) \in Publisher
    BY <2>1 DEF WellKept, PublisherInv
  <2>3. QED
    BY <1>2, <2>1, <2>2 DEF UpdateTxtRecord, WellKept
<1>3. ASSUME NEW p \in Publishers, NEW sent \in BOOLEAN, Unpublish(p, sent)
      PROVE  /\ publishers' \in [Publishers -> Publisher]
             /\ listeners' \in [Publishers -> Texts \cup {Nothing}]
             /\ \A q \in Publishers : WellKept(publishers[q], publishers'[q])
  <2>1. PublisherInv(Unused) /\ Unused \in Publisher /\ ~Unused.inUse
    BY UnusedInv DEF PublisherInv, Unused
  <2>2. QED
    BY <1>3, <2>1 DEF Unpublish, WellKept
<1>4. ASSUME NEW p \in Publishers, Answer(p)
      PROVE  /\ publishers' \in [Publishers -> Publisher]
             /\ listeners' \in [Publishers -> Texts \cup {Nothing}]
             /\ \A q \in Publishers : WellKept(publishers[q], publishers'[q])
  <2>1. publishers[p].txt \in Texts \cup {Nothing}
    BY DEF Publisher, NoText
  <2>2. QED
    BY <1>4, <2>1 DEF Answer, WellKept
<1>5. ASSUME NEW sent \in Sent, Pump(sent)
      PROVE  /\ publishers' \in [Publishers -> Publisher]
             /\ listeners' \in [Publishers -> Texts \cup {Nothing}]
             /\ \A p \in Publishers : WellKept(publishers[p], publishers'[p])
  <2>1. ASSUME NEW p \in Publishers
        PROVE  /\ publishers'[p] = Pumped(publishers[p], sent[p])
               /\ WellKept(publishers[p], Pumped(publishers[p], sent[p]))
    BY <1>5, PumpedInv DEF Pump, Sent, WellKept
  <2>2. \A p \in Publishers : Pumped(publishers[p], sent[p]) \in Publisher
    BY <2>1 DEF WellKept, PublisherInv
  <2>3. \A p \in Publishers : publishers[p].txt \in Texts \cup {Nothing}
    BY DEF Publisher, NoText
  <2>4. QED
    BY <1>5, <2>1, <2>2, <2>3 DEF Pump
<1>6. ASSUME NEW sent \in Sent, PublisherShutdown(sent)
      PROVE  /\ publishers' \in [Publishers -> Publisher]
             /\ listeners' \in [Publishers -> Texts \cup {Nothing}]
             /\ \A p \in Publishers : WellKept(publishers[p], publishers'[p])
  <2>1. PublisherInv(Unused) /\ Unused \in Publisher /\ ~Unused.inUse
    BY UnusedInv DEF PublisherInv, Unused
  <2>2. QED
    BY <1>6, <2>1 DEF PublisherShutdown, WellKept
<1>7. CASE Tick
  <2>1. publishers' = [p \in Publishers |-> Aged(publishers[p])] /\ UNCHANGED listeners
    BY <1>7 DEF Tick, Aged
  <2>2. \A p \in Publishers : WellKept(publishers[p], Aged(publishers[p]))
    BY AgedInv DEF WellKept
  <2>3. \A p \in Publishers : Aged(publishers[p]) \in Publisher
    BY <2>2 DEF WellKept, PublisherInv
  <2>4. QED
    BY <2>1, <2>2, <2>3
<1>8. CASE UNCHANGED publisherVars
  BY <1>8 DEF publisherVars, WellKept
<1>9. QED
  BY <1>1, <1>2, <1>3, <1>4, <1>5, <1>6, <1>7, <1>8 DEF PublisherNext

\* Every publisher, through its updates, announcements and failures to send.
THEOREM PublishersAlways == PublisherSpec => []PublishersInv
<1>1. PublishersInv /\ [PublisherNext]_publisherVars => PublishersInv'
  BY PublisherStep
<1>2. QED
  BY <1>1, PublishersInitially, PTL DEF PublisherSpec

\* A publisher waits to announce a change exactly when its text is not the one it
\* announced (s3e_zero_conf_update_txt_record and the pump).
THEOREM PendingWhenChangedAlways == PublisherSpec => []PendingWhenChanged
<1>1. PublishersInv => PendingWhenChanged
  BY DEF PublishersInv, PublisherInv, PendingWhenChanged
<1>2. QED
  BY <1>1, PublishersAlways, PTL

\* Unless the minute is up, a changed text goes out no sooner than the interval after
\* the announcement before it (txt_update_due_ms and last_announce_ms).
THEOREM ChangesSpacedAlways == PublisherSpec => ChangesSpaced
<1> DEFINE Spaced == \A p \in Publishers :
                       LET pub == publishers[p]
                       IN  /\ pub.inUse /\ pub.nextIn > 0
                           /\ publishers'[p].inUse /\ publishers'[p].announced # pub.announced
                           => pub.sinceLast = TxtInterval
<1>1. PublishersInv /\ [PublisherNext]_publisherVars => [Spaced]_publisherVars
  <2> SUFFICES ASSUME PublishersInv, [PublisherNext]_publisherVars, NEW p \in Publishers,
                      publishers[p].inUse, publishers[p].nextIn > 0, publishers'[p].inUse,
                      publishers'[p].announced # publishers[p].announced
               PROVE  publishers[p].sinceLast = TxtInterval
    OBVIOUS
  <2>1. Sends(publishers[p])
    BY PublisherStep DEF WellKept
  <2>2. publishers[p].pending /\ publishers[p].dueIn = 0
    BY <2>1 DEF Sends, UpdateDue
  <2>3. PublisherInv(publishers[p])
    BY DEF PublishersInv
  <2>4. QED
    BY <2>2, <2>3 DEF PublisherInv, Publisher
<1>2. QED
  BY <1>1, PublishersAlways, PTL DEF PublisherSpec, ChangesSpaced
=============================================================================
