-------------------------- MODULE DnsLookupProofs ---------------------------
(***************************************************************************)
(* Proofs about DnsLookup and ConfiguredLookup, for any number of lookups: *)
(* each lookup has one owner until it is freed, once; the guest is never   *)
(* called for one it cancelled; and the pump waits for no name server.     *)
(***************************************************************************)
EXTENDS ConfiguredLookup, SequenceTheorems, WellFoundedInduction, TLAPS

\* The lookups whose callbacks are running, none of them twice.
Called == {calling[i] : i \in DOMAIN calling}
OnceEach(s) == \A i, j \in DOMAIN s : s[i] = s[j] => i = j

LEMMA CalledAreInCallback == \A l : InCallback(l) <=> l \in Called
  BY DEF InCallback, Called

LEMMA CalledAreLookups == calling \in Seq(Lookup) => Called \subseteq Lookup
  BY DEF Called

LEMMA NothingCalled == calling = <<>> => Called = {}
  BY DEF Called

LEMMA AppendCalls ==
    ASSUME calling \in Seq(Lookup), OnceEach(calling),
           NEW l \in Lookup \ Called, calling' = Append(calling, l)
    PROVE  calling' \in Seq(Lookup) /\ OnceEach(calling)' /\ Called' = Called \cup {l}
<1>1. /\ calling' \in Seq(Lookup) /\ Len(calling') = Len(calling) + 1
      /\ \A i \in 1..Len(calling) : calling'[i] = calling[i]
      /\ calling'[Len(calling) + 1] = l
  BY AppendProperties
<1>2. DOMAIN calling = 1..Len(calling) /\ DOMAIN calling' = 1..(Len(calling) + 1)
  BY <1>1
<1>3. Called' = Called \cup {l}
  BY <1>1, <1>2 DEF Called
<1>4. OnceEach(calling)'
  BY <1>1, <1>2 DEF Called, OnceEach
<1>5. QED
  BY <1>1, <1>3, <1>4

LEMMA FrontOf ==
    ASSUME NEW S, NEW q \in Seq(S), NEW n \in 1..Len(q)
    PROVE  LET front == SubSeq(q, 1, n - 1)
           IN  front \in Seq(S) /\ Len(front) = n - 1 /\ \A j \in 1..(n - 1) : front[j] = q[j]
  OBVIOUS

LEMMA FrontCalls ==
    ASSUME calling \in Seq(Lookup), OnceEach(calling), calling # <<>>,
           calling' = Front(calling)
    PROVE  /\ Last(calling) \in Called
           /\ calling' \in Seq(Lookup) /\ OnceEach(calling)'
           /\ Called' = Called \ {Last(calling)}
<1>1. Len(calling) \in Nat \ {0}
  BY EmptySeq
<1>2. /\ calling' \in Seq(Lookup) /\ Len(calling') = Len(calling) - 1
      /\ \A i \in 1..(Len(calling) - 1) : calling'[i] = calling[i]
  <2>1. Len(calling) \in 1..Len(calling) /\ calling' = SubSeq(calling, 1, Len(calling) - 1)
    BY <1>1 DEF Front
  <2>2. QED
    BY <2>1, FrontOf
<1>3. DOMAIN calling = 1..Len(calling) /\ DOMAIN calling' = 1..(Len(calling) - 1)
  BY <1>2
<1>4. Last(calling) = calling[Len(calling)]
  BY DEF Last
<1>5. Last(calling) \in Called
  BY <1>1, <1>3, <1>4 DEF Called
<1>6. OnceEach(calling)'
  BY <1>1, <1>2, <1>3 DEF OnceEach
<1>7. Called' = Called \ {Last(calling)}
  <2>1. ASSUME NEW x \in Called' PROVE x \in Called \ {Last(calling)}
    BY <1>1, <1>2, <1>3, <1>4, <2>1 DEF Called, OnceEach
  <2>2. ASSUME NEW x \in Called \ {Last(calling)} PROVE x \in Called'
    BY <1>1, <1>2, <1>3, <1>4, <2>2 DEF Called
  <2>3. QED
    BY <2>1, <2>2
<1>8. QED
  BY <1>2, <1>5, <1>6, <1>7

-----------------------------------------------------------------------------
Ends == {"none", "exited"}

\* Who holds lookup l and how far its thread is.
LookupInv(l) ==
    /\ frees[l] \in {0, 1}
    /\ frees[l] = 0 /\ resolver[l] # "none" =>
          current = l \/ joining = l \/ l \in Called \/ (l \in detached /\ resolver[l] # "exited")
    /\ frees[l] = 1 => current # l /\ joining # l /\ l \notin Called /\ resolver[l] \in Ends
    /\ resolver[l] = "none" => current # l /\ joining # l /\ l \notin Called
    /\ current = l \/ joining = l \/ l \in Called => l \notin detached
    /\ l \in Called => current # l /\ joining # l /\ resolver[l] = "exited" /\ l \notin cancelled
    /\ l \in done <=> resolver[l] \in {"keep", "free", "exited"}
    /\ l \in detached => resolver[l] \in {"resolving", "free", "exited"}
    /\ resolver[l] = "free" => l \in detached
    /\ l > started => resolver[l] = "none" /\ frees[l] = 0

PhaseInv == /\ phase \in {"running", "closing", "closed"}
            /\ phase = "running" /\ joining # None => joining \in done /\ current # joining
            /\ phase = "closing" => joining # None /\ current = joining
            /\ phase = "closed" => joining = None

Shape == /\ started \in 0..MaxLookups
         /\ current \in Lookup \cup {None} /\ joining \in Lookup \cup {None}
         /\ DOMAIN resolver = Lookup /\ DOMAIN frees = Lookup
         /\ \A l \in Lookup : resolver[l] \in ResolverState
         /\ calling \in Seq(Lookup) /\ OnceEach(calling)

LookupsInv == Shape /\ PhaseInv /\ \A l \in Lookup : LookupInv(l)

LEMMA LookupsInitially == Init => LookupsInv
<1> SUFFICES ASSUME Init PROVE LookupsInv
  OBVIOUS
<1>1. Called = {} /\ OnceEach(calling) /\ calling \in Seq(Lookup)
  BY NothingCalled DEF Init, OnceEach
<1>2. QED
  BY <1>1, LookupConstants DEF Init, LookupsInv, Shape, PhaseInv, LookupInv, Lookup, None,
                               ResolverState

\* What the steps leave alone, in the terms of the invariant.
Calm == UNCHANGED calling => Called' = Called /\ (OnceEach(calling) => OnceEach(calling)')

LEMMA CallingUnchanged == Calm
  BY DEF Calm, Called, OnceEach

LEMMA GuestSteps ==
    ASSUME LookupsInv, StartLookup \/ StartFails \/ CancelLookup
    PROVE  LookupsInv'
<1> USE LookupConstants, CallingUnchanged
    DEF Calm, LookupsInv, Shape, PhaseInv, LookupInv, Lookup, None, Ends, ResolverState, InGuest, Free
<1>1. CASE StartLookup
  BY <1>1 DEF StartLookup
<1>2. CASE StartFails
  BY <1>2 DEF StartFails
<1>3. CASE CancelLookup
  BY <1>3 DEF CancelLookup
<1>4. QED
  BY <1>1, <1>2, <1>3

\* The thread of a lookup ends, having freed it or left it to its holder.
LEMMA ThreadEnds ==
    ASSUME NEW l \in Lookup, LookupInv(l), resolver'[l] = "exited",
           UNCHANGED <<started, current, done, cancelled, detached, joining, Called>>,
           \/ resolver[l] = "keep" /\ frees'[l] = frees[l]
           \/ resolver[l] = "free" /\ frees'[l] = frees[l] + 1
    PROVE  LookupInv(l)'
<1>1. frees[l] = 0
  BY DEF LookupInv, Ends
<1>2. CASE resolver[l] = "keep"
  BY <1>1, <1>2 DEF LookupInv, Ends
<1>3. CASE resolver[l] = "free"
  BY <1>1, <1>3 DEF LookupInv, Ends
<1>4. QED
  BY <1>2, <1>3

LEMMA ResolverSteps ==
    ASSUME LookupsInv, NEW l \in Lookup, Report(l) \/ ResolverExit(l)
    PROVE  LookupsInv'
<1> USE LookupConstants, CallingUnchanged DEF Calm, LookupsInv, Shape, PhaseInv, ResolverState, Free
<1>1. CASE Report(l)
  BY <1>1 DEF Report, LookupInv, None, Ends
<1>2. CASE ResolverExit(l)
  <2>1. /\ resolver' = [resolver EXCEPT ![l] = "exited"]
        /\ UNCHANGED <<started, current, done, cancelled, detached, joining, Called, calling, phase>>
        /\ \/ resolver[l] = "keep" /\ frees' = frees
           \/ resolver[l] = "free" /\ frees' = [frees EXCEPT ![l] = @ + 1]
    BY <1>2 DEF ResolverExit
  <2>2. Shape' /\ PhaseInv'
    BY <2>1
  <2>3. LookupInv(l)'
    BY <2>1, ThreadEnds
  <2>4. ASSUME NEW k \in Lookup \ {l} PROVE LookupInv(k)'
    BY <2>1 DEF LookupInv
  <2>5. QED
    BY <2>2, <2>3, <2>4
<1>3. QED
  BY <1>1, <1>2

LEMMA PumpSteps ==
    ASSUME LookupsInv, PumpTake \/ PumpCall \/ PumpDrop \/ PumpReturn
    PROVE  LookupsInv'
<1> USE LookupConstants, CallingUnchanged
    DEF Calm, LookupsInv, Shape, PhaseInv, LookupInv, None, Ends, ResolverState, InGuest, Free
<1>1. CASE PumpTake
  BY <1>1 DEF PumpTake
<1>2. CASE PumpCall
  <2>1. joining \in Lookup \ Called
    BY <1>2 DEF PumpCall
  <2>2. calling' \in Seq(Lookup) /\ OnceEach(calling)' /\ Called' = Called \cup {joining}
    BY <1>2, <2>1, AppendCalls DEF PumpCall
  <2>3. QED
    BY <1>2, <2>1, <2>2 DEF PumpCall
<1>3. CASE PumpDrop
  BY <1>3 DEF PumpDrop
<1>4. CASE PumpReturn
  <2>1. PICK l \in Lookup : l = Last(calling)
    BY <1>4, CalledAreLookups, FrontCalls DEF PumpReturn
  <2>2. /\ l \in Called
        /\ calling' \in Seq(Lookup) /\ OnceEach(calling)' /\ Called' = Called \ {l}
    BY <1>4, <2>1, FrontCalls DEF PumpReturn
  <2>3. QED
    BY <1>4, <2>1, <2>2 DEF PumpReturn
<1>5. QED
  BY <1>1, <1>2, <1>3, <1>4

LEMMA ShutdownSteps ==
    ASSUME LookupsInv, (\E detachOk \in BOOLEAN : Shutdown(detachOk)) \/ ShutdownJoined
    PROVE  LookupsInv'
<1> USE LookupConstants, CallingUnchanged
    DEF Calm, LookupsInv, Shape, PhaseInv, LookupInv, None, Ends, ResolverState, InGuest, Free
<1>1. ASSUME NEW detachOk \in BOOLEAN, Shutdown(detachOk) PROVE LookupsInv'
  <2>1. Called = {} /\ Called' = {} /\ joining = None /\ phase = "running"
    BY <1>1, NothingCalled DEF Shutdown
  <2>2. CASE current = None
    BY <1>1, <2>1, <2>2 DEF Shutdown
  <2>3. CASE current # None /\ phase' = "closed"
    <3>1. /\ current' = None /\ detached' = detached \cup {current} /\ current \notin done
          /\ UNCHANGED <<started, done, resolver, frees, joining, calling>>
      BY <1>1, <2>3 DEF Shutdown
    <3>2. QED
      BY <2>1, <2>3, <3>1
  <2>4. CASE current # None /\ phase' = "closing"
    <3>1. /\ joining' = current
          /\ UNCHANGED <<started, done, resolver, frees, current, detached, calling>>
      BY <1>1, <2>4 DEF Shutdown
    <3>2. current' \in Lookup /\ joining' = current' /\ phase' = "closing" /\ PhaseInv'
      BY <2>1, <2>4, <3>1
    <3>3. Shape'
      BY <2>1, <2>4, <3>1, <3>2
    <3>4. ASSUME NEW l \in Lookup PROVE LookupInv(l)'
      <4>1. LookupInv(l) /\ l \notin Called /\ l \notin Called'
        BY <2>1
      <4>2. CASE l = current
        BY <2>4, <3>1, <4>1, <4>2
      <4>3. CASE l # current
        BY <2>1, <2>4, <3>1, <4>1, <4>3
      <4>4. QED
        BY <4>2, <4>3
    <3>5. QED
      BY <3>2, <3>3, <3>4 DEF LookupsInv
  <2>5. QED
    BY <1>1, <2>2, <2>3, <2>4 DEF Shutdown
<1>2. CASE ShutdownJoined
  BY <1>2 DEF ShutdownJoined
<1>3. QED
  BY <1>1, <1>2

LEMMA LookupsStep == LookupsInv /\ [Next]_vars => LookupsInv'
<1> SUFFICES ASSUME LookupsInv, [Next]_vars PROVE LookupsInv'
  OBVIOUS
<1>1. CASE Next
  BY <1>1, GuestSteps, ResolverSteps, PumpSteps, ShutdownSteps DEF Next, OtherNext
<1>2. CASE UNCHANGED vars
  BY <1>2, CallingUnchanged DEF Calm, vars, LookupsInv, Shape, PhaseInv, LookupInv
<1>3. QED
  BY <1>1, <1>2

\* The lookups of a configured host are lookups: what the configuration adds changes
\* nothing of theirs.
THEOREM ConfiguredAreLookups == ConfiguredSpec => Spec
<1>1. ConfiguredInit => Init
  BY DEF ConfiguredInit
<1>2. [ConfiguredNext]_allVars => [Next]_vars
  BY DEF ConfiguredNext, allVars, Reading, Asking, Others, Next
<1>3. QED
  BY <1>1, <1>2, PTL DEF ConfiguredSpec, Spec

\* Every lookup, whoever has it: the caller, its thread, the pump or the shutdown.
THEOREM LookupsAlways == ConfiguredSpec => []LookupsInv
  BY LookupsInitially, LookupsStep, ConfiguredAreLookups, PTL DEF Spec

\* Each lookup has one owner until it is freed, and then none (g_dns_lookup, the pump,
\* the shutdown and the detached thread).
THEOREM OneOwnerAlways == ConfiguredSpec => []OneOwner
<1>1. LookupsInv => OneOwner
  <2> SUFFICES ASSUME LookupsInv, NEW l \in Lookup
               PROVE  IF frees[l] = 0 THEN resolver[l] # "none" => \E role \in Role :
                                 /\ Holds(role, l)
                                 /\ \A other \in Role : Holds(other, l) => other = role
                      ELSE /\ frees[l] = 1
                           /\ \A role \in Role : ~Holds(role, l)
                           /\ resolver[l] # "resolving"
    BY DEF OneOwner
  <2>1. LookupInv(l) /\ PhaseInv /\ resolver[l] \in ResolverState
    BY DEF LookupsInv, Shape
  <2>2. \A role \in Role : Holds(role, l) <=>
                \/ role = "global" /\ current = l /\ phase # "closing"
                \/ role = "joining" /\ joining = l
                \/ role = "callback" /\ l \in Called
                \/ role = "resolver" /\ l \in detached /\ Threaded(l)
    BY CalledAreInCallback DEF Holds
  <2>3. CASE frees[l] = 0
    <3> SUFFICES ASSUME resolver[l] # "none"
                 PROVE  \E role \in Role : /\ Holds(role, l)
                                          /\ \A other \in Role : Holds(other, l) => other = role
      BY <2>3
    <3>1. CASE joining = l
      BY <2>1, <2>2, <3>1 DEF LookupInv, PhaseInv, Role, None, Lookup
    <3>2. CASE joining # l /\ current = l
      BY <2>1, <2>2, <3>2 DEF LookupInv, PhaseInv, Role, None, Lookup
    <3>3. CASE l \in Called
      BY <2>1, <2>2, <3>3 DEF LookupInv, PhaseInv, Role
    <3>4. CASE l \in detached /\ resolver[l] # "exited"
      BY <2>1, <2>2, <3>4 DEF LookupInv, PhaseInv, Role, Threaded, ResolverState
    <3>5. QED
      BY <2>1, <2>3, <3>1, <3>2, <3>3, <3>4 DEF LookupInv
  <2>4. CASE frees[l] # 0
    BY <2>1, <2>2, <2>4 DEF LookupInv, Role, Threaded, Ends
  <2>5. QED
    BY <2>3, <2>4
<1>2. QED
  BY <1>1, LookupsAlways, PTL

\* s3eInetLookupCancel is final, for whoever has the lookup when it is called.
THEOREM CancelledNeverCalledAlways == ConfiguredSpec => []CancelledNeverCalled
<1>1. LookupsInv => CancelledNeverCalled
  <2> SUFFICES ASSUME LookupsInv, NEW l \in cancelled, InCallback(l) PROVE FALSE
    BY DEF CancelledNeverCalled
  <2>1. l \in Called /\ l \in Lookup
    BY CalledAreInCallback, CalledAreLookups DEF LookupsInv, Shape
  <2>2. QED
    BY <2>1 DEF LookupsInv, LookupInv
<1>2. QED
  BY <1>1, LookupsAlways, PTL

\* s3e_socket_pump joins only a thread that has left getaddrinfo.
THEOREM PumpNeverWaitsAlways == ConfiguredSpec => []PumpNeverWaitsForDns
<1>1. LookupsInv => PumpNeverWaitsForDns
  BY DEF LookupsInv, LookupInv, PhaseInv, Shape, PumpNeverWaitsForDns
<1>2. QED
  BY <1>1, LookupsAlways, PTL
-----------------------------------------------------------------------------
(* The configuration.  A table is read through its first entry of a name;   *)
(* what a setting does to that is all the proofs need of the table.         *)

\* A set of numbers that is not empty has a least one, and Min returns it.
LEMMA MinIsLeast ==
    ASSUME NEW S \in SUBSET Nat, S # {}
    PROVE  Min(S) \in S /\ \A y \in S : Min(S) <= y
<1> DEFINE Below == OpToRel(<, Nat)
<1>1. \A x, y \in Nat : <<y, x>> \in Below <=> y < x
  BY DEF OpToRel
<1>2. IsWellFoundedOn(Below, Nat)
  BY NatLessThanWellFounded
<1> HIDE DEF Below
<1>3. PICK x \in S : \A y \in S : ~(<<y, x>> \in Below)
  BY <1>2, WFMin
<1>4. \A y \in S : x =< y
  <2> SUFFICES ASSUME NEW y \in S PROVE ~(y < x)
    OBVIOUS
  <2>1. x \in Nat /\ y \in Nat
    OBVIOUS
  <2>2. QED
    BY <1>1, <1>3, <2>1, Zenon
<1>5. QED
  BY <1>4 DEF Min

Named(e, s, k) == e.section = s /\ e.key = k

FindIn(table, s, k) == SelectInSeq(table, LAMBDA e : e.section = s /\ e.key = k)

\* Where a name is found: at its first entry, 0 for none.
IsFirst(table, s, k, i) ==
    \/ i = 0 /\ \A j \in 1..Len(table) : ~Named(table[j], s, k)
    \/ /\ i \in 1..Len(table) /\ Named(table[i], s, k)
       /\ \A j \in 1..Len(table) : Named(table[j], s, k) => i <= j

LEMMA FoundFirst ==
    ASSUME NEW S, NEW table \in Seq(S), NEW s, NEW k
    PROVE  IsFirst(table, s, k, FindIn(table, s, k))
<1> DEFINE I == {i \in 1..Len(table) : table[i].section = s /\ table[i].key = k}
<1>1. FindIn(table, s, k) = IF I # {} THEN Min(I) ELSE 0
  BY DEF FindIn, SelectInSeq
<1>2. I \in SUBSET Nat
  OBVIOUS
<1>3. I # {} => Min(I) \in I /\ \A j \in I : Min(I) <= j
  BY <1>2, MinIsLeast
<1>4. QED
  BY <1>1, <1>3 DEF IsFirst, Named

LEMMA FirstIsOne ==
    ASSUME NEW S, NEW table \in Seq(S), NEW s, NEW k, NEW i, NEW j,
           IsFirst(table, s, k, i), IsFirst(table, s, k, j)
    PROVE  i = j
  BY DEF IsFirst

Read(table, s, k) == IF FindIn(table, s, k) = 0 THEN Missing ELSE table[FindIn(table, s, k)].value

LEMMA GetIsRead == \A s, k : Find(s, k) = FindIn(entries, s, k) /\ Get(s, k) = Read(entries, s, k)
  BY DEF Find, FindIn, Get, Read

Table(table) == Len(table) <= MaxEntries /\ \E S : table \in Seq(S)

\* config_set of a key that fits an entry: what is read under its name is the setting,
\* unless the table is full, and what is read under any other name stays.
LEMMA SettingIsRead ==
    ASSUME NEW table, Table(table), NEW s, NEW k, NEW v, s # Empty, Truncated[k] = k
    PROVE  LET after == WithSetting(table, Setting(s, k, v))
           IN  /\ Table(after) /\ Len(after) >= Len(table)
               /\ \/ Read(after, s, k) = v
                  \/ Read(after, s, k) = Missing /\ Len(after) = MaxEntries
               /\ \A t, l : ~(t = s /\ l = k) => Read(after, t, l) = Read(table, t, l)
<1> DEFINE setting == Setting(s, k, v)
           i == FindIn(table, s, k)
           after == WithSetting(table, setting)
<1>1. PICK S : table \in Seq(S)
  BY DEF Table
<1>2. setting.section = s /\ setting.key = k /\ setting.value = v
      /\ [setting EXCEPT !.key = Truncated[@]] = setting
  BY DEF Setting
<1>3. after = IF i # 0 THEN [table EXCEPT ![i] = setting]
              ELSE IF Len(table) < MaxEntries THEN Append(table, setting) ELSE table
  <2> DEFINE j == SelectInSeq(table, LAMBDA e : e.section = setting.section /\ e.key = setting.key)
  <2>1. i = j
    BY <1>2 DEF FindIn, SelectInSeq
  <2>2. after = CASE setting.section = Empty -> table
                  [] setting.section # Empty /\ j # 0 -> [table EXCEPT ![j] = setting]
                  [] OTHER -> IF Len(table) < MaxEntries THEN Append(table, setting) ELSE table
    BY <1>2 DEF WithSetting
  <2> HIDE DEF i, j, setting, after
  <2>3. QED
    BY <1>2, <2>1, <2>2
<1>4. IsFirst(table, s, k, i) /\ Len(table) \in Nat /\ Len(table) <= MaxEntries /\ MaxEntries \in Nat
  BY <1>1, FoundFirst, ConfigConstants DEF Table
<1> HIDE DEF setting, i, after
<1>5. CASE i # 0
  <2>1. i \in 1..Len(table) /\ after = [table EXCEPT ![i] = setting]
    BY <1>3, <1>4, <1>5 DEF IsFirst
  <2>2. /\ after \in Seq(S \cup {setting}) /\ Len(after) = Len(table)
        /\ \A j \in 1..Len(table) : after[j] = IF j = i THEN setting ELSE table[j]
    BY <1>1, <2>1
  <2>3. IsFirst(after, s, k, i)
    BY <1>2, <1>4, <2>1, <2>2 DEF IsFirst, Named
  <2>4. FindIn(after, s, k) = i
    BY <2>2, <2>3, FoundFirst, FirstIsOne
  <2>5. Read(after, s, k) = v
    BY <1>2, <1>5, <2>1, <2>2, <2>4 DEF Read
  <2>6. ASSUME NEW t, NEW l, ~(t = s /\ l = k) PROVE Read(after, t, l) = Read(table, t, l)
    <3> DEFINE f == FindIn(table, t, l)
    <3>1. IsFirst(table, t, l, f)
      BY <1>1, FoundFirst
    <3>2. \A j \in 1..Len(table) : Named(after[j], t, l) <=> Named(table[j], t, l)
      BY <1>2, <1>4, <1>5, <2>2, <2>6 DEF Named, IsFirst
    <3> HIDE DEF f
    <3>3. IsFirst(after, t, l, f)
      BY <2>2, <3>1, <3>2 DEF IsFirst
    <3>4. FindIn(after, t, l) = f
      BY <2>2, <3>3, FoundFirst, FirstIsOne
    <3>5. f # 0 => after[f] = table[f]
      BY <1>4, <1>5, <2>2, <2>6, <3>1 DEF IsFirst, Named
    <3>6. QED
      BY <3>4, <3>5 DEF Read, f
  <2>7. QED
    BY <1>4, <2>2, <2>5, <2>6 DEF Table, after, setting
<1>6. CASE i = 0 /\ Len(table) < MaxEntries
  <2>1. after = Append(table, setting) /\ table \in Seq(S \cup {setting})
    BY <1>1, <1>3, <1>6
  <2>2. /\ after \in Seq(S \cup {setting}) /\ Len(after) = Len(table) + 1
        /\ after[Len(table) + 1] = setting
        /\ \A j \in 1..Len(table) : after[j] = table[j]
    BY <2>1, AppendProperties
  <2>3. IsFirst(after, s, k, Len(table) + 1)
    BY <1>2, <1>4, <1>6, <2>2 DEF IsFirst, Named
  <2>4. FindIn(after, s, k) = Len(table) + 1
    BY <2>2, <2>3, FoundFirst, FirstIsOne
  <2>5. Read(after, s, k) = v
    BY <1>2, <1>4, <2>2, <2>4 DEF Read
  <2>6. ASSUME NEW t, NEW l, ~(t = s /\ l = k) PROVE Read(after, t, l) = Read(table, t, l)
    <3> DEFINE f == FindIn(table, t, l)
    <3>1. IsFirst(table, t, l, f)
      BY <1>1, FoundFirst
    <3>2. ~Named(after[Len(table) + 1], t, l)
      BY <1>2, <2>2, <2>6 DEF Named
    <3> HIDE DEF f
    <3>3. IsFirst(after, t, l, f)
      BY <1>4, <2>2, <3>1, <3>2 DEF IsFirst
    <3>4. FindIn(after, t, l) = f
      BY <2>2, <3>3, FoundFirst, FirstIsOne
    <3>5. f # 0 => after[f] = table[f]
      BY <2>2, <3>1 DEF IsFirst
    <3>6. QED
      BY <3>4, <3>5 DEF Read, f
  <2>7. QED
    BY <1>4, <1>6, <2>2, <2>5, <2>6 DEF Table, after, setting
<1>7. CASE i = 0 /\ ~(Len(table) < MaxEntries)
  <2>1. after = table /\ Len(after) = MaxEntries
    BY <1>3, <1>4, <1>7
  <2>2. Read(after, s, k) = Missing
    BY <1>7, <2>1 DEF Read, i
  <2>3. QED
    BY <1>4, <2>1, <2>2 DEF Table, after, setting
<1>8. QED
  BY <1>5, <1>6, <1>7
\* The tables that AllSet goes through, of the three or four settings the host makes.
LEMMA AllSetIs ==
    ASSUME NEW table, NEW settings, Len(settings) \in {3, 4}
    PROVE  \E after : /\ after[0] = table
                      /\ \A n \in 1..Len(settings) : after[n] = WithSetting(after[n - 1], settings[n])
                      /\ AllSet(table, settings) = after[Len(settings)]
<1> DEFINE t1 == WithSetting(table, settings[1])
           t2 == WithSetting(t1, settings[2])
           t3 == WithSetting(t2, settings[3])
           t4 == WithSetting(t3, settings[4])
           made == [n \in 0..Len(settings) |->
                       IF n = 0 THEN table ELSE IF n = 1 THEN t1 ELSE IF n = 2 THEN t2
                       ELSE IF n = 3 THEN t3 ELSE t4]
           Made(g) == [n \in 0..Len(settings) |-> IF n = 0 THEN table
                                                  ELSE WithSetting(g[n - 1], settings[n])]
           after == CHOOSE g : g = Made(g)
<1>1. made = Made(made)
  <2>1. ASSUME NEW n \in 0..Len(settings), n # 0 PROVE made[n] = WithSetting(made[n - 1], settings[n])
    <3>1. n \in {1, 2, 3, 4} /\ n - 1 \in 0..Len(settings)
      <4>1. CASE Len(settings) = 3
        BY <2>1, <4>1
      <4>2. CASE Len(settings) = 4
        BY <2>1, <4>2
      <4>3. QED
        BY <4>1, <4>2
    <3>2. made[0] = table /\ (n >= 1 => made[1] = t1) /\ (n >= 2 => made[2] = t2)
          /\ (n >= 3 => made[3] = t3) /\ (n = 4 => made[4] = t4)
      BY <3>1
    <3> HIDE DEF made
    <3>3. QED
      BY <3>1, <3>2
  <2>2. made[0] = table /\ made = [n \in 0..Len(settings) |-> made[n]]
    OBVIOUS
  <2> HIDE DEF made, t1, t2, t3, t4
  <2>3. QED
    BY <2>1, <2>2
<1>2. after = Made(after)
  <2> HIDE DEF made, Made
  <2>1. QED
    BY <1>1
<1>3. AllSet(table, settings) = after[Len(settings)]
  BY DEF AllSet
<1> HIDE DEF after, made, t1, t2, t3, t4
<1>4. after[0] = table /\ \A n \in 1..Len(settings) : after[n] = WithSetting(after[n - 1], settings[n])
  BY <1>2
<1>5. QED
  BY <1>3, <1>4

OwnKeys == {"EnableGC", "VoiceChatEnabled", "OnlineAccount", "AuthServer"}

\* What the host sets: nothing twice, and the account says whether there is a server.
LEMMA HostSettingsAre ==
    ASSUME NEW c
    PROVE  LET own == HostSettings(c)
           IN  /\ Len(own) \in {3, 4} /\ DOMAIN own = 1..Len(own)
               /\ \A i \in 1..Len(own) : /\ own[i] = Setting(own[i].section, own[i].key, own[i].value)
                                         /\ own[i].section # Empty /\ own[i].key \in OwnKeys
                                         /\ own[i].value.kind = "text"
               /\ \A i, j \in 1..Len(own) : own[i].key = own[j].key => i = j
               /\ own[3] = Setting("GAME", "OnlineAccount", Text(IF Enabled(c) THEN "GENERIC" ELSE "NONE"))
<1> DEFINE voice == Text(IF c.voice = "yes" THEN "1" ELSE "0")
           account == Text(IF Enabled(c) THEN "GENERIC" ELSE "NONE")
           always == <<Setting("GAME", "EnableGC", Text("0")),
                       Setting("GAME", "VoiceChatEnabled", voice),
                       Setting("GAME", "OnlineAccount", account)>>
           own == HostSettings(c)
<1>1. "GAME" # Empty /\ "Demonware" # Empty
  BY DEF Empty
<1>2. own = always \o IF Enabled(c) THEN <<>> ELSE <<Setting("Demonware", "AuthServer", Text(Empty))>>
  BY DEF HostSettings
<1> HIDE DEF voice, account, own
<1>3. /\ Len(own) = IF Enabled(c) THEN 3 ELSE 4
      /\ DOMAIN own = 1..Len(own)
      /\ own[1] = Setting("GAME", "EnableGC", Text("0"))
      /\ own[2] = Setting("GAME", "VoiceChatEnabled", voice)
      /\ own[3] = Setting("GAME", "OnlineAccount", account)
      /\ ~Enabled(c) => own[4] = Setting("Demonware", "AuthServer", Text(Empty))
  <2>1. CASE Enabled(c)
    BY <1>2, <2>1
  <2>2. CASE ~Enabled(c)
    BY <1>2, <2>2
  <2>3. QED
    BY <2>1, <2>2
<1>4. \A i \in 1..Len(own) : i \in {1, 2, 3} \/ (i = 4 /\ ~Enabled(c))
  BY <1>3
<1>5. \A i \in 1..Len(own) : /\ own[i] = Setting(own[i].section, own[i].key, own[i].value)
                             /\ own[i].section \in {"GAME", "Demonware"} /\ own[i].key \in OwnKeys
                             /\ own[i].value.kind = "text"
  <2>1. \A t : Text(t).kind = "text"
    BY DEF Text
  <2>2. voice.kind = "text" /\ account.kind = "text"
    BY <2>1 DEF voice, account
  <2>3. QED
    BY <1>3, <1>4, <2>1, <2>2 DEF Setting, OwnKeys
<1>6. own[1].key = "EnableGC" /\ own[2].key = "VoiceChatEnabled" /\ own[3].key = "OnlineAccount"
      /\ (~Enabled(c) => own[4].key = "AuthServer")
  BY <1>3 DEF Setting
<1>7. \A i, j \in 1..Len(own) : own[i].key = own[j].key => i = j
  BY <1>4, <1>6
<1>8. QED
  BY <1>1, <1>3, <1>5, <1>7 DEF own, account

\* The settings made so far are what is read under their names, or the table is full.
MadeSoFar(table, own, n) ==
    \A i \in 1..n : \/ Read(table, own[i].section, own[i].key) = own[i].value
                    \/ Read(table, own[i].section, own[i].key) = Missing /\ Len(table) = MaxEntries

\* What the host sets is what is read in the end.
LEMMA OwnAreRead ==
    ASSUME NEW table, Table(table), NEW c
    PROVE  LET own == HostSettings(c)
               after == AllSet(table, own)
           IN  Table(after) /\ MadeSoFar(after, own, Len(own))
<1> DEFINE own == HostSettings(c)
<1>1. /\ Len(own) \in {3, 4}
      /\ \A i \in 1..Len(own) : /\ own[i] = Setting(own[i].section, own[i].key, own[i].value)
                                /\ own[i].section # Empty /\ own[i].key \in OwnKeys
      /\ \A i, j \in 1..Len(own) : own[i].key = own[j].key => i = j
  BY HostSettingsAre
<1> HIDE DEF own
<1>2. PICK after : /\ after[0] = table
                   /\ \A n \in 1..Len(own) : after[n] = WithSetting(after[n - 1], own[n])
                   /\ AllSet(table, own) = after[Len(own)]
  BY <1>1, AllSetIs
<1>3. ASSUME NEW n \in 1..Len(own), Table(after[n - 1]), MadeSoFar(after[n - 1], own, n - 1)
      PROVE  Table(after[n]) /\ MadeSoFar(after[n], own, n)
  <2> DEFINE before == after[n - 1]
             s == own[n].section
             k == own[n].key
  <2>1. after[n] = WithSetting(before, Setting(s, k, own[n].value)) /\ Truncated[k] = k /\ s # Empty
    BY <1>1, <1>2, ConfigConstants DEF OwnKeys
  <2>2. Table(before) /\ n \in Nat /\ n - 1 \in Nat
    BY <1>1, <1>3
  <2> HIDE DEF before
  <2>3. /\ Table(after[n]) /\ Len(after[n]) >= Len(before)
        /\ \/ Read(after[n], s, k) = own[n].value
           \/ Read(after[n], s, k) = Missing /\ Len(after[n]) = MaxEntries
        /\ \A t, l : ~(t = s /\ l = k) => Read(after[n], t, l) = Read(before, t, l)
    BY <2>1, <2>2, SettingIsRead
  <2>4. Len(before) = MaxEntries => Len(after[n]) = MaxEntries
    BY <2>2, <2>3, ConfigConstants DEF Table
  <2>5. ASSUME NEW i \in 1..(n - 1)
        PROVE  \/ Read(after[n], own[i].section, own[i].key) = own[i].value
               \/ Read(after[n], own[i].section, own[i].key) = Missing /\ Len(after[n]) = MaxEntries
    <3>1. own[i].key # k
      BY <1>1
    <3>2. Read(after[n], own[i].section, own[i].key) = Read(before, own[i].section, own[i].key)
      BY <2>3, <3>1
    <3>3. \/ Read(before, own[i].section, own[i].key) = own[i].value
          \/ Read(before, own[i].section, own[i].key) = Missing /\ Len(before) = MaxEntries
      BY <1>3 DEF MadeSoFar, before
    <3>4. QED
      BY <2>4, <3>2, <3>3
  <2>6. \A i \in 1..n : i = n \/ i \in 1..(n - 1)
    BY <2>2
  <2>7. QED
    BY <2>3, <2>5, <2>6 DEF MadeSoFar
<1>4. Table(after[0]) /\ MadeSoFar(after[0], own, 0)
  BY <1>2 DEF MadeSoFar
<1>5. Table(after[1]) /\ MadeSoFar(after[1], own, 1)
  <2>1. 1 \in 1..Len(own) /\ 1 - 1 = 0
    BY <1>1
  <2>2. QED
    BY <1>3, <1>4, <2>1
<1>6. Table(after[2]) /\ MadeSoFar(after[2], own, 2)
  <2>1. 2 \in 1..Len(own) /\ 2 - 1 = 1
    BY <1>1
  <2>2. QED
    BY <1>3, <1>5, <2>1
<1>7. Table(after[3]) /\ MadeSoFar(after[3], own, 3)
  <2>1. 3 - 1 = 2
    OBVIOUS
  <2>2. 3 \in 1..Len(own)
    <3>1. CASE Len(own) = 3
      BY <3>1
    <3>2. CASE Len(own) = 4
      BY <3>2
    <3>3. QED
      BY <1>1, <3>1, <3>2
  <2>3. QED
    BY <1>3, <1>6, <2>1, <2>2
<1>8. CASE Len(own) = 4
  <2>1. 4 \in 1..Len(own) /\ 4 - 1 = 3
    BY <1>8
  <2>2. QED
    BY <1>2, <1>3, <1>7, <1>8, <2>1 DEF own
<1>9. QED
  BY <1>1, <1>2, <1>7, <1>8 DEF own
-----------------------------------------------------------------------------
\* What s3eConfigGetInt computes at one depth from what it computes one deeper.
From(deeper, depth) ==
    [i \in 0..Len(entries) |-> IF depth > 4 THEN <<>> ELSE IntOf(i, deeper)]

LEMMA DeepestIs == \A deeper : From(deeper, 5) = [i \in 0..Len(entries) |-> <<>>]
  BY DEF From

LEMMA IntExists == \E int : int = [depth \in 0..5 |-> From(int[depth + 1], depth)]
<1> DEFINE g5 == [i \in 0..Len(entries) |-> <<>>]
           g4 == From(g5, 4)
           g3 == From(g4, 3)
           g2 == From(g3, 2)
           g1 == From(g2, 1)
           g0 == From(g1, 0)
           int == [depth \in 0..5 |-> CASE depth = 0 -> g0 [] depth = 1 -> g1 [] depth = 2 -> g2
                                        [] depth = 3 -> g3 [] depth = 4 -> g4 [] depth = 5 -> g5]
<1>1. /\ int[0] = g0 /\ int[1] = g1 /\ int[2] = g2
      /\ int[3] = g3 /\ int[4] = g4 /\ int[5] = g5
  OBVIOUS
<1>2. g5 = From(int[6], 5)
  BY DeepestIs
<1>3. int = [depth \in 0..5 |-> int[depth]]
  OBVIOUS
<1> HIDE DEF int
<1>4. ASSUME NEW depth \in 0..5
      PROVE  int[depth] = From(int[depth + 1], depth)
  <2> HIDE DEF g5
  <2>1. CASE depth = 0
    BY <1>1, <2>1
  <2>2. CASE depth = 1
    BY <1>1, <2>2
  <2>3. CASE depth = 2
    BY <1>1, <2>3
  <2>4. CASE depth = 3
    BY <1>1, <2>4
  <2>5. CASE depth = 4
    BY <1>1, <2>5
  <2>6. CASE depth = 5
    BY <1>1, <1>2, <2>6
  <2>7. QED
    BY <2>1, <2>2, <2>3, <2>4, <2>5, <2>6
<1>5. int = [depth \in 0..5 |-> From(int[depth + 1], depth)]
  BY <1>3, <1>4
<1>6. QED
  BY <1>5

\* What s3eConfigGetInt returns.
LEMMA GetIntIs ==
    \E int : /\ \A depth \in 0..5 : int[depth] = From(int[depth + 1], depth)
             /\ \A s, k : GetInt(s, k) = int[0][Find(s, k)]
<1> DEFINE Body(f) == [depth \in 0..5 |-> From(f[depth + 1], depth)]
           int == CHOOSE f : f = Body(f)
<1>1. \A s, k : GetInt(s, k) = int[0][Find(s, k)]
  BY DEF GetInt, From
<1>2. int = Body(int)
  <2>1. \E f : f = Body(f)
    BY IntExists
  <2> HIDE DEF Body
  <2>2. QED
    BY <2>1
<1> HIDE DEF int
<1>3. \A depth \in 0..5 : int[depth] = From(int[depth + 1], depth)
  BY <1>2
<1>4. QED
  BY <1>1, <1>3

\* Two entries that refer to each other have no integer.
LEMMA CirclesRefused ==
    ASSUME Table(entries), NEW i \in 1..Len(entries), NEW j \in 1..Len(entries),
           entries[i].value.kind = "reference", entries[j].value.kind = "reference",
           Find(entries[i].value.section, entries[i].value.key) = j,
           Find(entries[j].value.section, entries[j].value.key) = i
    PROVE  GetInt(entries[i].section, entries[i].key) = <<>>
<1>0. Len(entries) \in Nat
  BY DEF Table
<1>1. PICK int : /\ \A depth \in 0..5 : int[depth] = From(int[depth + 1], depth)
                 /\ \A s, k : GetInt(s, k) = int[0][Find(s, k)]
  BY GetIntIs
<1>2. Find(entries[i].section, entries[i].key) = i
  <2>1. PICK S : entries \in Seq(S)
    BY DEF Table
  <2> DEFINE s == entries[j].value.section
             k == entries[j].value.key
  <2>2. IsFirst(entries, s, k, i)
    BY <2>1, FoundFirst, GetIsRead
  <2> HIDE DEF s, k
  <2>3. entries[i].section = s /\ entries[i].key = k
    BY <2>2 DEF IsFirst, Named
  <2>4. QED
    BY <2>3 DEF s, k
<1>3. ASSUME NEW depth \in 0..4
      PROVE  /\ int[depth + 1][j] = <<>> => int[depth][i] = <<>>
             /\ int[depth + 1][i] = <<>> => int[depth][j] = <<>>
  <2>1. int[depth] = From(int[depth + 1], depth)
    BY <1>1
  <2>2. i \in 0..Len(entries) /\ j \in 0..Len(entries) /\ i # 0 /\ j # 0
    BY <1>0
  <2>3. QED
    BY <2>1, <2>2 DEF From, IntOf
<1>4. int[5][i] = <<>> /\ int[5][j] = <<>>
  BY <1>0, <1>1, DeepestIs
<1>5. int[4][i] = <<>> /\ int[4][j] = <<>>
  BY <1>3, <1>4
<1>6. int[3][i] = <<>> /\ int[3][j] = <<>>
  BY <1>3, <1>5
<1>7. int[2][i] = <<>> /\ int[2][j] = <<>>
  BY <1>3, <1>6
<1>8. int[1][i] = <<>> /\ int[1][j] = <<>>
  BY <1>3, <1>7
<1>9. int[0][i] = <<>>
  BY <1>3, <1>8
<1>10. QED
  BY <1>1, <1>2, <1>9
\* A text is read as the integer it begins with.
LEMMA TextsAreRead ==
    ASSUME Table(entries), NEW s, NEW k, Get(s, k).kind = "text"
    PROVE  GetInt(s, k) = NumberIn(Get(s, k).text)
<1>1. PICK int : /\ \A depth \in 0..5 : int[depth] = From(int[depth + 1], depth)
                 /\ \A t, l : GetInt(t, l) = int[0][Find(t, l)]
  BY GetIntIs
<1>2. int[0] = From(int[1], 0)
  BY <1>1
<1>3. Find(s, k) = 0 \/ Find(s, k) \in 1..Len(entries)
  <2>1. PICK S : entries \in Seq(S)
    BY DEF Table
  <2>2. IsFirst(entries, s, k, Find(s, k))
    BY <2>1, FoundFirst, GetIsRead
  <2>3. QED
    BY <2>2 DEF IsFirst
<1>4. GetInt(s, k) = IntOf(Find(s, k), int[1])
  <2>1. Find(s, k) \in 0..Len(entries)
    BY <1>3 DEF Table
  <2>2. From(int[1], 0)[Find(s, k)] = IntOf(Find(s, k), int[1])
    BY <2>1 DEF From
  <2>3. GetInt(s, k) = int[0][Find(s, k)]
    BY <1>1
  <2>4. QED
    BY <1>2, <2>2, <2>3
<1>5. CASE Find(s, k) = 0
  <2>1. Get(s, k).text = "missing"
    BY <1>5 DEF Get, Missing, Text
  <2>2. NumberIn("missing") = <<>>
    BY DEF NumberIn
  <2>3. QED
    BY <1>4, <1>5, <2>1, <2>2 DEF IntOf
<1>6. CASE Find(s, k) # 0
  BY <1>4, <1>6 DEF IntOf, Get
<1>7. QED
  BY <1>5, <1>6

\* config_set of any line keeps the table within its size.
LEMMA SettingKeepsTable ==
    ASSUME NEW table, Table(table), NEW setting
    PROVE  Table(WithSetting(table, setting))
<1> DEFINE stored == [setting EXCEPT !.key = Truncated[@]]
           i == SelectInSeq(table, LAMBDA e : e.section = setting.section /\ e.key = setting.key)
           after == WithSetting(table, setting)
<1>1. PICK S : table \in Seq(S)
  BY DEF Table
<1>2. i = FindIn(table, setting.section, setting.key)
  BY DEF FindIn
<1>3. i = 0 \/ i \in 1..Len(table)
  BY <1>1, <1>2, FoundFirst DEF IsFirst
<1>4. after = CASE setting.section = Empty -> table
                [] setting.section # Empty /\ i # 0 -> [table EXCEPT ![i] = stored]
                [] OTHER -> IF Len(table) < MaxEntries THEN Append(table, stored) ELSE table
  BY DEF WithSetting
<1> HIDE DEF stored, i, after
<1>5. \/ after = table
      \/ i \in 1..Len(table) /\ after = [table EXCEPT ![i] = stored]
      \/ Len(table) < MaxEntries /\ after = Append(table, stored)
  BY <1>3, <1>4
<1>6. Len(table) \in Nat /\ Len(table) <= MaxEntries /\ MaxEntries \in Nat
      /\ table \in Seq(S \cup {stored})
  BY <1>1, ConfigConstants DEF Table
<1>7. after \in Seq(S \cup {stored}) /\ Len(after) <= MaxEntries
  <2>1. CASE after = table
    BY <1>6, <2>1
  <2>2. CASE i \in 1..Len(table) /\ after = [table EXCEPT ![i] = stored]
    BY <1>6, <2>2
  <2>3. CASE Len(table) < MaxEntries /\ after = Append(table, stored)
    BY <1>6, <2>3, AppendProperties
  <2>4. QED
    BY <1>5, <2>1, <2>2, <2>3
<1>8. QED
  BY <1>7 DEF Table, after

\* What has been asked before it was configured, and whether what the host set is still
\* what is read.
AskedInv == DOMAIN asked = Lookup /\ DOMAIN names = Lookup
            /\ \A l \in Lookup : asked[l] = "game" => Configured /\ names[l] = ResolveHostname("game")

TableInv == /\ Table(entries)
            /\ Configured => /\ unread = <<>>
                             /\ LET own == HostSettings(control[1])
                                IN  MadeSoFar(entries, own, Len(own))

LEMMA ConfigInitially == ConfiguredInit => TableInv /\ AskedInv
<1> SUFFICES ASSUME ConfiguredInit PROVE TableInv /\ AskedInv
  OBVIOUS
<1>1. entries = <<>> /\ control = <<>> /\ asked = [l \in Lookup |-> "none"]
      /\ names = [l \in Lookup |-> "none"]
  BY DEF ConfiguredInit, ConfigInit
<1>2. ~Configured
  BY <1>1 DEF Configured
<1>3. <<>> \in Seq({}) /\ Len(<<>>) = 0
  OBVIOUS
<1>4. Table(entries)
  BY <1>1, <1>3, ConfigConstants DEF Table
<1>5. \A l \in Lookup : asked[l] # "game"
  BY <1>1
<1>6. QED
  BY <1>1, <1>2, <1>4, <1>5 DEF TableInv, AskedInv

LEMMA ConfigStep == TableInv /\ AskedInv /\ [ConfiguredNext]_allVars => TableInv' /\ AskedInv'
<1> SUFFICES ASSUME TableInv, AskedInv, [ConfiguredNext]_allVars PROVE TableInv' /\ AskedInv'
  OBVIOUS
<1>1. CASE ReadLine /\ UNCHANGED <<vars, asked, names>>
  <2>1. /\ unread # <<>> /\ UNCHANGED control /\ UNCHANGED <<asked, names>>
        /\ \/ UNCHANGED entries
           \/ \E setting : entries' = WithSetting(entries, setting)
    BY <1>1 DEF ReadLine
  <2>2. ~Configured /\ ~Configured'
    BY <2>1 DEF TableInv, Configured
  <2>3. Table(entries) /\ Table(entries)'
    BY <2>1, SettingKeepsTable DEF TableInv
  <2>4. QED
    BY <2>1, <2>2, <2>3 DEF TableInv, AskedInv
<1>2. CASE Configure /\ UNCHANGED <<vars, asked, names>>
  <2>1. ~Configured /\ UNCHANGED <<unread, asked, names>> /\ unread = <<>>
    BY <1>2 DEF Configure
  <2>2. PICK c : control' = <<c>> /\ entries' = AllSet(entries, HostSettings(c))
    BY <1>2 DEF Configure
  <2>3. control'[1] = c
    BY <2>2
  <2>4. /\ Table(entries')
        /\ LET own == HostSettings(c) IN MadeSoFar(entries', own, Len(own))
    BY <2>2, OwnAreRead DEF TableInv
  <2>5. AskedInv'
    BY <2>1 DEF AskedInv
  <2>6. QED
    BY <2>1, <2>3, <2>4, <2>5 DEF TableInv
<1>3. ASSUME NEW name \in {"game", "other"}, Asking(name) PROVE TableInv' /\ AskedInv'
  <2>1. /\ Configured /\ UNCHANGED configVars
        /\ asked' = [asked EXCEPT ![started'] = name]
        /\ names' = [names EXCEPT ![started'] = ResolveHostname(name)]
    BY <1>3 DEF Asking
  <2>2. UNCHANGED <<control, unread, entries>> /\ Configured'
    BY <2>1 DEF configVars, Configured
  <2>3. ResolveHostname("game")' = ResolveHostname("game")
    BY <2>1, <2>2 DEF ResolveHostname
  <2>4. \A l \in Lookup : \/ asked'[l] = asked[l] /\ names'[l] = names[l]
                          \/ asked'[l] = name /\ names'[l] = ResolveHostname(name)
    BY <2>1 DEF AskedInv
  <2>5. DOMAIN asked' = Lookup /\ DOMAIN names' = Lookup
    BY <2>1 DEF AskedInv
  <2>6. AskedInv'
    BY <2>2, <2>3, <2>4, <2>5 DEF AskedInv, Lookup
  <2>7. TableInv'
    BY <2>2 DEF TableInv, Configured
  <2>8. QED
    BY <2>6, <2>7
<1>4. CASE Others \/ UNCHANGED allVars
  <2>1. UNCHANGED <<control, unread, entries, asked, names>>
    BY <1>4 DEF Others, allVars, configVars
  <2>2. QED
    BY <2>1 DEF TableInv, AskedInv, Configured, ResolveHostname, Lookup
<1>5. QED
  BY <1>1, <1>2, <1>3, <1>4 DEF ConfiguredNext, Reading

\* Whatever the lines of the executable, the player's file and the size of the table:
\* told of an account of its own the game asks the player's server, told of none it asks
\* nobody else, no setting of the game's stands in the place of the host's, which read
\* as integers are the numbers they say, and integers that refer to each other are refused (s3e_host_set_config, s3eConfigGetInt,
\* s3e_multiplayer_resolve_hostname).
THEOREM OnlineAsToldAlways == ConfiguredSpec => []OnlineAsTold
<1>1. TableInv /\ AskedInv => OnlineAsTold
  <2> SUFFICES ASSUME TableInv, AskedInv, Configured PROVE OnlineAsTold
    BY DEF OnlineAsTold
  <2> DEFINE own == HostSettings(control[1])
             account == Get("GAME", "OnlineAccount")
             refers == {<<i, Find(entries[i].value.section, entries[i].value.key)>> :
                          i \in {j \in DOMAIN entries : entries[j].value.kind = "reference"}}
  <2>1. /\ Len(own) \in {3, 4} /\ DOMAIN own = 1..Len(own)
        /\ \A i \in 1..Len(own) : own[i].value.kind = "text"
        /\ own[3] = Setting("GAME", "OnlineAccount", Text(IF Enabled(control[1]) THEN "GENERIC" ELSE "NONE"))
    BY HostSettingsAre
  <2> HIDE DEF own
  <2>2. \A i \in DOMAIN own : \/ Get(own[i].section, own[i].key) = own[i].value
                              \/ Get(own[i].section, own[i].key) = Missing /\ Len(entries) = MaxEntries
    BY <2>1, GetIsRead DEF TableInv, MadeSoFar, own
  <2>3. account \in {own[3].value, Missing}
    BY <2>1, <2>2 DEF Setting
  <2>4. /\ account = Text("GENERIC") => Enabled(control[1])
        /\ account = Text("NONE") => ~Enabled(control[1])
    BY <2>1, <2>3 DEF Setting, Text, Missing
  <2>5. \A l \in Lookup : asked[l] = "game" => /\ account = Text("GENERIC") => names[l] = "player"
                                               /\ account = Text("NONE") => names[l] = "game"
    BY <2>4 DEF AskedInv, ResolveHostname
  <2>6. ASSUME NEW pair \in refers, <<pair[2], pair[1]>> \in refers
        PROVE  GetInt(entries[pair[1]].section, entries[pair[1]].key) = <<>>
    <3>1. DOMAIN entries = 1..Len(entries)
      BY DEF TableInv, Table
    <3> DEFINE refersTo(i, j) == /\ i \in 1..Len(entries) /\ entries[i].value.kind = "reference"
                                 /\ Find(entries[i].value.section, entries[i].value.key) = j
    <3>2. \A i, j : <<i, j>> \in refers => refersTo(i, j)
      BY <3>1
    <3>3. refersTo(pair[1], pair[2])
      BY <2>6, <3>1
    <3>4. refersTo(pair[2], pair[1])
      BY <2>6, <3>2
    <3> HIDE DEF refers
    <3>5. QED
      BY <3>3, <3>4, CirclesRefused DEF TableInv
  <2>7. \A i \in DOMAIN own : Get(own[i].section, own[i].key) = own[i].value =>
           GetInt(own[i].section, own[i].key) = NumberIn(Get(own[i].section, own[i].key).text)
    BY <2>1, TextsAreRead DEF TableInv
  <2>8. QED
    BY <2>2, <2>5, <2>6, <2>7 DEF OnlineAsTold, own
<1>2. ConfiguredSpec => [](TableInv /\ AskedInv)
  BY ConfigInitially, ConfigStep, PTL DEF ConfiguredSpec
<1>3. QED
  BY <1>1, <1>2, PTL
=============================================================================
