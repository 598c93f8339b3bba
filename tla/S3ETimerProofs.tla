--------------------------- MODULE S3ETimerProofs ---------------------------
(***************************************************************************)
(* Proofs about S3ETimer, for any set of threads, events and periods and   *)
(* any capacity.  The inductive invariant is stated over explicit          *)
(* arguments (a list q, the sequence s, the clock c), so that what a list  *)
(* operation or the passing of time does to it are lemmas about values.    *)
(***************************************************************************)
EXTENDS S3ETimer, Integers, SequenceTheorems, TLAPS

(* What the list operations return: removing at a position and inserting at a   *)
(* position.  Every proof about a list goes through these facts and leaves      *)
(* SubSeq and \o unexpanded.                                                    *)

\* r is q without its element at position i.
IsRemoval(q, i, r) ==
    /\ Len(r) = Len(q) - 1
    /\ \A j \in 1..Len(r) : r[j] = IF j < i THEN q[j] ELSE q[j + 1]

\* r is q with x inserted at position k.
IsInsertion(q, k, x, r) ==
    /\ Len(r) = Len(q) + 1
    /\ \A j \in 1..Len(r) : r[j] = IF j < k THEN q[j] ELSE IF j = k THEN x ELSE q[j - 1]

\* RemoveAt closes the gap and moves nothing else.
LEMMA RemoveAtIsRemoval ==
    ASSUME NEW S, NEW q \in Seq(S), NEW i \in 1..Len(q)
    PROVE  RemoveAt(q, i) \in Seq(S) /\ IsRemoval(q, i, RemoveAt(q, i))
<1> DEFINE front == SubSeq(q, 1, i - 1)
           back  == SubSeq(q, i + 1, Len(q))
<1>1. front \in Seq(S) /\ Len(front) = i - 1 /\ \A j \in 1..(i - 1) : front[j] = q[j]
  OBVIOUS
<1>2. back \in Seq(S) /\ Len(back) = Len(q) - i /\ \A j \in 1..(Len(q) - i) : back[j] = q[i + j]
  OBVIOUS
<1> HIDE DEF front, back
<1>3. /\ front \o back \in Seq(S)
      /\ Len(front \o back) = Len(front) + Len(back)
      /\ \A j \in 1..(Len(front) + Len(back)) :
            (front \o back)[j] = IF j <= Len(front) THEN front[j] ELSE back[j - Len(front)]
  BY <1>1, <1>2, ConcatProperties
<1>4. Len(front \o back) = Len(q) - 1
  BY <1>1, <1>2, <1>3
<1>5. ASSUME NEW j \in 1..(Len(q) - 1)
      PROVE  (front \o back)[j] = IF j < i THEN q[j] ELSE q[j + 1]
  <2>1. CASE j < i
    BY <2>1, <1>1, <1>2, <1>3
  <2>2. CASE ~(j < i)
    <3>1. (front \o back)[j] = back[j - (i - 1)]
      BY <2>2, <1>1, <1>2, <1>3
    <3>2. j - (i - 1) \in 1..(Len(q) - i) /\ i + (j - (i - 1)) = j + 1
      BY <2>2
    <3>3. QED
      BY <3>1, <3>2, <2>2, <1>2
  <2>3. QED
    BY <2>1, <2>2
<1>6. QED
  BY <1>3, <1>4, <1>5 DEF front, back, RemoveAt, IsRemoval

\* InsertAt opens a gap at k and moves nothing else.
LEMMA InsertAtIsInsertion ==
    ASSUME NEW S, NEW q \in Seq(S), NEW k \in 1..(Len(q) + 1), NEW x \in S
    PROVE  InsertAt(q, k, x) \in Seq(S) /\ IsInsertion(q, k, x, InsertAt(q, k, x))
<1> DEFINE front == SubSeq(q, 1, k - 1)
           left  == front \o <<x>>
           back  == SubSeq(q, k, Len(q))
<1>1. front \in Seq(S) /\ Len(front) = k - 1 /\ \A j \in 1..(k - 1) : front[j] = q[j]
  OBVIOUS
<1>2. /\ back \in Seq(S)
      /\ Len(back) = Len(q) + 1 - k
      /\ \A j \in 1..(Len(q) + 1 - k) : back[j] = q[k + j - 1]
  OBVIOUS
<1>3. left \in Seq(S) /\ Len(left) = k /\ \A j \in 1..k : left[j] = IF j < k THEN q[j] ELSE x
  <2> HIDE DEF front
  <2>1. QED
    BY <1>1, ConcatProperties
<1> HIDE DEF front, back, left
<1>4. /\ left \o back \in Seq(S)
      /\ Len(left \o back) = Len(left) + Len(back)
      /\ \A j \in 1..(Len(left) + Len(back)) :
            (left \o back)[j] = IF j <= Len(left) THEN left[j] ELSE back[j - Len(left)]
  BY <1>2, <1>3, ConcatProperties
<1>5. Len(left \o back) = Len(q) + 1
  BY <1>2, <1>3, <1>4
<1>6. ASSUME NEW j \in 1..(Len(q) + 1)
      PROVE  (left \o back)[j] = IF j < k THEN q[j] ELSE IF j = k THEN x ELSE q[j - 1]
  <2>1. CASE j <= k
    BY <2>1, <1>2, <1>3, <1>4
  <2>2. CASE ~(j <= k)
    <3>1. (left \o back)[j] = back[j - k]
      BY <2>2, <1>2, <1>3, <1>4
    <3>2. j - k \in 1..(Len(q) + 1 - k) /\ k + (j - k) - 1 = j - 1
      BY <2>2
    <3>3. QED
      BY <3>1, <3>2, <2>2, <1>2
  <2>3. QED
    BY <2>1, <2>2
<1>7. QED
  BY <1>4, <1>5, <1>6 DEF front, back, left, InsertAt, IsInsertion

-----------------------------------------------------------------------------
(* The invariant. *)

QueueInv(q, s) ==
    /\ q \in Seq(Timer)
    /\ Len(q) <= MaxEvents
    /\ \A i, j \in 1..Len(q) : i < j => Earlier(q[i], q[j])
    /\ \A i, j \in 1..Len(q) : q[i].event = q[j].event => i = j
    /\ \A i \in 1..Len(q) : q[i].seq <= s

PassInv(p, q, s, c) ==
    /\ p.now <= c
    /\ p.limit <= s
    /\ \A a \in p.fired : a.seq <= p.limit
    /\ p.pc = "limit" => p.fired = {} /\ p.limit = 0
    /\ Scanning(p) =>
         /\ \A i \in 1..Len(q) : q[i].seq > p.limit => q[i].due >= p.now
         /\ \A a \in p.fired : \A i \in 1..Len(q) :
               Eligible(p, q[i]) => a.event # q[i].event /\ Earlier(a, q[i])
         /\ \A a, b \in p.fired : a.event = b.event => a = b

IInv == /\ TypeOK
        /\ QueueInv(timers, sequence)
        /\ \A t \in Threads : \A n \in 1..Len(passes[t]) :
              PassInv(passes[t][n], timers, sequence, clock)

\* What every step does to the list: it drops timers or adds one set just now.
ListStep(q, s, c, q2) ==
    \A i \in 1..Len(q2) : \/ \E j \in 1..Len(q) : q2[i] = q[j]
                          \/ q2[i].seq > s /\ q2[i].due >= c

-----------------------------------------------------------------------------
LEMMA TailIsRemoval ==
    ASSUME NEW q \in Seq(Timer), q # <<>>
    PROVE  Tail(q) \in Seq(Timer) /\ IsRemoval(q, 1, Tail(q)) /\ Head(q) = q[1]
  BY HeadTailProperties DEF IsRemoval

\* Taking a timer out keeps the list in order.
LEMMA RemovalKeepsQueue ==
    ASSUME NEW s \in Nat, NEW q, QueueInv(q, s), NEW i \in 1..Len(q),
           NEW r \in Seq(Timer), IsRemoval(q, i, r)
    PROVE  /\ QueueInv(r, s)
           /\ \A j \in 1..Len(r) : \E k \in 1..Len(q) : k # i /\ r[j] = q[k]
           /\ \A j \in 1..Len(r) : r[j].event # q[i].event
<1> DEFINE old(j) == IF j < i THEN j ELSE j + 1
<1>1. \A j \in 1..Len(r) : old(j) \in 1..Len(q) /\ old(j) # i /\ r[j] = q[old(j)]
  BY DEF QueueInv, IsRemoval
<1>2. \A j, k \in 1..Len(r) : (j < k => old(j) < old(k)) /\ (old(j) = old(k) => j = k)
  BY DEF QueueInv
<1>3. Len(r) <= MaxEvents
  BY TimerConstants DEF QueueInv, IsRemoval
<1> HIDE DEF old
<1>4. \A j \in 1..Len(r) : \E k \in 1..Len(q) : k # i /\ r[j] = q[k]
  BY <1>1
<1>5. \A j \in 1..Len(r) : r[j].event # q[i].event
  BY <1>4 DEF QueueInv
<1>6. \A j, k \in 1..Len(r) : j < k => Earlier(r[j], r[k])
  BY <1>1, <1>2 DEF QueueInv
<1>7. \A j, k \in 1..Len(r) : r[j].event = r[k].event => j = k
  <2> TAKE j, k \in 1..Len(r)
  <2> HAVE r[j].event = r[k].event
  <2>1. old(j) = old(k)
    BY <1>1 DEF QueueInv
  <2>2. QED
    BY <2>1, <1>2
<1>8. \A j \in 1..Len(r) : r[j].seq <= s
  BY <1>1 DEF QueueInv
<1>9. QED
  BY <1>3, <1>4, <1>5, <1>6, <1>7, <1>8 DEF QueueInv

\* Putting the newest timer in behind those due no later keeps the list in order.
LEMMA InsertionKeepsQueue ==
    ASSUME NEW s \in Nat, NEW q, QueueInv(q, s), Len(q) < MaxEvents,
           NEW x \in Timer, x.seq = s + 1,
           \A i \in 1..Len(q) : q[i].event # x.event,
           NEW r \in InsertByDue(q, x)
    PROVE  /\ QueueInv(r, s + 1)
           /\ \A j \in 1..Len(r) : r[j] = x \/ \E k \in 1..Len(q) : r[j] = q[k]
<1>1. PICK k \in 1..(Len(q) + 1) : InsertPosition(q, k, x.due) /\ r = InsertAt(q, k, x)
  BY DEF InsertByDue
<1>2. r \in Seq(Timer) /\ IsInsertion(q, k, x, r)
  BY <1>1, InsertAtIsInsertion DEF QueueInv
<1> DEFINE old(j) == IF j < k THEN j ELSE j - 1
<1>3. r[k] = x /\ k \in 1..Len(r)
  BY <1>2 DEF QueueInv, IsInsertion
<1>4. \A j \in 1..Len(r) : j # k => old(j) \in 1..Len(q) /\ r[j] = q[old(j)]
  BY <1>2 DEF QueueInv, IsInsertion
<1>5. \A i, j \in 1..Len(r) : i # k /\ j # k =>
         (i < j => old(i) < old(j)) /\ (old(i) = old(j) => i = j)
  BY DEF QueueInv
<1> HIDE DEF old
<1>6. \A j \in 1..(k - 1) : Earlier(q[j], x)
  <2> TAKE j \in 1..(k - 1)
  <2>1. q[j].due <= x.due /\ q[j].seq <= s /\ q[j] \in Timer
    BY <1>1 DEF QueueInv, InsertPosition
  <2>2. QED
    BY <2>1 DEF Earlier, Timer
<1>7. \A j \in k..Len(q) : Earlier(x, q[j])
  <2> TAKE j \in k..Len(q)
  <2>1. q[k].due > x.due
    BY <1>1 DEF QueueInv, InsertPosition
  <2>2. j = k \/ Earlier(q[k], q[j])
    BY DEF QueueInv
  <2>3. q[k] \in Timer /\ q[j] \in Timer
    BY DEF QueueInv
  <2>4. QED
    BY <2>1, <2>2, <2>3 DEF Earlier, Timer
<1>8. ASSUME NEW i \in 1..Len(r), NEW j \in 1..Len(r), i < j
      PROVE  Earlier(r[i], r[j])
  <2>1. CASE i # k /\ j # k
    BY <2>1, <1>4, <1>5, <1>8 DEF QueueInv
  <2>2. CASE i = k
    <3>1. old(j) \in k..Len(q) /\ r[j] = q[old(j)]
      BY <2>2, <1>4, <1>8 DEF old
    <3>2. QED
      BY <3>1, <2>2, <1>3, <1>7
  <2>3. CASE j = k
    <3>1. old(i) \in 1..(k - 1) /\ r[i] = q[old(i)]
      BY <2>3, <1>4, <1>8 DEF old
    <3>2. QED
      BY <3>1, <2>3, <1>3, <1>6
  <2>4. QED
    BY <2>1, <2>2, <2>3
<1>9. ASSUME NEW i \in 1..Len(r), NEW j \in 1..Len(r), r[i].event = r[j].event
      PROVE  i = j
  <2>1. CASE i # k /\ j # k
    <3>1. old(i) = old(j)
      BY <2>1, <1>4, <1>9 DEF QueueInv
    <3>2. QED
      BY <2>1, <3>1, <1>5
  <2>2. CASE i = k \/ j = k
    BY <2>2, <1>3, <1>4, <1>9 DEF QueueInv
  <2>3. QED
    BY <2>1, <2>2
<1>10. \A i \in 1..Len(r) : r[i].seq <= s + 1
  <2> TAKE i \in 1..Len(r)
  <2>1. CASE i = k
    BY <2>1, <1>3
  <2>2. CASE i # k
    <3>1. old(i) \in 1..Len(q) /\ r[i] = q[old(i)] /\ q[old(i)] \in Timer
      BY <2>2, <1>4 DEF QueueInv
    <3>2. QED
      BY <3>1 DEF QueueInv, Timer
  <2>3. QED
    BY <2>1, <2>2
<1>11. Len(r) <= MaxEvents
  BY <1>2, TimerConstants DEF QueueInv, IsInsertion
<1>12. QED
  BY <1>2, <1>3, <1>4, <1>8, <1>9, <1>10, <1>11 DEF QueueInv

\* A pass keeps its part of the invariant while others change the list.
LEMMA PassStable ==
    ASSUME NEW p \in Pass, NEW q \in Seq(Timer), NEW q2 \in Seq(Timer),
           NEW s \in Nat, NEW s2 \in Nat, NEW c \in Nat, NEW c2 \in Nat,
           s <= s2, c <= c2, ListStep(q, s, c, q2), PassInv(p, q, s, c)
    PROVE  PassInv(p, q2, s2, c2)
<1>1. p.now <= c2 /\ p.limit <= s2
  BY DEF PassInv, Pass
<1>2. ASSUME Scanning(p), NEW i \in 1..Len(q2)
      PROVE  /\ q2[i].seq > p.limit => q2[i].due >= p.now
             /\ \A a \in p.fired :
                   Eligible(p, q2[i]) => a.event # q2[i].event /\ Earlier(a, q2[i])
  <2>1. CASE \E j \in 1..Len(q) : q2[i] = q[j]
    BY <2>1, <1>2 DEF PassInv
  <2>2. CASE q2[i].seq > s /\ q2[i].due >= c
    <3>1. q2[i] \in Timer
      OBVIOUS
    <3>2. ~Eligible(p, q2[i]) /\ q2[i].due >= p.now
      BY <2>2, <3>1 DEF PassInv, Pass, Eligible, Timer
    <3>3. QED
      BY <3>2
  <2>3. QED
    BY <2>1, <2>2 DEF ListStep
<1>3. QED
  BY <1>1, <1>2 DEF PassInv

-----------------------------------------------------------------------------
\* The list operations of the two timer calls, seen as steps of the list.
LEMMA SetTimerStep ==
    ASSUME IInv, NEW t \in Threads, NEW e \in Events, NEW period \in Periods,
           SetTimer(t, e, period)
    PROVE  /\ QueueInv(timers', sequence')
           /\ ListStep(timers, sequence, clock, timers')
<1> DEFINE x == NewTimer(e, period)
<1>1. /\ x \in Timer /\ x.seq = sequence + 1 /\ x.event = e /\ x.due >= clock
      /\ sequence \in Nat /\ clock \in Nat /\ sequence' = sequence + 1
  BY TimerConstants DEF IInv, TypeOK, SetTimer, NewTimer, Timer
<1> HIDE DEF x
<1>2. CASE Rearm(e, period)
  <2>1. PICK i \in 1..Len(timers) :
           /\ timers[i].event = e
           /\ timers' \in InsertByDue(RemoveAt(timers, i), x)
    BY <1>2 DEF Rearm, Matches, IInv, TypeOK, x
  <2> DEFINE r == RemoveAt(timers, i)
  <2>2. r \in Seq(Timer) /\ IsRemoval(timers, i, r)
    BY RemoveAtIsRemoval DEF IInv, TypeOK
  <2> HIDE DEF r
  <2>3. /\ QueueInv(r, sequence)
        /\ \A j \in 1..Len(r) : \E k \in 1..Len(timers) : r[j] = timers[k]
        /\ \A j \in 1..Len(r) : r[j].event # x.event
    BY <1>1, <2>1, <2>2, RemovalKeepsQueue DEF IInv
  <2>4. Len(r) < MaxEvents
    BY <2>2, TimerConstants DEF IsRemoval, IInv, QueueInv
  <2>5. timers' \in InsertByDue(r, x)
    BY <2>1 DEF r
  <2>6. /\ QueueInv(timers', sequence + 1)
        /\ \A j \in 1..Len(timers') : timers'[j] = x \/ \E k \in 1..Len(r) : timers'[j] = r[k]
    BY <1>1, <2>3, <2>4, <2>5, InsertionKeepsQueue
  <2>7. ASSUME NEW j \in 1..Len(timers')
        PROVE  \/ \E k \in 1..Len(timers) : timers'[j] = timers[k]
               \/ timers'[j].seq > sequence /\ timers'[j].due >= clock
    <3>1. CASE timers'[j] = x
      BY <1>1, <3>1
    <3>2. CASE \E k \in 1..Len(r) : timers'[j] = r[k]
      BY <2>3, <3>2
    <3>3. QED
      BY <2>6, <3>1, <3>2
  <2>8. QED
    BY <1>1, <2>6, <2>7 DEF ListStep
<1>3. CASE Arm(e, period)
  <2>1. /\ \A i \in 1..Len(timers) : timers[i].event # x.event
        /\ Len(timers) < MaxEvents
        /\ timers' \in InsertByDue(timers, x)
    BY <1>1, <1>3 DEF Arm, Armed, IInv, TypeOK, x
  <2>2. /\ QueueInv(timers', sequence + 1)
        /\ \A j \in 1..Len(timers') :
              timers'[j] = x \/ \E k \in 1..Len(timers) : timers'[j] = timers[k]
    BY <1>1, <2>1, InsertionKeepsQueue DEF IInv
  <2>3. QED
    BY <1>1, <2>2 DEF ListStep
<1>4. QED
  BY <1>2, <1>3 DEF SetTimer

LEMMA CancelTimerStep ==
    ASSUME IInv, NEW t \in Threads, NEW e \in Events, CancelTimer(t, e)
    PROVE  /\ QueueInv(timers', sequence')
           /\ ListStep(timers, sequence, clock, timers')
<1>1. PICK i \in 1..Len(timers) : timers' = RemoveAt(timers, i)
  BY DEF CancelTimer, IInv, TypeOK
<1>2. timers' \in Seq(Timer) /\ IsRemoval(timers, i, timers')
  BY <1>1, RemoveAtIsRemoval DEF IInv, TypeOK
<1>3. /\ QueueInv(timers', sequence)
      /\ \A j \in 1..Len(timers') : \E k \in 1..Len(timers) : timers'[j] = timers[k]
  BY <1>2, RemovalKeepsQueue DEF IInv, TypeOK
<1>4. sequence' = sequence
  BY DEF CancelTimer
<1>5. QED
  BY <1>3, <1>4 DEF ListStep

\* A step of thread t on the frame at the top of its stack, the others untouched.
TopStep(t, pass) ==
    /\ passes[t] # <<>>
    /\ SetTop(t, pass)

LEMMA OtherPassesKept ==
    ASSUME TypeOK, NEW t \in Threads, NEW pass \in Pass, TopStep(t, pass)
    PROVE  /\ passes' \in [Threads -> Seq(Pass)]
           /\ \A u \in Threads : Len(passes'[u]) = Len(passes[u])
           /\ \A u \in Threads : \A n \in 1..Len(passes[u]) :
                 passes'[u][n] = IF u = t /\ n = Len(passes[t]) THEN pass ELSE passes[u][n]
<1>1. passes[t] \in Seq(Pass) /\ Len(passes[t]) \in 1..Len(passes[t])
  BY DEF TypeOK, TopStep
<1> DEFINE stack == [passes[t] EXCEPT ![Len(passes[t])] = pass]
<1>2. /\ stack \in Seq(Pass)
      /\ Len(stack) = Len(passes[t])
      /\ \A n \in 1..Len(passes[t]) : stack[n] = IF n = Len(passes[t]) THEN pass ELSE passes[t][n]
  BY <1>1, ExceptSeq
<1>3. passes' = [passes EXCEPT ![t] = stack]
  BY DEF TopStep, SetTop
<1> HIDE DEF stack
<1>4. QED
  BY <1>2, <1>3 DEF TypeOK

LEMMA ListStepKeepsIInv ==
    ASSUME IInv, UNCHANGED passes,
           QueueInv(timers', sequence'), ListStep(timers, sequence, clock, timers'),
           sequence' \in Nat, sequence <= sequence', clock' \in Nat, clock <= clock'
    PROVE  IInv'
<1>1. TypeOK'
  BY DEF IInv, TypeOK, QueueInv
<1>2. ASSUME NEW u \in Threads, NEW n \in 1..Len(passes'[u])
      PROVE  PassInv(passes'[u][n], timers', sequence', clock')
  <2>1. passes'[u][n] \in Pass /\ passes'[u][n] = passes[u][n] /\ n \in 1..Len(passes[u])
    BY DEF IInv, TypeOK
  <2>2. PassInv(passes'[u][n], timers, sequence, clock)
    BY <2>1 DEF IInv
  <2>3. timers \in Seq(Timer) /\ timers' \in Seq(Timer) /\ sequence \in Nat /\ clock \in Nat
    BY <1>1 DEF IInv, TypeOK
  <2>4. QED
    BY <2>1, <2>2, <2>3, PassStable
<1>3. QED
  BY <1>1, <1>2 DEF IInv

LEMMA TopStepKeepsIInv ==
    ASSUME IInv, NEW t \in Threads, NEW pass \in Pass, TopStep(t, pass),
           UNCHANGED <<sequence, clock>>,
           QueueInv(timers', sequence), ListStep(timers, sequence, clock, timers'),
           PassInv(pass, timers', sequence, clock)
    PROVE  IInv'
<1>1. TypeOK' /\ TypeOK
  BY OtherPassesKept DEF IInv, TypeOK, QueueInv
<1>2. ASSUME NEW u \in Threads, NEW n \in 1..Len(passes'[u])
      PROVE  PassInv(passes'[u][n], timers', sequence', clock')
  <2>1. n \in 1..Len(passes[u])
        /\ passes'[u][n] = IF u = t /\ n = Len(passes[t]) THEN pass ELSE passes[u][n]
    BY <1>1, OtherPassesKept
  <2>2. CASE u = t /\ n = Len(passes[t])
    BY <2>1, <2>2
  <2>3. CASE ~(u = t /\ n = Len(passes[t]))
    <3>1. passes'[u][n] = passes[u][n]
      BY <2>1, <2>3
    <3>2. passes'[u][n] \in Pass /\ PassInv(passes'[u][n], timers, sequence, clock)
      BY <2>1, <3>1 DEF IInv, TypeOK
    <3>3. timers \in Seq(Timer) /\ timers' \in Seq(Timer) /\ sequence \in Nat /\ clock \in Nat
      BY <1>1 DEF TypeOK
    <3>4. QED
      BY <3>2, <3>3, PassStable
  <2>4. QED
    BY <2>2, <2>3
<1>3. QED
  BY <1>1, <1>2 DEF IInv

LEMMA TopIsPass ==
    ASSUME IInv, NEW t \in Threads, passes[t] # <<>>
    PROVE  Top(t) \in Pass /\ PassInv(Top(t), timers, sequence, clock)
<1>1. passes[t] \in Seq(Pass) /\ Len(passes[t]) \in 1..Len(passes[t])
  BY DEF IInv, TypeOK
<1>2. QED
  BY <1>1 DEF IInv, Top

\* The inductive invariant: it holds at the start and every step keeps it.
THEOREM Invariance == Spec => []IInv
<1>1. Init => IInv
  BY TimerConstants DEF Init, IInv, TypeOK, QueueInv
<1>2. IInv /\ [Next]_vars => IInv'
  <2> SUFFICES ASSUME IInv, [Next]_vars
               PROVE  IInv'
    OBVIOUS
  <2>1. CASE Tick
    <3>1. clock' \in Nat /\ clock <= clock' /\ sequence \in Nat
      BY <2>1 DEF Tick, IInv, TypeOK
    <3>2. QED
      BY <2>1, <3>1, ListStepKeepsIInv DEF Tick, IInv, ListStep
  <2>2. CASE ClearTimers
    <3>1. QueueInv(timers', sequence') /\ ListStep(timers, sequence, clock, timers')
      BY <2>2, TimerConstants DEF ClearTimers, QueueInv, ListStep
    <3>2. QED
      BY <2>2, <3>1, ListStepKeepsIInv DEF ClearTimers, IInv, TypeOK
  <2>3. ASSUME NEW t \in Threads, NEW e \in Events, NEW p \in Periods, SetTimer(t, e, p)
        PROVE  IInv'
    BY <2>3, SetTimerStep, ListStepKeepsIInv DEF SetTimer, IInv, TypeOK
  <2>4. ASSUME NEW t \in Threads, NEW e \in Events, CancelTimer(t, e)
        PROVE  IInv'
    BY <2>4, CancelTimerStep, ListStepKeepsIInv DEF CancelTimer, IInv, TypeOK
  <2>5. ASSUME NEW t \in Threads, DispatchEnter(t)
        PROVE  IInv'
    <3> DEFINE new == [pc |-> "limit", now |-> clock, limit |-> 0,
                       running |-> NoTimer, fired |-> {}]
    <3>1. new \in Pass /\ PassInv(new, timers, sequence, clock)
      BY DEF IInv, TypeOK, Pass, PassInv, Scanning
    <3>2. passes' = [passes EXCEPT ![t] = Append(@, new)]
      BY <2>5 DEF DispatchEnter
    <3> HIDE DEF new
    <3>3. /\ passes' \in [Threads -> Seq(Pass)]
          /\ \A u \in Threads : \A n \in 1..Len(passes'[u]) :
                passes'[u][n] = new \/ (n \in 1..Len(passes[u]) /\ passes'[u][n] = passes[u][n])
      BY <3>1, <3>2 DEF IInv, TypeOK
    <3>4. QED
      BY <2>5, <3>1, <3>3 DEF DispatchEnter, IInv, TypeOK
  <2>6. ASSUME NEW t \in Threads, DispatchLimit(t)
        PROVE  IInv'
    <3> DEFINE new == [Top(t) EXCEPT !.pc = "scan", !.limit = sequence]
    <3>1. Top(t) \in Pass /\ PassInv(Top(t), timers, sequence, clock)
      BY <2>6, TopIsPass DEF DispatchLimit, AtPc
    <3>2. Top(t).fired = {} /\ Top(t).now <= clock
      BY <2>6, <3>1 DEF DispatchLimit, AtPc, PassInv
    <3>3. /\ new \in Pass /\ new.limit = sequence /\ new.pc = "scan"
          /\ new.now = Top(t).now /\ new.fired = {}
      BY <3>1, <3>2 DEF Pass, IInv, TypeOK
    <3>4. \A i \in 1..Len(timers) : ~(timers[i].seq > sequence)
      <4> TAKE i \in 1..Len(timers)
      <4>1. timers[i] \in Timer /\ timers[i].seq <= sequence /\ sequence \in Nat
        BY DEF IInv, TypeOK, QueueInv
      <4>2. QED
        BY <4>1 DEF Timer
    <3>5. TopStep(t, new)
      BY <2>6 DEF DispatchLimit, AtPc, TopStep
    <3> HIDE DEF new
    <3>6. PassInv(new, timers, sequence, clock)
      BY <3>2, <3>3, <3>4 DEF PassInv, IInv, TypeOK
    <3>7. QED
      BY <2>6, <3>3, <3>5, <3>6, TopStepKeepsIInv DEF DispatchLimit, IInv, ListStep
  <2>7. ASSUME NEW t \in Threads, DispatchPop(t)
        PROVE  IInv'
    <3> DEFINE head == Head(timers)
               new == [Top(t) EXCEPT !.pc = "callback", !.running = head,
                                     !.fired = @ \cup {head}]
    <3>1. Top(t) \in Pass /\ PassInv(Top(t), timers, sequence, clock) /\ Top(t).pc = "scan"
      BY <2>7, TopIsPass DEF DispatchPop, AtPc
    <3>2. /\ timers' \in Seq(Timer) /\ IsRemoval(timers, 1, timers')
          /\ head = timers[1] /\ 1 \in 1..Len(timers) /\ head \in Timer
      BY <2>7, TailIsRemoval DEF DispatchPop, IInv, TypeOK
    <3>3. /\ QueueInv(timers', sequence)
          /\ \A j \in 1..Len(timers') : \E k \in 1..Len(timers) : k # 1 /\ timers'[j] = timers[k]
          /\ \A j \in 1..Len(timers') : timers'[j].event # head.event
      BY <3>2, RemovalKeepsQueue DEF IInv, TypeOK
    <3>4. ListStep(timers, sequence, clock, timers')
      BY <3>3 DEF ListStep
    <3>5. PassInv(Top(t), timers', sequence, clock)
      BY <3>1, <3>2, <3>4, PassStable DEF IInv, TypeOK
    <3>6. Eligible(Top(t), head)
      BY <2>7 DEF DispatchPop
    <3>7. \A a \in Top(t).fired : a.event # head.event
      BY <3>1, <3>2, <3>6 DEF PassInv, Scanning
    <3>8. \A j \in 1..Len(timers') : Earlier(head, timers'[j])
      BY <3>2, <3>3 DEF IInv, QueueInv
    <3>9. TopStep(t, new)
      BY <2>7 DEF DispatchPop, AtPc, TopStep
    <3> HIDE DEF head
    <3>10. /\ new \in Pass
           /\ new.pc = "callback" /\ new.now = Top(t).now /\ new.limit = Top(t).limit
           /\ new.fired = Top(t).fired \cup {head}
      BY <3>1, <3>2 DEF Pass
    <3> HIDE DEF new
    <3>11. PassInv(new, timers', sequence, clock)
      BY <3>1, <3>3, <3>5, <3>6, <3>7, <3>8, <3>10 DEF PassInv, Scanning, Eligible
    <3>12. QED
      BY <2>7, <3>3, <3>4, <3>9, <3>10, <3>11, TopStepKeepsIInv DEF DispatchPop
  <2>8. ASSUME NEW t \in Threads, CallbackReturn(t)
        PROVE  IInv'
    <3> DEFINE new == [Top(t) EXCEPT !.pc = "scan", !.running = NoTimer]
    <3>1. Top(t) \in Pass /\ PassInv(Top(t), timers, sequence, clock)
      BY <2>8, TopIsPass DEF CallbackReturn, AtPc
    <3>2. new \in Pass /\ PassInv(new, timers, sequence, clock)
      BY <2>8, <3>1 DEF CallbackReturn, AtPc, Pass, PassInv, Scanning, Eligible
    <3>3. TopStep(t, new)
      BY <2>8 DEF CallbackReturn, AtPc, TopStep
    <3> HIDE DEF new
    <3>4. QED
      BY <2>8, <3>2, <3>3, TopStepKeepsIInv DEF CallbackReturn, IInv, ListStep
  <2>9. ASSUME NEW t \in Threads, DispatchLeave(t)
        PROVE  IInv'
    <3>1. /\ passes' \in [Threads -> Seq(Pass)]
          /\ \A u \in Threads : \A n \in 1..Len(passes'[u]) :
                n \in 1..Len(passes[u]) /\ passes'[u][n] = passes[u][n]
      BY <2>9 DEF DispatchLeave, AtPc, Front, IInv, TypeOK
    <3>2. QED
      BY <2>9, <3>1 DEF DispatchLeave, IInv, TypeOK
  <2>10. CASE UNCHANGED vars
    BY <2>10 DEF vars, IInv, TypeOK, QueueInv, PassInv
  <2>11. QED
    BY <2>1, <2>2, <2>3, <2>4, <2>5, <2>6, <2>7, <2>8, <2>9, <2>10 DEF Next
<1>3. QED
  BY <1>1, <1>2, PTL DEF Spec

-----------------------------------------------------------------------------
\* Every variable keeps its type.
THEOREM TypeCorrect == Spec => []TypeOK
<1>1. IInv => TypeOK
  BY DEF IInv
<1>2. QED
  BY <1>1, Invariance, PTL

\* g_timers stays in the order of the due times, oldest first among equals.
THEOREM OrderedHolds == Spec => []Ordered
<1>1. IInv => Ordered
  BY DEF IInv, TypeOK, QueueInv, Ordered
<1>2. QED
  BY <1>1, Invariance, PTL

\* g_timers holds one timer for an event and no more than its capacity.
THEOREM OneTimerPerEventHolds == Spec => []OneTimerPerEvent
<1>1. IInv => OneTimerPerEvent
  BY DEF IInv, TypeOK, QueueInv, OneTimerPerEvent
<1>2. QED
  BY <1>1, Invariance, PTL

\* A pass that finds nothing to do at the head of the list overlooks no timer.
THEOREM NothingOverlookedHolds == Spec => []NothingOverlooked
<1>1. IInv => NothingOverlooked
  <2> SUFFICES ASSUME IInv, NEW t \in Threads, NEW n \in 1..Len(passes[t]),
                      Scanning(passes[t][n]), NEW i \in 1..Len(timers),
                      Eligible(passes[t][n], timers[i])
               PROVE  Eligible(passes[t][n], timers[1])
    BY DEF NothingOverlooked, IInv, TypeOK
  <2> DEFINE pass == passes[t][n]
  <2>1. /\ pass \in Pass /\ PassInv(pass, timers, sequence, clock)
        /\ timers[1] \in Timer /\ timers[i] \in Timer
    BY DEF IInv, TypeOK
  <2>2. i = 1 \/ Earlier(timers[1], timers[i])
    BY DEF IInv, TypeOK, QueueInv
  <2>3. timers[1].seq > pass.limit => timers[1].due >= pass.now
    BY <2>1 DEF PassInv, IInv, TypeOK
  <2>4. /\ pass.now \in Nat /\ pass.limit \in Nat
        /\ timers[1].due \in Nat /\ timers[1].seq \in Nat
        /\ timers[i].due \in Nat /\ timers[i].seq \in Nat
    BY <2>1 DEF Timer, Pass
  <2>5. timers[i].due <= pass.now /\ timers[i].seq <= pass.limit
    BY DEF Eligible
  <2> HIDE DEF pass
  <2>6. timers[1].due <= pass.now /\ timers[1].seq <= pass.limit
    <3>1. CASE i = 1
      BY <2>5, <3>1
    <3>2. CASE Earlier(timers[1], timers[i])
      BY <2>3, <2>4, <2>5, <3>2 DEF Earlier
    <3>3. QED
      BY <2>2, <3>1, <3>2
  <2>7. QED
    BY <2>6 DEF Eligible, pass
<1>2. QED
  BY <1>1, Invariance, PTL

\* One pass never calls the same event twice.
THEOREM PassFiresOnceHolds == Spec => []PassFiresOnce
<1>1. IInv => PassFiresOnce
  <2> SUFFICES ASSUME IInv, NEW t \in Threads, NEW n \in 1..Len(passes[t])
               PROVE  \A a, b \in passes[t][n].fired : a.event = b.event => a = b
    BY DEF PassFiresOnce, IInv, TypeOK
  <2>1. passes[t][n] \in Pass /\ PassInv(passes[t][n], timers, sequence, clock)
    BY DEF IInv, TypeOK
  <2>2. CASE passes[t][n].pc = "limit"
    BY <2>1, <2>2 DEF PassInv
  <2>3. CASE Scanning(passes[t][n])
    BY <2>1, <2>3 DEF PassInv
  <2>4. QED
    BY <2>1, <2>2, <2>3 DEF Pass, Scanning
<1>2. QED
  BY <1>1, Invariance, PTL

\* One pass calls the timers in the order of the list.
THEOREM PassInOrderHolds == Spec => []PassInOrder
<1>1. IInv => PassInOrder
  <2> SUFFICES ASSUME IInv, NEW t \in Threads, NEW n \in 1..Len(passes[t]),
                      NEW i \in 1..Len(timers), Eligible(passes[t][n], timers[i])
               PROVE  \A a \in passes[t][n].fired : Earlier(a, timers[i])
    BY DEF PassInOrder, IInv, TypeOK
  <2>1. passes[t][n] \in Pass /\ PassInv(passes[t][n], timers, sequence, clock)
    BY DEF IInv, TypeOK
  <2>2. CASE passes[t][n].pc = "limit"
    BY <2>1, <2>2 DEF PassInv
  <2>3. CASE Scanning(passes[t][n])
    BY <2>1, <2>3 DEF PassInv
  <2>4. QED
    BY <2>1, <2>2, <2>3 DEF Pass, Scanning
<1>2. QED
  BY <1>1, Invariance, PTL

-----------------------------------------------------------------------------
(* S3ETimer implements TimerService: the list read as a set is what is          *)
(* armed, and each step of a thread is a step of the service or none.  The      *)
(* service forgets a timer when its callback returns, so the timers that run    *)
(* must be told apart: CallsInv says no timer runs in two passes, or runs and   *)
(* is still in the list.                                                        *)

Elements(q) == {q[i] : i \in DOMAIN q}

ArmedTimers == Elements(timers)

CallsInv ==
    \A t \in Threads : \A n \in 1..Len(passes[t]) :
        LET pass == passes[t][n]
        IN  /\ pass.pc = "callback" <=> pass.running # NoTimer
            /\ pass.running # NoTimer =>
                  /\ pass.running.seq <= sequence
                  /\ pass.running \notin ArmedTimers
                  /\ \A u \in Threads : \A m \in 1..Len(passes[u]) :
                        passes[u][m].running = pass.running => u = t /\ m = n

LEMMA ElementsAre ==
    ASSUME NEW q \in Seq(Timer), NEW a
    PROVE  a \in Elements(q) <=> \E i \in 1..Len(q) : a = q[i]
  BY DEF Elements

\* The timers that run in the stacks ps, as RunningTimers has them.
RunningIn(ps) == (UNION {{ps[t][n].running : n \in DOMAIN ps[t]} : t \in Threads}) \ {NoTimer}

LEMMA RunningAre ==
    ASSUME NEW ps \in [Threads -> Seq(Pass)], NEW a
    PROVE  a \in RunningIn(ps) <=>
              a # NoTimer /\ \E t \in Threads : \E n \in 1..Len(ps[t]) : ps[t][n].running = a
<1>1. \A t \in Threads : DOMAIN ps[t] = 1..Len(ps[t])
  OBVIOUS
<1>2. a \in RunningIn(ps) <=>
         a # NoTimer /\ \E t \in Threads : \E n \in DOMAIN ps[t] : ps[t][n].running = a
  BY DEF RunningIn
<1>3. QED
  BY <1>1, <1>2

-----------------------------------------------------------------------------
(* What the list operations do to the set of armed timers. *)

LEMMA RemovalDisarms ==
    ASSUME NEW q \in Seq(Timer), \A j, k \in 1..Len(q) : q[j].event = q[k].event => j = k,
           NEW i \in 1..Len(q), NEW r \in Seq(Timer), IsRemoval(q, i, r)
    PROVE  /\ Elements(r) = Elements(q) \ {q[i]}
           /\ Elements(r) = {a \in Elements(q) : a.event # q[i].event}
<1>1. Len(q) \in Nat /\ Len(r) \in Nat
  OBVIOUS
<1>2. ASSUME NEW a \in Elements(r) PROVE \E k \in 1..Len(q) : k # i /\ a = q[k]
  <2>1. PICK j \in 1..Len(r) : a = r[j]
    BY ElementsAre
  <2>2. r[j] = q[IF j < i THEN j ELSE j + 1]
    BY <2>1 DEF IsRemoval
  <2>3. QED
    BY <1>1, <2>1, <2>2 DEF IsRemoval
<1>3. ASSUME NEW k \in 1..Len(q), k # i PROVE q[k] \in Elements(r)
  <2> DEFINE j == IF k < i THEN k ELSE k - 1
  <2>1. j \in 1..Len(r) /\ r[j] = q[k]
    BY <1>1, <1>3 DEF IsRemoval
  <2> HIDE DEF j
  <2>2. QED
    BY <2>1, ElementsAre
<1>4. \A k \in 1..Len(q) : (k # i <=> q[k].event # q[i].event) /\ (k # i <=> q[k] # q[i])
  OBVIOUS
<1>5. \A a : a \in Elements(q) <=> \E k \in 1..Len(q) : a = q[k]
  BY ElementsAre
<1>6. Elements(r) = {a \in Elements(q) : a # q[i]}
  <2>1. ASSUME NEW a \in Elements(r) PROVE a \in Elements(q) /\ a # q[i]
    BY <2>1, <1>2, <1>4, <1>5
  <2>2. ASSUME NEW a \in Elements(q), a # q[i] PROVE a \in Elements(r)
    BY <2>2, <1>3, <1>5
  <2>3. QED
    BY <2>1, <2>2
<1>7. \A a \in Elements(q) : a # q[i] <=> a.event # q[i].event
  BY <1>4, <1>5
<1>8. QED
  BY <1>6, <1>7

LEMMA InsertionArms ==
    ASSUME NEW q \in Seq(Timer), NEW x \in Timer, NEW r \in InsertByDue(q, x)
    PROVE  Elements(r) = Elements(q) \cup {x}
<1>1. PICK k \in 1..(Len(q) + 1) : r = InsertAt(q, k, x)
  BY DEF InsertByDue
<1>2. r \in Seq(Timer) /\ IsInsertion(q, k, x, r) /\ Len(q) \in Nat
  BY <1>1, InsertAtIsInsertion
<1>3. ASSUME NEW a \in Elements(r) PROVE a = x \/ a \in Elements(q)
  <2>1. PICK j \in 1..Len(r) : a = r[j]
    BY <1>2, ElementsAre
  <2>2. r[j] = IF j < k THEN q[j] ELSE IF j = k THEN x ELSE q[j - 1]
    BY <1>2 DEF IsInsertion
  <2>3. a = x \/ \E i \in 1..Len(q) : a = q[i]
    BY <1>2, <2>1, <2>2 DEF IsInsertion
  <2>4. QED
    BY <2>3, ElementsAre
<1>4. x \in Elements(r)
  BY <1>2, ElementsAre DEF IsInsertion
<1>5. ASSUME NEW i \in 1..Len(q) PROVE q[i] \in Elements(r)
  <2> DEFINE j == IF i < k THEN i ELSE i + 1
  <2>1. j \in 1..Len(r) /\ r[j] = q[i]
    BY <1>2 DEF IsInsertion
  <2> HIDE DEF j
  <2>2. QED
    BY <1>2, <2>1, ElementsAre
<1>6. QED
  BY <1>3, <1>4, <1>5, ElementsAre

-----------------------------------------------------------------------------
\* A step that leaves the stacks alone and only drops timers or arms a new one.
LEMMA ListStepKeepsCalls ==
    ASSUME TypeOK, CallsInv, UNCHANGED passes, sequence' \in Nat, sequence <= sequence',
           \A a \in ArmedTimers' : a \in ArmedTimers \/ a.seq > sequence
    PROVE  CallsInv' /\ RunningTimers' = RunningTimers
<1>1. ASSUME NEW t \in Threads, NEW n \in 1..Len(passes[t]), passes[t][n].running # NoTimer
      PROVE  /\ passes[t][n].running.seq <= sequence'
             /\ passes[t][n].running \notin ArmedTimers'
  <2>1. passes[t][n] \in Pass /\ passes[t][n].running \in Timer
    <3>1. passes[t] \in Seq(Pass)
      BY DEF TypeOK
    <3>2. passes[t][n] \in Pass
      BY <3>1
    <3>3. QED
      BY <1>1, <3>2 DEF Pass
  <2>2. passes[t][n].running.seq \in Nat /\ sequence \in Nat
    BY <2>1 DEF Timer, TypeOK
  <2>3. passes[t][n].running.seq <= sequence /\ passes[t][n].running \notin ArmedTimers
    BY <1>1 DEF CallsInv
  <2>4. QED
    BY <2>2, <2>3
<1>2. CallsInv'
  BY <1>1 DEF CallsInv
<1>3. QED
  BY <1>2 DEF RunningTimers

\* A step of the frame at the top of a stack.
LEMMA TopStepCalls ==
    ASSUME TypeOK, CallsInv, NEW t \in Threads, NEW new \in Pass, TopStep(t, new),
           UNCHANGED sequence, ArmedTimers' \subseteq ArmedTimers,
           new.pc = "callback" <=> new.running # NoTimer,
           new.running # NoTimer => /\ new.running.seq <= sequence
                                    /\ new.running \notin ArmedTimers'
                                    /\ new.running \notin RunningTimers
    PROVE  /\ CallsInv'
           /\ RunningTimers' = (RunningTimers \ {Top(t).running}) \cup ({new.running} \ {NoTimer})
<1> DEFINE top == Len(passes[t])
<1>1. /\ passes' \in [Threads -> Seq(Pass)] /\ passes \in [Threads -> Seq(Pass)]
      /\ \A u \in Threads : Len(passes'[u]) = Len(passes[u])
      /\ \A u \in Threads : \A n \in 1..Len(passes[u]) :
            passes'[u][n] = IF u = t /\ n = top THEN new ELSE passes[u][n]
  BY OtherPassesKept DEF TypeOK
<1>2. top \in 1..Len(passes[t]) /\ Top(t) = passes[t][top]
  BY <1>1 DEF TopStep, Top
<1> HIDE DEF top
<1>3. \A a : /\ a \in RunningTimers <=>
                   a # NoTimer /\ \E u \in Threads : \E n \in 1..Len(passes[u]) : passes[u][n].running = a
             /\ a \in RunningTimers' <=>
                   a # NoTimer /\ \E u \in Threads : \E n \in 1..Len(passes'[u]) : passes'[u][n].running = a
  BY <1>1, RunningAre DEF RunningTimers, RunningIn
<1>4. CallsInv'
  <2>1. ASSUME NEW u \in Threads, NEW n \in 1..Len(passes'[u]),
               NEW v \in Threads, NEW m \in 1..Len(passes'[v]),
               passes'[u][n].running # NoTimer, passes'[v][m].running = passes'[u][n].running
        PROVE  v = u /\ m = n
    <3>1. n \in 1..Len(passes[u]) /\ m \in 1..Len(passes[v])
      BY <1>1
    <3>2. CASE u = t /\ n = top
      BY <1>1, <1>3, <2>1, <3>1, <3>2
    <3>3. CASE v = t /\ m = top
      BY <1>1, <1>3, <2>1, <3>1, <3>3
    <3>4. CASE ~(u = t /\ n = top) /\ ~(v = t /\ m = top)
      BY <1>1, <2>1, <3>1, <3>4 DEF CallsInv
    <3>5. QED
      BY <3>2, <3>3, <3>4
  <2>2. ASSUME NEW u \in Threads, NEW n \in 1..Len(passes'[u])
        PROVE  /\ passes'[u][n].pc = "callback" <=> passes'[u][n].running # NoTimer
               /\ passes'[u][n].running # NoTimer => /\ passes'[u][n].running.seq <= sequence'
                                                     /\ passes'[u][n].running \notin ArmedTimers'
    BY <1>1 DEF CallsInv
  <2>3. QED
    BY <2>1, <2>2 DEF CallsInv
<1>5. ASSUME NEW a, a # NoTimer
      PROVE  a \in RunningTimers' <=> a = new.running \/ (a \in RunningTimers /\ a # Top(t).running)
  <2>1. ASSUME a \in RunningTimers' PROVE a = new.running \/ (a \in RunningTimers /\ a # Top(t).running)
    <3>1. PICK u \in Threads : \E n \in 1..Len(passes[u]) : passes'[u][n].running = a
      BY <1>1, <1>3, <2>1
    <3>2. PICK n \in 1..Len(passes[u]) : passes'[u][n].running = a
      BY <3>1
    <3>3. CASE u = t /\ n = top
      BY <1>1, <3>2, <3>3
    <3>4. CASE ~(u = t /\ n = top)
      <4>1. passes[u][n].running = a
        BY <1>1, <3>2, <3>4
      <4>2. passes[t][top].running # a
        BY <1>2, <1>5, <3>4, <4>1 DEF CallsInv
      <4>3. QED
        BY <1>2, <1>3, <1>5, <4>1, <4>2
    <3>5. QED
      BY <3>3, <3>4
  <2>2. ASSUME a = new.running PROVE a \in RunningTimers'
    BY <1>1, <1>2, <1>3, <1>5, <2>2
  <2>3. ASSUME a \in RunningTimers, a # Top(t).running PROVE a \in RunningTimers'
    <3>1. PICK u \in Threads : \E n \in 1..Len(passes[u]) : passes[u][n].running = a
      BY <1>3, <2>3
    <3>2. PICK n \in 1..Len(passes[u]) : passes[u][n].running = a
      BY <3>1
    <3>3. passes'[u][n].running = a
      BY <1>1, <1>2, <2>3, <3>2
    <3>4. QED
      BY <1>1, <1>3, <1>5, <3>3
  <2>4. QED
    BY <2>1, <2>2, <2>3
<1>6. NoTimer \notin RunningTimers /\ NoTimer \notin RunningTimers'
  BY <1>3
<1>7. QED
  BY <1>4, <1>5, <1>6

-----------------------------------------------------------------------------
(* Each step of a thread is a step of the service, or none. *)

ServiceStep == CallsInv' /\ [Service!ServiceNext]_Service!serviceVars

LEMMA SetTimerServes ==
    ASSUME IInv, CallsInv, NEW t \in Threads, NEW e \in Events, NEW period \in Periods,
           SetTimer(t, e, period)
    PROVE  ServiceStep
<1> DEFINE x == NewTimer(e, period)
<1>1. /\ x \in Timer /\ x.seq = sequence + 1 /\ x.event = e
      /\ x = [event |-> e, due |-> clock + period, seq |-> sequence + 1]
      /\ sequence \in Nat /\ sequence' = sequence + 1 /\ timers \in Seq(Timer)
  BY TimerConstants DEF IInv, TypeOK, SetTimer, NewTimer, Timer
<1> HIDE DEF x
<1>2. \A j, k \in 1..Len(timers) : timers[j].event = timers[k].event => j = k
  BY DEF IInv, QueueInv
<1>3. ArmedTimers' = {a \in ArmedTimers : a.event # e} \cup {x}
  <2>1. CASE Rearm(e, period)
    <3>1. PICK i \in 1..Len(timers) :
             timers[i].event = e /\ timers' \in InsertByDue(RemoveAt(timers, i), x)
      BY <1>1, <2>1 DEF Rearm, Matches, x
    <3> DEFINE r == RemoveAt(timers, i)
    <3>2. r \in Seq(Timer) /\ IsRemoval(timers, i, r)
      BY <1>1, RemoveAtIsRemoval
    <3>3. timers' \in InsertByDue(r, x)
      BY <3>1
    <3> HIDE DEF r
    <3>4. Elements(r) = {a \in ArmedTimers : a.event # e}
      BY <1>1, <1>2, <3>1, <3>2, RemovalDisarms DEF ArmedTimers
    <3>5. QED
      BY <1>1, <3>2, <3>3, <3>4, InsertionArms DEF ArmedTimers
  <2>2. CASE Arm(e, period)
    <3>1. timers' \in InsertByDue(timers, x)
      BY <2>2 DEF Arm, x
    <3>2. \A a \in ArmedTimers : a.event # e
      BY <2>2 DEF Arm, Armed, ArmedTimers, Elements
    <3>3. QED
      BY <1>1, <3>1, <3>2, InsertionArms DEF ArmedTimers
  <2>3. QED
    BY <2>1, <2>2 DEF SetTimer
<1>4. CallsInv' /\ RunningTimers' = RunningTimers
  BY <1>1, <1>3, ListStepKeepsCalls DEF IInv, SetTimer
<1>5. Service!ServiceSet(e, period)
  BY <1>1, <1>3, <1>4 DEF Service!ServiceSet, SetTimer, ArmedTimers, Elements
<1>6. QED
  BY <1>4, <1>5 DEF ServiceStep, Service!ServiceNext

LEMMA CancelTimerServes ==
    ASSUME IInv, CallsInv, NEW t \in Threads, NEW e \in Events, CancelTimer(t, e)
    PROVE  ServiceStep
<1>1. PICK i \in 1..Len(timers) : timers[i].event = e /\ timers' = RemoveAt(timers, i)
  BY DEF CancelTimer, Matches, IInv, TypeOK
<1>2. timers' \in Seq(Timer) /\ IsRemoval(timers, i, timers')
  BY <1>1, RemoveAtIsRemoval DEF IInv, TypeOK
<1>3. ArmedTimers' = {a \in ArmedTimers : a.event # e}
  <2>1. timers \in Seq(Timer)
    BY DEF IInv, TypeOK
  <2>2. \A j, k \in 1..Len(timers) : timers[j].event = timers[k].event => j = k
    BY DEF IInv, QueueInv
  <2>3. QED
    BY <1>1, <1>2, <2>1, <2>2, RemovalDisarms DEF ArmedTimers
<1>4. CallsInv' /\ RunningTimers' = RunningTimers
  BY <1>3, ListStepKeepsCalls DEF CancelTimer, IInv, TypeOK
<1>5. Service!ServiceCancel(e)
  BY <1>3, <1>4 DEF Service!ServiceCancel, CancelTimer, ArmedTimers, Elements
<1>6. QED
  BY <1>4, <1>5 DEF ServiceStep, Service!ServiceNext

LEMMA PopServes ==
    ASSUME IInv, CallsInv, NEW t \in Threads, DispatchPop(t)
    PROVE  ServiceStep
<1> DEFINE head == Head(timers)
           new == [Top(t) EXCEPT !.pc = "callback", !.running = head, !.fired = @ \cup {head}]
<1>1. Top(t) \in Pass /\ PassInv(Top(t), timers, sequence, clock) /\ Top(t).pc = "scan"
  BY TopIsPass DEF DispatchPop, AtPc
<1>2. /\ timers' \in Seq(Timer) /\ IsRemoval(timers, 1, timers')
      /\ head = timers[1] /\ 1 \in 1..Len(timers) /\ head \in Timer
  BY TailIsRemoval DEF DispatchPop, IInv, TypeOK
<1>3. ArmedTimers' = ArmedTimers \ {head} /\ head \in ArmedTimers
  <2>1. timers \in Seq(Timer) /\ \A j, k \in 1..Len(timers) : timers[j].event = timers[k].event => j = k
    BY DEF IInv, TypeOK, QueueInv
  <2>2. Elements(timers') = Elements(timers) \ {timers[1]} /\ timers[1] \in Elements(timers)
    BY <1>2, <2>1, RemovalDisarms, ElementsAre
  <2>3. QED
    BY <1>2, <2>2 DEF ArmedTimers
<1>4. TopStep(t, new)
  BY DEF DispatchPop, AtPc, TopStep
<1>5. head.seq <= sequence /\ head.due <= clock
  <2>1. Eligible(Top(t), head) /\ Top(t).now <= clock
    BY <1>1 DEF DispatchPop, PassInv
  <2>2. head.due \in Nat /\ Top(t).now \in Nat /\ clock \in Nat
    BY <1>1, <1>2 DEF Timer, Pass, IInv, TypeOK
  <2>3. head.seq <= sequence
    BY <1>2 DEF IInv, QueueInv
  <2>4. QED
    BY <2>1, <2>2, <2>3 DEF Eligible
<1>6. \A b \in ArmedTimers \ {head} : Service!Earlier(head, b)
  <2> TAKE b \in ArmedTimers \ {head}
  <2>1. PICK j \in 1..Len(timers) : b = timers[j]
    BY ElementsAre DEF IInv, TypeOK, ArmedTimers
  <2>2. Earlier(head, b)
    <3>1. \A i, k \in 1..Len(timers) : i < k => Earlier(timers[i], timers[k])
      BY DEF IInv, QueueInv
    <3>2. j # 1 /\ 1 < j
      BY <1>2, <2>1
    <3>3. QED
      BY <1>2, <2>1, <3>1, <3>2
  <2>3. QED
    BY <2>2 DEF Earlier, Service!Earlier
<1>7. head \notin RunningTimers /\ Top(t).running = NoTimer
  <2>1. passes \in [Threads -> Seq(Pass)] /\ Len(passes[t]) \in 1..Len(passes[t])
    BY <1>4 DEF IInv, TypeOK, TopStep
  <2>2. Top(t).running = NoTimer
    BY <1>1, <2>1 DEF CallsInv, Top
  <2>3. head \notin RunningTimers
    BY <1>3, <2>1, RunningAre DEF CallsInv, RunningTimers, RunningIn
  <2>4. QED
    BY <2>2, <2>3
<1> HIDE DEF head
<1>8. new \in Pass /\ new.pc = "callback" /\ new.running = head /\ head # NoTimer
  BY <1>1, <1>2, TimerConstants DEF Pass
<1> HIDE DEF new
<1>9. CallsInv' /\ RunningTimers' = RunningTimers \cup {head}
  <2>1. /\ CallsInv'
        /\ RunningTimers' = (RunningTimers \ {Top(t).running}) \cup ({new.running} \ {NoTimer})
    BY <1>3, <1>4, <1>5, <1>7, <1>8, TopStepCalls DEF DispatchPop, IInv
  <2>2. NoTimer \notin RunningTimers
    BY DEF RunningTimers
  <2>3. QED
    BY <1>7, <1>8, <2>1, <2>2
<1>10. PICK a \in ArmedTimers : a = head
  BY <1>3
<1>11. Service!ServiceFire(a)
  BY <1>3, <1>5, <1>6, <1>9, <1>10 DEF Service!ServiceFire, DispatchPop, ArmedTimers, Elements
<1>12. Service!ServiceNext
  BY <1>11, Zenon DEF Service!ServiceNext, ArmedTimers, Elements
<1>13. QED
  BY <1>9, <1>12 DEF ServiceStep

\* The steps of a pass that call nothing.
LEMMA PassServes ==
    ASSUME IInv, CallsInv, NEW t \in Threads, NEW pc \in {"limit", "callback"},
           NEW limit \in Nat, AtPc(t, pc),
           TopStep(t, [Top(t) EXCEPT !.pc = "scan", !.limit = limit, !.running = NoTimer]),
           UNCHANGED <<timers, sequence, clock>>
    PROVE  ServiceStep
<1> DEFINE new == [Top(t) EXCEPT !.pc = "scan", !.limit = limit, !.running = NoTimer]
<1>1. Top(t) \in Pass
  BY TopIsPass DEF AtPc
<1>2. new \in Pass /\ new.pc = "scan" /\ new.running = NoTimer /\ TopStep(t, new)
  BY <1>1 DEF Pass
<1> HIDE DEF new
<1>3. ArmedTimers' = ArmedTimers
  BY DEF ArmedTimers, Elements
<1>4. CallsInv' /\ RunningTimers' = RunningTimers \ {Top(t).running}
  BY <1>2, <1>3, TopStepCalls DEF IInv
<1>5. CASE Top(t).running \in RunningTimers
  <2>1. Service!ServiceReturn(Top(t).running)
    BY <1>3, <1>4 DEF Service!ServiceReturn, ArmedTimers, Elements
  <2>2. QED
    BY <1>4, <1>5, <2>1 DEF ServiceStep, Service!ServiceNext
<1>6. CASE Top(t).running \notin RunningTimers
  BY <1>3, <1>4, <1>6 DEF ServiceStep, Service!serviceVars, ArmedTimers, Elements
<1>7. QED
  BY <1>5, <1>6

\* A pass that begins or ends: its frame runs no timer.
LEMMA FrameServes ==
    ASSUME IInv, CallsInv, NEW t \in Threads, DispatchEnter(t) \/ DispatchLeave(t)
    PROVE  ServiceStep
<1>1. /\ passes \in [Threads -> Seq(Pass)] /\ passes' \in [Threads -> Seq(Pass)]
      /\ \A u \in Threads : \A n \in 1..Len(passes'[u]) :
            \/ n \in 1..Len(passes[u]) /\ passes'[u][n] = passes[u][n]
            \/ passes'[u][n].pc = "limit" /\ passes'[u][n].running = NoTimer
      /\ \A u \in Threads : \A n \in 1..Len(passes[u]) :
            \/ n \in 1..Len(passes'[u]) /\ passes'[u][n] = passes[u][n]
            \/ passes[u][n].running = NoTimer
  <2>1. CASE DispatchEnter(t)
    <3> DEFINE new == [pc |-> "limit", now |-> clock, limit |-> 0, running |-> NoTimer, fired |-> {}]
    <3>1. new \in Pass /\ new.pc = "limit" /\ new.running = NoTimer
      BY DEF IInv, TypeOK, Pass
    <3>2. passes' = [passes EXCEPT ![t] = Append(@, new)]
      BY <2>1 DEF DispatchEnter
    <3> HIDE DEF new
    <3>3. QED
      BY <3>1, <3>2 DEF IInv, TypeOK
  <2>2. CASE DispatchLeave(t)
    <3>1. passes[t] \in Seq(Pass) /\ passes[t] # <<>> /\ Top(t).pc = "scan"
      BY <2>2 DEF DispatchLeave, AtPc, IInv, TypeOK
    <3>2. Top(t).running = NoTimer
      BY <3>1 DEF CallsInv, Top
    <3>3. /\ Front(passes[t]) \in Seq(Pass) /\ Len(Front(passes[t])) = Len(passes[t]) - 1
          /\ \A n \in 1..(Len(passes[t]) - 1) : Front(passes[t])[n] = passes[t][n]
      BY <3>1 DEF Front
    <3>4. passes' = [passes EXCEPT ![t] = Front(passes[t])] /\ passes \in [Threads -> Seq(Pass)]
      BY <2>2 DEF DispatchLeave, IInv, TypeOK
    <3> DEFINE front == Front(passes[t])
    <3>5. passes' = [passes EXCEPT ![t] = front]
      BY <3>4
    <3>6. front \in Seq(Pass) /\ Len(front) = Len(passes[t]) - 1 /\ Len(passes[t]) \in Nat
          /\ \A n \in 1..Len(front) : front[n] = passes[t][n]
      BY <3>1, <3>3
    <3> HIDE DEF front
    <3>7. /\ passes' \in [Threads -> Seq(Pass)]
          /\ passes'[t] = front
          /\ \A u \in Threads \ {t} : passes'[u] = passes[u]
      BY <3>4, <3>5, <3>6
    <3>8. /\ \A n \in 1..Len(passes'[t]) : n \in 1..Len(passes[t]) /\ passes'[t][n] = passes[t][n]
          /\ \A n \in 1..Len(passes[t]) :
                \/ n \in 1..Len(passes'[t]) /\ passes'[t][n] = passes[t][n]
                \/ passes[t][n].running = NoTimer
      BY <3>2, <3>6, <3>7 DEF Top
    <3>9. QED
      BY <3>4, <3>7, <3>8
  <2>3. QED
    BY <2>1, <2>2
<1>2. UNCHANGED <<timers, sequence, clock>>
  BY DEF DispatchEnter, DispatchLeave
<1>3. ArmedTimers' = ArmedTimers
  BY <1>2 DEF ArmedTimers, Elements
<1>4. CallsInv'
  <2>1. ASSUME NEW u \in Threads, NEW n \in 1..Len(passes'[u])
        PROVE  /\ passes'[u][n].pc = "callback" <=> passes'[u][n].running # NoTimer
               /\ passes'[u][n].running # NoTimer =>
                     /\ n \in 1..Len(passes[u]) /\ passes'[u][n] = passes[u][n]
                     /\ passes'[u][n].running.seq <= sequence'
                     /\ passes'[u][n].running \notin ArmedTimers'
    <3>1. CASE n \in 1..Len(passes[u]) /\ passes'[u][n] = passes[u][n]
      <4>1. /\ passes[u][n].pc = "callback" <=> passes[u][n].running # NoTimer
            /\ passes[u][n].running # NoTimer => /\ passes[u][n].running.seq <= sequence
                                                /\ passes[u][n].running \notin ArmedTimers
        BY <3>1 DEF CallsInv
      <4>2. QED
        BY <1>2, <1>3, <3>1, <4>1
    <3>2. CASE passes'[u][n].pc = "limit" /\ passes'[u][n].running = NoTimer
      BY <3>2
    <3>3. QED
      BY <1>1, <3>1, <3>2
  <2>2. ASSUME NEW u \in Threads, NEW n \in 1..Len(passes'[u]),
               NEW v \in Threads, NEW m \in 1..Len(passes'[v]),
               passes'[u][n].running # NoTimer, passes'[v][m].running = passes'[u][n].running
        PROVE  v = u /\ m = n
    <3>1. n \in 1..Len(passes[u]) /\ passes'[u][n] = passes[u][n]
      BY <2>1, <2>2
    <3>2. m \in 1..Len(passes[v]) /\ passes'[v][m] = passes[v][m]
      BY <2>1, <2>2
    <3>3. QED
      BY <2>2, <3>1, <3>2 DEF CallsInv
  <2>3. QED
    BY <2>1, <2>2 DEF CallsInv
<1>5. ASSUME NEW a PROVE a \in RunningTimers' <=> a \in RunningTimers
  <2>1. /\ a \in RunningTimers <=>
              a # NoTimer /\ \E u \in Threads : \E n \in 1..Len(passes[u]) : passes[u][n].running = a
        /\ a \in RunningTimers' <=>
              a # NoTimer /\ \E u \in Threads : \E n \in 1..Len(passes'[u]) : passes'[u][n].running = a
    BY <1>1, RunningAre DEF RunningTimers, RunningIn
  <2>2. QED
    BY <1>1, <2>1
<1>6. RunningTimers' = RunningTimers
  BY <1>5 DEF RunningTimers
<1>7. QED
  BY <1>2, <1>3, <1>4, <1>6 DEF ServiceStep, Service!serviceVars, ArmedTimers, Elements

-----------------------------------------------------------------------------
\* The list, the mutex and the nested passes of s3e_timer.c implement the timer service:
\* whatever the threads do, only the earliest timer that is due goes off, once.
THEOREM Implementation == Spec => ServiceSpec
<1>1. Init => CallsInv /\ Service!ServiceInit
  BY DEF Init, CallsInv, Service!ServiceInit, RunningTimers
<1>2. IInv /\ CallsInv /\ [Next]_vars => ServiceStep
  <2> SUFFICES ASSUME IInv, CallsInv, [Next]_vars PROVE ServiceStep
    OBVIOUS
  <2>1. CASE Tick
    <3>1. ArmedTimers' = ArmedTimers /\ UNCHANGED passes /\ UNCHANGED <<timers, sequence>>
      BY <2>1 DEF Tick, ArmedTimers, Elements
    <3>2. CallsInv' /\ RunningTimers' = RunningTimers
      BY <3>1, ListStepKeepsCalls DEF IInv, TypeOK
    <3>3. Service!ServiceTick
      BY <2>1, <3>1, <3>2 DEF Tick, Service!ServiceTick, ArmedTimers, Elements
    <3>4. QED
      BY <3>2, <3>3 DEF ServiceStep, Service!ServiceNext
  <2>2. CASE ClearTimers
    <3>1. ArmedTimers' = {}
      BY <2>2 DEF ClearTimers, ArmedTimers, Elements
    <3>2. CallsInv' /\ RunningTimers' = RunningTimers
      BY <2>2, <3>1, ListStepKeepsCalls DEF ClearTimers, IInv, TypeOK
    <3>3. Service!ServiceClear
      BY <2>2, <3>1, <3>2 DEF ClearTimers, Service!ServiceClear, ArmedTimers, Elements
    <3>4. QED
      BY <3>2, <3>3 DEF ServiceStep, Service!ServiceNext
  <2>3. ASSUME NEW t \in Threads,
               \/ \E e \in Events, p \in Periods : SetTimer(t, e, p)
               \/ \E e \in Events : CancelTimer(t, e)
        PROVE  ServiceStep
    BY <2>3, SetTimerServes, CancelTimerServes
  <2>4. ASSUME NEW t \in Threads, DispatchPop(t) \/ DispatchEnter(t) \/ DispatchLeave(t)
        PROVE  ServiceStep
    BY <2>4, PopServes, FrameServes
  <2>5. ASSUME NEW t \in Threads, DispatchLimit(t) \/ CallbackReturn(t)
        PROVE  ServiceStep
    <3>1. CASE DispatchLimit(t)
      <4>1. Top(t) \in Pass /\ Top(t).running = NoTimer
        <5>1. passes[t] \in Seq(Pass) /\ passes[t] # <<>> /\ Top(t).pc = "limit"
          BY <3>1 DEF DispatchLimit, AtPc, IInv, TypeOK
        <5>2. QED
          BY <5>1 DEF CallsInv, Top
      <4>2. [Top(t) EXCEPT !.pc = "scan", !.limit = sequence, !.running = NoTimer]
               = [Top(t) EXCEPT !.pc = "scan", !.limit = sequence]
        BY <4>1 DEF Pass
      <4>3. sequence \in Nat
        BY DEF IInv, TypeOK
      <4>4. QED
        BY <3>1, <4>2, <4>3, PassServes DEF DispatchLimit, TopStep, AtPc
    <3>2. CASE CallbackReturn(t)
      <4>1. Top(t) \in Pass
        BY <3>2, TopIsPass DEF CallbackReturn, AtPc
      <4>2. /\ Top(t).limit \in Nat
            /\ [Top(t) EXCEPT !.pc = "scan", !.limit = Top(t).limit, !.running = NoTimer]
                  = [Top(t) EXCEPT !.pc = "scan", !.running = NoTimer]
        BY <4>1 DEF Pass
      <4>3. QED
        BY <3>2, <4>2, PassServes DEF CallbackReturn, TopStep, AtPc
    <3>3. QED
      BY <2>5, <3>1, <3>2
  <2>6. CASE UNCHANGED vars
    BY <2>6 DEF vars, ServiceStep, Service!serviceVars, CallsInv, ArmedTimers, Elements, RunningTimers
  <2>7. QED
    BY <2>1, <2>2, <2>3, <2>4, <2>5, <2>6 DEF Next
<1>3. QED
  BY <1>1, <1>2, Invariance, PTL DEF Spec, ServiceSpec, ServiceStep, Service!ServiceSpec
=============================================================================
