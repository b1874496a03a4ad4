---------------------------- MODULE EventsProofs ----------------------------
(***************************************************************************)
(* The event stream, for any number of emitters, streams and events, any   *)
(* buffer, page and chunk, and any sweeps and failures: the floor of the   *)
(* journal is honest, a stream never goes back, and it passes over nothing *)
(* it wants.                                                               *)
(***************************************************************************)
EXTENDS Events, FiniteSetTheorems, WellFoundedInduction, TLAPS

-----------------------------------------------------------------------------
(***************************************************************************)
(* Bounded sets of cursors.                                                *)
(***************************************************************************)
\* A set of naturals that is not empty has a least element.
LEMMA LeastNatural ==
    ASSUME NEW S \in SUBSET Nat, S # {}
    PROVE  \E x \in S : \A y \in S : x <= y
<1>1. PICK x \in S : \A y \in S : ~ (<<y, x>> \in OpToRel(<, Nat))
  BY NatLessThanWellFounded, WFMin, Zenon
<1>2. ASSUME NEW y \in S PROVE x <= y
  <2>1. x \in Nat /\ y \in Nat /\ <<y, x>> \in Nat \X Nat
    BY <1>2, Zenon
  <2>2. ~ (y < x)
    BY <1>1, <1>2, <2>1, Zenon DEF OpToRel
  <2> QED BY <2>1, <2>2
<1> QED BY <1>2, Zenon

\* MinOf and MaxOf are what their names say, on cursors.
LEMMA MinOfCursors ==
    ASSUME NEW n \in Nat, NEW S \in SUBSET (1 .. n), S # {}
    PROVE  MinOf(S) \in S /\ \A y \in S : MinOf(S) <= y
<1>1. S \in SUBSET Nat
  OBVIOUS
<1>2. \E x \in S : \A y \in S : x <= y
  BY <1>1, LeastNatural, Zenon
<1> QED BY <1>2, Zenon DEF MinOf

LEMMA MaxOfCursors ==
    ASSUME NEW n \in Nat, NEW S \in SUBSET (1 .. n), S # {}
    PROVE  MaxOf(S) \in S /\ \A y \in S : y <= MaxOf(S)
<1> DEFINE Up == {m \in Nat : \A y \in S : y <= m}
<1>1. n \in Up
  OBVIOUS
<1>2. PICK m \in Up : \A k \in Up : m <= k
  BY <1>1, LeastNatural, Zenon
<1>3. m \in S
  <2>1. SUFFICES ASSUME m \notin S PROVE FALSE
    BY Zenon
  <2>2. \A y \in S : y \in Int /\ 1 <= y /\ y <= m /\ y # m
    BY <2>1
  <2>3. m \in Nat
    BY <1>2, Zenon
  <2>5. PICK z \in S : TRUE
    BY Zenon
  <2>6. m - 1 \in Nat
    BY <2>2, <2>3, <2>5
  <2>7. \A y \in S : y <= m - 1
    BY <2>2, <2>3
  <2>4. m - 1 \in Up
    BY <2>6, <2>7, Zenon
  <2> QED BY <1>2, <2>3, <2>4
<1>4. \A y \in S : y <= m
  BY <1>2, Zenon
<1> QED BY <1>3, <1>4, Zenon DEF MaxOf

\* Oldest(S, n) is a lower part of S ...
LEMMA OldestIsLower ==
    ASSUME NEW m \in Nat, NEW S \in SUBSET (1 .. m), NEW n \in Nat,
           NEW c \in Oldest(S, n), NEW d \in S, d <= c
    PROVE  d \in Oldest(S, n)
<1> DEFINE Upto(x) == {y \in S : y <= x}
<1>1. IsFiniteSet(S)
  <2>1. IsFiniteSet(1 .. m)
    BY FS_Interval
  <2> QED BY <2>1, FS_Subset, Zenon
<1>2. IsFiniteSet(Upto(c)) /\ IsFiniteSet(Upto(d))
  BY <1>1, FS_Subset, Zenon
<1>3. Upto(d) \subseteq Upto(c)
  <2>1. c \in Int /\ d \in Int /\ \A y \in S : y \in Int
    BY DEF Oldest
  <2>2. ASSUME NEW y \in S, y <= d PROVE y <= c
    BY <2>1, <2>2
  <2> QED BY <2>2, Zenon
<1>4. Cardinality(Upto(d)) <= Cardinality(Upto(c))
  BY <1>2, <1>3, FS_Subset, Zenon
<1>5. Cardinality(Upto(d)) \in Nat /\ Cardinality(Upto(c)) \in Nat
  BY <1>2, FS_CardinalityType, Zenon
<1> QED BY <1>4, <1>5 DEF Oldest

\* ... and all of it, where it has fewer than n elements.
LEMMA OldestIsAll ==
    ASSUME NEW m \in Nat, NEW S \in SUBSET (1 .. m), NEW n \in Nat,
           Cardinality(Oldest(S, n)) < n
    PROVE  Oldest(S, n) = S
<1> DEFINE Upto(x) == {y \in S : y <= x}
           Rest == S \ Oldest(S, n)
<1>1. IsFiniteSet(S)
  <2>1. IsFiniteSet(1 .. m)
    BY FS_Interval
  <2> QED BY <2>1, FS_Subset, Zenon
<1>2. Oldest(S, n) \subseteq S
  BY Zenon DEF Oldest
<1>3. SUFFICES ASSUME Rest # {} PROVE FALSE
  BY <1>2, Zenon
<1>4. PICK d \in Rest : \A y \in Rest : d <= y
  <2>1. S \subseteq Nat
    OBVIOUS
  <2> QED BY <1>3, <2>1, LeastNatural, Zenon
<1>5. Upto(d) \subseteq Oldest(S, n) \cup {d}
  <2>1. ASSUME NEW y \in S, y <= d, y \notin Oldest(S, n) PROVE y = d
    <3>1. y \in Int /\ d \in Int /\ d <= y
      BY <1>4, <2>1
    <3> QED BY <2>1, <3>1
  <2> QED BY <2>1, Zenon
<1>6. /\ IsFiniteSet(Oldest(S, n)) /\ IsFiniteSet(Oldest(S, n) \cup {d})
      /\ Cardinality(Oldest(S, n) \cup {d}) = Cardinality(Oldest(S, n)) + 1
  BY <1>1, <1>2, <1>4, FS_Subset, FS_AddElement, Zenon
<1>7. /\ Cardinality(Upto(d)) <= Cardinality(Oldest(S, n) \cup {d})
      /\ IsFiniteSet(Upto(d))
  BY <1>5, <1>6, FS_Subset, Zenon
<1>8. Cardinality(Oldest(S, n)) \in Nat /\ Cardinality(Upto(d)) \in Nat
  BY <1>6, <1>7, FS_CardinalityType, Zenon
<1>9. Cardinality(Upto(d)) <= n
  BY <1>6, <1>7, <1>8
<1> QED BY <1>4, <1>9, Zenon DEF Oldest

-----------------------------------------------------------------------------
(***************************************************************************)
(* The inductive invariant.                                                *)
(***************************************************************************)
\* The journal is an upper part of the cursors, and what it lacks is at or below the
\* cursor the sweeps have recorded.
JournalInv ==
    /\ \A c \in kept, d \in 1 .. Len(ev) : d > c => d \in kept
    /\ \A c \in 1 .. Len(ev) : c \notin kept => c <= pruned

\* Whoever has yet to broadcast has the lock and the last cursor.
LockInv == \A e \in Emitters : sending[e] # 0 => lock = e /\ sending[e] = Len(ev)

Grows(q) == \A j, k \in 1 .. Len(q) : j < k => q[j] < q[k]

\* Of one stream: what it has buffered was broadcast in the order of the cursors.
BufferOK(s) ==
    /\ s.last <= Len(ev) /\ s.from <= Len(ev)
    /\ \A k \in 1 .. Len(s.queue) : s.queue[k] <= Len(ev)
    /\ \A k \in 1 .. Len(s.queue), e \in Emitters :
          sending[e] # 0 => s.queue[k] < sending[e]
    /\ Grows(s.queue)

\* What a replay has before it is in the journal, unless a sweep took it meanwhile.
ReplayOK(s) ==
    s.pc = "replay" =>
       \A c \in 1 .. Len(ev) : c > s.last /\ c \notin kept => c \in s.raced

\* What a live stream has before it is in its buffer, or on its way there.
InBuffer(s, c) == \E k \in 1 .. Len(s.queue) : s.queue[k] = c
OnItsWay(c) == \E e \in Emitters : sending[e] = c
LiveOK(s) ==
    s.pc = "live" /\ ~s.lagged =>
       \A c \in 1 .. Len(ev) :
          c > s.last /\ c > s.from /\ s.filter \in {Anyone, ev[c].inst} =>
             c \in s.raced \/ InBuffer(s, c) \/ OnItsWay(c)

\* It has passed over nothing it wants (NoHole, of one stream).
PassedOK(s) ==
    s.pc \in {"replay", "live"} =>
       \A c \in s.from + 1 .. s.last :
          s.filter \in {Anyone, ev[c].inst} => c \in s.got \cup s.raced

StreamOK(s) == BufferOK(s) /\ ReplayOK(s) /\ LiveOK(s) /\ PassedOK(s)

EInv ==
    /\ TypeOK /\ JournalInv /\ LockInv
    /\ \A w \in Watchers : StreamOK(watch[w])

-----------------------------------------------------------------------------
\* The floor is below every cursor the journal lacks none of (FloorHonest).
LEMMA FloorFromInv == EInv => FloorHonest
<1> SUFFICES ASSUME EInv, NEW c \in 1 .. Len(ev), c > journal_floor
             PROVE  c \in kept
  BY Zenon DEF FloorHonest
<1>1. Len(ev) \in Nat /\ kept \in SUBSET (1 .. Len(ev)) /\ pruned \in Nat
  BY EventBounds DEF EInv, TypeOK
<1>2. CASE kept = {}
  BY <1>1, <1>2 DEF EInv, JournalInv, journal_floor
<1>3. CASE kept # {}
  <2>1. PICK m \in kept : journal_floor = m - 1
    BY <1>1, <1>3, MinOfCursors, Zenon DEF journal_floor
  <2>2. c = m \/ c > m
    BY <1>1, <2>1
  <2> QED BY <2>2, Zenon DEF EInv, JournalInv
<1> QED BY <1>2, <1>3, Zenon

\* A cursor at the floor or above it has everything after it in the journal.
LEMMA AboveFloor ==
    ASSUME EInv, NEW f \in Nat, ~(f < journal_floor), NEW c \in 1 .. Len(ev), c > f
    PROVE  c \in kept
<1>1. Len(ev) \in Nat /\ kept \in SUBSET (1 .. Len(ev)) /\ pruned \in Nat
  BY EventBounds DEF EInv, TypeOK
<1>2. journal_floor \in Int
  <2>1. CASE kept = {}
    BY <1>1, <2>1 DEF journal_floor
  <2>2. CASE kept # {}
    <3>1. PICK m \in kept : journal_floor = m - 1
      BY <1>1, <2>2, MinOfCursors, Zenon DEF journal_floor
    <3> QED BY <1>1, <3>1
  <2> QED BY <2>1, <2>2, Zenon
<1>3. c > journal_floor
  BY <1>1, <1>2
<1> QED BY <1>3, FloorFromInv, Zenon DEF FloorHonest

\* And so NoHole is part of the invariant.
LEMMA HoleFromInv == EInv => NoHole
  BY Zenon DEF EInv, StreamOK, PassedOK, NoHole, Wants

-----------------------------------------------------------------------------
(***************************************************************************)
(* One lemma for each kind of step.                                        *)
(***************************************************************************)
\* The types of the journal and of one stream.
LEMMA Types ==
    ASSUME EInv
    PROVE  /\ Len(ev) \in 0 .. MaxEvents /\ ev \in Seq(Event) /\ kept \in SUBSET (1 .. Len(ev))
           /\ pruned \in 0 .. MaxEvents /\ MaxEvents \in Nat
           /\ sending \in [Emitters -> 0 .. MaxEvents]
           /\ \A w \in Watchers :
                 /\ watch[w] \in Stream /\ Len(watch[w].queue) <= Cap
                 /\ watch[w].from \in Nat /\ watch[w].last \in Nat
                 /\ watch[w].queue \in Seq(Nat) /\ Len(watch[w].queue) \in Nat
                 /\ \A k \in 1 .. Len(watch[w].queue) : watch[w].queue[k] \in Nat
<1>1. MaxEvents \in Nat /\ \A c \in Cursors : c \in Nat
  BY EventBounds DEF Cursors
<1>2. ASSUME NEW w \in Watchers
      PROVE  /\ watch[w] \in Stream /\ Len(watch[w].queue) <= Cap
             /\ watch[w].from \in Nat /\ watch[w].last \in Nat
             /\ watch[w].queue \in Seq(Nat) /\ Len(watch[w].queue) \in Nat
             /\ \A k \in 1 .. Len(watch[w].queue) : watch[w].queue[k] \in Nat
  <2>1. watch[w] \in Stream /\ Len(watch[w].queue) <= Cap
    BY Zenon DEF EInv, TypeOK
  <2>2. watch[w].from \in 0 .. MaxEvents /\ watch[w].last \in 0 .. MaxEvents
        /\ watch[w].queue \in Seq(Cursors)
    BY <2>1, Zenon DEF Stream
  <2> QED BY <1>1, <2>1, <2>2
<1>3. /\ Len(ev) \in 0 .. MaxEvents /\ ev \in Seq(Event)
      /\ kept \in SUBSET (1 .. Len(ev)) /\ pruned \in 0 .. MaxEvents
      /\ sending \in [Emitters -> 0 .. MaxEvents]
  BY <1>1 DEF EInv, TypeOK
<1> QED BY <1>1, <1>2, <1>3, Zenon

\* A stream that nothing happens to, in a journal and a bus that nothing happens to.
LEMMA SameOK ==
    ASSUME NEW s, StreamOK(s), UNCHANGED <<journal, sending>>
    PROVE  StreamOK(s)'
  BY Zenon DEF StreamOK, BufferOK, ReplayOK, LiveOK, PassedOK, InBuffer, OnItsWay, journal

\* A new event: nobody else is between its insert and its broadcast.
LEMMA InsertKeeps ==
    ASSUME EInv, NEW e \in Emitters, NEW event \in Event, insert_event(e, event),
           UNCHANGED watch
    PROVE  /\ ev' \in Seq(Event) /\ Len(ev') <= MaxEvents /\ kept' \subseteq 1 .. Len(ev')
           /\ pruned' \in 0 .. MaxEvents /\ lock' \in Emitters \cup {Nobody}
           /\ sending' \in [Emitters -> 0 .. MaxEvents]
           /\ JournalInv' /\ LockInv' /\ \A w \in Watchers : StreamOK(watch[w])'
<1>0. /\ Len(ev) \in Nat /\ ev \in Seq(Event) /\ kept \in SUBSET (1 .. Len(ev))
      /\ pruned \in 0 .. MaxEvents /\ MaxEvents \in Nat
      /\ sending \in [Emitters -> 0 .. MaxEvents]
  BY Types
<1>1. /\ ev' \in Seq(Event) /\ Len(ev') = Len(ev) + 1 /\ Len(ev') <= MaxEvents
      /\ \A c \in 1 .. Len(ev) : ev'[c] = ev[c]
  BY <1>0 DEF insert_event
<1>2. \A f \in Emitters : sending[f] = 0
  BY EventBounds, Zenon DEF EInv, LockInv, insert_event
<1>3. /\ sending' \in [Emitters -> 0 .. MaxEvents] /\ sending'[e] = Len(ev) + 1
      /\ \A f \in Emitters \ {e} : sending'[f] = 0
  BY <1>0, <1>1, <1>2 DEF insert_event
<1>4. /\ kept' = kept \cup {Len(ev) + 1} /\ kept' \subseteq 1 .. Len(ev')
      /\ pruned' = pruned /\ lock' = e
  <2>1. kept' = kept \cup {Len(ev')} /\ pruned' = pruned /\ lock' = e
    BY Zenon DEF insert_event
  <2>2. ASSUME NEW c \in kept' PROVE c \in 1 .. Len(ev')
    <3>1. c \in 1 .. Len(ev) \/ c = Len(ev')
      BY <1>0, <2>1, <2>2, Zenon
    <3> QED BY <1>0, <1>1, <3>1
  <2> QED BY <1>1, <2>1, <2>2, Zenon
<1>5. JournalInv'
  BY <1>0, <1>1, <1>4 DEF EInv, JournalInv
<1>6. LockInv'
  BY <1>0, <1>1, <1>3, <1>4, Zenon DEF LockInv
<1>7. ASSUME NEW w \in Watchers PROVE StreamOK(watch[w])'
  <2>1. watch'[w] = watch[w] /\ StreamOK(watch[w])
    BY <1>7, Zenon DEF EInv
  <2>2. BufferOK(watch[w])'
    <3>1. /\ Len(ev) \in Nat /\ watch[w].last \in Nat /\ watch[w].last <= Len(ev)
          /\ watch[w].from \in Nat /\ watch[w].from <= Len(ev)
          /\ \A k \in 1 .. Len(watch[w].queue) :
                watch[w].queue[k] \in Nat /\ watch[w].queue[k] <= Len(ev)
      BY <1>0, <1>7, <2>1, Types, Zenon DEF StreamOK, BufferOK
    <3>2. \A f \in Emitters : sending'[f] # 0 => sending'[f] = Len(ev) + 1
      BY <1>3, Zenon
    <3>3. \A k \in 1 .. Len(watch[w].queue), f \in Emitters :
             sending'[f] # 0 => watch[w].queue[k] < sending'[f]
      BY <3>1, <3>2
    <3>4. \A k \in 1 .. Len(watch[w].queue) : watch[w].queue[k] <= Len(ev')
      BY <1>1, <3>1
    <3>5. watch[w].last <= Len(ev') /\ watch[w].from <= Len(ev')
      BY <1>1, <3>1
    <3> QED BY <2>1, <3>3, <3>4, <3>5, Zenon DEF StreamOK, BufferOK
  <2>3. ReplayOK(watch[w])'
    BY <1>0, <1>1, <1>4, <2>1 DEF StreamOK, ReplayOK
  <2>4. ASSUME NEW c \in 1 .. Len(ev), InBuffer(watch[w], c) \/ OnItsWay(c)
        PROVE  InBuffer(watch[w], c)' \/ OnItsWay(c)'
    BY <1>2, <1>7, <2>1, <2>4 DEF InBuffer, OnItsWay
  <2>5. OnItsWay(Len(ev))'
    BY <1>0, <1>1, <1>3, Zenon DEF OnItsWay
  <2>6. LiveOK(watch[w])'
    <3>1. \A c \in 1 .. Len(ev') : c = Len(ev') \/ c \in 1 .. Len(ev)
      BY <1>0, <1>1
    <3>2. SUFFICES ASSUME watch[w].pc = "live", ~watch[w].lagged, NEW c \in 1 .. Len(ev'),
                          c > watch[w].last, c > watch[w].from,
                          watch[w].filter \in {Anyone, ev'[c].inst}
                   PROVE  c \in watch[w].raced \/ InBuffer(watch[w], c)' \/ OnItsWay(c)'
      BY <2>1, Zenon DEF LiveOK
    <3>3. CASE c = Len(ev')
      BY <2>5, <3>3, Zenon DEF OnItsWay
    <3>4. CASE c \in 1 .. Len(ev)
      BY <1>1, <2>1, <2>4, <3>2, <3>4, Zenon DEF StreamOK, LiveOK
    <3> QED BY <3>1, <3>3, <3>4, Zenon
  <2>7. PassedOK(watch[w])'
    <3>1. \A c \in watch[w].from + 1 .. watch[w].last : c \in 1 .. Len(ev)
      BY <1>0, <1>7, <2>1, Types DEF StreamOK, BufferOK
    <3> QED BY <1>1, <2>1, <3>1, Zenon DEF StreamOK, PassedOK
  <2> QED BY <2>2, <2>3, <2>6, <2>7, Zenon DEF StreamOK
<1> QED BY <1>0, <1>1, <1>3, <1>4, <1>5, <1>6, <1>7, Zenon

\* Sequences of cursors that grow: appending a larger one, and leaving out the first.
LEMMA AppendGrows ==
    ASSUME NEW q \in Seq(Nat), NEW c \in Nat, Grows(q), \A k \in 1 .. Len(q) : q[k] < c
    PROVE  /\ Grows(Append(q, c))
           /\ \A k \in 1 .. Len(Append(q, c)) : Append(q, c)[k] <= c
           /\ \A d : (\E k \in 1 .. Len(q) : q[k] = d) \/ d = c
                  => \E k \in 1 .. Len(Append(q, c)) : Append(q, c)[k] = d
<1> DEFINE r == Append(q, c)
<1>1. /\ Len(q) \in Nat /\ Len(r) = Len(q) + 1 /\ r[Len(r)] = c
      /\ \A k \in 1 .. Len(q) : r[k] = q[k] /\ q[k] \in Nat /\ k \in 1 .. Len(r)
  OBVIOUS
<1>2. \A k \in 1 .. Len(r) : k = Len(r) \/ k \in 1 .. Len(q)
  BY <1>1
<1> HIDE DEF r
<1>3. Grows(r)
  <2>1. ASSUME NEW j \in 1 .. Len(r), NEW k \in 1 .. Len(r), j < k PROVE r[j] < r[k]
    <3>1. j \in 1 .. Len(q)
      BY <1>1, <2>1
    <3>2. CASE k = Len(r)
      BY <1>1, <3>1, <3>2, Zenon
    <3>3. CASE k \in 1 .. Len(q)
      BY <1>1, <2>1, <3>1, <3>3, Zenon DEF Grows
    <3> QED BY <1>2, <3>2, <3>3, Zenon
  <2> QED BY <2>1, Zenon DEF Grows
<1>4. \A k \in 1 .. Len(r) : r[k] <= c
  BY <1>1, <1>2
<1>5. \A d : (\E k \in 1 .. Len(q) : q[k] = d) \/ d = c => \E k \in 1 .. Len(r) : r[k] = d
  BY <1>1
<1> QED BY <1>3, <1>4, <1>5, Zenon DEF r

LEMMA TailGrows ==
    ASSUME NEW q \in Seq(Nat), q # <<>>, Grows(q)
    PROVE  /\ Tail(q) \in Seq(Nat) /\ Grows(Tail(q))
           /\ \A k \in 1 .. Len(Tail(q)) : \E j \in 1 .. Len(q) : Tail(q)[k] = q[j]
           /\ \A k \in 1 .. Len(q) : k = 1 \/ \E j \in 1 .. Len(Tail(q)) : Tail(q)[j] = q[k]
           /\ Head(q) = q[1] /\ 1 \in 1 .. Len(q)
<1> DEFINE r == Tail(q)
<1>1. /\ Len(q) \in Nat \ {0} /\ Len(r) = Len(q) - 1 /\ r \in Seq(Nat) /\ Head(q) = q[1]
      /\ \A k \in 1 .. Len(r) : r[k] = q[k + 1]
  OBVIOUS
<1> HIDE DEF r
<1>2. \A k \in 1 .. Len(r) : k + 1 \in 1 .. Len(q)
  BY <1>1
<1>3. \A j, k \in 1 .. Len(r) : j < k => j + 1 < k + 1
  BY <1>1
<1>4. Grows(r)
  BY <1>1, <1>2, <1>3, Zenon DEF Grows
<1>5. ASSUME NEW k \in 1 .. Len(q), k # 1 PROVE \E j \in 1 .. Len(r) : r[j] = q[k]
  <2>1. k - 1 \in 1 .. Len(r) /\ (k - 1) + 1 = k
    <3>1. Len(q) \in Nat \ {0} /\ Len(r) = Len(q) - 1
      BY <1>1, Zenon
    <3> QED BY <1>5, <3>1
  <2>2. r[k - 1] = q[(k - 1) + 1]
    BY <1>1, <2>1, Zenon
  <2> QED BY <2>1, <2>2, Zenon
<1>6. 1 \in 1 .. Len(q)
  BY <1>1
<1> QED BY <1>1, <1>2, <1>4, <1>5, <1>6, Zenon DEF r

\* What a broadcast does to one stream.
LEMMA OfferFacts ==
    ASSUME EInv, NEW w \in Watchers, NEW c \in Cursors
    PROVE  LET s == watch[w]
               t == Offer(s, c)
           IN  /\ t \in Stream /\ Len(t.queue) <= Cap
               /\ t.pc = s.pc /\ t.filter = s.filter /\ t.from = s.from
               /\ t.last = s.last /\ t.got = s.got /\ t.raced = s.raced
               /\ \/ t = s /\ s.pc \in {"off", "too_old", "closed"}
                  \/ t.queue = Append(s.queue, c) /\ t.lagged = s.lagged
                  \/ s.queue # <<>> /\ t.queue = Append(Tail(s.queue), c) /\ t.lagged
<1> DEFINE s == watch[w]
           t == Offer(s, c)
<1>1. /\ s \in Stream /\ Len(s.queue) <= Cap /\ s.queue \in Seq(Cursors)
      /\ Cap \in Nat \ {0}
  BY Types, EventBounds, Zenon DEF Stream
<1>2. CASE s.pc \in {"off", "too_old", "closed"}
  BY <1>1, <1>2, Zenon DEF Offer
<1>3. CASE s.pc \notin {"off", "too_old", "closed"} /\ Len(s.queue) < Cap
  <2>1. t = [s EXCEPT !.queue = Append(s.queue, c)]
    BY <1>3, Zenon DEF Offer
  <2>2. Append(s.queue, c) \in Seq(Cursors) /\ Len(Append(s.queue, c)) <= Cap
    BY <1>1, <1>3
  <2> QED BY <1>1, <2>1, <2>2, Zenon DEF Stream
<1>4. CASE s.pc \notin {"off", "too_old", "closed"} /\ ~(Len(s.queue) < Cap)
  <2>1. t = [s EXCEPT !.queue = Append(Tail(s.queue), c), !.lagged = TRUE]
    BY <1>4, Zenon DEF Offer
  <2>2. /\ s.queue # <<>> /\ Append(Tail(s.queue), c) \in Seq(Cursors)
        /\ Len(Append(Tail(s.queue), c)) <= Cap
    BY <1>1, <1>4
  <2>3. /\ t.queue = Append(Tail(s.queue), c) /\ t.lagged = TRUE
        /\ t.pc = s.pc /\ t.filter = s.filter /\ t.from = s.from
        /\ t.last = s.last /\ t.got = s.got /\ t.raced = s.raced
    BY <1>1, <2>1, Zenon DEF Stream
  <2>4. t = [pc |-> s.pc, filter |-> s.filter, from |-> s.from, last |-> s.last,
             queue |-> Append(Tail(s.queue), c), lagged |-> TRUE, got |-> s.got,
             raced |-> s.raced]
    BY <1>1, <2>1, Zenon DEF Stream
  <2>5. t \in Stream
    BY <1>1, <2>2, <2>4 DEF Stream
  <2> QED BY <2>2, <2>3, <2>5, Zenon
<1> QED BY <1>2, <1>3, <1>4, Zenon

\* A broadcast: the cursor is above all that the receivers have buffered.
LEMMA SendKeeps ==
    ASSUME EInv, NEW e \in Emitters, send(e)
    PROVE  /\ watch' \in [Watchers -> Stream]
           /\ \A w \in Watchers : Len(watch'[w].queue) <= Cap
           /\ lock' \in Emitters \cup {Nobody}
           /\ sending' \in [Emitters -> 0 .. MaxEvents]
           /\ JournalInv' /\ LockInv' /\ \A w \in Watchers : StreamOK(watch[w])'
<1> DEFINE c == sending[e]
<1>0. /\ Len(ev) \in 0 .. MaxEvents /\ MaxEvents \in Nat
      /\ sending \in [Emitters -> 0 .. MaxEvents]
  BY Types, Zenon
<1>1. c = Len(ev) /\ c \in Cursors /\ \A f \in Emitters \ {e} : sending[f] = 0
  BY <1>0 DEF EInv, LockInv, send, Cursors
<1>2. /\ sending' \in [Emitters -> 0 .. MaxEvents]
      /\ \A f \in Emitters : sending'[f] = 0
      /\ ev' = ev /\ kept' = kept /\ pruned' = pruned /\ lock' = Nobody
  BY <1>0, <1>1 DEF send, journal
<1>3. \A w \in Watchers : watch'[w] = Offer(watch[w], c)
  BY Zenon DEF send
<1>4. /\ watch' \in [Watchers -> Stream]
      /\ \A w \in Watchers : Len(watch'[w].queue) <= Cap
  BY <1>1, <1>3, OfferFacts, Zenon DEF send
<1>5. JournalInv' /\ LockInv'
  BY <1>2, Zenon DEF EInv, JournalInv, LockInv
<1>6. ASSUME NEW w \in Watchers PROVE StreamOK(watch[w])'
  <2> DEFINE s == watch[w]
             t == watch'[w]
  <2>0. t = Offer(s, c)
    BY <1>3, <1>6, Zenon
  <2>1. /\ t.pc = s.pc /\ t.filter = s.filter /\ t.from = s.from
        /\ t.last = s.last /\ t.got = s.got /\ t.raced = s.raced
        /\ \/ t = s /\ s.pc \in {"off", "too_old", "closed"}
           \/ t.queue = Append(s.queue, c) /\ t.lagged = s.lagged
           \/ s.queue # <<>> /\ t.queue = Append(Tail(s.queue), c) /\ t.lagged
    <3> HIDE DEF t, c
    <3> QED BY <1>1, <1>6, <2>0, OfferFacts, Zenon
  <2>2. /\ s.queue \in Seq(Nat) /\ s.last \in Nat /\ c \in Nat /\ s.last <= Len(ev)
        /\ s.from <= Len(ev)
        /\ \A k \in 1 .. Len(s.queue) : s.queue[k] < c
        /\ Grows(s.queue)
        /\ \A k \in 1 .. Len(s.queue) : s.queue[k] <= Len(ev)
    <3>1. StreamOK(s) /\ sending[e] # 0
      BY <1>6, Zenon DEF EInv, send
    <3> QED BY <1>0, <1>1, <1>6, <3>1, Types DEF StreamOK, BufferOK
  <2>3. /\ \A k \in 1 .. Len(t.queue) : t.queue[k] <= Len(ev)
        /\ Grows(t.queue)
    <3>1. CASE t = s
      BY <2>2, <3>1, Zenon
    <3>2. CASE t.queue = Append(s.queue, c)
      <4> HIDE DEF s, t, c
      <4>1. /\ Grows(Append(s.queue, c))
            /\ \A k \in 1 .. Len(Append(s.queue, c)) : Append(s.queue, c)[k] <= c
        BY <2>2, AppendGrows, Zenon
      <4>2. /\ Grows(t.queue)
            /\ \A k \in 1 .. Len(t.queue) : t.queue[k] <= c
        BY <3>2, <4>1, Zenon
      <4>3. t.queue \in Seq(Nat) /\ Len(ev) \in Nat /\ c <= Len(ev)
        BY <1>0, <1>1, <2>2, <3>2 DEF c
      <4> QED BY <2>2, <4>2, <4>3
    <3>3. CASE s.queue # <<>> /\ t.queue = Append(Tail(s.queue), c)
      <4> HIDE DEF s, t, c
      <4>1. /\ Tail(s.queue) \in Seq(Nat) /\ Grows(Tail(s.queue))
            /\ \A k \in 1 .. Len(Tail(s.queue)) : Tail(s.queue)[k] < c
        BY <2>2, <3>3, TailGrows, Zenon
      <4>2. /\ Grows(Append(Tail(s.queue), c))
            /\ \A k \in 1 .. Len(Append(Tail(s.queue), c)) : Append(Tail(s.queue), c)[k] <= c
        BY <2>2, <4>1, AppendGrows, Zenon
      <4>3. /\ Grows(t.queue)
            /\ \A k \in 1 .. Len(t.queue) : t.queue[k] <= c
        BY <3>3, <4>2, Zenon
      <4>4. t.queue \in Seq(Nat) /\ Len(ev) \in Nat /\ c <= Len(ev)
        BY <1>0, <1>1, <2>2, <3>3, <4>1 DEF c
      <4> QED BY <2>2, <4>3, <4>4
    <3> QED BY <2>1, <3>1, <3>2, <3>3, Zenon
  <2>4. BufferOK(watch[w])'
    BY <1>2, <2>1, <2>2, <2>3, Zenon DEF BufferOK
  <2>5. StreamOK(s)
    BY <1>6, Zenon DEF EInv
  <2>6. ReplayOK(watch[w])' /\ PassedOK(watch[w])'
    BY <1>2, <2>1, <2>5, Zenon DEF StreamOK, ReplayOK, PassedOK
  <2>7. LiveOK(watch[w])'
    <3>1. SUFFICES ASSUME t.pc = "live", ~t.lagged, NEW d \in 1 .. Len(ev),
                          d > s.last, d > s.from, s.filter \in {Anyone, ev[d].inst}
                   PROVE  d \in s.raced \/ InBuffer(t, d)
      BY <1>2, <2>1, Zenon DEF LiveOK, InBuffer
    <3>2. t.queue = Append(s.queue, c) /\ t.lagged = s.lagged /\ s.pc = "live"
      BY <2>1, <3>1, Zenon
    <3>3. d \in s.raced \/ InBuffer(s, d) \/ d = c
      BY <1>1, <2>5, <3>1, <3>2 DEF StreamOK, LiveOK, OnItsWay
    <3>4. ASSUME InBuffer(s, d) \/ d = c PROVE InBuffer(t, d)
      <4> HIDE DEF s, t, c
      <4>1. \A x : (\E k \in 1 .. Len(s.queue) : s.queue[k] = x) \/ x = c
                   => \E k \in 1 .. Len(Append(s.queue, c)) : Append(s.queue, c)[k] = x
        BY <2>2, AppendGrows, Zenon
      <4>2. (\E k \in 1 .. Len(s.queue) : s.queue[k] = d) \/ d = c
        BY <3>4, Zenon DEF InBuffer
      <4> QED BY <3>2, <4>1, <4>2, Zenon DEF InBuffer
    <3> QED BY <3>3, <3>4, Zenon
  <2> QED BY <2>4, <2>6, <2>7, Zenon DEF StreamOK
<1> QED BY <1>2, <1>4, <1>5, <1>6, Zenon
-----------------------------------------------------------------------------
\* One stream moves, and nothing else.
LEMMA MoveKeeps ==
    ASSUME EInv, NEW w \in Watchers, NEW s \in Stream, Len(s.queue) <= Cap, StreamOK(s),
           Moves(w, s)
    PROVE  /\ watch' \in [Watchers -> Stream]
           /\ \A v \in Watchers : Len(watch'[v].queue) <= Cap
           /\ UNCHANGED <<ev, kept, pruned, lock, sending, sweep, op>>
           /\ JournalInv' /\ LockInv' /\ \A v \in Watchers : StreamOK(watch[v])'
<1>1. watch \in [Watchers -> Stream] /\ \A v \in Watchers : Len(watch[v].queue) <= Cap
  BY Zenon DEF EInv, TypeOK
<1>2. /\ UNCHANGED <<ev, kept, pruned, lock, sending, sweep, op>>
      /\ watch' = [watch EXCEPT ![w] = s]
  BY Zenon DEF Moves, journal
<1>3. JournalInv' /\ LockInv'
  BY <1>2, Zenon DEF EInv, JournalInv, LockInv
<1>4. ASSUME NEW v \in Watchers PROVE StreamOK(watch[v])'
  <2>1. PICK t : t = watch'[v] /\ StreamOK(t)
    BY <1>1, <1>2, <1>4, Zenon DEF EInv
  <2>2. StreamOK(t)'
    BY <1>2, <2>1, SameOK, Zenon DEF journal
  <2> QED BY <2>1, <2>2, Zenon
<1> QED BY <1>1, <1>2, <1>3, <1>4, Zenon

\* A stream that only changes its pc, to one in which it is owed nothing.
LEMMA EndedOK ==
    ASSUME EInv, NEW w \in Watchers, NEW pc \in {"too_old", "closed"}
    PROVE  LET t == [watch[w] EXCEPT !.pc = pc]
           IN  t \in Stream /\ Len(t.queue) <= Cap /\ StreamOK(t)
<1>1. watch[w] \in Stream /\ Len(watch[w].queue) <= Cap /\ StreamOK(watch[w])
  BY Zenon DEF EInv, TypeOK
<1> QED BY <1>1, Zenon DEF Stream, StreamOK, BufferOK, ReplayOK, LiveOK, PassedOK

\* A receiver is there before anything is read.
LEMMA SubscribeOK ==
    ASSUME EInv, NEW w \in Watchers, NEW from \in 0 .. Len(ev)
    PROVE  LET t == [watch[w] EXCEPT !.pc = "anchor", !.from = from]
           IN  t \in Stream /\ Len(t.queue) <= Cap /\ StreamOK(t)
<1> DEFINE s == watch[w]
           t == [s EXCEPT !.pc = "anchor", !.from = from]
<1>1. s \in Stream /\ Len(s.queue) <= Cap /\ StreamOK(s) /\ from \in 0 .. MaxEvents
  BY Types DEF EInv
<1>a. t = [s EXCEPT !.pc = "anchor", !.from = from]
  BY Zenon
<1> HIDE DEF t
<1>2. t = [pc |-> "anchor", filter |-> s.filter, from |-> from, last |-> s.last,
           queue |-> s.queue, lagged |-> s.lagged, got |-> s.got, raced |-> s.raced]
  BY <1>a, <1>1, Zenon DEF Stream
<1>3. t \in Stream
  BY <1>1, <1>2, Zenon DEF Stream
<1>4. StreamOK(t)
  BY <1>1, <1>2 DEF StreamOK, BufferOK, ReplayOK, LiveOK, PassedOK
<1> QED BY <1>1, <1>2, <1>3, <1>4, Zenon DEF t

\* Where a stream starts: above the floor, or at the head.
LEMMA AnchorOK ==
    ASSUME EInv, NEW w \in Watchers
    PROVE  LET s == watch[w]
               t == IF s.from = 0
                    THEN [s EXCEPT !.pc = "live", !.from = Len(ev), !.last = head_cursor]
                    ELSE IF s.from < journal_floor
                    THEN [s EXCEPT !.pc = "too_old"]
                    ELSE [s EXCEPT !.pc = "replay", !.last = s.from]
           IN  t \in Stream /\ Len(t.queue) <= Cap /\ StreamOK(t)
<1> DEFINE s == watch[w]
           live == [s EXCEPT !.pc = "live", !.from = Len(ev), !.last = head_cursor]
           replay == [s EXCEPT !.pc = "replay", !.last = s.from]
<1>1. /\ s \in Stream /\ Len(s.queue) <= Cap /\ StreamOK(s)
      /\ s.from \in Nat /\ Len(ev) \in 0 .. MaxEvents /\ MaxEvents \in Nat /\ Len(ev) \in Nat
      /\ kept \in SUBSET (1 .. Len(ev))
  BY Types DEF EInv
<1>2. head_cursor \in 0 .. Len(ev)
  <2>1. CASE kept = {}
    BY <1>1, <2>1 DEF head_cursor
  <2>2. CASE kept # {}
    <3>1. MaxOf(kept) \in kept
      BY <1>1, <2>2, MaxOfCursors, Zenon
    <3>2. head_cursor \in kept
      BY <2>2, <3>1, Zenon DEF head_cursor
    <3> QED BY <1>1, <3>2
  <2> QED BY <2>1, <2>2, Zenon
<1> DEFINE h == head_cursor
<1>3. live \in Stream /\ Len(live.queue) <= Cap /\ StreamOK(live)
  <2> HIDE DEF h
  <2>0. h \in 0 .. Len(ev) /\ h \in 0 .. MaxEvents
    BY <1>1, <1>2 DEF h
  <2>a. live = [s EXCEPT !.pc = "live", !.from = Len(ev), !.last = h]
    BY Zenon DEF h
  <2> HIDE DEF live
  <2>1. live = [pc |-> "live", filter |-> s.filter, from |-> Len(ev), last |-> h,
                queue |-> s.queue, lagged |-> s.lagged, got |-> s.got, raced |-> s.raced]
    BY <1>1, <2>a, Zenon DEF Stream
  <2>2. live \in Stream
    BY <1>1, <2>0, <2>1, Zenon DEF Stream
  <2>3. BufferOK(live) /\ ReplayOK(live)
    BY <1>1, <2>0, <2>1 DEF StreamOK, BufferOK, ReplayOK
  <2>4. LiveOK(live) /\ PassedOK(live)
    <3>1. live.last = h /\ live.from = Len(ev) /\ live.pc = "live"
      BY <2>1, Zenon
    <3>2. \A c \in 1 .. Len(ev) : ~(c > Len(ev))
      BY <1>1
    <3>3. \A c \in Len(ev) + 1 .. h : FALSE
      BY <1>1, <2>0
    <3> QED BY <3>1, <3>2, <3>3, Zenon DEF LiveOK, PassedOK
  <2> QED BY <1>1, <2>1, <2>2, <2>3, <2>4, Zenon DEF StreamOK
<1>4. ASSUME ~(s.from < journal_floor)
      PROVE  replay \in Stream /\ Len(replay.queue) <= Cap /\ StreamOK(replay)
  <2>a. replay = [s EXCEPT !.pc = "replay", !.last = s.from]
    BY Zenon
  <2> HIDE DEF replay
  <2>1. replay = [pc |-> "replay", filter |-> s.filter, from |-> s.from, last |-> s.from,
                  queue |-> s.queue, lagged |-> s.lagged, got |-> s.got, raced |-> s.raced]
    BY <1>1, <2>a, Zenon DEF Stream
  <2>2. replay \in Stream
    BY <1>1, <2>1, Zenon DEF Stream
  <2>3. BufferOK(replay) /\ LiveOK(replay)
    BY <1>1, <2>1, Zenon DEF StreamOK, BufferOK, LiveOK
  <2>4. PassedOK(replay)
    BY <1>1, <2>1 DEF PassedOK
  <2>5. ReplayOK(replay)
    BY <1>1, <1>4, <2>1, AboveFloor, Zenon DEF ReplayOK
  <2> QED BY <1>1, <2>1, <2>2, <2>3, <2>4, <2>5, Zenon DEF StreamOK
<1> QED BY <1>3, <1>4, EndedOK, Zenon
\* One page of the journal: nothing the stream wants is before its end, and a short page
\* is all there is.
LEMMA ReplayStep ==
    ASSUME EInv, NEW w \in Watchers, watch[w].pc = "replay"
    PROVE  LET s == watch[w]
               page == events_after(w)
               t == [s EXCEPT
                       !.got = s.got \cup page,
                       !.last = IF page = {} THEN s.last ELSE MaxOf(page),
                       !.pc = IF Cardinality(page) < Page THEN "live" ELSE "replay"]
           IN  /\ t \in Stream /\ Len(t.queue) <= Cap /\ StreamOK(t)
               /\ s.last <= t.last /\ \A c \in t.got \ s.got : c > s.last
<1> DEFINE s == watch[w]
           S == {c \in kept : c > s.last /\ Wants(w, c)}
           page == events_after(w)
           last == IF page = {} THEN s.last ELSE MaxOf(page)
           pc == IF Cardinality(page) < Page THEN "live" ELSE "replay"
           t == [s EXCEPT !.got = s.got \cup page, !.last = last, !.pc = pc]
<1>1. /\ s \in Stream /\ Len(s.queue) <= Cap /\ StreamOK(s) /\ s.pc = "replay"
      /\ s.from \in Nat /\ s.last \in Nat /\ s.last <= Len(ev) /\ s.from <= Len(ev)
      /\ Len(ev) \in 0 .. MaxEvents /\ MaxEvents \in Nat /\ Len(ev) \in Nat
      /\ kept \in SUBSET (1 .. Len(ev)) /\ Page \in Nat
  BY Types, EventBounds DEF EInv, StreamOK, BufferOK
<1>2. S \in SUBSET (1 .. Len(ev)) /\ page = Oldest(S, Page) /\ page \subseteq S
  BY <1>1, Zenon DEF events_after, Oldest
<1>3. page # {} => last \in page /\ \A d \in page : d <= last
  <2>1. page \in SUBSET (1 .. Len(ev))
    BY <1>2, Zenon
  <2> QED BY <1>1, <2>1, MaxOfCursors, Zenon
<1>4. /\ last \in Nat /\ s.last <= last /\ last <= Len(ev)
      /\ \A d \in page : d \in Nat /\ d > s.last /\ d <= last
  <2> HIDE DEF page, last
  <2>1. \A d \in page : d \in Nat /\ d > s.last /\ d <= Len(ev)
    BY <1>1, <1>2
  <2>2. CASE page = {}
    BY <1>1, <2>2 DEF last
  <2>3. CASE page # {}
    BY <1>1, <1>3, <2>1, <2>3
  <2> QED BY <2>2, <2>3, Zenon
<1>5. pc \in {"live", "replay"} /\ (pc = "live" => page = S)
  BY <1>1, <1>2, OldestIsAll, Zenon
<1>6. ASSUME NEW d \in S, d <= last PROVE d \in page
  <2>a. page = {} => last = s.last
    BY Zenon
  <2>b. d > s.last /\ d \in Nat
    BY <1>1, <1>6
  <2> HIDE DEF last, page, S
  <2>1. last \in page
    BY <1>1, <1>3, <1>6, <2>a, <2>b
  <2> QED BY <1>1, <1>2, <1>6, <2>1, OldestIsLower, Zenon
<1>a. t = [s EXCEPT !.got = s.got \cup page, !.last = last, !.pc = pc]
  BY Zenon
<1>b. ASSUME NEW d \in 1 .. Len(ev), d > s.last, s.filter \in {Anyone, ev[d].inst}
      PROVE  d \in S \/ d \in s.raced
  BY <1>1, <1>b, Zenon DEF StreamOK, ReplayOK, Wants
<1>c. \A c \in S : c > s.last
  BY Zenon
<1> HIDE DEF t, last, page, pc, S
<1>7. t = [pc |-> pc, filter |-> s.filter, from |-> s.from, last |-> last,
           queue |-> s.queue, lagged |-> s.lagged, got |-> s.got \cup page, raced |-> s.raced]
  BY <1>1, <1>a, Zenon DEF Stream
<1>8. t \in Stream
  <2>0. \A c \in 1 .. Len(ev) : c \in Cursors
    BY <1>1 DEF Cursors
  <2>1. page \in SUBSET Cursors
    BY <1>2, <2>0, Zenon
  <2>2. last \in 0 .. MaxEvents
    BY <1>1, <1>4
  <2> QED BY <1>1, <1>5, <1>7, <2>1, <2>2, Zenon DEF Stream
<1>9. BufferOK(t)
  BY <1>1, <1>4, <1>7, Zenon DEF StreamOK, BufferOK
<1>10. ReplayOK(t)
  BY <1>1, <1>4, <1>7 DEF StreamOK, ReplayOK
<1>11. LiveOK(t)
  <2>1. SUFFICES ASSUME pc = "live", NEW d \in 1 .. Len(ev), d > last,
                        s.filter \in {Anyone, ev[d].inst}
                 PROVE  d \in s.raced
    BY <1>7, Zenon DEF LiveOK
  <2>2. d > s.last
    BY <1>1, <1>4, <2>1
  <2>3. d \in page => d <= last
    BY <1>4, Zenon
  <2> QED BY <1>1, <1>4, <1>5, <1>b, <2>1, <2>2, <2>3
<1>12. PassedOK(t)
  <2>1. SUFFICES ASSUME NEW d \in s.from + 1 .. last, s.filter \in {Anyone, ev[d].inst}
                 PROVE  d \in s.got \cup page \cup s.raced
    BY <1>7, Zenon DEF PassedOK
  <2>2. d \in 1 .. Len(ev) /\ d <= last /\ (d <= s.last => d \in s.from + 1 .. s.last)
    BY <1>1, <1>4
  <2>3. CASE d <= s.last
    BY <1>1, <2>1, <2>2, <2>3, Zenon DEF StreamOK, PassedOK
  <2>4. CASE d > s.last
    BY <1>6, <1>b, <2>1, <2>2, <2>4, Zenon
  <2> QED BY <1>1, <2>2, <2>3, <2>4
<1>13. Len(t.queue) <= Cap /\ s.last <= t.last /\ \A c \in t.got \ s.got : c > s.last
  BY <1>1, <1>2, <1>4, <1>7, <1>c, Zenon
<1> QED BY <1>8, <1>9, <1>10, <1>11, <1>12, <1>13, Zenon DEF StreamOK, t, last, page, pc

\* The next of the buffer: what it skips the stream has, or never wanted.
LEMMA RecvStep ==
    ASSUME EInv, NEW w \in Watchers, watch[w].pc = "live", ~watch[w].lagged,
           watch[w].queue # <<>>
    PROVE  LET s == watch[w]
               c == Head(s.queue)
               rest == [s EXCEPT !.queue = Tail(s.queue)]
               t == IF c <= s.last \/ ~Wants(w, c) THEN rest
                    ELSE [rest EXCEPT !.last = c, !.got = rest.got \cup {c}]
           IN  /\ t \in Stream /\ Len(t.queue) <= Cap /\ StreamOK(t)
               /\ s.last <= t.last /\ \A d \in t.got \ s.got : d > s.last
<1> DEFINE s == watch[w]
           q == s.queue
           c == Head(q)
           rest == [s EXCEPT !.queue = Tail(s.queue)]
           next == [rest EXCEPT !.last = c, !.got = rest.got \cup {c}]
<1>1. /\ s \in Stream /\ Len(q) <= Cap /\ StreamOK(s) /\ s.pc = "live" /\ ~s.lagged
      /\ s.from \in Nat /\ s.last \in Nat /\ s.last <= Len(ev) /\ s.from <= Len(ev)
      /\ Len(ev) \in 0 .. MaxEvents /\ MaxEvents \in Nat /\ Len(ev) \in Nat
      /\ q \in Seq(Cursors) /\ q \in Seq(Nat) /\ q # <<>> /\ Len(q) \in Nat /\ Cap \in Nat
  <2>1. s \in Stream /\ StreamOK(s)
    BY Types, Zenon DEF EInv
  <2>2. s.queue \in Seq(Cursors)
    BY <2>1, Zenon DEF Stream
  <2> QED BY <2>1, <2>2, Types, EventBounds DEF StreamOK, BufferOK
<1>2. /\ Grows(q) /\ \A k \in 1 .. Len(q) : q[k] \in Nat /\ q[k] <= Len(ev)
      /\ \A k \in 1 .. Len(q), e \in Emitters : sending[e] # 0 => q[k] < sending[e]
  BY <1>1, Types, Zenon DEF StreamOK, BufferOK
<1> DEFINE r == Tail(q)
<1>3. /\ r \in Seq(Cursors) /\ Len(r) <= Cap /\ Grows(r) /\ c = q[1] /\ 1 \in 1 .. Len(q)
      /\ \A k \in 1 .. Len(r) : \E j \in 1 .. Len(q) : r[k] = q[j]
      /\ \A k \in 1 .. Len(q) : k = 1 \/ \E j \in 1 .. Len(r) : r[j] = q[k]
  <2>1. r \in Seq(Cursors) /\ Len(r) = Len(q) - 1
    BY <1>1
  <2> HIDE DEF q
  <2>2. /\ Grows(r) /\ c = q[1] /\ 1 \in 1 .. Len(q)
        /\ \A k \in 1 .. Len(r) : \E j \in 1 .. Len(q) : r[k] = q[j]
        /\ \A k \in 1 .. Len(q) : k = 1 \/ \E j \in 1 .. Len(r) : r[j] = q[k]
    BY <1>1, <1>2, TailGrows, Zenon
  <2>3. Len(r) <= Cap
    BY <1>1, <2>1
  <2> QED BY <2>1, <2>2, <2>3, Zenon
<1>4. /\ \A k \in 1 .. Len(r) : r[k] \in Nat /\ r[k] <= Len(ev)
      /\ \A k \in 1 .. Len(r), e \in Emitters : sending[e] # 0 => r[k] < sending[e]
  <2> HIDE DEF r, q
  <2> QED BY <1>2, <1>3, Zenon
<1>5. c \in Nat /\ c <= Len(ev) /\ c \in Cursors
  <2>1. q[1] \in Cursors
    BY <1>1, <1>3
  <2> QED BY <1>2, <1>3, <2>1, Zenon
<1>6. ASSUME NEW d \in 1 .. Len(ev), d > s.last, d > s.from, d # c,
             s.filter \in {Anyone, ev[d].inst}
      PROVE  d \in s.raced \/ (\E j \in 1 .. Len(r) : r[j] = d) \/ OnItsWay(d)
  <2>1. d \in s.raced \/ InBuffer(s, d) \/ OnItsWay(d)
    BY <1>1, <1>6, Zenon DEF StreamOK, LiveOK
  <2>2. ASSUME NEW k \in 1 .. Len(q), q[k] = d PROVE \E j \in 1 .. Len(r) : r[j] = d
    <3> HIDE DEF r, q
    <3> QED BY <1>3, <1>6, <2>2, Zenon
  <2> QED BY <2>1, <2>2, Zenon DEF InBuffer
<1>7. CASE c <= s.last \/ ~Wants(w, c)
  <2>a. rest = [s EXCEPT !.queue = r]
    BY Zenon
  <2> HIDE DEF rest, r, c
  <2>1. rest = [pc |-> s.pc, filter |-> s.filter, from |-> s.from, last |-> s.last,
                queue |-> r, lagged |-> s.lagged, got |-> s.got, raced |-> s.raced]
    BY <1>1, <2>a, Zenon DEF Stream
  <2>2. rest \in Stream /\ Len(rest.queue) <= Cap
    BY <1>1, <1>3, <2>1, Zenon DEF Stream
  <2>3. BufferOK(rest)
    BY <1>1, <1>3, <1>4, <2>1, Zenon DEF BufferOK
  <2>4. ReplayOK(rest) /\ PassedOK(rest)
    BY <1>1, <2>1, Zenon DEF StreamOK, ReplayOK, PassedOK
  <2>5. LiveOK(rest)
    <3>1. SUFFICES ASSUME NEW d \in 1 .. Len(ev), d > s.last, d > s.from,
                          s.filter \in {Anyone, ev[d].inst}
                   PROVE  d \in s.raced \/ (\E j \in 1 .. Len(r) : r[j] = d) \/ OnItsWay(d)
      BY <2>1, Zenon DEF LiveOK, InBuffer
    <3>2. d # c
      BY <1>1, <1>5, <1>7, <3>1 DEF Wants
    <3> QED BY <1>6, <3>1, <3>2, Zenon
  <2>6. s.last <= rest.last /\ rest.got \ s.got = {}
    BY <1>1, <2>1
  <2> QED BY <1>7, <2>2, <2>3, <2>4, <2>5, <2>6, Zenon DEF StreamOK, rest, r, c
<1>8. CASE ~(c <= s.last \/ ~Wants(w, c))
  <2>a. rest = [s EXCEPT !.queue = r] /\ next = [rest EXCEPT !.last = c, !.got = rest.got \cup {c}]
    BY Zenon
  <2> HIDE DEF next, rest, r, c
  <2>0. rest = [pc |-> s.pc, filter |-> s.filter, from |-> s.from, last |-> s.last,
                queue |-> r, lagged |-> s.lagged, got |-> s.got, raced |-> s.raced]
    BY <1>1, <2>a, Zenon DEF Stream
  <2>1. next = [pc |-> s.pc, filter |-> s.filter, from |-> s.from, last |-> c,
                queue |-> r, lagged |-> s.lagged, got |-> s.got \cup {c}, raced |-> s.raced]
    BY <2>a, <2>0, Zenon
  <2>2. next \in Stream /\ Len(next.queue) <= Cap
    <3>1. s.got \cup {c} \in SUBSET Cursors /\ c \in 0 .. MaxEvents
      BY <1>1, <1>5 DEF Stream, Cursors
    <3> QED BY <1>1, <1>3, <2>1, <3>1, Zenon DEF Stream
  <2>3. BufferOK(next)
    BY <1>1, <1>3, <1>4, <1>5, <2>1, Zenon DEF BufferOK
  <2>4. ReplayOK(next)
    BY <1>1, <2>1, Zenon DEF ReplayOK
  <2>5. LiveOK(next)
    <3>1. SUFFICES ASSUME NEW d \in 1 .. Len(ev), d > c, d > s.from,
                          s.filter \in {Anyone, ev[d].inst}
                   PROVE  d \in s.raced \/ (\E j \in 1 .. Len(r) : r[j] = d) \/ OnItsWay(d)
      BY <2>1, Zenon DEF LiveOK, InBuffer
    <3>2. d # c /\ d > s.last
      BY <1>1, <1>5, <1>8, <3>1
    <3> QED BY <1>6, <3>1, <3>2, Zenon
  <2>6. PassedOK(next)
    <3>1. SUFFICES ASSUME NEW d \in s.from + 1 .. c, s.filter \in {Anyone, ev[d].inst}
                   PROVE  d \in s.got \cup {c} \cup s.raced
      BY <2>1, Zenon DEF PassedOK
    <3>2. /\ d \in 1 .. Len(ev) /\ d > s.from /\ d <= c
          /\ (d <= s.last => d \in s.from + 1 .. s.last)
      BY <1>1, <1>5
    <3>3. CASE d <= s.last
      BY <1>1, <3>1, <3>2, <3>3, Zenon DEF StreamOK, PassedOK
    <3>4. CASE d > s.last /\ d # c
      <4>1. \A j \in 1 .. Len(r) : r[j] # d
        <5>1. ASSUME NEW j \in 1 .. Len(q), j # 1 PROVE q[j] > c
          <6>1. 1 < j /\ 1 \in 1 .. Len(q) /\ j \in 1 .. Len(q)
            BY <1>1, <5>1
          <6>2. q[1] < q[j] /\ q[1] \in Nat /\ q[j] \in Nat
            BY <1>2, <6>1, Zenon DEF Grows
          <6> QED BY <1>3, <6>2, Zenon
        <5>2. ASSUME NEW j \in 1 .. Len(r) PROVE r[j] # d
          <6>1. j + 1 \in 1 .. Len(q) /\ j + 1 # 1 /\ r[j] = q[j + 1]
            BY <1>1, <5>2 DEF r
          <6> QED BY <1>2, <1>5, <3>2, <5>1, <6>1
        <5> QED BY <5>2, Zenon
      <4>2. ~OnItsWay(d)
        <5>1. ASSUME NEW e \in Emitters, sending[e] = d PROVE FALSE
          <6>0. sending[e] # 0 /\ 1 \in 1 .. Len(q)
            BY <1>1, <1>3, <3>2, <5>1
          <6>1. q[1] < sending[e]
            BY <1>2, <6>0, Zenon
          <6>2. c < d
            BY <1>3, <5>1, <6>1, Zenon
          <6>3. c \in Nat /\ d \in Nat
            BY <1>1, <1>5, <3>2
          <6> QED BY <3>2, <6>2, <6>3
        <5> QED BY <5>1, Zenon DEF OnItsWay
      <4> QED BY <1>6, <3>1, <3>2, <3>4, <4>1, <4>2, Zenon
    <3> QED BY <1>1, <3>2, <3>3, <3>4
  <2>7. s.last <= next.last /\ \A d \in next.got \ s.got : d > s.last
    BY <1>1, <1>5, <1>8, <2>1
  <2> QED BY <1>8, <2>2, <2>3, <2>4, <2>5, <2>6, <2>7, Zenon DEF StreamOK, next, rest, r, c
<1> QED BY <1>7, <1>8, Zenon

\* A lag is repaired from the journal, if it still has the gap.
LEMMA LaggedOK ==
    ASSUME EInv, NEW w \in Watchers, watch[w].pc = "live"
    PROVE  LET s == watch[w]
               t == [s EXCEPT !.lagged = FALSE,
                       !.pc = IF s.last < journal_floor THEN "too_old" ELSE "replay"]
           IN  t \in Stream /\ Len(t.queue) <= Cap /\ StreamOK(t) /\ t.last = s.last
               /\ t.got = s.got
<1> DEFINE s == watch[w]
           pc == IF s.last < journal_floor THEN "too_old" ELSE "replay"
           t == [s EXCEPT !.lagged = FALSE, !.pc = pc]
<1>1. /\ s \in Stream /\ Len(s.queue) <= Cap /\ StreamOK(s) /\ s.last \in Nat
      /\ s.pc = "live"
  BY Types, Zenon DEF EInv
<1>a. t = [s EXCEPT !.lagged = FALSE, !.pc = pc]
  BY Zenon
<1>b. pc = "too_old" \/ (pc = "replay" /\ ~(s.last < journal_floor))
  BY Zenon
<1> HIDE DEF t, pc
<1>2. t = [pc |-> pc, filter |-> s.filter, from |-> s.from, last |-> s.last,
           queue |-> s.queue, lagged |-> FALSE, got |-> s.got, raced |-> s.raced]
  BY <1>1, <1>a, Zenon DEF Stream
<1>3. t \in Stream
  BY <1>1, <1>2, <1>b, Zenon DEF Stream
<1>4. BufferOK(t) /\ LiveOK(t) /\ PassedOK(t)
  BY <1>1, <1>2, <1>b, Zenon DEF StreamOK, BufferOK, LiveOK, PassedOK
<1>5. ReplayOK(t)
  BY <1>1, <1>2, <1>b, AboveFloor, Zenon DEF ReplayOK
<1> QED BY <1>1, <1>2, <1>3, <1>4, <1>5, Zenon DEF StreamOK, t, pc
\* A sweep: what goes is the low end of the journal, and the streams it overtakes know.
LEMMA PruneKeeps ==
    ASSUME EInv, prune_events
    PROVE  EInv'
<1> DEFINE old == {c \in kept : c <= sweep.cut}
           gone == Oldest(old, Chunk)
           removed == sweep.removed + Cardinality(gone)
<1>1. /\ kept' = kept \ gone
      /\ pruned' = IF gone = {} \/ MaxOf(gone) < pruned THEN pruned ELSE MaxOf(gone)
      /\ sweep' = [sweep EXCEPT !.removed = removed,
            !.pc = IF Cardinality(gone) = Chunk THEN "prune"
                   ELSE IF removed > 0 THEN "announce" ELSE "idle"]
      /\ watch' = [w \in Watchers |->
            IF watch[w].pc = "replay"
            THEN [watch[w] EXCEPT !.raced = watch[w].raced \cup gone] ELSE watch[w]]
      /\ UNCHANGED <<ev, lock, sending, op, wait>>
  BY Zenon DEF prune_events
<1>2. /\ Len(ev) \in Nat /\ Len(ev) <= MaxEvents /\ kept \in SUBSET (1 .. Len(ev))
      /\ pruned \in 0 .. MaxEvents /\ MaxEvents \in Nat /\ Chunk \in Nat
      /\ sweep.cut \in 0 .. MaxEvents /\ sweep.removed \in Nat
      /\ sweep \in [pc : {"idle", "prune", "announce"}, cut : 0 .. MaxEvents, removed : Nat]
  BY Types, EventBounds DEF EInv, TypeOK
<1>3. old \in SUBSET (1 .. Len(ev)) /\ old \subseteq kept /\ gone \subseteq old
  BY <1>2, Zenon DEF Oldest
<1>4. Cardinality(gone) \in Nat
  <2>1. IsFiniteSet(1 .. Len(ev))
    BY <1>2, FS_Interval
  <2>2. IsFiniteSet(gone)
    <3>1. gone \subseteq 1 .. Len(ev)
      BY <1>3, Zenon
    <3> QED BY <2>1, <3>1, FS_Subset, Zenon
  <2> QED BY <2>2, FS_CardinalityType, Zenon
<1>5. ASSUME NEW c \in kept, NEW d \in gone, c <= d PROVE c \in gone
  <2>1. d \in old /\ c \in Int /\ d \in Int /\ d <= sweep.cut
    BY <1>2, <1>3
  <2>2. c \in old
    BY <1>2, <1>5, <2>1
  <2> HIDE DEF old
  <2> QED BY <1>2, <1>3, <1>5, <2>2, OldestIsLower, Zenon
<1>6. gone # {} => MaxOf(gone) \in gone /\ \A c \in gone : c <= MaxOf(gone)
  <2>1. gone \in SUBSET (1 .. Len(ev))
    BY <1>3, Zenon
  <2> QED BY <1>2, <2>1, MaxOfCursors, Zenon
<1> HIDE DEF gone, removed, old
<1>7. /\ pruned' \in 0 .. MaxEvents /\ pruned <= pruned'
      /\ \A c \in gone : c <= pruned'
  <2>1. \A c \in gone : c \in 1 .. Len(ev)
    BY <1>3, Zenon
  <2>2. CASE gone = {}
    BY <1>1, <1>2, <2>2
  <2>3. CASE gone # {} /\ MaxOf(gone) < pruned
    BY <1>1, <1>2, <1>6, <2>1, <2>3
  <2>4. CASE gone # {} /\ ~(MaxOf(gone) < pruned)
    <3>1. MaxOf(gone) \in 1 .. Len(ev) /\ pruned' = MaxOf(gone)
      BY <1>1, <1>6, <2>1, <2>4, Zenon
    <3> QED BY <1>2, <1>6, <2>4, <3>1
  <2> QED BY <2>2, <2>3, <2>4, Zenon
<1>8. JournalInv'
  <2>1. ASSUME NEW c \in kept', NEW d \in 1 .. Len(ev), d > c PROVE d \in kept'
    <3>1. c \in kept /\ c \notin gone /\ c \in Int /\ d \in kept
      BY <1>1, <1>2, <2>1 DEF EInv, JournalInv
    <3>2. d \notin gone
      BY <1>2, <1>5, <2>1, <3>1
    <3> QED BY <1>1, <3>1, <3>2, Zenon
  <2>2. ASSUME NEW c \in 1 .. Len(ev), c \notin kept' PROVE c <= pruned'
    <3>1. CASE c \in gone
      BY <1>7, <3>1, Zenon
    <3>2. CASE c \notin kept
      <4>1. c <= pruned
        BY <3>2, Zenon DEF EInv, JournalInv
      <4> QED BY <1>2, <1>7, <4>1
    <3> QED BY <1>1, <2>2, <3>1, <3>2, Zenon
  <2> QED BY <1>1, <2>1, <2>2, Zenon DEF JournalInv
<1>9. sweep' \in [pc : {"idle", "prune", "announce"}, cut : 0 .. MaxEvents, removed : Nat]
  <2>1. removed \in Nat
    BY <1>2, <1>4 DEF removed
  <2>2. PICK pc \in {"idle", "prune", "announce"} :
           sweep' = [sweep EXCEPT !.removed = removed, !.pc = pc]
    BY <1>1, Zenon
  <2>3. sweep' = [pc |-> pc, cut |-> sweep.cut, removed |-> removed]
    BY <1>2, <2>2, Zenon
  <2> QED BY <1>2, <2>1, <2>3, Zenon
<1>10. ASSUME NEW w \in Watchers
       PROVE  watch'[w] \in Stream /\ Len(watch'[w].queue) <= Cap /\ StreamOK(watch[w])'
  <2>1. watch[w] \in Stream /\ Len(watch[w].queue) <= Cap /\ StreamOK(watch[w])
    BY <1>10, Types, Zenon DEF EInv
  <2>2. CASE watch[w].pc # "replay"
    <3>1. watch'[w] = watch[w]
      BY <1>1, <2>2, Zenon
    <3>2. StreamOK(watch[w])'
      BY <1>1, <2>1, <2>2, <3>1, ZenonT(40)
         DEF StreamOK, BufferOK, ReplayOK, LiveOK, PassedOK, InBuffer, OnItsWay
    <3> QED BY <2>1, <3>1, <3>2, Zenon
  <2>3. CASE watch[w].pc = "replay"
    <3>1. watch'[w] = [watch[w] EXCEPT !.raced = watch[w].raced \cup gone]
      BY <1>1, <2>3, Zenon
    <3>2. watch[w].raced \cup gone \in SUBSET Cursors
      <4>1. watch[w].raced \in SUBSET Cursors
        BY <2>1, Zenon DEF Stream
      <4>2. \A c \in gone : c \in Cursors
        BY <1>2, <1>3 DEF Cursors
      <4> QED BY <4>1, <4>2, Zenon
    <3>3. /\ watch'[w] \in Stream /\ Len(watch'[w].queue) <= Cap
          /\ watch'[w].raced = watch[w].raced \cup gone /\ watch'[w].got = watch[w].got
          /\ watch'[w].queue = watch[w].queue /\ watch'[w].last = watch[w].last
          /\ watch'[w].from = watch[w].from /\ watch'[w].filter = watch[w].filter
          /\ watch'[w].pc = "replay"
      BY <2>1, <2>3, <3>1, <3>2, Zenon DEF Stream
    <3>4. BufferOK(watch[w])' /\ LiveOK(watch[w])'
      BY <1>1, <2>1, <3>3, Zenon DEF StreamOK, BufferOK, LiveOK
    <3>5. ReplayOK(watch[w])' /\ PassedOK(watch[w])'
      BY <1>1, <2>1, <2>3, <3>3, Zenon DEF StreamOK, ReplayOK, PassedOK
    <3> QED BY <3>3, <3>4, <3>5, Zenon DEF StreamOK
  <2> QED BY <2>2, <2>3, Zenon
<1>11. watch' \in [Watchers -> Stream]
  BY <1>1, <1>10, Zenon
<1>12. LockInv'
  BY <1>1, Zenon DEF EInv, LockInv
<1>13. kept' \subseteq 1 .. Len(ev')
  BY <1>1, <1>2, Zenon
<1>14. TypeOK'
  BY <1>1, <1>7, <1>9, <1>10, <1>11, <1>13, Zenon DEF EInv, TypeOK
<1> QED BY <1>8, <1>10, <1>12, <1>14, Zenon DEF EInv
-----------------------------------------------------------------------------
\* The part of TypeOK that is about the sweep, the operation and the follower.
RestOK ==
    /\ sweep \in [pc : {"idle", "prune", "announce"}, cut : 0 .. MaxEvents, removed : Nat]
    /\ op \in {"none", "running", "finished", "announced"}
    /\ wait \in {"absent", "watch", "submit", "check", "wait", "outcome", "failed",
                 "timeout"}

LEMMA RestFromInv == EInv => RestOK
  BY Zenon DEF EInv, TypeOK, RestOK

\* A step that leaves the journal, the bus and the streams alone.
LEMMA FrameKeeps ==
    ASSUME EInv, UNCHANGED <<ev, kept, pruned, lock, sending, watch>>, RestOK'
    PROVE  EInv'
<1>1. TypeOK'
  BY Zenon DEF EInv, TypeOK, RestOK
<1>2. JournalInv' /\ LockInv'
  BY Zenon DEF EInv, JournalInv, LockInv
<1>3. ASSUME NEW w \in Watchers PROVE StreamOK(watch[w])'
  <2>1. PICK t : t = watch[w] /\ StreamOK(t)
    BY <1>3, Zenon DEF EInv
  <2>2. StreamOK(t)'
    BY <2>1, SameOK, Zenon DEF journal
  <2> QED BY <2>1, <2>2, Zenon
<1> QED BY <1>1, <1>2, <1>3, Zenon DEF EInv

\* A step that records an event.
LEMMA RecordKeeps ==
    ASSUME EInv, NEW e \in Emitters, NEW event \in Event, insert_event(e, event),
           UNCHANGED watch, RestOK'
    PROVE  EInv'
<1>1. /\ ev' \in Seq(Event) /\ Len(ev') <= MaxEvents /\ kept' \subseteq 1 .. Len(ev')
      /\ pruned' \in 0 .. MaxEvents /\ lock' \in Emitters \cup {Nobody}
      /\ sending' \in [Emitters -> 0 .. MaxEvents]
      /\ JournalInv' /\ LockInv' /\ \A w \in Watchers : StreamOK(watch[w])'
  BY InsertKeeps, Zenon
<1>2. TypeOK'
  BY <1>1, Zenon DEF EInv, TypeOK, RestOK
<1> QED BY <1>1, <1>2, Zenon DEF EInv

\* A step of one stream.
LEMMA StreamKeeps ==
    ASSUME EInv, NEW w \in Watchers, NEW s \in Stream, Len(s.queue) <= Cap, StreamOK(s),
           Moves(w, s), UNCHANGED wait
    PROVE  EInv'
<1>1. /\ watch' \in [Watchers -> Stream]
      /\ \A v \in Watchers : Len(watch'[v].queue) <= Cap
      /\ UNCHANGED <<ev, kept, pruned, lock, sending, sweep, op>>
      /\ JournalInv' /\ LockInv' /\ \A v \in Watchers : StreamOK(watch[v])'
  BY MoveKeeps, Zenon
<1>2. TypeOK'
  BY <1>1, Zenon DEF EInv, TypeOK
<1> QED BY <1>1, <1>2, Zenon DEF EInv

\* The emitters and the executor.
LEMMA EmittersKeep ==
    ASSUME EInv, NEW e \in Emitters, send(e) \/ record(e) \/ op_event(e) \/ degradation(e)
    PROVE  EInv'
<1>0. RestOK /\ \A i \in Instances \cup {Anyone}, b \in BOOLEAN : [inst |-> i, op |-> b] \in Event
  BY RestFromInv, Zenon DEF Event
<1>1. CASE send(e)
  <2>1. /\ watch' \in [Watchers -> Stream]
        /\ \A w \in Watchers : Len(watch'[w].queue) <= Cap
        /\ lock' \in Emitters \cup {Nobody}
        /\ sending' \in [Emitters -> 0 .. MaxEvents]
        /\ JournalInv' /\ LockInv' /\ \A w \in Watchers : StreamOK(watch[w])'
    BY <1>1, SendKeeps, Zenon
  <2>2. UNCHANGED <<ev, kept, pruned, sweep, op, wait>>
    BY <1>1, Zenon DEF send, journal
  <2>3. TypeOK'
    BY <2>1, <2>2, Zenon DEF EInv, TypeOK
  <2> QED BY <2>1, <2>3, Zenon DEF EInv
<1>2. CASE record(e)
  <2>1. PICK event \in Event : insert_event(e, event)
    BY <1>0, <1>2, Zenon DEF record
  <2>2. UNCHANGED watch /\ RestOK'
    BY <1>0, <1>2, Zenon DEF record, RestOK
  <2> QED BY <2>1, <2>2, RecordKeeps, Zenon
<1>3. CASE op_event(e)
  <2>1. RestOK' /\ UNCHANGED watch
    BY <1>0, <1>3, Zenon DEF op_event, RestOK
  <2>2. [inst |-> watch[Follower].filter, op |-> TRUE] \in Event
    <3>1. watch[Follower] \in Stream
      BY Types, EventBounds, Zenon
    <3>2. watch[Follower].filter \in Instances \cup {Anyone}
      BY <3>1, Zenon DEF Stream
    <3> QED BY <1>0, <3>2, Zenon
  <2>3. CASE insert_event(e, [inst |-> watch[Follower].filter, op |-> TRUE])
    BY <2>1, <2>2, <2>3, RecordKeeps, Zenon
  <2>4. CASE UNCHANGED <<journal, lock, sending>>
    BY <2>1, <2>4, FrameKeeps, Zenon DEF journal
  <2> QED BY <1>3, <2>3, <2>4, Zenon DEF op_event
<1>4. CASE degradation(e)
  <2>1. [inst |-> Anyone, op |-> FALSE] \in Event
    BY <1>0, Zenon
  <2>2. UNCHANGED watch /\ RestOK' /\ insert_event(e, [inst |-> Anyone, op |-> FALSE])
    BY <1>0, <1>4, Zenon DEF degradation, RestOK
  <2> QED BY <2>1, <2>2, RecordKeeps, Zenon
<1> QED BY <1>1, <1>2, <1>3, <1>4, Zenon

\* The streams.
LEMMA StreamsKeep ==
    ASSUME EInv, NEW w \in Watchers,
           (\E from \in 0 .. Len(ev) : subscribe(w, from)) \/ Serve(w) \/ close(w)
    PROVE  EInv'
<1>1. ASSUME NEW from \in 0 .. Len(ev), subscribe(w, from) PROVE EInv'
  <2> DEFINE t == [watch[w] EXCEPT !.pc = "anchor", !.from = from]
  <2>1. t \in Stream /\ Len(t.queue) <= Cap /\ StreamOK(t)
    BY SubscribeOK, Zenon
  <2>2. Moves(w, t) /\ UNCHANGED wait
    BY <1>1, Zenon DEF subscribe
  <2> HIDE DEF t
  <2> QED BY <2>1, <2>2, StreamKeeps, Zenon
<1>2. CASE anchor(w)
  <2> DEFINE s == watch[w]
             t == IF s.from = 0
                  THEN [s EXCEPT !.pc = "live", !.from = Len(ev), !.last = head_cursor]
                  ELSE IF s.from < journal_floor
                  THEN [s EXCEPT !.pc = "too_old"]
                  ELSE [s EXCEPT !.pc = "replay", !.last = s.from]
  <2>1. t \in Stream /\ Len(t.queue) <= Cap /\ StreamOK(t)
    BY AnchorOK, Zenon
  <2>2. Moves(w, t) /\ UNCHANGED wait
    BY <1>2, Zenon DEF anchor
  <2> HIDE DEF t
  <2> QED BY <2>1, <2>2, StreamKeeps, Zenon
<1>3. CASE replay_journal(w)
  <2> DEFINE s == watch[w]
             page == events_after(w)
             t == [s EXCEPT
                     !.got = s.got \cup page,
                     !.last = IF page = {} THEN s.last ELSE MaxOf(page),
                     !.pc = IF Cardinality(page) < Page THEN "live" ELSE "replay"]
  <2>1. t \in Stream /\ Len(t.queue) <= Cap /\ StreamOK(t)
    BY <1>3, ReplayStep, Zenon DEF replay_journal
  <2>2. Moves(w, t) /\ UNCHANGED wait
    BY <1>3, Zenon DEF replay_journal
  <2> HIDE DEF t
  <2> QED BY <2>1, <2>2, StreamKeeps, Zenon
<1>4. CASE recv(w)
  <2> DEFINE s == watch[w]
             c == Head(s.queue)
             rest == [s EXCEPT !.queue = Tail(s.queue)]
             t == IF c <= s.last \/ ~Wants(w, c) THEN rest
                  ELSE [rest EXCEPT !.last = c, !.got = rest.got \cup {c}]
  <2>1. t \in Stream /\ Len(t.queue) <= Cap /\ StreamOK(t)
    BY <1>4, RecvStep, Zenon DEF recv
  <2>2. Moves(w, t) /\ UNCHANGED wait
    BY <1>4, Zenon DEF recv
  <2> HIDE DEF t
  <2> QED BY <2>1, <2>2, StreamKeeps, Zenon
<1>5. CASE lagged(w)
  <2> DEFINE s == watch[w]
             t == [s EXCEPT !.lagged = FALSE,
                     !.pc = IF s.last < journal_floor THEN "too_old" ELSE "replay"]
  <2>1. t \in Stream /\ Len(t.queue) <= Cap /\ StreamOK(t)
    BY <1>5, LaggedOK, Zenon DEF lagged
  <2>2. Moves(w, t) /\ UNCHANGED wait
    BY <1>5, Zenon DEF lagged
  <2> HIDE DEF t
  <2> QED BY <2>1, <2>2, StreamKeeps, Zenon
<1>6. CASE close(w)
  <2> DEFINE t == [watch[w] EXCEPT !.pc = "closed"]
  <2>1. t \in Stream /\ Len(t.queue) <= Cap /\ StreamOK(t)
    BY EndedOK, Zenon
  <2>2. Moves(w, t) /\ UNCHANGED wait
    BY <1>6, Zenon DEF close
  <2> HIDE DEF t
  <2> QED BY <2>1, <2>2, StreamKeeps, Zenon
<1> QED BY <1>1, <1>2, <1>3, <1>4, <1>5, <1>6, Zenon DEF Serve

\* The follower, the executor and the sweep outside of its transactions.
LEMMA OthersKeep ==
    ASSUME EInv, \/ finish_operation \/ sweep_retention \/ prune_fails
                 \/ Follow \/ submit_earlier \/ deadline \/ UNCHANGED vars
    PROVE  EInv'
<1>0. RestOK /\ Len(ev) \in 0 .. MaxEvents /\ MaxEvents \in Nat
  BY RestFromInv, Types, Zenon
<1>1. UNCHANGED <<ev, kept, pruned, lock, sending, watch>>
  BY Zenon DEF finish_operation, sweep_retention, prune_fails, Follow, watched, submit,
     check_settled, next_event, submit_earlier, deadline, Waits, journal, vars
<1>2. RestOK'
  <2>1. CASE sweep_retention
    <3>1. PICK cut \in 0 .. Len(ev) : sweep' = [pc |-> "prune", cut |-> cut, removed |-> 0]
      BY <2>1, Zenon DEF sweep_retention
    <3>2. cut \in 0 .. MaxEvents
      BY <1>0
    <3>3. UNCHANGED <<op, wait>>
      BY <2>1, Zenon DEF sweep_retention
    <3> QED BY <1>0, <3>1, <3>2, <3>3, Zenon DEF RestOK
  <2>2. CASE finish_operation \/ prune_fails \/ UNCHANGED vars
    BY <1>0, <2>2, Zenon DEF finish_operation, prune_fails, vars, RestOK
  <2>3. CASE Follow \/ submit_earlier \/ deadline
    BY <1>0, <2>3, Zenon DEF Follow, watched, submit, check_settled, next_event, submit_earlier,
       deadline, Waits, RestOK
  <2> QED BY <2>1, <2>2, <2>3, Zenon
<1> QED BY <1>1, <1>2, FrameKeeps, Zenon

-----------------------------------------------------------------------------
\* Nothing has happened yet.
LEMMA InitKeeps == Init => EInv
<1> SUFFICES ASSUME Init PROVE EInv
  BY Zenon
<1>1. /\ ev = <<>> /\ kept = {} /\ pruned = 0 /\ Len(ev) = 0 /\ lock = Nobody
      /\ sending = [e \in Emitters |-> 0]
      /\ MaxEvents \in Nat /\ Cap \in Nat
  BY EventBounds, Zenon DEF Init
<1>2. ASSUME NEW w \in Watchers
      PROVE  /\ watch[w] \in Stream /\ watch[w].pc = "off" /\ watch[w].queue = <<>>
             /\ watch[w].last = 0 /\ watch[w].from = 0
  <2>1. watch[w] \in [pc : {"off"}, filter : Instances \cup {Anyone}, from : {0},
                      last : {0}, queue : {<<>>}, lagged : {FALSE}, got : {{}}, raced : {{}}]
    BY <1>2, Zenon DEF Init
  <2>2. 0 \in 0 .. MaxEvents /\ <<>> \in Seq(Cursors) /\ {} \in SUBSET Cursors
    BY <1>1
  <2> QED BY <2>1, <2>2, Zenon DEF Stream
<1>3. ASSUME NEW w \in Watchers PROVE StreamOK(watch[w])
  BY <1>1, <1>2, <1>3 DEF StreamOK, BufferOK, ReplayOK, LiveOK, PassedOK, Grows
<1>4. JournalInv /\ LockInv
  BY <1>1 DEF JournalInv, LockInv
<1>5. watch \in [Watchers -> Stream] /\ \A w \in Watchers : Len(watch[w].queue) <= Cap
  <2>1. watch = [w \in Watchers |-> watch[w]]
    BY Zenon DEF Init
  <2> QED BY <1>1, <1>2, <2>1
<1>6. TypeOK
  BY <1>1, <1>5 DEF Init, TypeOK
<1> QED BY <1>3, <1>4, <1>6, Zenon DEF EInv

\* The invariant is inductive.
THEOREM EventsInvariance == Spec => []EInv
<1>1. EInv /\ [Next]_vars => EInv'
  <2> SUFFICES ASSUME EInv, [Next]_vars PROVE EInv'
    BY Zenon
  <2>1. CASE \E e \in Emitters : send(e) \/ record(e) \/ op_event(e) \/ degradation(e)
    BY <2>1, EmittersKeep, Zenon
  <2>2. CASE \E w \in Watchers : \/ \E from \in 0 .. Len(ev) : subscribe(w, from)
                                 \/ Serve(w) \/ close(w)
    BY <2>2, StreamsKeep, Zenon
  <2>3. CASE prune_events
    BY <2>3, PruneKeeps, Zenon
  <2>4. CASE \/ finish_operation \/ sweep_retention \/ prune_fails
             \/ Follow \/ submit_earlier \/ deadline \/ UNCHANGED vars
    BY <2>4, OthersKeep, Zenon
  <2> QED BY <2>1, <2>2, <2>3, <2>4, Zenon DEF Next
<1> QED BY <1>1, InitKeeps, PTL DEF Spec

\* Every reachable state of the journal, the bus and the streams is well typed; in
\* particular no buffer outgrows the capacity of the bus.
THEOREM EventsTypeCorrect == Spec => []TypeOK
<1>1. EInv => TypeOK
  BY Zenon DEF EInv
<1> QED BY <1>1, EventsInvariance, PTL

\* Whatever is above the floor the journal gives is still in it, through any
\* interleaving of inserts, chunks of a sweep and failures (journal_floor,
\* prune_events): a caller that is let in misses nothing that was there.
THEOREM FloorAlwaysHonest == Spec => []FloorHonest
  BY FloorFromInv, EventsInvariance, PTL

\* A stream never passes over an event it wants, but for those a sweep took while its
\* replay was under way: the emit lock, the deduplication by cursor and the repair of
\* a lag from the journal leave no hole (emit, watch_events).
THEOREM StreamsHaveNoHole == Spec => []NoHole
  BY HoleFromInv, EventsInvariance, PTL
-----------------------------------------------------------------------------
\* A stream has delivered nothing that is not after all it had delivered.
Forward(s, t) == s.last <= t.last /\ \A c \in t.got \ s.got : c > s.last

\* Of two streams, one that moves and one that does not.
LEMMA MoveForward ==
    ASSUME EInv, NEW w \in Watchers, NEW v \in Watchers, NEW s,
           Moves(v, s), v = w => Forward(watch[w], s)
    PROVE  Forward(watch[w], watch'[w])
<1>1. watch \in [Watchers -> Stream] /\ watch[w].last \in Nat
  BY Types, Zenon DEF EInv, TypeOK
<1>2. watch'[w] = IF v = w THEN s ELSE watch[w]
  BY <1>1, Zenon DEF Moves
<1> QED BY <1>1, <1>2 DEF Forward

LEMMA ServeForward ==
    ASSUME EInv, NEW w \in Watchers, watch[w].pc \in {"replay", "live"},
           NEW v \in Watchers,
           (\E from \in 0 .. Len(ev) : subscribe(v, from)) \/ Serve(v) \/ close(v)
    PROVE  Forward(watch[w], watch'[w])
<1>0. watch[w] \in Stream /\ watch[w].last \in Nat
  BY Types, Zenon
<1>1. CASE (\E from \in 0 .. Len(ev) : subscribe(v, from)) \/ anchor(v)
  <2>1. v # w
    BY <1>1, Zenon DEF subscribe, anchor
  <2>2. \E s : Moves(v, s)
    BY <1>1, Zenon DEF subscribe, anchor
  <2> QED BY <2>1, <2>2, MoveForward, Zenon
<1>2. CASE replay_journal(v)
  <2> DEFINE s == watch[v]
             page == events_after(v)
             t == [s EXCEPT
                     !.got = s.got \cup page,
                     !.last = IF page = {} THEN s.last ELSE MaxOf(page),
                     !.pc = IF Cardinality(page) < Page THEN "live" ELSE "replay"]
  <2>1. Forward(s, t)
    BY <1>2, ReplayStep, Zenon DEF replay_journal, Forward
  <2>2. Moves(v, t)
    BY <1>2, Zenon DEF replay_journal
  <2> HIDE DEF t
  <2> QED BY <2>1, <2>2, MoveForward, Zenon
<1>3. CASE recv(v)
  <2> DEFINE s == watch[v]
             c == Head(s.queue)
             rest == [s EXCEPT !.queue = Tail(s.queue)]
             t == IF c <= s.last \/ ~Wants(v, c) THEN rest
                  ELSE [rest EXCEPT !.last = c, !.got = rest.got \cup {c}]
  <2>1. Forward(s, t)
    BY <1>3, RecvStep, Zenon DEF recv, Forward
  <2>2. Moves(v, t)
    BY <1>3, Zenon DEF recv
  <2> HIDE DEF t
  <2> QED BY <2>1, <2>2, MoveForward, Zenon
<1>4. CASE lagged(v)
  <2> DEFINE s == watch[v]
             t == [s EXCEPT !.lagged = FALSE,
                     !.pc = IF s.last < journal_floor THEN "too_old" ELSE "replay"]
  <2>1. t.last = s.last /\ t.got = s.got
    BY <1>4, LaggedOK, Zenon DEF lagged
  <2>2. Moves(v, t)
    BY <1>4, Zenon DEF lagged
  <2> HIDE DEF t
  <2>3. v = w => Forward(watch[w], t)
    BY <1>0, <2>1 DEF Forward
  <2> QED BY <2>2, <2>3, MoveForward, Zenon
<1>5. CASE close(v)
  <2> DEFINE t == [watch[v] EXCEPT !.pc = "closed"]
  <2>1. Moves(v, t)
    BY <1>5, Zenon DEF close
  <2>2. v = w => Forward(watch[w], t)
    BY <1>0 DEF Forward, Stream
  <2> HIDE DEF t
  <2> QED BY <2>1, <2>2, MoveForward, Zenon
<1> QED BY <1>1, <1>2, <1>3, <1>4, <1>5, Zenon DEF Serve

\* A stream never goes back: whatever overlaps, of a replay, the bus and the repair of
\* a lag, nothing is delivered twice or out of order (recv, replay_journal).
THEOREM StreamsGoForward == Spec => InOrder
<1>1. ASSUME EInv, [Next]_vars, NEW w \in Watchers, watch[w].pc \in {"replay", "live"}
      PROVE  Forward(watch[w], watch'[w])
  <2>0. watch[w] \in Stream /\ watch[w].last \in Nat
    BY <1>1, Types, Zenon
  <2>1. ASSUME watch'[w].last = watch[w].last, watch'[w].got = watch[w].got
        PROVE  Forward(watch[w], watch'[w])
    BY <2>0, <2>1 DEF Forward
  <2>2. CASE \E e \in Emitters : send(e)
    <3>1. PICK e \in Emitters : send(e)
      BY <2>2, Zenon
    <3>2. sending[e] \in Cursors /\ watch'[w] = Offer(watch[w], sending[e])
      <4>1. sending[e] \in 0 .. MaxEvents /\ sending[e] # 0
        BY <1>1, <3>1, Types, Zenon DEF send
      <4>2. sending[e] \in Cursors
        BY <1>1, <4>1, Types DEF Cursors
      <4> QED BY <1>1, <3>1, <4>2, Zenon DEF send
    <3>3. /\ Offer(watch[w], sending[e]).last = watch[w].last
          /\ Offer(watch[w], sending[e]).got = watch[w].got
      BY <1>1, <3>2, OfferFacts, Zenon
    <3> QED BY <2>1, <3>2, <3>3, Zenon
  <2>3. CASE \E v \in Watchers : \/ \E from \in 0 .. Len(ev) : subscribe(v, from)
                                 \/ Serve(v) \/ close(v)
    BY <1>1, <2>3, ServeForward, Zenon
  <2>4. CASE prune_events
    <3>1. \E gone : watch'[w] = IF watch[w].pc = "replay"
             THEN [watch[w] EXCEPT !.raced = watch[w].raced \cup gone] ELSE watch[w]
      BY <1>1, <2>4, Zenon DEF prune_events
    <3> QED BY <2>0, <2>1, <3>1, Zenon DEF Stream
  <2>5. CASE UNCHANGED watch
    BY <2>1, <2>5, Zenon
  <2>6. CASE \/ \E e \in Emitters : record(e) \/ op_event(e) \/ degradation(e)
             \/ finish_operation \/ sweep_retention \/ prune_fails
             \/ Follow \/ submit_earlier \/ deadline \/ UNCHANGED vars
    <3>1. UNCHANGED watch
      BY <2>6, Zenon DEF record, op_event, degradation, finish_operation, sweep_retention,
         prune_fails, Follow, watched, submit, check_settled, next_event, submit_earlier,
         deadline, Waits, vars
    <3> QED BY <2>5, <3>1, Zenon
  <2> QED BY <1>1, <2>2, <2>3, <2>4, <2>6, Zenon DEF Next
<1>2. ASSUME EInv, [Next]_vars
      PROVE  \A w \in Watchers : watch[w].pc \in {"replay", "live"} =>
                /\ watch'[w].last >= watch[w].last
                /\ \A c \in watch'[w].got \ watch[w].got : c > watch[w].last
  BY <1>1, <1>2, Zenon DEF Forward
<1> QED BY <1>2, EventsInvariance, PTL DEF Spec, InOrder

=============================================================================
