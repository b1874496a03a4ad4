----------------------------- MODULE FleetProofs -----------------------------
(***************************************************************************)
(* The fleet lease and the fleet phase, for any set of nodes, instances,   *)
(* clocks and bounds, with versions of either kind, lost answers, crashes  *)
(* and an unreachable bucket: what the lease alone promises, then the      *)
(* types of the phase and the claims of the journals.                      *)
(***************************************************************************)
EXTENDS Fleet, TLAPS

(***************************************************************************)
(* The lease.                                                              *)
(***************************************************************************)
\* Every Held is of its node, of an epoch the object has reached, and of the
\* owner if of the present epoch.
HeldInv ==
    \A n \in Nodes : \A h \in held[n] :
        /\ h.owner = n
        /\ h.epoch <= store.epoch
        /\ h.epoch = store.epoch => store.owner = n

DistinctInv ==
    \A m, n \in Nodes : \A h \in held[m], k \in held[n] : h.epoch = k.epoch => m = n

LInv == LeaseTypeOK /\ HeldInv /\ DistinctInv

\* What a write within an epoch does to the object.
SameEpoch ==
    /\ store' \in LeaseRecord
    /\ store'.owner = store.owner
    /\ store'.epoch = store.epoch
    /\ store.instance_id # "" => store'.instance_id # ""

\* What a takeover by n does to it.
Taken(n) ==
    /\ store' \in LeaseRecord
    /\ store'.owner = n
    /\ store'.epoch = store.epoch + 1
    /\ store'.instance_id = store.instance_id

\* A conditional write leaves the object alone, or replaces exactly what was
\* expected by the new lease with some version.
LEMMA PutFacts ==
    ASSUME LeaseTypeOK, NEW expected, NEW lease \in LeaseRecord, NEW answer,
           put(expected, lease, answer)
    PROVE  /\ \/ store' = store
              \/ \E v \in Nat : store = expected /\ store' = [lease EXCEPT !.version = v]
           /\ answer = "ok" => store = expected /\ store' \in LeaseRecord
           /\ answer = "ok" => \E v \in Nat : store' = [lease EXCEPT !.version = v]
<1>a. store \in LeaseRecord
  BY Zenon DEF LeaseTypeOK
<1>b. store.version \in Nat
  BY <1>a, Zenon DEF LeaseRecord
<1>1. store.version + 1 \in Nat /\ 0 \in Nat
  BY <1>b
<1>2. \A v \in Nat : [lease EXCEPT !.version = v] \in LeaseRecord
  BY Zenon DEF LeaseRecord
<1> QED
  BY <1>1, <1>2, Zenon DEF put

\* A write on the strength of a Held that keeps owner and epoch stays in the
\* epoch, and is accepted only from the owner.
LEMMA FencedFacts ==
    ASSUME LInv, NEW n \in Nodes, NEW h \in held[n], NEW lease \in LeaseRecord,
           lease.owner = h.owner, lease.epoch = h.epoch,
           h.instance_id # "" => lease.instance_id # "",
           NEW answer, put(h, lease, answer)
    PROVE  /\ SameEpoch
           /\ answer = "ok" => store.owner = n /\ store.epoch = h.epoch
<1>1. h \in LeaseRecord /\ h.owner = n /\ store \in LeaseRecord
  BY Zenon DEF LInv, LeaseTypeOK, HeldInv
<1>2. \/ store' = store
      \/ \E v \in Nat : store = h /\ store' = [lease EXCEPT !.version = v]
  BY PutFacts, Zenon DEF LInv
<1>3. answer = "ok" => store = h
  BY PutFacts, Zenon DEF LInv
<1>4. SameEpoch
  BY <1>1, <1>2, Zenon DEF SameEpoch, LeaseRecord
<1> QED
  BY <1>1, <1>3, <1>4, Zenon

\* What an acquisition writes stays in the epoch if the lease is the node's own,
\* and is a takeover otherwise.
LEMMA AcquireFacts ==
    ASSUME LInv, NEW n \in Nodes, NEW a \in seen[n], NEW answer,
           put(a.lease, acquired(a.lease, n, a.now), answer)
    PROVE  /\ SameEpoch \/ Taken(n)
           /\ answer = "ok" => (SameEpoch /\ store.owner = n) \/ Taken(n)
<1>0. a \in [lease : LeaseRecord, now : Clocks]
  BY Zenon DEF LInv, LeaseTypeOK
<1>1. a.lease \in LeaseRecord /\ a.now \in Clocks
  BY <1>0, Zenon
<1>a. a.now \in Nat /\ Ttl \in Nat
  BY <1>1, TimingAssumption, Zenon
<1>b. a.lease.epoch \in Nat
  BY <1>1, Zenon DEF LeaseRecord
<1>2. a.now + Ttl \in Nat /\ a.lease.epoch + 1 \in Nat
  BY <1>a, <1>b
<1> DEFINE new == acquired(a.lease, n, a.now)
<1>3. /\ new \in LeaseRecord
      /\ new.owner = n
      /\ new.instance_id = a.lease.instance_id
      /\ \/ new.epoch = a.lease.epoch /\ a.lease.owner = n
         \/ new.epoch = a.lease.epoch + 1
  BY <1>1, <1>2, Zenon DEF acquired, LeaseRecord
<1> HIDE DEF new
<1>4. put(a.lease, new, answer)
  BY Zenon DEF new
<1>5. \/ store' = store
      \/ \E v \in Nat : store = a.lease /\ store' = [new EXCEPT !.version = v]
  BY <1>3, <1>4, PutFacts, Zenon DEF LInv
<1>6. /\ answer = "ok" => store = a.lease
      /\ answer = "ok" => \E v \in Nat : store' = [new EXCEPT !.version = v]
  BY <1>3, <1>4, PutFacts, Zenon DEF LInv
<1>7. store \in LeaseRecord
  BY Zenon DEF LInv, LeaseTypeOK
<1>8. store = a.lease /\ (\E v \in Nat : store' = [new EXCEPT !.version = v])
        => (SameEpoch /\ store.owner = n) \/ Taken(n)
  BY <1>3, <1>7, Zenon DEF SameEpoch, Taken, LeaseRecord
<1>9. store' = store => SameEpoch
  BY <1>7, Zenon DEF SameEpoch, LeaseRecord
<1> QED
  BY <1>5, <1>6, <1>8, <1>9, Zenon

\* Each write a node may make with a Held is one FencedFacts is about.
LEMMA FencedLeases ==
    ASSUME LInv, NEW n \in Nodes, NEW h \in held[n]
    PROVE  /\ \A now \in Clocks, s \in RunStates :
                 /\ renewed(h, now, s) \in LeaseRecord
                 /\ renewed(h, now, s).owner = h.owner
                 /\ renewed(h, now, s).epoch = h.epoch
                 /\ renewed(h, now, s).instance_id = h.instance_id
           /\ \A s \in RunStates :
                 /\ stamped(h, s) \in LeaseRecord
                 /\ stamped(h, s).owner = h.owner
                 /\ stamped(h, s).epoch = h.epoch
                 /\ stamped(h, s).instance_id = h.instance_id
           /\ \A i \in InstanceIds :
                 /\ naming(h, i) \in LeaseRecord
                 /\ naming(h, i).owner = h.owner
                 /\ naming(h, i).epoch = h.epoch
                 /\ naming(h, i).instance_id # ""
           /\ released(h) \in LeaseRecord
           /\ released(h).owner = h.owner
           /\ released(h).epoch = h.epoch
           /\ released(h).instance_id = h.instance_id
<1>1. h \in LeaseRecord
  BY Zenon DEF LInv, LeaseTypeOK
<1>2. \A now \in Clocks : now + Ttl \in Nat
  BY TimingAssumption
<1> QED
  BY <1>1, <1>2, InstanceIdsAssumption, Zenon DEF renewed, stamped, naming, released,
     LeaseRecord

\* Every write a node may make with a Held stays in the epoch, and a node is
\* given a new Held for it only if it owns the epoch.
LEMMA FencedStep ==
    ASSUME LInv, NEW n \in Nodes, NEW h \in held[n], NEW answer \in Answers,
           fenced(n, h, answer)
    PROVE  /\ SameEpoch
           /\ seen' = seen
           /\ \E kept \in SUBSET held[n] :
                 \/ held' = [held EXCEPT ![n] = kept]
                 \/ /\ store.owner = n
                    /\ store.epoch = h.epoch
                    /\ held' = [held EXCEPT ![n] = kept \cup {store'}]
<1>1. ASSUME NEW now \in Clocks, NEW s \in RunStates, renew(n, h, now, s, answer)
      PROVE  SameEpoch /\ (answer = "ok" => store.owner = n /\ store.epoch = h.epoch)
  <2>1. put(h, renewed(h, now, s), answer)
    BY <1>1, Zenon DEF renew, fenced_write
  <2>2. /\ renewed(h, now, s) \in LeaseRecord
        /\ renewed(h, now, s).owner = h.owner
        /\ renewed(h, now, s).epoch = h.epoch
        /\ h.instance_id # "" => renewed(h, now, s).instance_id # ""
    BY FencedLeases, Zenon
  <2> QED
    BY <2>1, <2>2, FencedFacts, Zenon
<1>2. ASSUME NEW s \in RunStates, stamp_state(n, h, s, answer)
      PROVE  SameEpoch /\ (answer = "ok" => store.owner = n /\ store.epoch = h.epoch)
  <2>1. put(h, stamped(h, s), answer)
    BY <1>2, Zenon DEF stamp_state, fenced_write
  <2>2. /\ stamped(h, s) \in LeaseRecord
        /\ stamped(h, s).owner = h.owner
        /\ stamped(h, s).epoch = h.epoch
        /\ h.instance_id # "" => stamped(h, s).instance_id # ""
    BY FencedLeases, Zenon
  <2> QED
    BY <2>1, <2>2, FencedFacts, Zenon
<1>3. ASSUME NEW i \in InstanceIds, set_instance(n, h, i, answer)
      PROVE  SameEpoch /\ (answer = "ok" => store.owner = n /\ store.epoch = h.epoch)
  <2>1. put(h, naming(h, i), answer)
    BY <1>3, Zenon DEF set_instance, fenced_write
  <2>2. /\ naming(h, i) \in LeaseRecord
        /\ naming(h, i).owner = h.owner
        /\ naming(h, i).epoch = h.epoch
        /\ h.instance_id # "" => naming(h, i).instance_id # ""
    BY FencedLeases, Zenon
  <2> QED
    BY <2>1, <2>2, FencedFacts, Zenon
<1>4. ASSUME release(n, h, answer)
      PROVE  SameEpoch
  <2>1. put(h, released(h), answer)
    BY <1>4, Zenon DEF release
  <2>2. /\ released(h) \in LeaseRecord
        /\ released(h).owner = h.owner
        /\ released(h).epoch = h.epoch
        /\ h.instance_id # "" => released(h).instance_id # ""
    BY FencedLeases, Zenon
  <2> QED
    BY <2>1, <2>2, FencedFacts, Zenon
<1>5. ASSUME NEW lease, fenced_write(n, h, lease, answer)
      PROVE  /\ seen' = seen
             /\ \E kept \in SUBSET held[n] :
                   \/ held' = [held EXCEPT ![n] = kept]
                   \/ answer = "ok" /\ held' = [held EXCEPT ![n] = kept \cup {store'}]
  <2>1. PICK kept \in SUBSET held[n] :
          held' = [held EXCEPT ![n] = IF answer = "ok" THEN kept \cup {store'} ELSE kept]
    BY <1>5, Zenon DEF fenced_write
  <2>2. CASE answer = "ok"
    BY <1>5, <2>1, <2>2, Zenon DEF fenced_write
  <2>3. CASE answer # "ok"
    BY <1>5, <2>1, <2>3, Zenon DEF fenced_write
  <2> QED
    BY <2>2, <2>3, Zenon
<1>6. CASE release(n, h, answer)
  BY <1>4, <1>6, Zenon DEF release
<1>7. CASE \E now \in Clocks, s \in RunStates : renew(n, h, now, s, answer)
  BY <1>1, <1>5, <1>7, Zenon DEF renew
<1>8. CASE \E s \in RunStates : stamp_state(n, h, s, answer)
  BY <1>2, <1>5, <1>8, Zenon DEF stamp_state
<1>9. CASE \E i \in InstanceIds : set_instance(n, h, i, answer)
  BY <1>3, <1>5, <1>9, Zenon DEF set_instance
<1> QED
  BY <1>6, <1>7, <1>8, <1>9, Zenon DEF fenced

\* The same for an acquisition, which may also take the name.
LEMMA AcquireStep ==
    ASSUME LInv, NEW n \in Nodes, NEW answer \in Answers, acquire_write(n, answer)
    PROVE  /\ SameEpoch \/ Taken(n)
           /\ seen' = [seen EXCEPT ![n] = {}]
           /\ \/ held' = held
              \/ /\ (SameEpoch /\ store.owner = n) \/ Taken(n)
                 /\ held' = [held EXCEPT ![n] = held[n] \cup {store'}]
<1>1. PICK a \in seen[n] : put(a.lease, acquired(a.lease, n, a.now), answer)
  BY Zenon DEF acquire_write
<1>2. /\ SameEpoch \/ Taken(n)
      /\ answer = "ok" => (SameEpoch /\ store.owner = n) \/ Taken(n)
  BY <1>1, AcquireFacts, Zenon
<1>3. held \in [Nodes -> SUBSET LeaseRecord]
  BY Zenon DEF LInv, LeaseTypeOK
<1> QED
  BY <1>2, <1>3, Zenon DEF acquire_write

\* The Helds grow only by what the owner of the epoch was just given.
LEMMA HeldStep ==
    ASSUME LInv, NEW n \in Nodes,
           (SameEpoch /\ store.owner = n) \/ Taken(n),
           NEW kept \in SUBSET held[n],
           held' = [held EXCEPT ![n] = kept \cup {store'}]
    PROVE  /\ held' \in [Nodes -> SUBSET LeaseRecord]
           /\ HeldInv'
           /\ DistinctInv'
<1>a. /\ held \in [Nodes -> SUBSET LeaseRecord]
      /\ store \in LeaseRecord /\ store' \in LeaseRecord
  BY Zenon DEF LInv, LeaseTypeOK, SameEpoch, Taken
<1>b. \A r \in LeaseRecord : r.epoch \in Nat
  BY Zenon DEF LeaseRecord
<1>1. /\ held \in [Nodes -> SUBSET LeaseRecord]
      /\ store \in LeaseRecord /\ store' \in LeaseRecord
      /\ store.epoch \in Nat
      /\ \A m \in Nodes : \A h \in held[m] : h.epoch \in Nat
  BY <1>a, <1>b, Zenon
<1>2. store'.owner = n /\ store'.epoch \in {store.epoch, store.epoch + 1}
  BY Zenon DEF SameEpoch, Taken
<1>3. held' \in [Nodes -> SUBSET LeaseRecord]
  BY <1>1, Zenon
<1>4. ASSUME NEW m \in Nodes, NEW h \in held'[m]
      PROVE  (h = store' /\ m = n) \/ h \in held[m]
  BY <1>1, Zenon
<1>5. ASSUME NEW m \in Nodes, NEW h \in held[m]
      PROVE  /\ h.owner = m
             /\ h.epoch <= store'.epoch
             /\ h.epoch = store'.epoch => m = n
  <2>1. h.owner = m /\ h.epoch <= store.epoch /\ (h.epoch = store.epoch => store.owner = m)
    BY Zenon DEF LInv, HeldInv
  <2>2. CASE SameEpoch /\ store.owner = n
    BY <2>1, <2>2, Zenon DEF SameEpoch
  <2>3. CASE Taken(n)
    <3>1. store'.epoch = store.epoch + 1 /\ h.epoch \in Nat
      BY <2>3, <1>1, Zenon DEF Taken
    <3> QED
      BY <2>1, <3>1, <1>1
  <2> QED
    BY <2>2, <2>3, Zenon
<1>6. HeldInv'
  <2>1. store'.epoch \in Nat
    BY <1>1, Zenon DEF LeaseRecord
  <2> QED
    BY <1>2, <1>4, <1>5, <2>1 DEF HeldInv
<1>7. DistinctInv'
  BY <1>4, <1>5 DEF LInv, DistinctInv
<1> QED
  BY <1>3, <1>6, <1>7, Zenon

\* If no node is given a Held, any write keeps the invariant on the ones kept.
LEMMA KeptStep ==
    ASSUME LInv, SameEpoch \/ (\E n \in Nodes : Taken(n)),
           held' \in [Nodes -> SUBSET LeaseRecord],
           \A n \in Nodes : held'[n] \subseteq held[n]
    PROVE  HeldInv' /\ DistinctInv'
<1>a. store \in LeaseRecord /\ held \in [Nodes -> SUBSET LeaseRecord]
  BY Zenon DEF LInv, LeaseTypeOK
<1>b. \A r \in LeaseRecord : r.epoch \in Nat
  BY Zenon DEF LeaseRecord
<1>1. /\ store.epoch \in Nat
      /\ \A m \in Nodes : \A h \in held[m] : h.epoch \in Nat
  BY <1>a, <1>b, Zenon
<1>2. HeldInv'
  <2>1. CASE SameEpoch
    BY <2>1, ZenonT(40) DEF LInv, HeldInv, SameEpoch
  <2>2. CASE \E n \in Nodes : Taken(n)
    <3>1. store'.epoch = store.epoch + 1
      BY <2>2, Zenon DEF Taken
    <3> QED
      BY <3>1, <1>1 DEF LInv, HeldInv
  <2> QED
    BY <2>1, <2>2, Zenon
<1>3. DistinctInv'
  BY Zenon DEF LInv, DistinctInv
<1> QED
  BY <1>2, <1>3, Zenon

\* An absent object that no node holds satisfies the invariant.
LEMMA InitLease ==
    LeaseInit => LInv
<1> SUFFICES ASSUME LeaseInit
             PROVE  LInv
  BY Zenon
<1>1. NoLease \in LeaseRecord
  BY Zenon DEF NoLease, LeaseRecord
<1>2. LeaseTypeOK
  BY <1>1, Zenon DEF LeaseInit, LeaseTypeOK
<1> QED
  BY <1>2, Zenon DEF LeaseInit, LInv, HeldInv, DistinctInv

\* Every read, write and drop of a node preserves the invariant.
LEMMA StepLease ==
    LInv /\ [LeaseNext]_leaseVars => LInv'
<1> SUFFICES ASSUME LInv, [LeaseNext]_leaseVars
             PROVE  LInv'
  BY Zenon
<1>t. /\ store \in LeaseRecord
      /\ held \in [Nodes -> SUBSET LeaseRecord]
      /\ seen \in [Nodes -> SUBSET [lease : LeaseRecord, now : Clocks]]
  BY Zenon DEF LInv, LeaseTypeOK
<1>s. store' = store => SameEpoch
  BY <1>t, Zenon DEF SameEpoch
<1>1. ASSUME NEW n \in Nodes, NEW now \in Clocks, acquire_read(n, now)
      PROVE  LInv'
  <2>1. store' = store /\ held' = held
    BY <1>1, Zenon DEF acquire_read
  <2>2. [lease |-> store, now |-> now] \in [lease : LeaseRecord, now : Clocks]
    BY <1>t, Zenon
  <2>3. LeaseTypeOK'
    BY <1>1, <1>t, <2>1, <2>2, Zenon DEF acquire_read, LeaseTypeOK
  <2> QED
    BY <2>1, <2>3, Zenon DEF LInv, HeldInv, DistinctInv
<1>2. ASSUME NEW n \in Nodes, NEW answer \in Answers, acquire_write(n, answer)
      PROVE  LInv'
  <2>1. /\ SameEpoch \/ Taken(n)
        /\ seen' = [seen EXCEPT ![n] = {}]
        /\ \/ held' = held
           \/ /\ (SameEpoch /\ store.owner = n) \/ Taken(n)
              /\ held' = [held EXCEPT ![n] = held[n] \cup {store'}]
    BY <1>2, AcquireStep, Zenon
  <2>2. store' \in LeaseRecord /\ seen' \in [Nodes -> SUBSET [lease : LeaseRecord, now : Clocks]]
    BY <2>1, <1>t, Zenon DEF SameEpoch, Taken
  <2>3. CASE held' = held
    BY <2>1, <2>2, <2>3, <1>t, KeptStep, Zenon DEF LInv, LeaseTypeOK
  <2>4. CASE /\ (SameEpoch /\ store.owner = n) \/ Taken(n)
             /\ held' = [held EXCEPT ![n] = held[n] \cup {store'}]
    BY <2>2, <2>4, HeldStep, Zenon DEF LInv, LeaseTypeOK
  <2> QED
    BY <2>1, <2>3, <2>4, Zenon
<1>3. ASSUME NEW n \in Nodes, NEW h \in held[n], NEW answer \in Answers,
             fenced(n, h, answer)
      PROVE  LInv'
  <2>1. /\ SameEpoch
        /\ seen' = seen
        /\ \E kept \in SUBSET held[n] :
              \/ held' = [held EXCEPT ![n] = kept]
              \/ store.owner = n /\ held' = [held EXCEPT ![n] = kept \cup {store'}]
    BY <1>3, FencedStep, Zenon
  <2>2. store' \in LeaseRecord /\ seen' \in [Nodes -> SUBSET [lease : LeaseRecord, now : Clocks]]
    BY <2>1, <1>t, Zenon DEF SameEpoch
  <2>3. ASSUME NEW kept \in SUBSET held[n], held' = [held EXCEPT ![n] = kept]
        PROVE  LInv'
    <3>1. /\ held' \in [Nodes -> SUBSET LeaseRecord]
          /\ \A m \in Nodes : held'[m] \subseteq held[m]
      BY <2>3, <1>t, Zenon
    <3> QED
      BY <2>1, <2>2, <3>1, KeptStep, Zenon DEF LInv, LeaseTypeOK
  <2>4. ASSUME NEW kept \in SUBSET held[n], store.owner = n,
               held' = [held EXCEPT ![n] = kept \cup {store'}]
        PROVE  LInv'
    BY <2>1, <2>2, <2>4, HeldStep, Zenon DEF LInv, LeaseTypeOK
  <2> QED
    BY <2>1, <2>3, <2>4, Zenon
<1>4. ASSUME NEW n \in Nodes, NEW kept \in SUBSET held[n], forget(n, kept)
      PROVE  LInv'
  <2>1. /\ store' = store
        /\ held' = [held EXCEPT ![n] = kept]
        /\ seen' \in {seen, [seen EXCEPT ![n] = {}]}
    BY <1>4, Zenon DEF forget
  <2>2. /\ held' \in [Nodes -> SUBSET LeaseRecord]
        /\ \A m \in Nodes : held'[m] \subseteq held[m]
    BY <2>1, <1>t, Zenon
  <2>3. seen' \in [Nodes -> SUBSET [lease : LeaseRecord, now : Clocks]]
    BY <2>1, <1>t, Zenon
  <2> QED
    BY <2>1, <2>2, <2>3, <1>s, <1>t, KeptStep, Zenon DEF LInv, LeaseTypeOK
<1>5. CASE UNCHANGED leaseVars
  BY <1>5, Zenon DEF leaseVars, LInv, LeaseTypeOK, HeldInv, DistinctInv
<1> QED
  BY <1>1, <1>2, <1>3, <1>4, <1>5, Zenon DEF LeaseNext, node

\* The inductive invariant behind the properties of lease.rs below.
THEOREM LeaseInvariance == LeaseSpec => []LInv
<1>1. LeaseInit => LInv
  BY InitLease, Zenon
<1>2. LInv /\ [LeaseNext]_leaseVars => LInv'
  BY StepLease, Zenon
<1> QED
  BY <1>1, <1>2, PTL DEF LeaseSpec

\* The object and the Helds of every node are well typed: lease.rs writes no
\* negative expiry and no record without an owner it was built from.
THEOREM LeaseTypeCorrect == LeaseSpec => []LeaseTypeOK
<1>1. LInv => LeaseTypeOK
  BY Zenon DEF LInv
<1> QED
  BY <1>1, LeaseInvariance, PTL

\* No two nodes are ever given the name in the same epoch, whatever their clocks
\* say and whatever answers are lost (acquire, renew and the other writes).
THEOREM EpochsExclude == LeaseSpec => []OneOwnerPerEpoch
<1>1. LInv => OneOwnerPerEpoch
  BY Zenon DEF LInv, HeldInv, DistinctInv, OneOwnerPerEpoch
<1> QED
  BY <1>1, LeaseInvariance, PTL

\* Every step stays in the epoch or is a takeover of some node.
LEMMA StepShape ==
    LInv /\ [LeaseNext]_leaseVars => SameEpoch \/ \E n \in Nodes : Taken(n)
<1> SUFFICES ASSUME LInv, [LeaseNext]_leaseVars
             PROVE  SameEpoch \/ \E n \in Nodes : Taken(n)
  BY Zenon
<1>s. store' = store => SameEpoch
  BY Zenon DEF LInv, LeaseTypeOK, SameEpoch
<1>1. ASSUME NEW n \in Nodes, node(n)
      PROVE  SameEpoch \/ \E m \in Nodes : Taken(m)
  BY <1>1, <1>s, AcquireStep, FencedStep, Zenon DEF node, acquire_read, forget
<1> QED
  BY <1>1, <1>s, Zenon DEF LeaseNext, leaseVars

\* A Held that was superseded, by another node or by a later write of the same
\* one, can change neither owner nor epoch nor un-name the instance: every
\* conditional write of lease.rs.
THEOREM SupersededIsHarmless == LeaseSpec => NothingOverwritten
<1>1. LInv /\ [LeaseNext]_leaseVars =>
        [/\ store'.epoch \in {store.epoch, store.epoch + 1}
         /\ store'.owner # store.owner => store'.epoch = store.epoch + 1
         /\ store.instance_id # "" => store'.instance_id # ""]_leaseVars
  BY StepShape, Zenon DEF SameEpoch, Taken
<1> QED
  BY <1>1, LeaseInvariance, PTL DEF LeaseSpec, NothingOverwritten

\* The lease implements an atomic register with one owner per epoch: what a
\* reader of acquire, renew, set_instance and release may assume.
THEOREM LeaseIsRegister == LeaseSpec => IsRegister
<1> DEFINE tok == [n \in Nodes |-> {h.epoch : h \in held[n]}]
<1>1. LeaseInit => Register!Init
  <2> SUFFICES ASSUME LeaseInit
               PROVE  Register!Init
    BY Zenon
  <2>1. store.owner = "" /\ store.epoch = 0
    BY Zenon DEF LeaseInit, NoLease
  <2>2. tok = [n \in Nodes |-> {}]
    BY Zenon DEF LeaseInit
  <2> QED
    BY <2>1, <2>2, Zenon DEF Register!Init
<1>2. LInv /\ [LeaseNext]_leaseVars => [Register!Next]_(Register!vars)
  <2> SUFFICES ASSUME LInv, [LeaseNext]_leaseVars
               PROVE  Register!Next \/ UNCHANGED Register!vars
    BY Zenon
  <2>t. /\ store \in LeaseRecord
        /\ held \in [Nodes -> SUBSET LeaseRecord]
    BY Zenon DEF LInv, LeaseTypeOK
  <2>u. held' = held => tok' = tok
    BY Zenon
  <2>g. ASSUME NEW n \in Nodes,
               held' = [held EXCEPT ![n] = held[n] \cup {store'}]
        PROVE  tok' = [tok EXCEPT ![n] = tok[n] \cup {store'.epoch}]
    <3>1. \A m \in Nodes : held'[m] = IF m = n THEN held[n] \cup {store'} ELSE held[m]
      BY <2>g, <2>t, Zenon
    <3>2. \A m \in Nodes : tok'[m] = IF m = n THEN tok[n] \cup {store'.epoch} ELSE tok[m]
      BY <3>1, Zenon
    <3> QED
      BY <3>2, Zenon
  <2>k. ASSUME NEW n \in Nodes, NEW S,
               held' = [held EXCEPT ![n] = S]
        PROVE  tok' = [tok EXCEPT ![n] = {h.epoch : h \in S}]
    <3>1. \A m \in Nodes : held'[m] = IF m = n THEN S ELSE held[m]
      BY <2>k, <2>t, Zenon
    <3>2. \A m \in Nodes : tok'[m] = IF m = n THEN {h.epoch : h \in S} ELSE tok[m]
      BY <3>1, Zenon
    <3> QED
      BY <3>2, Zenon
  <2>1. ASSUME NEW n \in Nodes, NEW now \in Clocks, acquire_read(n, now)
        PROVE  UNCHANGED Register!vars
    BY <2>1, <2>u, Zenon DEF acquire_read, Register!vars
  <2>2. ASSUME NEW n \in Nodes, NEW answer \in Answers, acquire_write(n, answer)
        PROVE  Register!Next \/ UNCHANGED Register!vars
    <3>1. /\ SameEpoch \/ Taken(n)
          /\ \/ held' = held
             \/ /\ (SameEpoch /\ store.owner = n) \/ Taken(n)
                /\ held' = [held EXCEPT ![n] = held[n] \cup {store'}]
      BY <2>2, AcquireStep, Zenon
    <3>2. CASE Taken(n)
      <4>1. store'.owner = n /\ store'.epoch = store.epoch + 1
        BY <3>2, Zenon DEF Taken
      <4>2. tok' \in {tok, [tok EXCEPT ![n] = tok[n] \cup {store.epoch + 1}]}
        BY <3>1, <4>1, <2>u, <2>g, Zenon
      <4>3. Register!Take(n)
        BY <4>1, <4>2, Zenon DEF Register!Take
      <4> QED
        BY <4>3, Zenon DEF Register!Next
    <3>3. CASE SameEpoch /\ held' = held
      BY <3>3, <2>u, Zenon DEF SameEpoch, Register!vars
    <3>4. CASE SameEpoch /\ store.owner = n /\ held' = [held EXCEPT ![n] = held[n] \cup {store'}]
      <4>1. store'.owner = store.owner /\ store'.epoch = store.epoch
        BY <3>4, Zenon DEF SameEpoch
      <4>2. Register!Grant(n)
        BY <3>4, <4>1, <2>g, Zenon DEF Register!Grant
      <4> QED
        BY <4>2, Zenon DEF Register!Next
    <3> QED
      BY <3>1, <3>2, <3>3, <3>4, Zenon
  <2>3. ASSUME NEW n \in Nodes, NEW h \in held[n], NEW answer \in Answers,
               fenced(n, h, answer)
        PROVE  Register!Next \/ UNCHANGED Register!vars
    <3>1. /\ SameEpoch
          /\ \E kept \in SUBSET held[n] :
                \/ held' = [held EXCEPT ![n] = kept]
                \/ /\ store.epoch = h.epoch
                   /\ held' = [held EXCEPT ![n] = kept \cup {store'}]
      BY <2>3, FencedStep, Zenon
    <3>2. store'.owner = store.owner /\ store'.epoch = store.epoch
      BY <3>1, Zenon DEF SameEpoch
    <3>3. ASSUME NEW new, held' = [held EXCEPT ![n] = new],
                 {k.epoch : k \in new} \in SUBSET tok[n]
          PROVE  Register!Next
      <4>1. tok' = [tok EXCEPT ![n] = {k.epoch : k \in new}]
        BY <3>3, <2>k, Zenon
      <4>2. Register!Drop(n)
        BY <3>2, <3>3, <4>1, Zenon DEF Register!Drop
      <4> QED
        BY <4>2, Zenon DEF Register!Next
    <3>4. tok[n] = {k.epoch : k \in held[n]}
      BY Zenon
    <3>5. ASSUME NEW kept \in SUBSET held[n]
          PROVE  {k.epoch : k \in kept} \in SUBSET tok[n]
      BY <3>4, Zenon
    <3>6. ASSUME NEW kept \in SUBSET held[n], store.epoch = h.epoch
          PROVE  {k.epoch : k \in kept \cup {store'}} \in SUBSET tok[n]
      BY <3>2, <3>4, <3>6, Zenon
    <3> QED
      BY <3>1, <3>3, <3>5, <3>6, Zenon
  <2>4. ASSUME NEW n \in Nodes, NEW kept \in SUBSET held[n], forget(n, kept)
        PROVE  Register!Next
    <3>1. store' = store /\ held' = [held EXCEPT ![n] = kept]
      BY <2>4, Zenon DEF forget
    <3>2. tok' = [tok EXCEPT ![n] = {h.epoch : h \in kept}]
      BY <3>1, <2>k, Zenon
    <3>3. {h.epoch : h \in kept} \in SUBSET tok[n]
      BY Zenon
    <3>4. Register!Drop(n)
      BY <3>1, <3>2, <3>3, Zenon DEF Register!Drop
    <3> QED
      BY <3>4, Zenon DEF Register!Next
  <2>5. CASE UNCHANGED leaseVars
    BY <2>5, <2>u, Zenon DEF leaseVars, Register!vars
  <2> QED
    BY <2>1, <2>2, <2>3, <2>4, <2>5, Zenon DEF LeaseNext, node
<1> QED
  BY <1>1, <1>2, LeaseInvariance, PTL DEF LeaseSpec, IsRegister, Register!Spec

-------------------------------------------------------------------------------
(***************************************************************************)
(* Types.                                                                  *)
(***************************************************************************)
\* The type of the object and of what nodes hold of it.
LEMMA LeaseTypes ==
    ASSUME FleetTypeOK
    PROVE  /\ store \in LeaseRecord
           /\ held \in [Nodes -> SUBSET LeaseRecord]
           /\ mine \in [Nodes -> SUBSET LeaseRecord]
           /\ seen \in [Nodes -> SUBSET [lease : LeaseRecord, now : Clocks]]
  BY Zenon DEF FleetTypeOK, LeaseTypeOK

\* Every lease that lease.rs builds from a well typed one is well typed.
LEMMA BuiltTypes ==
    ASSUME NEW h \in LeaseRecord
    PROVE  /\ \A now \in Clocks, s \in RunStates : renewed(h, now, s) \in LeaseRecord
           /\ \A s \in RunStates : stamped(h, s) \in LeaseRecord
           /\ \A i \in InstanceIds \cup {""} : naming(h, i) \in LeaseRecord
           /\ released(h) \in LeaseRecord
           /\ \A n \in Nodes, now \in Clocks : acquired(h, n, now) \in LeaseRecord
<1>1. \A now \in Clocks : now + Ttl \in Nat
  BY TimingAssumption
<1>2. h.epoch \in Nat
  BY Zenon DEF LeaseRecord
<1>3. h.epoch + 1 \in Nat
  BY <1>2
<1>4. \A n \in Nodes, now \in Clocks : acquired(h, n, now) \in LeaseRecord
  BY <1>1, <1>2, <1>3, Zenon DEF acquired, LeaseRecord
<1> QED
  BY <1>1, <1>4, Zenon DEF renewed, stamped, naming, released, LeaseRecord

\* The word stamped for a state of the journal.
LEMMA StateTypes == \A state : lease_state_for(state) \in RunStates
  BY FleetAssumption, Zenon DEF lease_state_for

\* Every step keeps the types.
LEMMA NextTypes == FleetTypeOK /\ [FleetNext]_fleetVars => FleetTypeOK'
\* A crash, and the way back.
<1>RestartTypes. ASSUME FleetTypeOK, NEW n \in Nodes,
                        Crash(n) \/ Restart(n) \/ recover(n) \/ join(n)
                 PROVE  FleetTypeOK'
  <2> USE <1>RestartTypes
  <2>1. /\ inst \in [Nodes -> [InstanceIds -> InstanceState \cup {"ABSENT"}]]
        /\ task \in [Nodes -> [InstanceIds -> Task]]
        /\ stamps \in [Nodes -> SUBSET Stamp]
        /\ row \in [Nodes -> SUBSET Row]
        /\ pc \in [Nodes -> PassPc]
        /\ want \in [Nodes -> SUBSET Desired]
        /\ mine \in [Nodes -> SUBSET LeaseRecord]
        /\ target \in [Nodes -> InstanceIds \cup {""}]
        /\ held \in [Nodes -> SUBSET LeaseRecord]
        /\ seen \in [Nodes -> SUBSET [lease : LeaseRecord, now : Clocks]]
        /\ crashes \in 0..MaxCrashes
    BY Zenon DEF FleetTypeOK, LeaseTypeOK
  <2>2. {"down", "recover", "refence", "join", "idle", "alone"} \subseteq PassPc
    BY Zenon DEF PassPc
  <2>3. CASE Crash(n)
    <3>1. crashes' \in 0..MaxCrashes
      <4>1. MaxCrashes \in Nat
        BY FleetAssumption, Zenon
      <4>2. crashes < MaxCrashes /\ crashes' = crashes + 1
        BY <2>3, Zenon DEF Crash
      <4>3. crashes \in 0..MaxCrashes
        BY <2>1, Zenon
      <4> QED
        BY <4>1, <4>2, <4>3
    <3>2. NoTask \in Task
      BY Zenon DEF NoTask, Task, FleetKinds
    <3>3. [i \in InstanceIds |-> NoTask] \in [InstanceIds -> Task]
      BY <3>2, Zenon
    <3>4. task' \in [Nodes -> [InstanceIds -> Task]]
      BY <2>1, <2>3, <3>3, Zenon DEF Crash
    <3>a. stamps' \in [Nodes -> SUBSET Stamp]
      BY <2>1, <2>3, Zenon DEF Crash
    <3>5. /\ pc' \in [Nodes -> PassPc]
          /\ want' \in [Nodes -> SUBSET Desired]
          /\ mine' \in [Nodes -> SUBSET LeaseRecord]
          /\ target' \in [Nodes -> InstanceIds \cup {""}]
      BY <2>1, <2>2, <2>3, Zenon DEF Crash
    <3>6. /\ held' \in [Nodes -> SUBSET LeaseRecord]
          /\ seen' \in [Nodes -> SUBSET [lease : LeaseRecord, now : Clocks]]
      BY <2>1, <2>3, Zenon DEF Crash
    <3> QED
      BY <2>3, <3>1, <3>4, <3>a, <3>5, <3>6, Zenon DEF Crash, FleetTypeOK, LeaseTypeOK, journal
  <2>4. CASE Restart(n)
    <3>1. inst' \in [Nodes -> [InstanceIds -> InstanceState \cup {"ABSENT"}]]
      BY <2>1, <2>4, Zenon DEF Restart
    <3>2. pc' \in [Nodes -> PassPc]
      BY <2>1, <2>2, <2>4, Zenon DEF Restart
    <3> QED
      BY <2>4, <3>1, <3>2, Zenon DEF Restart, FleetTypeOK, LeaseTypeOK, tasks, leaseVars, spent
  <2>5. CASE recover(n)
    <3>a. row[n] \subseteq Row
      BY <2>1, Zenon
    <3>1. \A r \in row[n] : r.instance_id \in InstanceIds \cup {""}
      BY <3>a, Zenon DEF Row
    <3>2. pc' \in [Nodes -> PassPc]
      BY <2>1, <2>2, <2>5, ZenonT(40) DEF recover
    <3>3. target' \in [Nodes -> InstanceIds \cup {""}]
      BY <2>1, <2>5, <3>1, Zenon DEF recover
    <3> QED
      BY <2>5, <3>2, <3>3, Zenon DEF recover, FleetTypeOK, LeaseTypeOK, tasks, leaseVars,
         journal, spent
  <2>6. CASE join(n)
    <3>1. pc' \in [Nodes -> PassPc]
      BY <2>1, <2>2, <2>6, Zenon DEF join
    <3> QED
      BY <2>6, <3>1, Zenon DEF join, FleetTypeOK, LeaseTypeOK, tasks, leaseVars, journal, spent
  <2> QED
    BY <2>3, <2>4, <2>5, <2>6, Zenon
\* The writes of consumers.
<1>ConsumerTypes. ASSUME FleetTypeOK, withdraw \/ \E d \in Desired : apply(d)
                  PROVE  FleetTypeOK'
  <2> USE <1>ConsumerTypes
  <2>1. writes \in 0..MaxWrites
    BY Zenon DEF FleetTypeOK
  <2>2. writes' \in 0..MaxWrites
    BY <2>1, FleetAssumption DEF withdraw, apply
  <2>3. desired' \in SUBSET Desired
    BY Zenon DEF withdraw, apply
  <2>4. UNCHANGED <<leaseVars, journal, tasks, pass, crashes>>
    BY Zenon DEF withdraw, apply
  <2> QED
    BY <2>2, <2>3, <2>4, Zenon DEF FleetTypeOK, LeaseTypeOK, leaseVars, journal, tasks, pass
\* A conditional write leaves a well typed object.
<1>PutType. ASSUME FleetTypeOK, NEW expected, NEW lease \in LeaseRecord, NEW answer,
                   put(expected, lease, answer)
            PROVE  store' \in LeaseRecord
  <2> USE <1>PutType
  <2>1. store \in LeaseRecord
    BY LeaseTypes, Zenon
  <2>2. store.version \in Nat
    BY <2>1, Zenon DEF LeaseRecord
  <2>3. store.version + 1 \in Nat /\ 0 \in Nat
    BY <2>2
  <2>4. [lease EXCEPT !.version = IF UniqueTags THEN store.version + 1 ELSE 0] \in LeaseRecord
    BY <2>3, Zenon DEF LeaseRecord
  <2> QED
    BY <2>1, <2>4, Zenon DEF put
\* The end of a pass empties what it works from.
<1>EndPassTypes. ASSUME FleetTypeOK, NEW n \in Nodes, EndPass(n)
                 PROVE  /\ pc' \in [Nodes -> PassPc]
                        /\ want' \in [Nodes -> SUBSET Desired]
                        /\ mine' \in [Nodes -> SUBSET LeaseRecord]
                        /\ target' \in [Nodes -> InstanceIds \cup {""}]
  BY <1>EndPassTypes, Zenon DEF FleetTypeOK, EndPass, PassPc
\* Legal verbs lead to states.
<1>PlanTypes. ASSUME NEW kind \in FleetKinds, NEW from \in InstanceState
              PROVE  /\ plan_transition(kind, from) \in InstanceState \cup {"REFUSED"}
                     /\ final_state(kind) \in InstanceState
  <2> USE <1>PlanTypes
  <2>1. transitional_state(kind) \in InstanceState
    BY Zenon DEF transitional_state, FleetKinds, InstanceState
  <2>2. plan_transition(kind, from) \in {transitional_state(kind), "REFUSED"}
    BY Zenon DEF plan_transition, FleetKinds
  <2>3. final_state(kind) \in InstanceState
    BY Zenon DEF final_state, FleetKinds, InstanceState
  <2> QED
    BY <2>1, <2>2, <2>3, Zenon
\* The journal stays well typed when the engine is used, by a client or by a pass.
<1>SubmitsTypes. ASSUME FleetTypeOK, NEW n \in Nodes, NEW i \in InstanceIds, NEW kind \in FleetKinds,
                        Submits(n, i, kind)
                 PROVE  /\ inst' \in [Nodes -> [InstanceIds -> InstanceState \cup {"ABSENT"}]]
                        /\ task' \in [Nodes -> [InstanceIds -> Task]]
  <2> USE <1>SubmitsTypes
  <2> DEFINE to == IF carries_spec(kind)
                   THEN IF inst[n][i] = "ABSENT" THEN "CREATING" ELSE "REFUSED"
                   ELSE IF inst[n][i] = "ABSENT" THEN "REFUSED"
                   ELSE plan_transition(kind, inst[n][i])
  <2>1. /\ inst \in [Nodes -> [InstanceIds -> InstanceState \cup {"ABSENT"}]]
        /\ task \in [Nodes -> [InstanceIds -> Task]]
    BY Zenon DEF FleetTypeOK
  <2>2. inst[n][i] # "ABSENT" => plan_transition(kind, inst[n][i]) \in InstanceState \cup {"REFUSED"}
    BY <2>1, <1>PlanTypes, Zenon
  <2>3. "CREATING" \in InstanceState
    BY Zenon DEF InstanceState
  <2>4. to \in InstanceState \cup {"REFUSED"}
    BY <2>2, <2>3, Zenon
  <2>5. [kind |-> kind, at |-> "spawned"] \in Task
    BY Zenon DEF Task
  <2>6. \/ /\ to # "REFUSED"
           /\ inst' = [inst EXCEPT ![n][i] = to]
           /\ task' = [task EXCEPT ![n][i] = [kind |-> kind, at |-> "spawned"]]
        \/ inst' = inst /\ task' = task
    BY Zenon DEF Submits
  <2> HIDE DEF to
  <2>7. ASSUME to # "REFUSED", inst' = [inst EXCEPT ![n][i] = to]
        PROVE  inst' \in [Nodes -> [InstanceIds -> InstanceState \cup {"ABSENT"}]]
    <3>1. [inst[n] EXCEPT ![i] = to] \in [InstanceIds -> InstanceState \cup {"ABSENT"}]
      BY <2>1, <2>4, <2>7, Zenon
    <3> QED
      BY <2>1, <2>7, <3>1, Zenon
  <2>8. ASSUME task' = [task EXCEPT ![n][i] = [kind |-> kind, at |-> "spawned"]]
        PROVE  task' \in [Nodes -> [InstanceIds -> Task]]
    <3>1. [task[n] EXCEPT ![i] = [kind |-> kind, at |-> "spawned"]] \in [InstanceIds -> Task]
      BY <2>1, <2>5, Zenon
    <3> QED
      BY <2>1, <2>8, <3>1, Zenon
  <2> QED
    BY <2>1, <2>6, <2>7, <2>8, Zenon
\* The same with a key.
<1>SubmitTypes. ASSUME FleetTypeOK, NEW n \in Nodes, NEW i \in InstanceIds, NEW kind \in FleetKinds,
                       NEW key \in Key, submit(n, i, kind, key)
                PROVE  /\ inst' \in [Nodes -> [InstanceIds -> InstanceState \cup {"ABSENT"}]]
                       /\ task' \in [Nodes -> [InstanceIds -> Task]]
                       /\ keys' \in [Nodes -> SUBSET Key]
  <2> USE <1>SubmitTypes
  <2>1. /\ inst \in [Nodes -> [InstanceIds -> InstanceState \cup {"ABSENT"}]]
        /\ task \in [Nodes -> [InstanceIds -> Task]]
        /\ keys \in [Nodes -> SUBSET Key]
    BY Zenon DEF FleetTypeOK
  <2>2. CASE key \in keys[n]
    BY <2>1, <2>2, Zenon DEF submit
  <2>3. CASE key \notin keys[n]
    <3>1. /\ Submits(n, i, kind)
          /\ keys' = [keys EXCEPT ![n] = IF task' = task THEN keys[n] ELSE keys[n] \cup {key}]
      BY <2>3, Zenon DEF submit
    <3>2. keys' \in [Nodes -> SUBSET Key]
      BY <2>1, <3>1, Zenon
    <3> QED
      BY <3>1, <3>2, <1>SubmitsTypes, Zenon
  <2> QED
    BY <2>2, <2>3, Zenon
\* A fence, with or without an instance to stop.
<1>FenceTypes. ASSUME FleetTypeOK, NEW n \in Nodes, NEW i \in InstanceIds \cup {""}, self_fence(n, i)
               PROVE  /\ inst' \in [Nodes -> [InstanceIds -> InstanceState \cup {"ABSENT"}]]
                      /\ task' \in [Nodes -> [InstanceIds -> Task]]
                      /\ keys' \in [Nodes -> SUBSET Key]
  <2> USE <1>FenceTypes
  <2>1. CASE i = ""
    BY <2>1, Zenon DEF self_fence, FleetTypeOK
  <2>2. CASE i # ""
    <3>1. submit(n, i, "Stop", [verb |-> "fence", epoch |-> 0, instance_id |-> i])
      BY <2>2, Zenon DEF self_fence
    <3>2. [verb |-> "fence", epoch |-> 0, instance_id |-> i] \in Key
      BY Zenon DEF Key
    <3>3. i \in InstanceIds /\ "Stop" \in FleetKinds
      BY <2>2, Zenon DEF FleetKinds
    <3> QED
      BY <3>1, <3>2, <3>3, <1>SubmitTypes, Zenon
  <2> QED
    BY <2>1, <2>2, Zenon
\* A stamp of the run state.
<1>StampTypes. ASSUME FleetTypeOK, NEW n \in Nodes, NEW i, NEW state \in RunStates,
                      stamp_lease_state(n, i, state)
               PROVE  /\ store' \in LeaseRecord
                      /\ held' \in [Nodes -> SUBSET LeaseRecord]
  <2> USE <1>StampTypes
  <2>1. store \in LeaseRecord /\ held \in [Nodes -> SUBSET LeaseRecord]
    BY LeaseTypes, Zenon
  <2>2. CASE UNCHANGED <<store, held>>
    BY <2>1, <2>2, Zenon
  <2>3. ASSUME NEW h \in held[n], NEW answer \in BucketAnswers,
               put(h, stamped(h, state), answer),
               held' = [held EXCEPT ![n] = IF answer = "ok" THEN {store'} ELSE held[n]]
        PROVE  store' \in LeaseRecord /\ held' \in [Nodes -> SUBSET LeaseRecord]
    <3>1. stamped(h, state) \in LeaseRecord
      BY <2>1, BuiltTypes, Zenon
    <3>2. store' \in LeaseRecord
      BY <2>3, <3>1, <1>PutType, Zenon
    <3> QED
      BY <2>1, <2>3, <3>2, Zenon
  <2> QED
    BY <2>2, <2>3, Zenon DEF stamp_lease_state
\* The executor of an operation.
<1>ExecuteTypes. ASSUME FleetTypeOK, NEW n \in Nodes, NEW i \in InstanceIds, execute(n, i)
                 PROVE  FleetTypeOK'
  <2> USE <1>ExecuteTypes
  <2>1. /\ inst \in [Nodes -> [InstanceIds -> InstanceState \cup {"ABSENT"}]]
        /\ task \in [Nodes -> [InstanceIds -> Task]]
        /\ stamps \in [Nodes -> SUBSET Stamp]
    BY Zenon DEF FleetTypeOK
  <2>2. CASE execute_begin(n, i)
    <3>1. [task[n][i] EXCEPT !.at = "working"] \in Task
      BY <2>1 DEF Task
    <3>2. [task[n] EXCEPT ![i] = [task[n][i] EXCEPT !.at = "working"]] \in [InstanceIds -> Task]
      BY <2>1, <3>1, Zenon
    <3>3. task' = [task EXCEPT ![n] = [task[n] EXCEPT ![i] = [task[n][i] EXCEPT !.at = "working"]]]
      BY <2>1, <2>2, Zenon DEF execute_begin
    <3>4. task' \in [Nodes -> [InstanceIds -> Task]]
      BY <2>1, <3>2, <3>3, Zenon
    <3>5. store' \in LeaseRecord /\ held' \in [Nodes -> SUBSET LeaseRecord]
      BY <2>2, StateTypes, <1>StampTypes, Zenon DEF execute_begin
    <3> QED
      BY <2>2, <3>4, <3>5, Zenon DEF execute_begin, FleetTypeOK, LeaseTypeOK, journal, pass,
         spent
  <2>3. CASE execute_finish(n, i)
    <3>1. PICK to \in {final_state(task[n][i].kind)} \cup (IF OpsFail THEN {"FAILED"} ELSE {}) :
            inst' = [inst EXCEPT ![n][i] = to]
      BY <2>3, Zenon DEF execute_finish
    <3>2. task[n][i].kind \in FleetKinds
      BY <2>1, Zenon DEF Task
    <3>a. "FAILED" \in InstanceState
      BY Zenon DEF InstanceState
    <3>3. to \in InstanceState
      BY <3>1, <3>2, <3>a, <1>PlanTypes, Zenon
    <3>4. [inst[n] EXCEPT ![i] = to] \in [InstanceIds -> InstanceState \cup {"ABSENT"}]
      BY <2>1, <3>3, Zenon
    <3>5. inst' \in [Nodes -> [InstanceIds -> InstanceState \cup {"ABSENT"}]]
      BY <2>1, <3>1, <3>4, Zenon
    <3>6. NoTask \in Task
      BY Zenon DEF NoTask, Task, FleetKinds
    <3>7. [task[n] EXCEPT ![i] = NoTask] \in [InstanceIds -> Task]
      BY <2>1, <3>6, Zenon
    <3>8. task' \in [Nodes -> [InstanceIds -> Task]]
      BY <2>1, <2>3, <3>7, Zenon DEF execute_finish
    <3>9. [instance_id |-> i, state |-> "unread"] \in Stamp
      BY Zenon DEF Stamp
    <3>10. stamps' \in [Nodes -> SUBSET Stamp]
      BY <2>1, <2>3, <3>9, Zenon DEF execute_finish
    <3> QED
      BY <2>3, <3>5, <3>8, <3>10, Zenon
         DEF execute_finish, FleetTypeOK, LeaseTypeOK, leaseVars, pass, spent
  <2>4. CASE stamp_read(n, i)
    <3> DEFINE new == [instance_id |-> i, state |-> lease_state_for(inst[n][i])]
    <3>1. new \in Stamp
      BY StateTypes, Zenon DEF Stamp
    <3>2. [[instance_id |-> i, state |-> "unread"] EXCEPT !.state = lease_state_for(inst[n][i])] = new
      OBVIOUS
    <3>3. stamps' = [stamps EXCEPT ![n] =
                        (stamps[n] \ {[instance_id |-> i, state |-> "unread"]}) \cup {new}]
      BY <2>4, <3>2, Zenon DEF stamp_read
    <3> HIDE DEF new
    <3>4. (stamps[n] \ {[instance_id |-> i, state |-> "unread"]}) \cup {new} \in SUBSET Stamp
      BY <2>1, <3>1, Zenon
    <3>5. stamps' \in [Nodes -> SUBSET Stamp]
      BY <2>1, <3>3, <3>4, Zenon
    <3> QED
      BY <2>4, <3>5, Zenon DEF stamp_read, FleetTypeOK, LeaseTypeOK, leaseVars, journal, pass,
         spent
  <2>5. CASE stamp_write(n, i)
    <3>1. PICK s \in stamps[n] : /\ s.instance_id = i /\ s.state # "unread"
                                 /\ stamp_lease_state(n, i, s.state)
                                 /\ stamps' = [stamps EXCEPT ![n] = stamps[n] \ {s}]
      BY <2>5, Zenon DEF stamp_write
    <3>2. s \in Stamp
      BY <2>1, Zenon
    <3>3. s.state \in RunStates
      BY <3>1, <3>2, Zenon DEF Stamp
    <3>4. store' \in LeaseRecord /\ held' \in [Nodes -> SUBSET LeaseRecord]
      BY <3>1, <3>3, <1>StampTypes, Zenon
    <3>5. stamps' \in [Nodes -> SUBSET Stamp]
      BY <2>1, <3>1, Zenon
    <3> QED
      BY <2>5, <3>4, <3>5, Zenon DEF stamp_write, FleetTypeOK, LeaseTypeOK, journal, pass, spent
  <2> QED
    BY <2>2, <2>3, <2>4, <2>5, Zenon DEF execute
\* The renewal that opens a pass.
<1>RenewTypes. ASSUME FleetTypeOK, NEW n \in Nodes, pass_renew(n)
               PROVE  FleetTypeOK'
  <2> USE <1>RenewTypes
  <2>1. /\ store \in LeaseRecord
        /\ held \in [Nodes -> SUBSET LeaseRecord]
        /\ pc \in [Nodes -> PassPc]
        /\ target \in [Nodes -> InstanceIds \cup {""}]
    BY Zenon DEF FleetTypeOK, LeaseTypeOK
  <2>2. "list" \in PassPc /\ "fence" \in PassPc
    BY Zenon DEF PassPc
  <2>3. /\ store' \in LeaseRecord
        /\ held' \in [Nodes -> SUBSET LeaseRecord]
        /\ pc' \in [Nodes -> PassPc]
        /\ target' \in [Nodes -> InstanceIds \cup {""}]
    <3>1. CASE /\ pc' = [pc EXCEPT ![n] = "list"]
               /\ UNCHANGED <<store, held, target>>
      BY <2>1, <2>2, <3>1, Zenon
    <3>2. ASSUME NEW h \in held[n], NEW now \in Clocks, NEW answer \in BucketAnswers,
                 put(h, renewed(h, now, lease_state_for(journal_state(n, h.instance_id))), answer),
                 \/ /\ answer = "ok"
                    /\ held' = [held EXCEPT ![n] = {store'}]
                    /\ pc' = [pc EXCEPT ![n] = "list"]
                    /\ UNCHANGED target
                 \/ /\ answer = "refused"
                    /\ held' = [held EXCEPT ![n] = {}]
                    /\ pc' = [pc EXCEPT ![n] = "fence"]
                    /\ target' = [target EXCEPT ![n] = h.instance_id]
                 \/ /\ answer = "error"
                    /\ UNCHANGED <<held, pc, target>>
          PROVE  /\ store' \in LeaseRecord
                 /\ held' \in [Nodes -> SUBSET LeaseRecord]
                 /\ pc' \in [Nodes -> PassPc]
                 /\ target' \in [Nodes -> InstanceIds \cup {""}]
      <4>1. h \in LeaseRecord
        BY <2>1, Zenon
      <4>2. h.instance_id \in InstanceIds \cup {""}
        BY <4>1, Zenon DEF LeaseRecord
      <4>3. lease_state_for(journal_state(n, h.instance_id)) \in RunStates
        BY FleetAssumption, Zenon DEF lease_state_for
      <4>4. renewed(h, now, lease_state_for(journal_state(n, h.instance_id))) \in LeaseRecord
        BY <4>1, <4>3, BuiltTypes, Zenon
      <4>5. store' \in LeaseRecord
        BY <3>2, <4>4, <1>PutType, Zenon
      <4>6. held' \in [Nodes -> SUBSET LeaseRecord]
        <5>1. {store'} \in SUBSET LeaseRecord /\ {} \in SUBSET LeaseRecord
          BY <4>5, Zenon
        <5>2. held' \in {held, [held EXCEPT ![n] = {}], [held EXCEPT ![n] = {store'}]}
          BY <3>2, Zenon
        <5> QED
          BY <2>1, <5>1, <5>2, Zenon
      <4>7. pc' \in [Nodes -> PassPc]
        BY <2>1, <2>2, <3>2, Zenon
      <4>8. target' \in [Nodes -> InstanceIds \cup {""}]
        BY <2>1, <3>2, <4>2, Zenon
      <4> QED
        BY <4>5, <4>6, <4>7, <4>8, Zenon
    <3> QED
      BY <3>1, <3>2, Zenon DEF pass_renew
  <2> QED
    BY <2>3, Zenon DEF pass_renew, FleetTypeOK, LeaseTypeOK, tasks, journal, spent
\* Fencing, in a pass or at a restart.
<1>FencingTypes. ASSUME FleetTypeOK, NEW n \in Nodes, fence(n) \/ confirm(n)
                 PROVE  FleetTypeOK'
  <2> USE <1>FencingTypes
  <2>1. /\ row \in [Nodes -> SUBSET Row]
        /\ pc \in [Nodes -> PassPc]
        /\ target \in [Nodes -> InstanceIds \cup {""}]
    BY Zenon DEF FleetTypeOK
  <2>2. {"confirm", "reconfirm", "list", "join"} \subseteq PassPc
    BY Zenon DEF PassPc
  <2>3. CASE fence(n)
    <3>1. \A r \in Row : [r EXCEPT !.fencing = TRUE] \in Row
      BY Zenon DEF Row
    <3>2. row' \in [Nodes -> SUBSET Row]
      BY <2>1, <2>3, <3>1, Zenon DEF fence
    <3>3. pc' \in [Nodes -> PassPc]
      BY <2>1, <2>2, <2>3, Zenon DEF fence
    <3>4. /\ inst' \in [Nodes -> [InstanceIds -> InstanceState \cup {"ABSENT"}]]
          /\ task' \in [Nodes -> [InstanceIds -> Task]]
          /\ keys' \in [Nodes -> SUBSET Key]
      <4>1. target[n] \in InstanceIds \cup {""} /\ self_fence(n, target[n])
        BY <2>1, <2>3, Zenon DEF fence
      <4> QED
        BY <4>1, <1>FenceTypes, Zenon
    <3> QED
      BY <2>3, <3>2, <3>3, <3>4, Zenon DEF fence, FleetTypeOK, LeaseTypeOK, leaseVars, spent
  <2>4. CASE confirm(n)
    <3>1. /\ row' \in [Nodes -> SUBSET Row]
          /\ pc' \in [Nodes -> PassPc]
          /\ target' \in [Nodes -> InstanceIds \cup {""}]
      BY <2>1, <2>2, <2>4, Zenon DEF confirm
    <3> QED
      BY <2>4, <3>1, Zenon DEF confirm, FleetTypeOK, LeaseTypeOK, tasks, leaseVars, spent
  <2> QED
    BY <2>3, <2>4, Zenon
\* A read of an acquisition.
<1>ReadTypes. ASSUME FleetTypeOK, NEW n \in Nodes, acquire_reads(n)
              PROVE  seen' \in [Nodes -> SUBSET [lease : LeaseRecord, now : Clocks]]
  <2> USE <1>ReadTypes
  <2>1. PICK now \in Clocks : seen' = [seen EXCEPT ![n] = {[lease |-> store, now |-> now]}]
    BY Zenon DEF acquire_reads
  <2>2. [lease |-> store, now |-> now] \in [lease : LeaseRecord, now : Clocks]
    BY LeaseTypes, Zenon
  <2> QED
    BY <2>1, <2>2, LeaseTypes, Zenon
\* The listing, and what a pass looks at next.
<1>ListTypes. ASSUME FleetTypeOK, NEW n \in Nodes, list(n) \/ sweep(n) \/ acquire_desired(n)
              PROVE  FleetTypeOK'
  <2> USE <1>ListTypes
  <2>1. /\ pc \in [Nodes -> PassPc]
        /\ want \in [Nodes -> SUBSET Desired]
        /\ desired \in SUBSET Desired
        /\ held \in [Nodes -> SUBSET LeaseRecord]
        /\ mine \in [Nodes -> SUBSET LeaseRecord]
        /\ target \in [Nodes -> InstanceIds \cup {""}]
        /\ seen \in [Nodes -> SUBSET [lease : LeaseRecord, now : Clocks]]
    BY Zenon DEF FleetTypeOK, LeaseTypeOK
  <2>2. {"sweep", "want", "release", "reacquire", "realise", "acquire"} \subseteq PassPc
    BY Zenon DEF PassPc
  <2> DEFINE Typed == /\ pc' \in [Nodes -> PassPc]
                      /\ want' \in [Nodes -> SUBSET Desired]
                      /\ mine' \in [Nodes -> SUBSET LeaseRecord]
                      /\ target' \in [Nodes -> InstanceIds \cup {""}]
                      /\ seen' \in [Nodes -> SUBSET [lease : LeaseRecord, now : Clocks]]
  <2>3. ASSUME EndPass(n), UNCHANGED seen
        PROVE  Typed
    BY <2>1, <2>3, <1>EndPassTypes, Zenon
  <2>4. ASSUME NEW p \in PassPc, pc' = [pc EXCEPT ![n] = p],
               mine' = [mine EXCEPT ![n] = held[n]], UNCHANGED <<seen, want, target>>
        PROVE  Typed
    BY <2>1, <2>4, Zenon
  <2>5. ASSUME NEW p \in PassPc, pc' = [pc EXCEPT ![n] = p],
               acquire_reads(n), UNCHANGED <<want, mine, target>>
        PROVE  Typed
    BY <2>1, <2>5, <1>ReadTypes, Zenon
  <2>6. CASE list(n)
    <3>1. ASSUME EndPass(n)
          PROVE  Typed
      BY <2>6, <3>1, <2>3, Zenon DEF list, leaseVars
    <3>2. ASSUME pc' = [pc EXCEPT ![n] = IF desired = {} THEN "sweep" ELSE "want"],
                 want' = [want EXCEPT ![n] = desired],
                 UNCHANGED <<mine, target>>
          PROVE  Typed
      BY <2>1, <2>2, <2>6, <3>2, Zenon DEF list, leaseVars
    <3>3. Typed
      BY <2>6, <3>1, <3>2, Zenon DEF list
    <3> QED
      BY <2>6, <3>3, Zenon DEF list, FleetTypeOK, LeaseTypeOK, tasks, leaseVars, journal, spent
  <2>7. CASE sweep(n)
    <3>1. Typed
      BY <2>2, <2>3, <2>4, <2>5, <2>7, Zenon DEF sweep
    <3> QED
      BY <2>7, <3>1, Zenon DEF sweep, FleetTypeOK, LeaseTypeOK, tasks, journal, spent
  <2>8. CASE acquire_desired(n)
    <3>1. Typed
      BY <2>2, <2>3, <2>4, <2>5, <2>8, Zenon DEF acquire_desired
    <3> QED
      BY <2>8, <3>1, Zenon DEF acquire_desired, FleetTypeOK, LeaseTypeOK, tasks, journal, spent
  <2> QED
    BY <2>6, <2>7, <2>8, Zenon
\* The write of an acquisition, for a desired name or for one to release.
<1>AcquireTypes. ASSUME FleetTypeOK, NEW n \in Nodes, acquire(n) \/ reacquire(n)
                 PROVE  FleetTypeOK'
  <2> USE <1>AcquireTypes
  <2>1. /\ held \in [Nodes -> SUBSET LeaseRecord]
        /\ mine \in [Nodes -> SUBSET LeaseRecord]
        /\ seen \in [Nodes -> SUBSET [lease : LeaseRecord, now : Clocks]]
        /\ row \in [Nodes -> SUBSET Row]
        /\ pc \in [Nodes -> PassPc]
        /\ want \in [Nodes -> SUBSET Desired]
        /\ target \in [Nodes -> InstanceIds \cup {""}]
    BY Zenon DEF FleetTypeOK, LeaseTypeOK
  <2>2. "realise" \in PassPc /\ "release" \in PassPc
    BY Zenon DEF PassPc
  <2>3. ASSUME NEW a \in seen[n], NEW answer, put(a.lease, acquired(a.lease, n, a.now), answer)
        PROVE  store' \in LeaseRecord
    <3>1. a \in [lease : LeaseRecord, now : Clocks]
      BY <2>1, Zenon
    <3>2. a.lease \in LeaseRecord /\ a.now \in Clocks
      BY <3>1, Zenon
    <3>3. acquired(a.lease, n, a.now) \in LeaseRecord
      BY <3>2, BuiltTypes, Zenon
    <3> QED
      BY <2>3, <3>3, <1>PutType, Zenon
  <2> DEFINE Typed == /\ pc' \in [Nodes -> PassPc]
                      /\ want' \in [Nodes -> SUBSET Desired]
                      /\ mine' \in [Nodes -> SUBSET LeaseRecord]
                      /\ held' \in [Nodes -> SUBSET LeaseRecord]
                      /\ target' \in [Nodes -> InstanceIds \cup {""}]
  <2>4. ASSUME NEW p \in PassPc, store' \in LeaseRecord,
               held' = [held EXCEPT ![n] = {store'}], mine' = [mine EXCEPT ![n] = {store'}],
               pc' = [pc EXCEPT ![n] = p], UNCHANGED <<want, target>>
        PROVE  Typed
    BY <2>1, <2>4, Zenon
  <2>5. ASSUME EndPass(n), UNCHANGED held
        PROVE  Typed
    BY <2>1, <2>5, <1>EndPassTypes, Zenon
  <2>6. CASE acquire(n)
    <3>1. PICK a \in seen[n], answer \in BucketAnswers :
            /\ put(a.lease, acquired(a.lease, n, a.now), answer)
            /\ IF answer = "ok"
               THEN /\ hold_lease(n, store')
                    /\ held' = [held EXCEPT ![n] = {store'}]
                    /\ mine' = [mine EXCEPT ![n] = {store'}]
                    /\ pc' = [pc EXCEPT ![n] = "realise"]
                    /\ UNCHANGED <<want, target>>
               ELSE EndPass(n) /\ UNCHANGED <<held, row>>
      BY <2>6, Zenon DEF acquire
    <3>2. store' \in LeaseRecord
      BY <3>1, <2>3, Zenon
    <3>3. Typed
      BY <2>2, <2>4, <2>5, <3>1, <3>2, Zenon
    <3>4. row' \in [Nodes -> SUBSET Row]
      <4>1. CASE UNCHANGED row
        BY <2>1, <4>1, Zenon
      <4>2. CASE hold_lease(n, store')
        <5>1. store'.epoch \in Nat /\ store'.instance_id \in InstanceIds \cup {""}
          BY <3>2, Zenon DEF LeaseRecord
        <5>2. [epoch |-> store'.epoch, instance_id |-> store'.instance_id,
               fencing |-> \E r \in row[n] : r.fencing] \in Row
          BY <5>1, Zenon DEF Row
        <5> QED
          BY <2>1, <4>2, <5>2, Zenon DEF hold_lease
      <4> QED
        BY <3>1, <4>1, <4>2, Zenon
    <3>5. seen' \in [Nodes -> SUBSET [lease : LeaseRecord, now : Clocks]]
      BY <2>1, <2>6, Zenon DEF acquire
    <3> QED
      BY <2>6, <3>2, <3>3, <3>4, <3>5, Zenon DEF acquire, FleetTypeOK, LeaseTypeOK, tasks, spent
  <2>7. CASE reacquire(n)
    <3>1. PICK a \in seen[n], answer \in BucketAnswers :
            /\ put(a.lease, acquired(a.lease, n, a.now), answer)
            /\ IF answer = "ok"
               THEN /\ held' = [held EXCEPT ![n] = {store'}]
                    /\ mine' = [mine EXCEPT ![n] = {store'}]
                    /\ pc' = [pc EXCEPT ![n] = "release"]
                    /\ UNCHANGED <<want, target>>
               ELSE EndPass(n) /\ UNCHANGED held
      BY <2>7, Zenon DEF reacquire
    <3>2. store' \in LeaseRecord
      BY <3>1, <2>3, Zenon
    <3>3. Typed
      BY <2>2, <2>4, <2>5, <3>1, <3>2, Zenon
    <3>4. seen' \in [Nodes -> SUBSET [lease : LeaseRecord, now : Clocks]]
      BY <2>1, <2>7, Zenon DEF reacquire
    <3> QED
      BY <2>7, <3>2, <3>3, <3>4, Zenon DEF reacquire, FleetTypeOK, LeaseTypeOK, tasks, journal,
         spent
  <2> QED
    BY <2>6, <2>7, Zenon
\* Teardown and release.
<1>ReleaseTypes. ASSUME FleetTypeOK, NEW n \in Nodes, release_name(n) \/ release_lease(n)
                 PROVE  FleetTypeOK'
  <2> USE <1>ReleaseTypes
  <2>1. /\ inst \in [Nodes -> [InstanceIds -> InstanceState \cup {"ABSENT"}]]
        /\ task \in [Nodes -> [InstanceIds -> Task]]
        /\ keys \in [Nodes -> SUBSET Key]
        /\ row \in [Nodes -> SUBSET Row]
        /\ pc \in [Nodes -> PassPc]
        /\ want \in [Nodes -> SUBSET Desired]
        /\ mine \in [Nodes -> SUBSET LeaseRecord]
        /\ target \in [Nodes -> InstanceIds \cup {""}]
    BY Zenon DEF FleetTypeOK
  <2> DEFINE Engine == /\ inst' \in [Nodes -> [InstanceIds -> InstanceState \cup {"ABSENT"}]]
                       /\ task' \in [Nodes -> [InstanceIds -> Task]]
                       /\ keys' \in [Nodes -> SUBSET Key]
             Passes == /\ pc' \in [Nodes -> PassPc]
                       /\ want' \in [Nodes -> SUBSET Desired]
                       /\ mine' \in [Nodes -> SUBSET LeaseRecord]
                       /\ target' \in [Nodes -> InstanceIds \cup {""}]
  <2>2. CASE release_name(n)
    <3>1. PICK h \in mine[n] :
            IF release_intent(journal_state(n, h.instance_id))
            THEN /\ pc' = [pc EXCEPT ![n] = "unlease"]
                 /\ UNCHANGED <<inst, task, keys, want, mine, target>>
            ELSE /\ submit(n, h.instance_id, "Destroy",
                           [verb |-> "delete", epoch |-> h.epoch,
                            instance_id |-> h.instance_id])
                 /\ EndPass(n)
      BY <2>2, Zenon DEF release_name
    <3>2. ASSUME release_intent(journal_state(n, h.instance_id))
          PROVE  Engine /\ Passes
      <4>1. "unlease" \in PassPc
        BY Zenon DEF PassPc
      <4> QED
        BY <2>1, <3>1, <3>2, <4>1, Zenon
    <3>3. ASSUME ~release_intent(journal_state(n, h.instance_id))
          PROVE  Engine /\ Passes
      <4>1. h \in LeaseRecord
        BY <2>1, Zenon
      <4>2. h.epoch \in Nat /\ h.instance_id \in InstanceIds \cup {""}
        BY <4>1, Zenon DEF LeaseRecord
      <4>3. h.instance_id \in InstanceIds
        BY <3>3, <4>2, Zenon DEF release_intent, journal_state
      <4>4. [verb |-> "delete", epoch |-> h.epoch, instance_id |-> h.instance_id] \in Key
        BY <4>2, Zenon DEF Key
      <4>5. "Destroy" \in FleetKinds
        BY Zenon DEF FleetKinds
      <4>6. submit(n, h.instance_id, "Destroy",
                   [verb |-> "delete", epoch |-> h.epoch, instance_id |-> h.instance_id])
        BY <3>1, <3>3, Zenon
      <4>7. Engine
        BY <4>3, <4>4, <4>5, <4>6, <1>SubmitTypes, Zenon
      <4>8. Passes
        BY <3>1, <3>3, <1>EndPassTypes, Zenon
      <4> QED
        BY <4>7, <4>8, Zenon
    <3>4. Engine /\ Passes
      BY <3>2, <3>3, Zenon
    <3> QED
      BY <2>2, <3>4, Zenon DEF release_name, FleetTypeOK, LeaseTypeOK, leaseVars, spent
  <2>3. CASE release_lease(n)
    <3>1. PICK h \in mine[n], answer \in BucketAnswers :
            /\ put(h, released(h), answer)
            /\ held' = [held EXCEPT ![n] = IF answer = "error" THEN held[n] ELSE {}]
            /\ row' = [row EXCEPT ![n] = IF answer = "error" THEN row[n] ELSE {}]
      BY <2>3, Zenon DEF release_lease
    <3>2. h \in LeaseRecord
      BY <2>1, Zenon
    <3>3. released(h) \in LeaseRecord
      BY <3>2, BuiltTypes, Zenon
    <3>4. store' \in LeaseRecord
      BY <3>1, <3>3, <1>PutType, Zenon
    <3>5. held' \in [Nodes -> SUBSET LeaseRecord]
      BY <3>1, LeaseTypes, Zenon
    <3>6. row' \in [Nodes -> SUBSET Row]
      BY <2>1, <3>1, Zenon
    <3>7. Passes
      BY <2>3, <1>EndPassTypes, Zenon DEF release_lease
    <3> QED
      BY <2>3, <3>4, <3>5, <3>6, <3>7, Zenon DEF release_lease, FleetTypeOK, LeaseTypeOK, tasks,
         spent
  <2> QED
    BY <2>2, <2>3, Zenon
\* Which instance realises the session.
<1>RealiseTypes. ASSUME FleetTypeOK, NEW n \in Nodes, realise(n)
                 PROVE  FleetTypeOK'
  <2> USE <1>RealiseTypes
  <2>1. /\ pc \in [Nodes -> PassPc]
        /\ want \in [Nodes -> SUBSET Desired]
        /\ mine \in [Nodes -> SUBSET LeaseRecord]
        /\ target \in [Nodes -> InstanceIds \cup {""}]
    BY Zenon DEF FleetTypeOK
  <2>2. "name" \in PassPc /\ "materialise" \in PassPc
    BY Zenon DEF PassPc
  <2> DEFINE ids(w, h) ==
               LET which == realising_instance(n, w.instance_id, h.instance_id)
               IN  CASE which = "Record" -> {w.instance_id}
                     [] which = "Lease" -> {h.instance_id}
                     [] which = "Fresh" -> {i \in InstanceIds : Unused(i)}
             Passes == /\ pc' \in [Nodes -> PassPc]
                       /\ want' \in [Nodes -> SUBSET Desired]
                       /\ mine' \in [Nodes -> SUBSET LeaseRecord]
                       /\ target' \in [Nodes -> InstanceIds \cup {""}]
  <2>3. ASSUME NEW w \in want[n], NEW h \in mine[n], NEW i \in ids(w, h)
        PROVE  i \in InstanceIds \cup {""}
    <3>1. w \in Desired /\ h \in LeaseRecord
      BY <2>1, Zenon
    <3>2. w.instance_id \in InstanceIds
      BY <3>1, FleetAssumption, Zenon DEF Desired
    <3>3. h.instance_id \in InstanceIds \cup {""}
      BY <3>1, Zenon DEF LeaseRecord
    <3>4. realising_instance(n, w.instance_id, h.instance_id) \in {"Record", "Lease", "Fresh"}
      BY Zenon DEF realising_instance
    <3> QED
      BY <3>2, <3>3, <3>4, Zenon
  <2> HIDE DEF ids
  <2>4. \/ EndPass(n)
        \/ \E w \in want[n], h \in mine[n] : \E i \in ids(w, h) :
              /\ target' = [target EXCEPT ![n] = i]
              /\ pc' = [pc EXCEPT ![n] = IF h.instance_id # i THEN "name" ELSE "materialise"]
              /\ UNCHANGED <<want, mine>>
    BY Zenon DEF realise, ids
  <2>5. Passes
    <3>1. CASE EndPass(n)
      BY <3>1, <1>EndPassTypes, Zenon
    <3>2. ASSUME NEW w \in want[n], NEW h \in mine[n], NEW i \in ids(w, h),
                 target' = [target EXCEPT ![n] = i],
                 pc' = [pc EXCEPT ![n] = IF h.instance_id # i THEN "name" ELSE "materialise"],
                 UNCHANGED <<want, mine>>
          PROVE  Passes
      <4>1. i \in InstanceIds \cup {""}
        BY <2>3, Zenon
      <4> QED
        BY <2>1, <2>2, <3>2, <4>1, Zenon
    <3> QED
      BY <2>4, <3>1, <3>2, Zenon
  <2> QED
    BY <2>5, Zenon DEF realise, FleetTypeOK, LeaseTypeOK, tasks, leaseVars, journal, spent
\* The lease learns the instance.
<1>NameTypes. ASSUME FleetTypeOK, NEW n \in Nodes, name_instance(n)
              PROVE  FleetTypeOK'
  <2> USE <1>NameTypes
  <2>1. /\ inst \in [Nodes -> [InstanceIds -> InstanceState \cup {"ABSENT"}]]
        /\ task \in [Nodes -> [InstanceIds -> Task]]
        /\ keys \in [Nodes -> SUBSET Key]
        /\ row \in [Nodes -> SUBSET Row]
        /\ pc \in [Nodes -> PassPc]
        /\ want \in [Nodes -> SUBSET Desired]
        /\ mine \in [Nodes -> SUBSET LeaseRecord]
        /\ target \in [Nodes -> InstanceIds \cup {""}]
        /\ held \in [Nodes -> SUBSET LeaseRecord]
    BY Zenon DEF FleetTypeOK, LeaseTypeOK
  <2> DEFINE Engine == /\ inst' \in [Nodes -> [InstanceIds -> InstanceState \cup {"ABSENT"}]]
                       /\ task' \in [Nodes -> [InstanceIds -> Task]]
                       /\ keys' \in [Nodes -> SUBSET Key]
             Passes == /\ pc' \in [Nodes -> PassPc]
                       /\ want' \in [Nodes -> SUBSET Desired]
                       /\ mine' \in [Nodes -> SUBSET LeaseRecord]
                       /\ target' \in [Nodes -> InstanceIds \cup {""}]
             Owned == /\ held' \in [Nodes -> SUBSET LeaseRecord]
                      /\ row' \in [Nodes -> SUBSET Row]
  <2>2. PICK h \in mine[n], answer \in BucketAnswers :
          /\ put(h, naming(h, target[n]), answer)
          /\ \/ /\ answer = "ok"
                /\ held' = [held EXCEPT ![n] = {store'}]
                /\ row' = [row EXCEPT ![n] = {[r EXCEPT !.instance_id = target[n]] : r \in row[n]}]
                /\ pc' = [pc EXCEPT ![n] = "materialise"]
                /\ UNCHANGED <<inst, keys, task, want, mine, target>>
             \/ /\ answer = "refused"
                /\ held' = [held EXCEPT ![n] = {}]
                /\ self_fence(n, h.instance_id)
                /\ EndPass(n)
                /\ UNCHANGED row
             \/ /\ answer = "error"
                /\ EndPass(n)
                /\ UNCHANGED <<held, row, inst, keys, task>>
    BY Zenon DEF name_instance
  <2>3. h \in LeaseRecord
    BY <2>1, Zenon
  <2>4. h.instance_id \in InstanceIds \cup {""}
    BY <2>3, Zenon DEF LeaseRecord
  <2>5. naming(h, target[n]) \in LeaseRecord
    BY <2>1, <2>3, BuiltTypes, Zenon
  <2>6. store' \in LeaseRecord
    BY <2>2, <2>5, <1>PutType, Zenon
  <2>7. ASSUME held' = [held EXCEPT ![n] = {store'}],
               row' = [row EXCEPT ![n] = {[r EXCEPT !.instance_id = target[n]] : r \in row[n]}],
               pc' = [pc EXCEPT ![n] = "materialise"],
               UNCHANGED <<inst, keys, task, want, mine, target>>
        PROVE  Engine /\ Passes /\ Owned
    <3>1. \A r \in Row : [r EXCEPT !.instance_id = target[n]] \in Row
      BY <2>1, Zenon DEF Row
    <3>2. {[r EXCEPT !.instance_id = target[n]] : r \in row[n]} \in SUBSET Row
      BY <2>1, <3>1, Zenon
    <3>3. Owned
      BY <2>1, <2>6, <2>7, <3>2, Zenon
    <3>4. "materialise" \in PassPc
      BY Zenon DEF PassPc
    <3> QED
      BY <2>1, <2>7, <3>3, <3>4, Zenon
  <2>8. ASSUME held' = [held EXCEPT ![n] = {}], self_fence(n, h.instance_id), EndPass(n),
               UNCHANGED row
        PROVE  Engine /\ Passes /\ Owned
    <3>1. Engine
      BY <2>4, <2>8, <1>FenceTypes, Zenon
    <3>2. Passes
      BY <2>8, <1>EndPassTypes, Zenon
    <3>3. Owned
      BY <2>1, <2>8, Zenon
    <3> QED
      BY <3>1, <3>2, <3>3, Zenon
  <2>9. ASSUME EndPass(n), UNCHANGED <<held, row, inst, keys, task>>
        PROVE  Engine /\ Passes /\ Owned
    <3>1. Passes
      BY <2>9, <1>EndPassTypes, Zenon
    <3> QED
      BY <2>1, <2>9, <3>1, Zenon
  <2>10. Engine /\ Passes /\ Owned
    BY <2>2, <2>7, <2>8, <2>9, Zenon
  <2> QED
    BY <2>6, <2>10, Zenon DEF name_instance, FleetTypeOK, LeaseTypeOK, spent
\* The operation of a pass.  A target that is no instance has no row to change.
<1>MaterialiseTypes. ASSUME FleetTypeOK, NEW n \in Nodes, materialise(n)
                     PROVE  FleetTypeOK'
  <2> USE <1>MaterialiseTypes
  <2>1. /\ inst \in [Nodes -> [InstanceIds -> InstanceState \cup {"ABSENT"}]]
        /\ task \in [Nodes -> [InstanceIds -> Task]]
        /\ keys \in [Nodes -> SUBSET Key]
        /\ mine \in [Nodes -> SUBSET LeaseRecord]
        /\ target \in [Nodes -> InstanceIds \cup {""}]
    BY Zenon DEF FleetTypeOK
  <2> DEFINE Engine == /\ inst' \in [Nodes -> [InstanceIds -> InstanceState \cup {"ABSENT"}]]
                       /\ task' \in [Nodes -> [InstanceIds -> Task]]
                       /\ keys' \in [Nodes -> SUBSET Key]
  <2>2. \/ UNCHANGED <<inst, task, keys>>
        \/ \E h \in mine[n], kind \in {"Create", "Start", "Resume"},
              verb \in {"create", "start", "resume"} :
              submit(n, target[n], kind, [verb |-> verb, epoch |-> h.epoch, instance_id |-> target[n]])
    BY Zenon DEF materialise
  <2>3. ASSUME NEW h \in mine[n], NEW kind \in {"Create", "Start", "Resume"},
               NEW verb \in {"create", "start", "resume"},
               submit(n, target[n], kind, [verb |-> verb, epoch |-> h.epoch, instance_id |-> target[n]])
        PROVE  Engine
    <3> DEFINE key == [verb |-> verb, epoch |-> h.epoch, instance_id |-> target[n]]
    <3>1. h \in LeaseRecord
      BY <2>1, Zenon
    <3>2. h.epoch \in Nat
      BY <3>1, Zenon DEF LeaseRecord
    <3>3. key \in Key
      BY <2>1, <3>2, Zenon DEF Key
    <3>4. kind \in FleetKinds
      BY Zenon DEF FleetKinds
    <3>5. CASE target[n] \in InstanceIds
      BY <2>3, <3>3, <3>4, <3>5, <1>SubmitTypes, Zenon
    <3>6. CASE target[n] \notin InstanceIds
      <4>1. \/ UNCHANGED <<inst, task>>
            \/ \E to : /\ inst' = [inst EXCEPT ![n][target[n]] = to]
                       /\ task' = [task EXCEPT ![n][target[n]] = [kind |-> kind, at |-> "spawned"]]
        BY <2>3, Zenon DEF submit, Submits
      <4>2. \A to : [inst[n] EXCEPT ![target[n]] = to] = inst[n]
        BY <2>1, <3>6, Zenon
      <4>3. \A to : [task[n] EXCEPT ![target[n]] = to] = task[n]
        BY <2>1, <3>6, Zenon
      <4>a. \A to : [inst EXCEPT ![n][target[n]] = to] = [inst EXCEPT ![n] = inst[n]]
        BY <4>2, Zenon
      <4>b. \A to : [task EXCEPT ![n][target[n]] = to] = [task EXCEPT ![n] = task[n]]
        BY <4>3, Zenon
      <4>c. [inst EXCEPT ![n] = inst[n]] = inst /\ [task EXCEPT ![n] = task[n]] = task
        BY <2>1, Zenon
      <4>4. UNCHANGED <<inst, task>>
        BY <4>1, <4>a, <4>b, <4>c, Zenon
      <4>d. \/ keys' = keys
            \/ keys' = [keys EXCEPT ![n] = IF task' = task THEN keys[n] ELSE keys[n] \cup {key}]
        BY <2>3, Zenon DEF submit
      <4> HIDE DEF key
      <4>e. keys[n] \in SUBSET Key
        BY <2>1, Zenon
      <4>f. keys[n] \cup {key} \in SUBSET Key
        BY <3>3, <4>e, Zenon
      <4>g. (IF task' = task THEN keys[n] ELSE keys[n] \cup {key}) \in SUBSET Key
        BY <4>e, <4>f, Zenon
      <4>5. keys' \in [Nodes -> SUBSET Key]
        BY <2>1, <4>d, <4>g, Zenon
      <4> QED
        BY <2>1, <4>4, <4>5, Zenon
    <3> QED
      BY <3>5, <3>6, Zenon
  <2>4. Engine
    BY <2>1, <2>2, <2>3, Zenon
  <2>5. /\ pc' \in [Nodes -> PassPc]
        /\ want' \in [Nodes -> SUBSET Desired]
        /\ mine' \in [Nodes -> SUBSET LeaseRecord]
        /\ target' \in [Nodes -> InstanceIds \cup {""}]
    BY <1>EndPassTypes, Zenon DEF materialise
  <2> QED
    BY <2>4, <2>5, Zenon DEF materialise, FleetTypeOK, LeaseTypeOK, leaseVars, spent
\* A client's use of the engine.
<1>ClientTypes. ASSUME FleetTypeOK, NEW n \in Nodes, NEW i \in InstanceIds, NEW kind \in ClientKinds,
                       client(n, i, kind)
                PROVE  FleetTypeOK'
  <2> USE <1>ClientTypes
  <2>1. kind \in FleetKinds
    BY FleetAssumption, Zenon
  <2>2. /\ inst' \in [Nodes -> [InstanceIds -> InstanceState \cup {"ABSENT"}]]
        /\ task' \in [Nodes -> [InstanceIds -> Task]]
    BY <2>1, <1>SubmitsTypes, Zenon DEF client
  <2> QED
    BY <2>2, Zenon DEF client, FleetTypeOK, LeaseTypeOK, leaseVars, pass, spent
<1> SUFFICES ASSUME FleetTypeOK, [FleetNext]_fleetVars
             PROVE  FleetTypeOK'
  BY Zenon
<1>1. CASE UNCHANGED fleetVars
  BY <1>1, Zenon DEF fleetVars, leaseVars, journal, tasks, pass, spent, FleetTypeOK, LeaseTypeOK
<1>2. ASSUME NEW n \in Nodes, pass_step(n) \/ Crash(n) \/ Restart(n)
      PROVE  FleetTypeOK'
  BY Zenon, <1>2, <1>RenewTypes, <1>FencingTypes, <1>ListTypes, <1>AcquireTypes,
     <1>ReleaseTypes, <1>RealiseTypes,
     <1>NameTypes, <1>MaterialiseTypes, <1>RestartTypes DEF pass_step
<1>3. ASSUME NEW n \in Nodes, NEW i \in InstanceIds, execute(n, i)
      PROVE  FleetTypeOK'
  BY <1>3, <1>ExecuteTypes, Zenon
<1>4. ASSUME NEW n \in Nodes, NEW i \in InstanceIds, NEW kind \in ClientKinds,
             client(n, i, kind)
      PROVE  FleetTypeOK'
  BY <1>4, <1>ClientTypes, Zenon
<1>5. CASE withdraw \/ \E d \in Desired : apply(d)
  BY <1>5, <1>ConsumerTypes, Zenon
<1> QED
  BY <1>1, <1>2, <1>3, <1>4, <1>5, Zenon DEF FleetNext

\* The first state is well typed.
LEMMA InitTypes == FleetInit => FleetTypeOK
<1> SUFFICES ASSUME FleetInit
             PROVE  FleetTypeOK
  BY Zenon
<1>1. NoLease \in LeaseRecord
  BY Zenon DEF NoLease, LeaseRecord
<1>2. NoTask \in Task
  BY Zenon DEF NoTask, Task, FleetKinds
<1>3. "idle" \in PassPc
  BY Zenon DEF PassPc
<1>4. crashes \in 0..MaxCrashes /\ writes \in 0..MaxWrites
  <2>1. MaxCrashes \in Nat /\ MaxWrites \in Nat
    BY FleetAssumption, Zenon
  <2>2. crashes = 0 /\ writes = 0
    BY Zenon DEF FleetInit, Unasked
  <2> QED
    BY <2>1, <2>2
<1>5. LeaseTypeOK
  BY <1>1, Zenon DEF FleetInit, Unasked, LeaseInit, LeaseTypeOK
<1> QED
  BY <1>2, <1>3, <1>4, <1>5, Zenon DEF FleetInit, Unasked, FleetTypeOK

\* The journals, the passes and the lease stay well typed.
THEOREM FleetTypeCorrect == FleetSpec => []FleetTypeOK
  BY InitTypes, NextTypes, PTL DEF FleetSpec

-------------------------------------------------------------------------------
(***************************************************************************)
(* Claims.  A step keeps the owner and the epoch, or is a takeover; and it *)
(* lets the rows of a node keep epochs they had, unless it acquires.       *)
(***************************************************************************)
Kept == store'.owner = store.owner /\ store'.epoch = store.epoch
TakenBy(n) == store'.owner = n /\ store'.epoch = store.epoch + 1
RowsKept == \A n \in Nodes : \A q \in row'[n] : \E r \in row[n] : r.epoch = q.epoch

\* No step lets two journals claim one epoch.
LEMMA NextExcludes == FleetTypeOK /\ FleetTypeOK' /\ NoSharedClaim /\ [FleetNext]_fleetVars => NoSharedClaim'
\* A write from a Held, which leaves owner and epoch as they are in the Held, leaves
\* them as they are in the object.
<1>HeldWriteKeeps. ASSUME FleetTypeOK, NEW h \in LeaseRecord, NEW lease \in LeaseRecord, NEW answer,
                          lease.owner = h.owner, lease.epoch = h.epoch, put(h, lease, answer)
                   PROVE  Kept
  <2> USE <1>HeldWriteKeeps
  <2> DEFINE written == [lease EXCEPT !.version = IF UniqueTags THEN store.version + 1 ELSE 0]
  <2>1. written.owner = lease.owner /\ written.epoch = lease.epoch
    BY Zenon DEF LeaseRecord
  <2>2. store' = store \/ (store = h /\ store' = written)
    BY Zenon DEF put
  <2> HIDE DEF written
  <2> QED
    BY <2>1, <2>2, Zenon DEF Kept
\* What lease.rs builds from a Held has its owner and its epoch.
<1>BuiltKeeps. ASSUME NEW h \in LeaseRecord
               PROVE  /\ \A now, s : /\ renewed(h, now, s).owner = h.owner
                                     /\ renewed(h, now, s).epoch = h.epoch
                      /\ \A s : stamped(h, s).owner = h.owner /\ stamped(h, s).epoch = h.epoch
                      /\ \A i : naming(h, i).owner = h.owner /\ naming(h, i).epoch = h.epoch
                      /\ released(h).owner = h.owner /\ released(h).epoch = h.epoch
  BY <1>BuiltKeeps, Zenon DEF renewed, stamped, naming, released, LeaseRecord
\* The write of an acquisition keeps the object, or gives it to the node in a new
\* epoch, or renews a lease of the node itself.
<1>AcquisitionTakes. ASSUME FleetTypeOK, NEW n \in Nodes, NEW a \in seen[n], NEW answer,
                            put(a.lease, acquired(a.lease, n, a.now), answer)
                     PROVE  /\ Kept \/ TakenBy(n)
                            /\ answer = "ok" => store'.owner = n
  <2> USE <1>AcquisitionTakes
  <2>1. seen[n] \subseteq [lease : LeaseRecord, now : Clocks]
    BY LeaseTypes, Zenon
  <2>2. a.lease \in LeaseRecord /\ a.now \in Clocks
    BY <2>1, Zenon
  <2> DEFINE lease == acquired(a.lease, n, a.now)
             written == [lease EXCEPT !.version = IF UniqueTags THEN store.version + 1 ELSE 0]
  <2>3. /\ lease.owner = n
        /\ lease.epoch = IF a.lease.owner = n /\ ~is_expired_at(a.lease, a.now)
                         THEN a.lease.epoch ELSE a.lease.epoch + 1
    BY <2>2, Zenon DEF acquired, LeaseRecord
  <2>4. lease \in LeaseRecord
    BY <2>2, BuiltTypes, Zenon
  <2> HIDE DEF lease
  <2>5. written.owner = lease.owner /\ written.epoch = lease.epoch
    BY <2>4, Zenon DEF LeaseRecord
  <2>6. \/ store' = store /\ answer # "ok"
        \/ store = a.lease /\ store' = written
    BY Zenon DEF put, lease
  <2> HIDE DEF written
  <2>7. CASE store' = store /\ answer # "ok"
    BY <2>7, Zenon DEF Kept
  <2>8. CASE store = a.lease /\ store' = written
    <3>1. store'.owner = n /\ store'.epoch = lease.epoch
      BY <2>3, <2>5, <2>8, Zenon
    <3>2. CASE a.lease.owner = n /\ ~is_expired_at(a.lease, a.now)
      BY <2>3, <2>8, <3>1, <3>2, Zenon DEF Kept
    <3>3. CASE ~(a.lease.owner = n /\ ~is_expired_at(a.lease, a.now))
      BY <2>3, <2>8, <3>1, <3>3, Zenon DEF TakenBy
    <3> QED
      BY <3>1, <3>2, <3>3, Zenon
  <2> QED
    BY <2>6, <2>7, <2>8, Zenon
\* Rows that keep epochs they had stay exclusive, whatever happens to the lease.
<1>KeptRowsExclude. ASSUME FleetTypeOK, FleetTypeOK', NoSharedClaim, RowsKept,
                           NEW o \in Nodes, Kept \/ TakenBy(o)
                    PROVE  NoSharedClaim'
  <2> USE <1>KeptRowsExclude
  <2> SUFFICES ASSUME NEW n \in Nodes, NEW q \in row'[n]
               PROVE  /\ q.epoch <= store'.epoch
                      /\ q.epoch = store'.epoch => store'.owner = n
                      /\ \A m \in Nodes \ {n} : \A p \in row'[m] : p.epoch # q.epoch
    BY Zenon DEF NoSharedClaim
  <2>1. store.epoch \in Nat
    BY LeaseTypes, Zenon DEF LeaseRecord
  <2>2. PICK r \in row[n] : r.epoch = q.epoch
    BY Zenon DEF RowsKept
  <2>3. row[n] \subseteq Row
    BY Zenon DEF FleetTypeOK
  <2>4. r.epoch \in Nat
    BY <2>3, Zenon DEF Row
  <2>5. /\ r.epoch <= store.epoch
        /\ r.epoch = store.epoch => store.owner = n
        /\ \A m \in Nodes \ {n} : \A p \in row[m] : p.epoch # r.epoch
    BY Zenon DEF NoSharedClaim
  <2>6. q.epoch <= store'.epoch /\ (q.epoch = store'.epoch => store'.owner = n)
    <3>1. CASE Kept
      BY <2>2, <2>5, <3>1, Zenon DEF Kept
    <3>2. CASE TakenBy(o)
      BY <2>1, <2>2, <2>4, <2>5, <3>2 DEF TakenBy
    <3> QED
      BY <3>1, <3>2, Zenon
  <2>7. \A m \in Nodes \ {n} : \A p \in row'[m] : p.epoch # q.epoch
    BY <2>2, <2>5 DEF RowsKept
  <2> QED
    BY <2>6, <2>7, Zenon
\* The row of an acquisition is the only one of its epoch: a lease of the node's own
\* was in no other row, and a takeover has an epoch no row has reached.
<1>NewRowExcludes. ASSUME FleetTypeOK, FleetTypeOK', NoSharedClaim, NEW n \in Nodes,
                          Kept \/ TakenBy(n), store'.owner = n, hold_lease(n, store')
                   PROVE  NoSharedClaim'
  <2> USE <1>NewRowExcludes
  <2>1. store.epoch \in Nat
    BY LeaseTypes, Zenon DEF LeaseRecord
  <2>2. row \in [Nodes -> SUBSET Row]
    BY Zenon DEF FleetTypeOK
  <2>3. \A m \in Nodes \ {n} : row'[m] = row[m]
    BY <2>2, Zenon DEF hold_lease
  <2>4. \A q \in row'[n] : q.epoch = store'.epoch
    BY <2>2 DEF hold_lease
  <2>5. ASSUME NEW m \in Nodes \ {n}, NEW r \in row[m]
        PROVE  r.epoch \in Nat /\ r.epoch < store'.epoch
    <3>1. row[m] \subseteq Row
      BY <2>2, Zenon
    <3>2. r.epoch \in Nat
      BY <3>1, Zenon DEF Row
    <3>3. r.epoch <= store.epoch /\ (r.epoch = store.epoch => store.owner = m)
      BY Zenon DEF NoSharedClaim
    <3>4. CASE Kept
      BY <2>1, <3>2, <3>3, <3>4 DEF Kept
    <3>5. CASE TakenBy(n)
      BY <2>1, <3>2, <3>3, <3>5 DEF TakenBy
    <3> QED
      BY <3>2, <3>4, <3>5, Zenon
  <2>6. store'.epoch \in Nat
    <3>1. store' \in LeaseRecord
      BY Zenon DEF FleetTypeOK, LeaseTypeOK
    <3> QED
      BY <3>1, Zenon DEF LeaseRecord
  <2> SUFFICES ASSUME NEW m \in Nodes, NEW q \in row'[m]
               PROVE  /\ q.epoch <= store'.epoch
                      /\ q.epoch = store'.epoch => store'.owner = m
                      /\ \A p \in Nodes \ {m} : \A r \in row'[p] : r.epoch # q.epoch
    BY Zenon DEF NoSharedClaim
  <2>7. CASE m = n
    <3>1. q.epoch = store'.epoch
      BY <2>4, <2>7, Zenon
    <3>2. \A p \in Nodes \ {m} : \A r \in row'[p] : r.epoch \in Nat /\ r.epoch < store'.epoch
      BY <2>3, <2>5, <2>7, Zenon
    <3>3. \A p \in Nodes \ {m} : \A r \in row'[p] : r.epoch # q.epoch
      BY <2>6, <3>1, <3>2
    <3>4. q.epoch <= store'.epoch /\ store'.owner = m
      BY <2>6, <2>7, <3>1
    <3> QED
      BY <3>3, <3>4, Zenon
  <2>8. CASE m # n
    <3>1. q \in row[m]
      BY <2>3, <2>8, Zenon
    <3>2. q.epoch \in Nat /\ q.epoch < store'.epoch
      BY <2>5, <2>8, <3>1, Zenon
    <3>3. ASSUME NEW p \in Nodes \ {m}, NEW r \in row'[p]
          PROVE  r.epoch # q.epoch
      <4>1. CASE p = n
        BY <2>4, <2>6, <3>2, <4>1
      <4>2. CASE p # n
        BY <2>3, <3>1, <4>2, Zenon DEF NoSharedClaim
      <4> QED
        BY <4>1, <4>2, Zenon
    <3> QED
      BY <2>6, <3>2, <3>3
  <2> QED
    BY <2>7, <2>8, Zenon
\* The executor stamps, which moves nothing.
<1>ExecuteKeeps. ASSUME FleetTypeOK, NEW n \in Nodes, NEW i \in InstanceIds, execute(n, i)
                 PROVE  Kept /\ RowsKept
  <2> USE <1>ExecuteKeeps
  <2>1. ASSUME NEW state \in RunStates, stamp_lease_state(n, i, state)
        PROVE  Kept
    <3>1. CASE UNCHANGED <<store, held>>
      BY <3>1, Zenon DEF Kept
    <3>2. ASSUME NEW h \in held[n], NEW answer \in BucketAnswers, put(h, stamped(h, state), answer)
          PROVE  Kept
      <4>1. h \in LeaseRecord
        BY LeaseTypes, Zenon
      <4>2. stamped(h, state) \in LeaseRecord
        BY <4>1, BuiltTypes, Zenon
      <4>3. stamped(h, state).owner = h.owner /\ stamped(h, state).epoch = h.epoch
        BY <4>1, <1>BuiltKeeps, Zenon
      <4> QED
        BY <3>2, <4>1, <4>2, <4>3, <1>HeldWriteKeeps, Zenon
    <3> QED
      BY <2>1, <3>1, <3>2, Zenon DEF stamp_lease_state
  <2>2. Kept
    <3>1. CASE execute_begin(n, i)
      BY <2>1, <3>1, StateTypes, Zenon DEF execute_begin
    <3>2. CASE execute_finish(n, i) \/ stamp_read(n, i)
      BY <3>2, Zenon DEF execute_finish, stamp_read, leaseVars, Kept
    <3>3. CASE stamp_write(n, i)
      <4>1. PICK s \in stamps[n] : s.state # "unread" /\ stamp_lease_state(n, i, s.state)
        BY <3>3, Zenon DEF stamp_write
      <4>2. stamps[n] \subseteq Stamp
        BY Zenon DEF FleetTypeOK
      <4>3. s.state \in RunStates
        BY <4>1, <4>2, Zenon DEF Stamp
      <4> QED
        BY <2>1, <4>1, <4>3, Zenon
    <3> QED
      BY <3>1, <3>2, <3>3, Zenon DEF execute
  <2>3. row' = row
    BY Zenon DEF execute, execute_begin, execute_finish, stamp_read, stamp_write, journal
  <2> QED
    BY <2>2, <2>3, Zenon DEF RowsKept
\* So does a renewal.
<1>RenewKeeps. ASSUME FleetTypeOK, NEW n \in Nodes, pass_renew(n)
               PROVE  Kept /\ RowsKept
  <2> USE <1>RenewKeeps
  <2>1. CASE UNCHANGED store
    BY <2>1, Zenon DEF Kept, RowsKept, pass_renew, journal
  <2>2. ASSUME NEW h \in held[n], NEW now \in Clocks, NEW answer \in BucketAnswers,
               put(h, renewed(h, now, lease_state_for(journal_state(n, h.instance_id))), answer)
        PROVE  Kept
    <3> DEFINE s == lease_state_for(journal_state(n, h.instance_id))
    <3>1. h \in LeaseRecord
      BY LeaseTypes, Zenon
    <3>2. s \in RunStates
      BY FleetAssumption, Zenon DEF lease_state_for
    <3>3. put(h, renewed(h, now, s), answer)
      BY <2>2, Zenon
    <3> HIDE DEF s
    <3>4. renewed(h, now, s) \in LeaseRecord
      BY <3>1, <3>2, BuiltTypes, Zenon
    <3>5. renewed(h, now, s).owner = h.owner /\ renewed(h, now, s).epoch = h.epoch
      BY <3>1, Zenon DEF renewed, LeaseRecord
    <3> QED
      BY <3>1, <3>3, <3>4, <3>5, <1>HeldWriteKeeps, Zenon
  <2>3. Kept
    BY <2>1, <2>2, Zenon DEF pass_renew
  <2>4. row' = row
    BY Zenon DEF pass_renew, journal
  <2> QED
    BY <2>3, <2>4, Zenon DEF RowsKept
\* Fencing marks a row or drops it.
<1>FencingKeeps. ASSUME FleetTypeOK, NEW n \in Nodes, fence(n) \/ confirm(n)
                 PROVE  Kept /\ RowsKept
  <2> USE <1>FencingKeeps
  <2>1. row \in [Nodes -> SUBSET Row]
    BY Zenon DEF FleetTypeOK
  <2>2. Kept
    BY Zenon DEF fence, confirm, leaseVars, Kept
  <2>3. CASE fence(n)
    <3>1. row' = [row EXCEPT ![n] = {[r EXCEPT !.fencing = TRUE] : r \in row[n]}]
      BY <2>3, Zenon DEF fence
    <3>2. \A r \in Row : [r EXCEPT !.fencing = TRUE].epoch = r.epoch
      BY Zenon DEF Row
    <3>3. RowsKept
      <4> SUFFICES ASSUME NEW m \in Nodes, NEW q \in row'[m]
                   PROVE  \E r \in row[m] : r.epoch = q.epoch
        BY Zenon DEF RowsKept
      <4>1. CASE m = n
        <5>1. PICK r \in row[n] : q = [r EXCEPT !.fencing = TRUE]
          BY <2>1, <3>1, <4>1, Zenon
        <5>2. r \in Row
          BY <2>1, Zenon
        <5> QED
          BY <3>2, <4>1, <5>1, <5>2, Zenon
      <4>2. CASE m # n
        BY <2>1, <3>1, <4>2, Zenon
      <4> QED
        BY <4>1, <4>2, Zenon
    <3> QED
      BY <2>2, <3>3, Zenon
  <2>4. CASE confirm(n)
    <3>1. \A m \in Nodes : row'[m] \subseteq row[m]
      BY <2>1, <2>4, Zenon DEF confirm
    <3> QED
      BY <2>2, <3>1, Zenon DEF RowsKept
  <2> QED
    BY <2>3, <2>4, Zenon
\* A release writes the owner's own lease, and drops its row.
<1>ReleaseKeeps. ASSUME FleetTypeOK, NEW n \in Nodes, release_lease(n)
                 PROVE  Kept /\ RowsKept
  <2> USE <1>ReleaseKeeps
  <2>1. row \in [Nodes -> SUBSET Row] /\ mine \in [Nodes -> SUBSET LeaseRecord]
    BY Zenon DEF FleetTypeOK
  <2>2. PICK h \in mine[n], answer \in BucketAnswers :
          /\ put(h, released(h), answer)
          /\ row' = [row EXCEPT ![n] = IF answer = "error" THEN row[n] ELSE {}]
    BY Zenon DEF release_lease
  <2>3. h \in LeaseRecord
    BY <2>1, Zenon
  <2>4. released(h) \in LeaseRecord
    BY <2>3, BuiltTypes, Zenon
  <2>5. released(h).owner = h.owner /\ released(h).epoch = h.epoch
    BY <2>3, <1>BuiltKeeps, Zenon
  <2>6. Kept
    BY <2>2, <2>3, <2>4, <2>5, <1>HeldWriteKeeps, Zenon
  <2>7. \A m \in Nodes : row'[m] \subseteq row[m]
    BY <2>1, <2>2, Zenon
  <2> QED
    BY <2>6, <2>7, Zenon DEF RowsKept
\* Naming the instance changes nothing of the claim.
<1>NameKeeps. ASSUME FleetTypeOK, NEW n \in Nodes, name_instance(n)
              PROVE  Kept /\ RowsKept
  <2> USE <1>NameKeeps
  <2>1. /\ row \in [Nodes -> SUBSET Row] /\ mine \in [Nodes -> SUBSET LeaseRecord]
        /\ target \in [Nodes -> InstanceIds \cup {""}]
    BY Zenon DEF FleetTypeOK
  <2>2. PICK h \in mine[n], answer \in BucketAnswers : put(h, naming(h, target[n]), answer)
    BY Zenon DEF name_instance
  <2>3. h \in LeaseRecord
    BY <2>1, Zenon
  <2>4. naming(h, target[n]) \in LeaseRecord
    BY <2>1, <2>3, BuiltTypes, Zenon
  <2>5. naming(h, target[n]).owner = h.owner /\ naming(h, target[n]).epoch = h.epoch
    BY <2>3, <1>BuiltKeeps, Zenon
  <2>6. Kept
    BY <2>2, <2>3, <2>4, <2>5, <1>HeldWriteKeeps, Zenon
  <2>7. \/ row' = row
        \/ row' = [row EXCEPT ![n] = {[r EXCEPT !.instance_id = target[n]] : r \in row[n]}]
    BY Zenon DEF name_instance
  <2>8. \A r \in Row : [r EXCEPT !.instance_id = target[n]].epoch = r.epoch
    BY Zenon DEF Row
  <2>9. RowsKept
    <3>1. CASE row' = row
      BY <3>1, Zenon DEF RowsKept
    <3>2. CASE row' = [row EXCEPT ![n] = {[r EXCEPT !.instance_id = target[n]] : r \in row[n]}]
      <4> SUFFICES ASSUME NEW m \in Nodes, NEW q \in row'[m]
                   PROVE  \E r \in row[m] : r.epoch = q.epoch
        BY Zenon DEF RowsKept
      <4>1. CASE m = n
        <5>1. PICK r \in row[n] : q = [r EXCEPT !.instance_id = target[n]]
          BY <2>1, <3>2, <4>1, Zenon
        <5>2. r \in Row
          BY <2>1, Zenon
        <5> QED
          BY <2>8, <4>1, <5>1, <5>2, Zenon
      <4>2. CASE m # n
        BY <2>1, <3>2, <4>2, Zenon
      <4> QED
        BY <4>1, <4>2, Zenon
    <3> QED
      BY <2>7, <3>1, <3>2, Zenon
  <2> QED
    BY <2>6, <2>9, Zenon
\* The rest touches neither the lease nor the rows.
<1>RestKeeps. ASSUME FleetTypeOK, NEW n \in Nodes,
                     \/ list(n) \/ sweep(n) \/ release_name(n) \/ acquire_desired(n) \/ realise(n)
                     \/ materialise(n) \/ recover(n) \/ join(n) \/ Crash(n) \/ Restart(n)
              PROVE  Kept /\ RowsKept
  <2> USE <1>RestKeeps
  <2>1. store' = store /\ row' = row
    BY Zenon DEF list, sweep, release_name, acquire_desired, realise, materialise, recover,
       join,
           Crash, Restart, leaseVars, journal
  <2> QED
    BY <2>1, Zenon DEF Kept, RowsKept
\* An acquisition for a release takes the lease and leaves the row behind.
<1>ReacquireTakes. ASSUME FleetTypeOK, NEW n \in Nodes, reacquire(n)
                   PROVE  (Kept \/ TakenBy(n)) /\ RowsKept
  <2> USE <1>ReacquireTakes
  <2>1. PICK a \in seen[n], answer \in BucketAnswers :
          put(a.lease, acquired(a.lease, n, a.now), answer)
    BY Zenon DEF reacquire
  <2>2. Kept \/ TakenBy(n)
    BY <2>1, <1>AcquisitionTakes, Zenon
  <2>3. row' = row
    BY Zenon DEF reacquire, journal
  <2> QED
    BY <2>2, <2>3, Zenon DEF RowsKept
\* An acquisition of a desired name.
<1>AcquireTakes. ASSUME FleetTypeOK, NEW n \in Nodes, acquire(n)
                 PROVE  /\ Kept \/ TakenBy(n)
                        /\ RowsKept \/ (store'.owner = n /\ hold_lease(n, store'))
  <2> USE <1>AcquireTakes
  <2>1. PICK a \in seen[n], answer \in BucketAnswers :
          /\ put(a.lease, acquired(a.lease, n, a.now), answer)
          /\ IF answer = "ok" THEN hold_lease(n, store') ELSE row' = row
    BY Zenon DEF acquire
  <2>2. /\ Kept \/ TakenBy(n)
        /\ answer = "ok" => store'.owner = n
    BY <2>1, <1>AcquisitionTakes, Zenon
  <2>3. CASE answer = "ok"
    BY <2>1, <2>2, <2>3, Zenon
  <2>4. CASE answer # "ok"
    BY <2>1, <2>2, <2>4, Zenon DEF RowsKept
  <2> QED
    BY <2>3, <2>4, Zenon
<1> SUFFICES ASSUME FleetTypeOK, FleetTypeOK', NoSharedClaim, [FleetNext]_fleetVars
             PROVE  NoSharedClaim'
  BY Zenon
<1>1. CASE store' = store /\ row' = row
  BY <1>1, Zenon DEF NoSharedClaim
<1>2. ASSUME NEW n \in Nodes, Kept \/ TakenBy(n), RowsKept
      PROVE  NoSharedClaim'
  BY <1>2, <1>KeptRowsExclude, Zenon
<1>3. ASSUME NEW n \in Nodes, pass_step(n) \/ Crash(n) \/ Restart(n)
      PROVE  NoSharedClaim'
  <2>1. CASE acquire(n)
    BY <1>2, <2>1, <1>AcquireTakes, <1>NewRowExcludes, Zenon
  <2>2. CASE reacquire(n)
    BY <1>2, <2>2, <1>ReacquireTakes, Zenon
  <2>3. CASE pass_renew(n)
    BY <1>2, <2>3, <1>RenewKeeps, Zenon
  <2>4. CASE fence(n) \/ confirm(n)
    BY <1>2, <2>4, <1>FencingKeeps, Zenon
  <2>5. CASE release_lease(n)
    BY <1>2, <2>5, <1>ReleaseKeeps, Zenon
  <2>6. CASE name_instance(n)
    BY <1>2, <2>6, <1>NameKeeps, Zenon
  <2>7. CASE \/ list(n) \/ sweep(n) \/ release_name(n) \/ acquire_desired(n) \/ realise(n)
             \/ materialise(n) \/ recover(n) \/ join(n) \/ Crash(n) \/ Restart(n)
    BY <1>2, <2>7, <1>RestKeeps, Zenon
  <2> QED
    BY <1>3, <2>1, <2>2, <2>3, <2>4, <2>5, <2>6, <2>7, Zenon DEF pass_step
<1>4. ASSUME NEW n \in Nodes, NEW i \in InstanceIds, execute(n, i)
      PROVE  NoSharedClaim'
  BY <1>2, <1>4, <1>ExecuteKeeps, Zenon
<1>5. ASSUME NEW n \in Nodes, NEW i \in InstanceIds, NEW kind \in ClientKinds,
             client(n, i, kind)
      PROVE  NoSharedClaim'
  BY <1>1, <1>5, Zenon DEF client, leaseVars
<1>6. CASE withdraw \/ \E d \in Desired : apply(d)
  BY <1>1, <1>6, Zenon DEF withdraw, apply, leaseVars, journal
<1>7. CASE UNCHANGED fleetVars
  BY <1>1, <1>7, Zenon DEF fleetVars, leaseVars, journal
<1> QED
  BY <1>3, <1>4, <1>5, <1>6, <1>7, Zenon DEF FleetNext

\* What the journals of the nodes say is owned is never claimed twice, across any
\* crashes and whatever the bucket answers (NoSharedClaim): an epoch and an owner are
\* enough for recover to tell its own lease from a lost one.
THEOREM ClaimsExclude == FleetSpec => []NoSharedClaim
<1>1. FleetInit => NoSharedClaim
  BY Zenon DEF FleetInit, Unasked, NoSharedClaim
<1>2. FleetTypeOK /\ FleetTypeOK' /\ NoSharedClaim /\ [FleetNext]_fleetVars => NoSharedClaim'
  BY NextExcludes, Zenon
<1> QED
  BY <1>1, <1>2, FleetTypeCorrect, PTL DEF FleetSpec
===============================================================================
