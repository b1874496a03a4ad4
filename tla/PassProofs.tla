----------------------------- MODULE PassProofs ------------------------------
(***************************************************************************)
(* The pass of the fleet phase, for any set of nodes, instances, clocks    *)
(* and bounds, with lost answers, crashes and an unreachable bucket: where *)
(* a pass is with what it has of the lease, that all the phase does is     *)
(* what a client of the lease may do, and that teardown comes before       *)
(* release.                                                                *)
(***************************************************************************)
EXTENDS FleetProofs

(***************************************************************************)
(* The phase as a client of the lease.  What a pass holds and has read is  *)
(* tied to where it is: it works from at most one copy, and it reads for   *)
(* an acquisition only while it holds nothing.                             *)
(***************************************************************************)
Working == {"release", "unlease", "realise", "name", "materialise"}
Acquiring == {"acquire", "reacquire"}

\* What a node holds, works from and has read agrees with where its pass is.
Placed(n, hs, ms, ss, p, t) ==
    /\ \A h, k \in hs : h = k
    /\ \A h, k \in ms : h = k
    /\ ms # {} => p \in Working
    /\ ss # {} => p \in Acquiring
    /\ p \in Acquiring => hs = {}
    /\ \A a \in ss : acquired(a.lease, n, a.now).epoch <= MaxEpoch
    /\ p \in {"name", "materialise"} => t \in InstanceIds

\* Every Held and every copy of one is of its node, and the object is in bounds.
PassInv ==
    /\ \A n \in Nodes : Placed(n, held[n], mine[n], seen[n], pc[n], target[n])
    /\ \A n \in Nodes : \A h \in held[n] \cup mine[n] : h.owner = n
    /\ store.epoch <= MaxEpoch
    /\ ~UniqueTags => store.version = 0

\* What a step of n does to what n has of the lease, and to nobody else's.
Has(n) == held[n] \cup mine[n]
HasNext(n) == held'[n] \cup mine'[n]
Others(n) ==
    \A m \in Nodes \ {n} : /\ held'[m] = held[m] /\ mine'[m] = mine[m]
                           /\ seen'[m] = seen[m]
                           /\ pc'[m] = pc[m] /\ target'[m] = target[m]

\* n keeps of what it has, and drops the rest.
Drops(n) ==
    /\ store' = store
    /\ HasNext(n) \subseteq Has(n)
    /\ seen' \in {seen, [seen EXCEPT ![n] = {}]}

\* n reads the object for an acquisition.
Reads(n) ==
    /\ store' = store /\ HasNext(n) = Has(n) /\ seen[n] = {}
    /\ acquire_reads(n)

\* n acquires on the strength of a read.
Acquires(n) ==
    \E a \in seen[n], answer \in Answers :
        /\ put(a.lease, acquired(a.lease, n, a.now), answer)
        /\ seen' = [seen EXCEPT ![n] = {}]
        /\ HasNext(n) = IF answer = "ok" THEN Has(n) \cup {store'} ELSE Has(n)

\* The leases that a Held may be replaced by.
Successors(h) ==
    {renewed(h, now, s) : now \in Clocks, s \in RunStates}
    \cup {stamped(h, s) : s \in RunStates}
    \cup {naming(h, i) : i \in InstanceIds}

\* n writes on the strength of what it has.
Writes(n) ==
    \E h \in Has(n), answer \in Answers : \E lease \in Successors(h) :
        /\ put(h, lease, answer)
        /\ seen' = seen
        /\ \E kept \in SUBSET Has(n) :
              HasNext(n) = IF answer = "ok" THEN kept \cup {store'} ELSE kept

\* n gives the name up, where its pass has seen the teardown through.
Releases(n) ==
    /\ pc[n] = "unlease"
    /\ \E h \in mine[n], answer \in Answers :
        /\ put(h, released(h), answer)
        /\ seen' = seen
        /\ HasNext(n) \subseteq Has(n)

ClientStep(n) == Drops(n) \/ Reads(n) \/ Acquires(n) \/ Writes(n) \/ Releases(n)

\* A step of n as a client of the lease that leaves its pass well placed.
GoodStep(n) ==
    /\ ClientStep(n) /\ Others(n)
    /\ Placed(n, held'[n], mine'[n], seen'[n], pc'[n], target'[n])

\* What a conditional write leaves behind.
LEMMA PutLeaves ==
    ASSUME FleetTypeOK, NEW expected, NEW lease \in LeaseRecord, NEW answer,
           put(expected, lease, answer)
    PROVE  /\ \/ store' = store
              \/ /\ store = expected
                 /\ store'.owner = lease.owner /\ store'.epoch = lease.epoch
                 /\ store'.expires_ms = lease.expires_ms
                 /\ store'.instance_id = lease.instance_id
                 /\ ~UniqueTags => store'.version = 0
           /\ answer = "ok" => store = expected /\ store'.owner = lease.owner
<1> DEFINE written == [lease EXCEPT !.version = IF UniqueTags THEN store.version + 1 ELSE 0]
<1>1. /\ written.owner = lease.owner /\ written.epoch = lease.epoch
      /\ written.expires_ms = lease.expires_ms /\ written.instance_id = lease.instance_id
      /\ ~UniqueTags => written.version = 0
  BY Zenon DEF LeaseRecord
<1>2. \/ store' = store /\ answer # "ok"
      \/ store = expected /\ store' = written
  BY Zenon DEF put
<1> HIDE DEF written
<1> QED
  BY <1>1, <1>2, Zenon

\* A successor of a Held is a lease of its owner, in its epoch.
LEMMA SuccessorKeeps ==
    ASSUME NEW h \in LeaseRecord, NEW lease \in Successors(h)
    PROVE  lease \in LeaseRecord /\ lease.owner = h.owner /\ lease.epoch = h.epoch
<1>1. CASE lease \in {renewed(h, now, s) : now \in Clocks, s \in RunStates}
  <2>1. PICK now \in Clocks, s \in RunStates : lease = renewed(h, now, s)
    BY <1>1
  <2>2. lease \in LeaseRecord
    BY <2>1, BuiltTypes, Zenon
  <2> QED
    BY <2>1, <2>2, Zenon DEF renewed, LeaseRecord
<1>2. CASE lease \in {stamped(h, s) : s \in RunStates}
  <2>1. PICK s \in RunStates : lease = stamped(h, s)
    BY <1>2, Zenon
  <2>2. lease \in LeaseRecord
    BY <2>1, BuiltTypes, Zenon
  <2> QED
    BY <2>1, <2>2, Zenon DEF stamped, LeaseRecord
<1>3. CASE lease \in {naming(h, i) : i \in InstanceIds}
  <2>1. PICK i \in InstanceIds : lease = naming(h, i)
    BY <1>3, Zenon
  <2>2. lease \in LeaseRecord
    BY <2>1, BuiltTypes, Zenon
  <2> QED
    BY <2>1, <2>2, Zenon DEF naming, LeaseRecord
<1> QED
  BY <1>1, <1>2, <1>3 DEF Successors

\* What an acquisition writes is a lease of n.
LEMMA AcquiredLease ==
    ASSUME FleetTypeOK, NEW n \in Nodes, NEW a \in seen[n]
    PROVE  /\ acquired(a.lease, n, a.now) \in LeaseRecord
           /\ acquired(a.lease, n, a.now).owner = n
<1>1. seen[n] \subseteq [lease : LeaseRecord, now : Clocks]
  BY LeaseTypes, Zenon
<1>2. a.lease \in LeaseRecord /\ a.now \in Clocks
  BY <1>1, Zenon
<1>3. acquired(a.lease, n, a.now) \in LeaseRecord
  BY <1>2, BuiltTypes, Zenon
<1> QED
  BY <1>2, <1>3, Zenon DEF acquired, LeaseRecord

\* The invariant follows from what a good step is.
LEMMA GoodStepKeeps ==
    ASSUME FleetTypeOK, PassInv, NEW n \in Nodes, GoodStep(n)
    PROVE  PassInv'
<1>1. \A m \in Nodes : Placed(m, held'[m], mine'[m], seen'[m], pc'[m], target'[m])
  BY Zenon DEF GoodStep, Others, PassInv
<1>h. Has(n) \subseteq LeaseRecord
  BY LeaseTypes, Zenon DEF Has, HasNext
<1>o. \A h \in Has(n) : h.owner = n
  BY Zenon DEF PassInv, Has, HasNext
<1> DEFINE Bounded == store'.epoch <= MaxEpoch /\ (~UniqueTags => store'.version = 0)
           Owned == \A h \in HasNext(n) : h.owner = n
<1>2. CASE Drops(n) \/ Reads(n)
  <2>1. Bounded
    BY <1>2, Zenon DEF Drops, Reads, PassInv
  <2>2. Owned
    BY <1>2, <1>o, Zenon DEF Drops, Reads
  <2> QED
    BY <2>1, <2>2, <1>1, Zenon DEF PassInv, Has, HasNext, GoodStep, Others
<1>3. CASE Acquires(n)
  <2>1. PICK a \in seen[n], answer \in Answers :
          /\ put(a.lease, acquired(a.lease, n, a.now), answer)
          /\ HasNext(n) = IF answer = "ok" THEN Has(n) \cup {store'} ELSE Has(n)
    BY <1>3, Zenon DEF Acquires
  <2>2. acquired(a.lease, n, a.now) \in LeaseRecord /\ acquired(a.lease, n, a.now).owner = n
    BY AcquiredLease, Zenon
  <2>3. acquired(a.lease, n, a.now).epoch <= MaxEpoch
    BY Zenon DEF PassInv, Placed
  <2>4. PICK lease : lease = acquired(a.lease, n, a.now)
    BY Zenon
  <2>5. /\ \/ store' = store
           \/ store'.epoch = lease.epoch /\ (~UniqueTags => store'.version = 0)
        /\ answer = "ok" => store'.owner = n
    BY <2>1, <2>2, <2>4, PutLeaves, Zenon
  <2>6. Bounded
    BY <2>3, <2>4, <2>5, Zenon DEF PassInv
  <2>7. Owned
    BY <2>1, <2>5, <1>o, Zenon
  <2> QED
    BY <2>6, <2>7, <1>1, Zenon DEF PassInv, Has, HasNext, GoodStep, Others
<1>4. ASSUME NEW h \in Has(n), NEW answer, NEW lease \in LeaseRecord,
             lease.owner = h.owner, lease.epoch = h.epoch, put(h, lease, answer),
             \A k \in HasNext(n) : k \in Has(n) \/ (answer = "ok" /\ k = store')
      PROVE  PassInv'
  <2>1. /\ \/ store' = store
           \/ store = h /\ store'.epoch = lease.epoch /\ (~UniqueTags => store'.version = 0)
        /\ answer = "ok" => store'.owner = lease.owner
    BY <1>4, PutLeaves, Zenon
  <2>2. Bounded
    BY <1>4, <2>1, Zenon DEF PassInv
  <2>3. Owned
    BY <1>4, <2>1, <1>o, Zenon
  <2> QED
    BY <2>2, <2>3, <1>1, Zenon DEF PassInv, Has, HasNext, GoodStep, Others
<1>5. CASE Writes(n)
  <2>1. PICK h \in Has(n), answer \in Answers : \E lease \in Successors(h) :
          /\ put(h, lease, answer)
          /\ \E kept \in SUBSET Has(n) :
                HasNext(n) = IF answer = "ok" THEN kept \cup {store'} ELSE kept
    BY <1>5, Zenon DEF Writes
  <2>2. PICK lease \in Successors(h) :
          /\ put(h, lease, answer)
          /\ \E kept \in SUBSET Has(n) :
                HasNext(n) = IF answer = "ok" THEN kept \cup {store'} ELSE kept
    BY <2>1, Zenon
  <2>3. lease \in LeaseRecord /\ lease.owner = h.owner /\ lease.epoch = h.epoch
    BY <1>h, SuccessorKeeps, Zenon
  <2>4. \A k \in HasNext(n) : k \in Has(n) \/ (answer = "ok" /\ k = store')
    BY <2>2, Zenon
  <2> QED
    BY <2>2, <2>3, <2>4, <1>4, Zenon
<1>6. CASE Releases(n)
  <2>1. PICK h \in Has(n), answer \in Answers :
          put(h, released(h), answer) /\ HasNext(n) \subseteq Has(n)
    BY <1>6, Zenon DEF Releases, Has, HasNext
  <2>2. released(h) \in LeaseRecord
    BY <1>h, BuiltTypes, Zenon
  <2>3. released(h).owner = h.owner /\ released(h).epoch = h.epoch
    BY <1>h, Zenon DEF released, LeaseRecord
  <2> QED
    BY <2>1, <2>2, <2>3, <1>4, Zenon
<1> QED
  BY <1>2, <1>3, <1>5, <1>6, Zenon DEF GoodStep, ClientStep

\* The functions that a step of n changes at n only.
LEMMA Domains ==
    ASSUME FleetTypeOK
    PROVE  /\ DOMAIN held = Nodes /\ DOMAIN mine = Nodes /\ DOMAIN seen = Nodes
           /\ DOMAIN pc = Nodes /\ DOMAIN target = Nodes
  BY Zenon DEF FleetTypeOK, LeaseTypeOK

\* The end of a pass.
LEMMA EndPassPlace ==
    ASSUME FleetTypeOK, NEW n \in Nodes, EndPass(n)
    PROVE  /\ pc'[n] = "idle" /\ mine'[n] = {} /\ target'[n] = ""
           /\ \A m \in Nodes \ {n} : mine'[m] = mine[m] /\ pc'[m] = pc[m] /\ target'[m] = target[m]
  BY Domains, Zenon DEF EndPass

\* A pass that is elsewhere works from nothing and has read nothing.
LEMMA Elsewhere ==
    ASSUME PassInv, NEW n \in Nodes
    PROVE  /\ Placed(n, held[n], mine[n], seen[n], pc[n], target[n])
           /\ pc[n] \notin Working => mine[n] = {}
           /\ pc[n] \notin Acquiring => seen[n] = {}
  BY Zenon DEF PassInv, Placed

\* Every step of a pass and of an executor is a good step.
LEMMA StepGood ==
    FleetTypeOK /\ PassInv =>
        /\ \A n \in Nodes : pass_step(n) \/ Crash(n) \/ Restart(n) => GoodStep(n)
        /\ \A n \in Nodes, i \in InstanceIds : execute(n, i) => GoodStep(n)
\* A step that leaves the lease and the pass alone.
<1>IdleGood. ASSUME PassInv, NEW n \in Nodes, UNCHANGED <<leaseVars, pc, mine, target>>
             PROVE  GoodStep(n)
  <2> USE <1>IdleGood
  <2>1. UNCHANGED <<store, held, seen>>
    BY Zenon DEF leaseVars
  <2>2. ClientStep(n)
    BY <2>1, Zenon DEF ClientStep, Drops, Has, HasNext
  <2>3. Others(n)
    BY <2>1, Zenon DEF Others
  <2>4. Placed(n, held[n], mine[n], seen[n], pc[n], target[n])
    BY Zenon DEF PassInv
  <2> QED
    BY <2>1, <2>2, <2>3, <2>4, Zenon DEF GoodStep
\* A stamp is a write from the map's entry, or nothing.
<1>StampGood. ASSUME FleetTypeOK, PassInv, NEW n \in Nodes, NEW i, NEW state \in RunStates,
                     stamp_lease_state(n, i, state), UNCHANGED <<seen, pc, mine, target>>
              PROVE  GoodStep(n)
  <2> USE <1>StampGood
  <2>1. CASE UNCHANGED <<store, held>>
    BY <2>1, <1>IdleGood, Zenon DEF leaseVars
  <2>2. ASSUME NEW h \in held[n], NEW answer \in BucketAnswers,
               put(h, stamped(h, state), answer),
               held' = [held EXCEPT ![n] = IF answer = "ok" THEN {store'} ELSE held[n]]
        PROVE  GoodStep(n)
    <3>1. held'[n] = IF answer = "ok" THEN {store'} ELSE held[n]
      BY <2>2, Domains, Zenon
    <3>2. Others(n)
      BY <2>2, Domains, Zenon DEF Others
    <3>3. Placed(n, held[n], mine[n], seen[n], pc[n], target[n])
      BY Zenon DEF PassInv
    <3>4. Placed(n, held'[n], mine'[n], seen'[n], pc'[n], target'[n])
      BY <2>2, <3>1, <3>3 DEF Placed
    <3>5. stamped(h, state) \in Successors(h) /\ answer \in Answers /\ h \in Has(n)
      BY <2>2 DEF Successors, BucketAnswers, Answers, Has, HasNext
    <3>6. \E kept \in SUBSET Has(n) :
             HasNext(n) = IF answer = "ok" THEN kept \cup {store'} ELSE kept
      <4>1. CASE answer = "ok"
        <5>1. HasNext(n) = mine[n] \cup {store'} /\ mine[n] \in SUBSET Has(n)
          BY <3>1, <4>1, Zenon DEF Has, HasNext
        <5> QED
          BY <4>1, <5>1, Zenon
      <4>2. CASE answer # "ok"
        <5>1. HasNext(n) = Has(n)
          BY <3>1, <4>2, Zenon DEF Has, HasNext
        <5> QED
          BY <4>2, <5>1, Zenon
      <4> QED
        BY <4>1, <4>2, Zenon
    <3>7. Writes(n)
      BY <2>2, <3>5, <3>6, Zenon DEF Writes
    <3> QED
      BY <3>2, <3>4, <3>7, Zenon DEF GoodStep, ClientStep
  <2> QED
    BY <2>1, <2>2, Zenon DEF stamp_lease_state
\* The executor of an operation.
<1>ExecuteGood. ASSUME FleetTypeOK, PassInv, NEW n \in Nodes, NEW i \in InstanceIds, execute(n, i)
                PROVE  GoodStep(n)
  <2> USE <1>ExecuteGood
  <2>1. CASE execute_begin(n, i)
    <3>1. stamp_lease_state(n, i, lease_state_for(inst[n][i])) /\ UNCHANGED <<seen, pass>>
      BY <2>1, Zenon DEF execute_begin
    <3> QED
      BY <3>1, StateTypes, <1>StampGood, Zenon DEF pass
  <2>2. CASE execute_finish(n, i) \/ stamp_read(n, i)
    <3>1. UNCHANGED <<leaseVars, pass>>
      BY <2>2, Zenon DEF execute_finish, stamp_read
    <3> QED
      BY <3>1, <1>IdleGood, Zenon DEF pass
  <2>3. CASE stamp_write(n, i)
    <3>1. PICK s \in stamps[n] : s.state # "unread" /\ stamp_lease_state(n, i, s.state)
      BY <2>3, Zenon DEF stamp_write
    <3>a. stamps[n] \subseteq Stamp
      BY Zenon DEF FleetTypeOK
    <3>b. s \in Stamp
      BY <3>a, Zenon
    <3>2. s.state \in RunStates
      BY <3>1, <3>b, Zenon DEF Stamp
    <3>3. UNCHANGED <<seen, pass>>
      BY <2>3, Zenon DEF stamp_write
    <3> QED
      BY <3>1, <3>2, <3>3, <1>StampGood, Zenon DEF pass
  <2> QED
    BY <2>1, <2>2, <2>3, Zenon DEF execute
\* The renewal that opens a pass.
<1>RenewGood. ASSUME FleetTypeOK, PassInv, NEW n \in Nodes, pass_renew(n)
              PROVE  GoodStep(n)
  <2> USE <1>RenewGood
  <2>1. pc[n] = "idle" /\ UNCHANGED <<seen, mine>>
    BY Zenon DEF pass_renew
  <2>2. Placed(n, held[n], mine[n], seen[n], pc[n], target[n])
    BY Zenon DEF PassInv
  <2>3. mine[n] = {} /\ seen[n] = {}
    BY <2>1, <2>2, Zenon DEF Placed, Working, Acquiring
  <2>4. CASE held[n] = {} /\ pc' = [pc EXCEPT ![n] = "list"] /\ UNCHANGED <<store, held, target>>
    <3>1. Others(n) /\ Drops(n)
      BY <2>1, <2>4, Domains, Zenon DEF Others, Drops, Has, HasNext
    <3>2. Placed(n, held'[n], mine'[n], seen'[n], pc'[n], target'[n])
      BY <2>1, <2>2, <2>3, <2>4, Domains, Zenon DEF Placed, Working, Acquiring
    <3> QED
      BY <3>1, <3>2, Zenon DEF GoodStep, ClientStep
  <2>5. ASSUME NEW h \in held[n], NEW now \in Clocks, NEW answer \in BucketAnswers,
               put(h, renewed(h, now, lease_state_for(journal_state(n, h.instance_id))), answer),
               \/ /\ answer = "ok"
                  /\ held' = [held EXCEPT ![n] = {store'}]
                  /\ pc' = [pc EXCEPT ![n] = "list"]
                  /\ UNCHANGED target
               \/ /\ answer = "refused"
                  /\ held' = [held EXCEPT ![n] = {}]
                  /\ pc' = [pc EXCEPT ![n] = "fence"]
                  /\ target' = [target EXCEPT ![n] = h.instance_id]
               \/ /\ answer = "error"
                  /\ UNCHANGED <<held, pc, target>>
        PROVE  GoodStep(n)
    <3>1. held'[n] \in {held[n], {}, {store'}} /\ pc'[n] \in {"idle", "list", "fence"}
          /\ (answer = "ok" => held'[n] = {store'}) /\ (answer # "ok" => held'[n] \subseteq held[n])
      BY <2>1, <2>5, Domains, Zenon
    <3>2. Others(n)
      BY <2>1, <2>5, Domains, Zenon DEF Others
    <3>3. Placed(n, held'[n], mine'[n], seen'[n], pc'[n], target'[n])
      BY <2>1, <2>2, <2>3, <3>1, Zenon DEF Placed, Working, Acquiring
    <3>4. lease_state_for(journal_state(n, h.instance_id)) \in RunStates
      BY StateTypes, Zenon
    <3>5. PICK lease \in Successors(h) : put(h, lease, answer)
      BY <2>5, <3>4 DEF Successors
    <3>6. answer \in Answers /\ h \in Has(n) /\ Has(n) = held[n] /\ HasNext(n) = held'[n]
      BY <2>1, <2>3, <2>5, Zenon DEF BucketAnswers, Answers, Has, HasNext
    <3>7. \E kept \in SUBSET Has(n) :
             HasNext(n) = IF answer = "ok" THEN kept \cup {store'} ELSE kept
      <4>1. CASE answer = "ok"
        <5>1. {} \in SUBSET Has(n) /\ HasNext(n) = {} \cup {store'}
          BY <3>1, <3>6, <4>1, Zenon
        <5> QED
          BY <4>1, <5>1, Zenon
      <4>2. CASE answer # "ok"
        BY <3>1, <3>6, <4>2, Zenon
      <4> QED
        BY <4>1, <4>2, Zenon
    <3>8. Writes(n)
      BY <2>1, <3>5, <3>6, <3>7, Zenon DEF Writes
    <3> QED
      BY <3>2, <3>3, <3>8, Zenon DEF GoodStep, ClientStep
  <2> QED
    BY <2>4, <2>5, Zenon DEF pass_renew
\* Steps that move the pass and leave the lease alone, and what it has of it.
<1>MoveGood. ASSUME FleetTypeOK, PassInv, NEW n \in Nodes,
                    fence(n) \/ confirm(n) \/ recover(n) \/ join(n) \/ Restart(n)
             PROVE  GoodStep(n)
  <2> USE <1>MoveGood
  <2>1. UNCHANGED <<store, held, seen, mine>>
    BY Zenon DEF fence, confirm, recover, join, Restart, leaseVars
  <2>2. /\ pc[n] \in {"fence", "refence", "confirm", "reconfirm", "recover", "join", "down"}
        /\ pc'[n] \in {"confirm", "reconfirm", "list", "join", "refence", "recover", "idle", "alone"}
        /\ \A m \in Nodes \ {n} : pc'[m] = pc[m] /\ target'[m] = target[m]
    BY Domains, Zenon DEF fence, confirm, recover, join, Restart
  <2>3. mine[n] = {} /\ seen[n] = {} /\ Placed(n, held[n], mine[n], seen[n], pc[n], target[n])
    BY <2>2, Elsewhere, Zenon DEF Working, Acquiring
  <2>4. Placed(n, held'[n], mine'[n], seen'[n], pc'[n], target'[n])
    BY <2>1, <2>2, <2>3, Zenon DEF Placed, Working, Acquiring
  <2>5. Drops(n) /\ Others(n)
    BY <2>1, <2>2, Zenon DEF Drops, Others, Has, HasNext
  <2> QED
    BY <2>4, <2>5, Zenon DEF GoodStep, ClientStep
\* A crash drops everything.
<1>CrashGood. ASSUME FleetTypeOK, PassInv, NEW n \in Nodes, Crash(n)
              PROVE  GoodStep(n)
  <2> USE <1>CrashGood
  <2>1. /\ held'[n] = {} /\ mine'[n] = {} /\ seen'[n] = {} /\ pc'[n] = "down"
        /\ seen' = [seen EXCEPT ![n] = {}] /\ store' = store
    BY Domains, Zenon DEF Crash
  <2>2. Others(n)
    BY Domains, Zenon DEF Crash, Others
  <2>3. Placed(n, held'[n], mine'[n], seen'[n], pc'[n], target'[n])
    BY <2>1, Zenon DEF Placed, Working, Acquiring
  <2>4. Drops(n)
    BY <2>1, Zenon DEF Drops, Has, HasNext
  <2> QED
    BY <2>2, <2>3, <2>4, Zenon DEF GoodStep, ClientStep
\* The end of a pass that has read nothing drops the copy it worked from.
<1>EndGood. ASSUME FleetTypeOK, PassInv, NEW n \in Nodes, EndPass(n), pc[n] \notin Acquiring,
                   UNCHANGED leaseVars
            PROVE  GoodStep(n)
  <2> USE <1>EndGood
  <2>1. /\ pc'[n] = "idle" /\ mine'[n] = {}
        /\ \A m \in Nodes \ {n} : mine'[m] = mine[m] /\ pc'[m] = pc[m] /\ target'[m] = target[m]
    BY EndPassPlace, Zenon
  <2>2. UNCHANGED <<store, held, seen>>
    BY Zenon DEF leaseVars
  <2>3. Others(n) /\ Drops(n)
    BY <2>1, <2>2, Zenon DEF Others, Drops, Has, HasNext
  <2>4. seen[n] = {} /\ Placed(n, held[n], mine[n], seen[n], pc[n], target[n])
    BY Elsewhere, Zenon
  <2>5. Placed(n, held'[n], mine'[n], seen'[n], pc'[n], target'[n])
    BY <2>1, <2>2, <2>4, Zenon DEF Placed, Working, Acquiring
  <2> QED
    BY <2>3, <2>5, Zenon DEF GoodStep, ClientStep
\* The listing, and what a pass looks at next: it takes a copy of the map's entry, or
\* reads the object.
<1>ListGood. ASSUME FleetTypeOK, PassInv, NEW n \in Nodes, list(n) \/ sweep(n) \/ acquire_desired(n)
             PROVE  GoodStep(n)
  <2> USE <1>ListGood
  <2>1. pc[n] \in {"list", "sweep", "want"} /\ UNCHANGED <<store, held>>
    BY Zenon DEF list, sweep, acquire_desired, leaseVars
  <2>2. /\ pc[n] \notin Acquiring /\ mine[n] = {} /\ seen[n] = {}
        /\ Placed(n, held[n], mine[n], seen[n], pc[n], target[n])
    BY <2>1, Elsewhere, Zenon DEF Working, Acquiring
  <2>3. CASE EndPass(n) /\ UNCHANGED seen
    BY <2>1, <2>2, <2>3, <1>EndGood, Zenon DEF leaseVars
  <2>4. ASSUME NEW p \in {"sweep", "want"}, pc' = [pc EXCEPT ![n] = p],
               UNCHANGED <<mine, target, seen>>
        PROVE  GoodStep(n)
    <3>1. pc'[n] = p /\ Others(n) /\ Drops(n)
      BY <2>1, <2>4, Domains, Zenon DEF Others, Drops, Has, HasNext
    <3>2. Placed(n, held'[n], mine'[n], seen'[n], pc'[n], target'[n])
      BY <2>1, <2>2, <2>4, <3>1, Zenon DEF Placed, Working, Acquiring
    <3> QED
      BY <3>1, <3>2, Zenon DEF GoodStep, ClientStep
  <2>5. ASSUME NEW p \in {"release", "realise"}, pc' = [pc EXCEPT ![n] = p],
               mine' = [mine EXCEPT ![n] = held[n]], UNCHANGED <<target, seen>>
        PROVE  GoodStep(n)
    <3>1. pc'[n] = p /\ mine'[n] = held[n]
      BY <2>5, Domains, Zenon
    <3>2. Others(n) /\ Drops(n)
      BY <2>1, <2>5, <3>1, Domains, Zenon DEF Others, Drops, Has, HasNext
    <3>3. Placed(n, held'[n], mine'[n], seen'[n], pc'[n], target'[n])
      BY <2>1, <2>2, <2>5, <3>1, Zenon DEF Placed, Working, Acquiring
    <3> QED
      BY <3>2, <3>3, Zenon DEF GoodStep, ClientStep
  <2>6. ASSUME NEW p \in Acquiring, pc' = [pc EXCEPT ![n] = p], held[n] = {},
               acquire_reads(n), UNCHANGED <<mine, target>>
        PROVE  GoodStep(n)
    <3>1. PICK now \in Clocks :
            /\ acquired(store, n, now).epoch <= MaxEpoch
            /\ seen' = [seen EXCEPT ![n] = {[lease |-> store, now |-> now]}]
      BY <2>6, Zenon DEF acquire_reads
    <3>2. pc'[n] = p /\ seen'[n] = {[lease |-> store, now |-> now]}
      BY <2>6, <3>1, Domains, Zenon
    <3>3. Others(n)
      BY <2>1, <2>6, <3>1, Domains, Zenon DEF Others
    <3>4. Reads(n)
      BY <2>1, <2>2, <2>6, Zenon DEF Reads, Has, HasNext
    <3>5. \A a \in seen'[n] : acquired(a.lease, n, a.now).epoch <= MaxEpoch
      BY <3>1, <3>2
    <3>6. Placed(n, held'[n], mine'[n], seen'[n], pc'[n], target'[n])
      BY <2>1, <2>2, <2>6, <3>2, <3>5, Zenon DEF Placed, Working, Acquiring
    <3> QED
      BY <3>3, <3>4, <3>6, Zenon DEF GoodStep, ClientStep
  <2>7. CASE list(n)
    BY <2>3, <2>4, <2>7, Zenon DEF list, leaseVars
  <2>8. CASE sweep(n)
    BY <2>3, <2>5, <2>6, <2>8, Zenon DEF sweep, Acquiring
  <2>9. CASE acquire_desired(n)
    BY <2>3, <2>5, <2>6, <2>9, Zenon DEF acquire_desired, Acquiring
  <2> QED
    BY <2>7, <2>8, <2>9, Zenon
\* The write of an acquisition, for a desired name or for one to release.
<1>AcquireGood. ASSUME FleetTypeOK, PassInv, NEW n \in Nodes, acquire(n) \/ reacquire(n)
                PROVE  GoodStep(n)
  <2> USE <1>AcquireGood
  <2>1. pc[n] \in Acquiring /\ seen' = [seen EXCEPT ![n] = {}]
    BY Zenon DEF acquire, reacquire, Acquiring
  <2>2. held[n] = {} /\ mine[n] = {}
    BY <2>1, Elsewhere, Zenon DEF Placed, Working, Acquiring
  <2>3. PICK a \in seen[n], answer \in BucketAnswers :
          /\ put(a.lease, acquired(a.lease, n, a.now), answer)
          /\ \/ /\ answer = "ok"
                /\ held' = [held EXCEPT ![n] = {store'}]
                /\ mine' = [mine EXCEPT ![n] = {store'}]
                /\ \E p \in {"realise", "release"} : pc' = [pc EXCEPT ![n] = p]
                /\ UNCHANGED target
             \/ answer # "ok" /\ EndPass(n) /\ UNCHANGED held
    <3>1. CASE acquire(n)
      BY <3>1, Zenon DEF acquire
    <3>2. CASE reacquire(n)
      BY <3>2, Zenon DEF reacquire
    <3> QED
      BY <3>1, <3>2, Zenon
  <2>4. seen'[n] = {} /\ answer \in Answers
    BY <2>1, Domains, Zenon DEF BucketAnswers, Answers
  <2>5. CASE answer = "ok"
    <3>1. PICK p \in {"realise", "release"} : pc' = [pc EXCEPT ![n] = p]
      BY <2>3, <2>5, Zenon
    <3>2. held'[n] = {store'} /\ mine'[n] = {store'} /\ pc'[n] = p
      BY <2>3, <2>5, <3>1, Domains, Zenon
    <3>3. Others(n)
      BY <2>1, <2>3, <2>5, <3>1, Domains, Zenon DEF Others
    <3>4. Placed(n, held'[n], mine'[n], seen'[n], pc'[n], target'[n])
      BY <2>4, <3>2, Zenon DEF Placed, Working, Acquiring
    <3>5. HasNext(n) = Has(n) \cup {store'}
      BY <2>2, <3>2, Zenon DEF Has, HasNext
    <3>6. Acquires(n)
      BY <2>1, <2>3, <2>4, <2>5, <3>5, Zenon DEF Acquires
    <3> QED
      BY <3>3, <3>4, <3>6, Zenon DEF GoodStep, ClientStep
  <2>6. CASE answer # "ok"
    <3>1. /\ pc'[n] = "idle" /\ mine'[n] = {} /\ held' = held
          /\ \A m \in Nodes \ {n} : mine'[m] = mine[m] /\ pc'[m] = pc[m] /\ target'[m] = target[m]
      BY <2>3, <2>6, EndPassPlace, Zenon
    <3>2. Others(n)
      BY <2>1, <3>1, Domains, Zenon DEF Others
    <3>3. Placed(n, held'[n], mine'[n], seen'[n], pc'[n], target'[n])
      BY <2>2, <2>4, <3>1, Zenon DEF Placed, Working, Acquiring
    <3>4. HasNext(n) = Has(n)
      BY <2>2, <3>1, Zenon DEF Has, HasNext
    <3>5. Acquires(n)
      BY <2>1, <2>3, <2>4, <2>6, <3>4, Zenon DEF Acquires
    <3> QED
      BY <3>2, <3>3, <3>5, Zenon DEF GoodStep, ClientStep
  <2> QED
    BY <2>5, <2>6, Zenon
\* Teardown, release, and the operation of a pass.
<1>ReleaseGood. ASSUME FleetTypeOK, PassInv, NEW n \in Nodes,
                       release_name(n) \/ release_lease(n) \/ materialise(n)
                PROVE  GoodStep(n)
  <2> USE <1>ReleaseGood
  <2>1. pc[n] \in Working /\ pc[n] \notin Acquiring
    BY Zenon DEF release_name, release_lease, materialise, Working, Acquiring
  <2>2. seen[n] = {} /\ Placed(n, held[n], mine[n], seen[n], pc[n], target[n])
    BY <2>1, Elsewhere, Zenon
  <2>3. CASE EndPass(n) /\ UNCHANGED leaseVars
    BY <2>1, <2>3, <1>EndGood, Zenon
  <2>4. CASE materialise(n)
    BY <2>3, <2>4, Zenon DEF materialise
  <2>5. CASE release_name(n)
    <3>1. CASE pc' = [pc EXCEPT ![n] = "unlease"] /\ UNCHANGED <<mine, target, leaseVars>>
      <4>1. pc'[n] = "unlease" /\ UNCHANGED <<store, held, seen>>
        BY <3>1, Domains, Zenon DEF leaseVars
      <4>2. Others(n) /\ Drops(n)
        BY <3>1, <4>1, Domains, Zenon DEF Others, Drops, Has, HasNext
      <4>3. Placed(n, held'[n], mine'[n], seen'[n], pc'[n], target'[n])
        BY <2>2, <3>1, <4>1, Zenon DEF Placed, Working, Acquiring
      <4> QED
        BY <4>2, <4>3, Zenon DEF GoodStep, ClientStep
    <3> QED
      BY <2>3, <2>5, <3>1, Zenon DEF release_name
  <2>6. CASE release_lease(n)
    <3>1. PICK h \in mine[n], answer \in BucketAnswers :
            /\ put(h, released(h), answer)
            /\ held' = [held EXCEPT ![n] = IF answer = "error" THEN held[n] ELSE {}]
      BY <2>6, Zenon DEF release_lease
    <3>2. held'[n] \subseteq held[n] /\ held'[n] \in {held[n], {}} /\ answer \in Answers /\ h \in Has(n)
      BY <3>1, Domains, Zenon DEF BucketAnswers, Answers, Has, HasNext
    <3>3. /\ pc'[n] = "idle" /\ mine'[n] = {} /\ seen' = seen
          /\ \A m \in Nodes \ {n} : mine'[m] = mine[m] /\ pc'[m] = pc[m] /\ target'[m] = target[m]
      BY <2>6, EndPassPlace, Zenon DEF release_lease
    <3>4. Others(n)
      BY <3>1, <3>3, Domains, Zenon DEF Others
    <3>5. Placed(n, held'[n], mine'[n], seen'[n], pc'[n], target'[n])
      BY <2>2, <3>2, <3>3, Zenon DEF Placed, Working, Acquiring
    <3>6. Releases(n)
      BY <2>6, <3>1, <3>2, <3>3, Zenon DEF Releases, Has, HasNext, release_lease
    <3> QED
      BY <3>4, <3>5, <3>6, Zenon DEF GoodStep, ClientStep
  <2> QED
    BY <2>4, <2>5, <2>6, Zenon
\* Which instance realises the session: it is one.
<1>RealiseGood. ASSUME FleetTypeOK, PassInv, NEW n \in Nodes, realise(n)
                PROVE  GoodStep(n)
  <2> USE <1>RealiseGood
  <2>1. pc[n] = "realise" /\ UNCHANGED leaseVars
    BY Zenon DEF realise
  <2>2. seen[n] = {} /\ Placed(n, held[n], mine[n], seen[n], pc[n], target[n])
    BY <2>1, Elsewhere, Zenon DEF Acquiring
  <2>3. CASE EndPass(n)
    BY <2>1, <2>3, <1>EndGood, Zenon DEF Acquiring
  <2> DEFINE ids(w, h) ==
               LET which == realising_instance(n, w.instance_id, h.instance_id)
               IN  CASE which = "Record" -> {w.instance_id}
                     [] which = "Lease" -> {h.instance_id}
                     [] which = "Fresh" -> {i \in InstanceIds : Unused(i)}
  <2>4. ASSUME NEW w \in want[n], NEW h \in mine[n], NEW i \in ids(w, h)
        PROVE  i \in InstanceIds
    <3>1. want[n] \subseteq Desired /\ mine[n] \subseteq LeaseRecord
      BY Zenon DEF FleetTypeOK
    <3>2. w.instance_id \in InstanceIds
      BY <3>1, FleetAssumption, Zenon DEF Desired
    <3>3. h.instance_id \in InstanceIds \cup {""}
      BY <3>1, Zenon DEF LeaseRecord
    <3>4. /\ realising_instance(n, w.instance_id, h.instance_id) \in {"Record", "Lease", "Fresh"}
          /\ realising_instance(n, w.instance_id, h.instance_id) = "Lease" => h.instance_id # ""
      BY Zenon DEF realising_instance
    <3> QED
      BY <3>2, <3>3, <3>4, Zenon
  <2> HIDE DEF ids
  <2>5. ASSUME NEW i \in InstanceIds, NEW p \in {"name", "materialise"},
               target' = [target EXCEPT ![n] = i], pc' = [pc EXCEPT ![n] = p], UNCHANGED mine
        PROVE  GoodStep(n)
    <3>1. pc'[n] = p /\ target'[n] = i /\ UNCHANGED <<store, held, seen>>
      BY <2>1, <2>5, Domains, Zenon DEF leaseVars
    <3>2. Others(n) /\ Drops(n)
      BY <2>5, <3>1, Domains, Zenon DEF Others, Drops, Has, HasNext
    <3>3. Placed(n, held'[n], mine'[n], seen'[n], pc'[n], target'[n])
      BY <2>2, <2>5, <3>1, Zenon DEF Placed, Working, Acquiring
    <3> QED
      BY <3>2, <3>3, Zenon DEF GoodStep, ClientStep
  <2>6. \/ EndPass(n)
        \/ \E w \in want[n], h \in mine[n] : \E i \in ids(w, h) :
              /\ target' = [target EXCEPT ![n] = i]
              /\ pc' = [pc EXCEPT ![n] = IF h.instance_id # i THEN "name" ELSE "materialise"]
              /\ UNCHANGED <<want, mine>>
    BY Zenon DEF realise, ids
  <2> QED
    BY <2>3, <2>4, <2>5, <2>6, Zenon
\* The lease learns the instance.
<1>NameGood. ASSUME FleetTypeOK, PassInv, NEW n \in Nodes, name_instance(n)
             PROVE  GoodStep(n)
  <2> USE <1>NameGood
  <2>1. pc[n] = "name" /\ seen' = seen
    BY Zenon DEF name_instance
  <2>2. /\ seen[n] = {} /\ target[n] \in InstanceIds
        /\ Placed(n, held[n], mine[n], seen[n], pc[n], target[n])
    BY <2>1, Elsewhere, Zenon DEF Acquiring, Placed
  <2>3. PICK h \in mine[n], answer \in BucketAnswers :
          /\ put(h, naming(h, target[n]), answer)
          /\ \/ /\ answer = "ok"
                /\ held' = [held EXCEPT ![n] = {store'}]
                /\ pc' = [pc EXCEPT ![n] = "materialise"]
                /\ UNCHANGED <<mine, target>>
             \/ /\ answer # "ok"
                /\ held' \in {held, [held EXCEPT ![n] = {}]}
                /\ EndPass(n)
    BY Zenon DEF name_instance
  <2>4. /\ naming(h, target[n]) \in Successors(h) /\ answer \in Answers /\ h \in Has(n)
    BY <2>2, <2>3 DEF Successors, BucketAnswers, Answers, Has, HasNext
  <2>5. CASE answer = "ok"
    <3>1. held'[n] = {store'} /\ pc'[n] = "materialise" /\ UNCHANGED <<mine, target>>
      BY <2>3, <2>5, Domains, Zenon
    <3>2. Others(n)
      BY <2>1, <2>3, <2>5, Domains, Zenon DEF Others
    <3>3. Placed(n, held'[n], mine'[n], seen'[n], pc'[n], target'[n])
      BY <2>1, <2>2, <3>1, Zenon DEF Placed, Working, Acquiring
    <3>4. mine[n] \in SUBSET Has(n) /\ HasNext(n) = mine[n] \cup {store'}
      BY <3>1, Zenon DEF Has, HasNext
    <3>5. Writes(n)
      BY <2>1, <2>3, <2>4, <2>5, <3>4, Zenon DEF Writes
    <3> QED
      BY <3>2, <3>3, <3>5, Zenon DEF GoodStep, ClientStep
  <2>6. CASE answer # "ok"
    <3>1. /\ pc'[n] = "idle" /\ mine'[n] = {} /\ held'[n] \in {held[n], {}}
          /\ \A m \in Nodes \ {n} : mine'[m] = mine[m] /\ pc'[m] = pc[m] /\ target'[m] = target[m]
      BY <2>3, <2>6, EndPassPlace, Domains, Zenon
    <3>2. Others(n)
      BY <2>1, <2>3, <2>6, <3>1, Domains, Zenon DEF Others
    <3>3. Placed(n, held'[n], mine'[n], seen'[n], pc'[n], target'[n])
      BY <2>1, <2>2, <3>1, Zenon DEF Placed, Working, Acquiring
    <3>4. HasNext(n) \in SUBSET Has(n)
      BY <3>1, Zenon DEF Has, HasNext
    <3>5. Writes(n)
      BY <2>1, <2>3, <2>4, <2>6, <3>4, Zenon DEF Writes
    <3> QED
      BY <3>2, <3>3, <3>5, Zenon DEF GoodStep, ClientStep
  <2> QED
    BY <2>5, <2>6, Zenon
<1> SUFFICES ASSUME FleetTypeOK, PassInv
             PROVE  /\ \A n \in Nodes : pass_step(n) \/ Crash(n) \/ Restart(n) => GoodStep(n)
                    /\ \A n \in Nodes, i \in InstanceIds : execute(n, i) => GoodStep(n)
  BY Zenon
<1>1. ASSUME NEW n \in Nodes, pass_step(n) \/ Crash(n) \/ Restart(n)
      PROVE  GoodStep(n)
  BY Zenon, <1>1, <1>RenewGood, <1>MoveGood, <1>CrashGood, <1>ListGood, <1>AcquireGood,
     <1>ReleaseGood, <1>RealiseGood, <1>NameGood DEF pass_step
<1> QED
  BY <1>1, <1>ExecuteGood, Zenon

\* Every step is a good step of some node, or leaves the lease and the passes alone.
LEMMA NextGood ==
    ASSUME FleetTypeOK, PassInv, [FleetNext]_fleetVars
    PROVE  (\E n \in Nodes : GoodStep(n)) \/ UNCHANGED <<leaseVars, pc, mine, target>>
<1>1. CASE UNCHANGED fleetVars
  BY <1>1, Zenon DEF fleetVars, pass
<1>2. ASSUME NEW n \in Nodes, NEW i \in InstanceIds, NEW kind \in ClientKinds, client(n, i, kind)
      PROVE  UNCHANGED <<leaseVars, pc, mine, target>>
  BY <1>2, Zenon DEF client, pass
<1>3. CASE withdraw \/ \E d \in Desired : apply(d)
  BY <1>3, Zenon DEF withdraw, apply, pass
<1> QED
  BY <1>1, <1>2, <1>3, StepGood, Zenon DEF FleetNext

\* A step that is not about the lease keeps the invariant.
LEMMA IdleKeeps ==
    ASSUME PassInv, UNCHANGED <<leaseVars, pc, mine, target>>
    PROVE  PassInv'
  BY Zenon DEF PassInv, leaseVars

\* No pass works from more than one copy of a lease, and none reads one while it
\* holds one.
THEOREM PassesInPlace == FleetSpec => []PassInv
<1>1. ASSUME FleetInit
      PROVE  PassInv
  <2>a. MaxEpoch \in Nat
    BY BoundsAssumption, Zenon
  <2>b. 0 <= MaxEpoch
    BY <2>a
  <2>c. store.epoch = 0 /\ store.version = 0
    BY <1>1, Zenon DEF FleetInit, Unasked, LeaseInit, NoLease
  <2>1. store.epoch = 0 /\ store.version = 0 /\ 0 <= MaxEpoch
    BY <2>b, <2>c, Zenon
  <2>2. \A n \in Nodes : /\ held[n] = {} /\ mine[n] = {} /\ seen[n] = {}
                         /\ pc[n] = "idle"
    BY <1>1, Zenon DEF FleetInit, Unasked, LeaseInit
  <2>3. \A n \in Nodes : Placed(n, held[n], mine[n], seen[n], pc[n], target[n])
    BY <2>2, Zenon DEF Placed, Working, Acquiring
  <2> QED
    BY <2>1, <2>2, <2>3, Zenon DEF PassInv
<1>2. FleetTypeOK /\ PassInv /\ [FleetNext]_fleetVars => PassInv'
  BY NextGood, GoodStepKeeps, IdleKeeps, Zenon
<1> QED
  BY <1>1, <1>2, FleetTypeCorrect, PTL DEF FleetSpec

-------------------------------------------------------------------------------
(***************************************************************************)
(* The phase as a client of the lease.                                     *)
(***************************************************************************)
\* What Cardinality counts by: it takes the elements away one at a time.
Pick(T) == CHOOSE x : x \in T
Counts(g, S) == g = [T \in SUBSET S |-> IF T = {} THEN 0 ELSE 1 + g[T \ {Pick(T)}]]

\* Cardinality is the value at the whole set of the function that counts.
LEMMA CardDef ==
    ASSUME NEW S
    PROVE  Cardinality(S) = (CHOOSE g : Counts(g, S))[S]
BY Zenon DEF Cardinality, Counts, Pick

\* A set of one or two elements has no more than two.
LEMMA PairCounts ==
    ASSUME NEW a, NEW b
    PROVE  Cardinality({a, b}) <= 2
<1> DEFINE S == {a, b}
           w == [T \in SUBSET S |-> IF T = {} THEN 0 ELSE IF T = S /\ a # b THEN 2 ELSE 1]
           c == CHOOSE g : Counts(g, S)
<1>1. \A T \in SUBSET S : T # {} => Pick(T) \in T
  BY Zenon DEF Pick
<1>2. Counts(w, S)
  <2>1. \A T \in SUBSET S : w[T] = IF T = {} THEN 0 ELSE 1 + w[T \ {Pick(T)}]
    <3> HIDE DEF S
    <3> SUFFICES ASSUME NEW T \in SUBSET S, T # {}
                 PROVE  w[T] = 1 + w[T \ {Pick(T)}]
      BY Zenon
    <3>1. Pick(T) \in T /\ T \ {Pick(T)} \in SUBSET S
      BY <1>1, Zenon
    <3>2. CASE T = S /\ a # b
      BY <3>1, <3>2 DEF S
    <3>3. CASE ~(T = S /\ a # b)
      <4>1. T \ {Pick(T)} = {}
        BY <3>1, <3>3, Zenon DEF S
      <4> QED
        BY <3>3, <4>1
    <3> QED
      BY <3>2, <3>3, Zenon
  <2> HIDE DEF S
  <2> QED
    BY <2>1, Zenon DEF Counts
<1>3. Counts(c, S)
  <2> HIDE DEF w, S
  <2> QED
    BY <1>2, Zenon
<1> HIDE DEF c
<1>4. \A T \in SUBSET S : c[T] = IF T = {} THEN 0 ELSE 1 + c[T \ {Pick(T)}]
  <2> HIDE DEF S
  <2> QED
    BY <1>3, Zenon DEF Counts
<1>5. c[{}] = 0
  BY <1>4, Zenon
<1>6. \A x \in S : c[{x}] = 1
  <2> TAKE x \in S
  <2>1. Pick({x}) = x
    BY Zenon DEF Pick
  <2>2. {x} \ {Pick({x})} = {}
    BY <2>1, Zenon
  <2>3. {x} \in SUBSET S /\ {x} # {}
    BY Zenon
  <2>4. c[{x}] = 1 + c[{x} \ {Pick({x})}]
    <3> HIDE DEF S
    <3> QED
      BY <1>4, <2>3, Zenon
  <2> HIDE DEF S
  <2> QED
    BY <1>5, <2>2, <2>4
<1>7. c[S] \in {1, 2}
  <2>1. Pick(S) \in S
    BY <1>1, Zenon
  <2>2. S \ {Pick(S)} = {} \/ \E x \in S : S \ {Pick(S)} = {x}
    BY <2>1, Zenon
  <2>3. c[S] = 1 + c[S \ {Pick(S)}]
    BY <1>4, Zenon
  <2>4. CASE S \ {Pick(S)} = {}
    <3> HIDE DEF S
    <3> QED
      BY <1>5, <2>3, <2>4
  <2>5. ASSUME NEW x \in S, S \ {Pick(S)} = {x}
        PROVE  c[S] = 2
    <3>1. c[{x}] = 1
      BY <1>6, Zenon
    <3> HIDE DEF S
    <3> QED
      BY <2>3, <2>5, <3>1
  <2> QED
    BY <2>2, <2>4, <2>5, Zenon
<1> QED
  <2>1. Cardinality(S) = c[S]
    BY CardDef, Zenon DEF c
  <2> QED
    BY <2>1, <1>7

\* The empty set has none.
LEMMA EmptyCounts == Cardinality({}) = 0
<1> DEFINE c == CHOOSE g : Counts(g, {})
<1>1. Counts([T \in SUBSET {} |-> 0], {})
  BY Zenon DEF Counts
<1>2. Counts(c, {})
  BY <1>1, Zenon
<1> HIDE DEF c
<1>3. c[{}] = 0
  BY <1>2, Zenon DEF Counts
<1> QED
  BY <1>3, CardDef, Zenon DEF c

\* Two sets of at most one element each have at most two between them.
LEMMA TwoAtMost ==
    ASSUME NEW S, NEW R, \A x, y \in S : x = y, \A x, y \in R : x = y
    PROVE  Cardinality(S \cup R) <= 2
<1>1. S \cup R = {} \/ \E a, b : S \cup R = {a, b}
  <2>1. CASE S # {} /\ R # {}
    <3> PICK a \in S, b \in R : TRUE
      BY <2>1, Zenon
    <3>1. S \cup R = {a, b}
      BY Zenon
    <3> QED
      BY <3>1, Zenon
  <2>2. CASE S # {} /\ R = {}
    <3> PICK a \in S : TRUE
      BY <2>2, Zenon
    <3>1. S \cup R = {a, a}
      BY <2>2, Zenon
    <3> QED
      BY <3>1, Zenon
  <2>3. CASE S = {} /\ R # {}
    <3> PICK b \in R : TRUE
      BY <2>3, Zenon
    <3>1. S \cup R = {b, b}
      BY <2>3, Zenon
    <3> QED
      BY <3>1, Zenon
  <2> QED
    BY <2>1, <2>2, <2>3, Zenon
<1>2. CASE S \cup R = {}
  BY <1>2, EmptyCounts
<1>3. ASSUME NEW a, NEW b, S \cup R = {a, b}
      PROVE  Cardinality(S \cup R) <= 2
  BY <1>3, PairCounts, Zenon
<1> QED
  BY <1>1, <1>2, <1>3, Zenon

\* A good step of the phase is a step of a client of the lease.
LEMMA GoodStepIsClients ==
    ASSUME UniqueTags = FALSE, FleetTypeOK, PassInv, PassInv', NEW n \in Nodes, GoodStep(n)
    PROVE  FleetLease!LeaseNext
<1> DEFINE hs == [m \in Nodes |-> held[m] \cup mine[m]]
<1>1. hs \in [Nodes -> SUBSET LeaseRecord] /\ hs[n] = Has(n)
  BY LeaseTypes, Zenon DEF Has, HasNext
<1>2. hs' = [hs EXCEPT ![n] = HasNext(n)]
  <2>1. hs' = [m \in Nodes |-> held'[m] \cup mine'[m]]
    BY Zenon
  <2>2. \A m \in Nodes \ {n} : held'[m] = held[m] /\ mine'[m] = mine[m]
    BY Zenon DEF GoodStep, Others
  <2>3. HasNext(n) = held'[n] \cup mine'[n]
    BY Zenon DEF Has, HasNext
  <2>4. \A m \in Nodes : [hs EXCEPT ![n] = HasNext(n)][m] = held'[m] \cup mine'[m]
    BY <2>2, <2>3, Zenon
  <2>5. DOMAIN hs = Nodes
    BY Zenon
  <2> HIDE DEF hs
  <2> QED
    BY <2>1, <2>4, <2>5, Zenon
<1>p. \A e, l, a : FleetLease!put(e, l, a) <=> put(e, l, a)
  BY Zenon DEF put, FleetLease!put
<1>n. /\ \A h \in hs[n], answer \in Answers : FleetLease!fenced(n, h, answer) => FleetLease!node(n)
      /\ \A kept \in SUBSET hs[n] : FleetLease!forget(n, kept) => FleetLease!node(n)
  BY Zenon DEF FleetLease!node, FleetLease!Answers, Answers
<1>3. FleetLease!node(n)
  <2>1. CASE Drops(n)
    <3>1. HasNext(n) \in SUBSET hs[n]
      BY <1>1, <2>1, Zenon DEF Drops
    <3>2. seen' \in {seen, [seen EXCEPT ![n] = {}]} /\ UNCHANGED store
      BY <2>1, Zenon DEF Drops
    <3>3. PICK kept \in SUBSET hs[n] : hs' = [hs EXCEPT ![n] = kept]
      BY <1>2, <3>1, Zenon
    <3>4. FleetLease!forget(n, kept)
      BY <3>2, <3>3, Zenon DEF FleetLease!forget
    <3> QED
      BY <1>n, <3>4, Zenon
  <2>2. CASE Reads(n)
    <3>1. PICK now \in Clocks : /\ takeable(store, n, now)
                                /\ seen' = [seen EXCEPT ![n] = {[lease |-> store, now |-> now]}]
      BY <2>2, Zenon DEF Reads, acquire_reads
    <3>2. seen[n] = {} /\ UNCHANGED store
      BY <2>2, Zenon DEF Reads
    <3>3. hs' = hs
      BY <1>1, <1>2, <2>2, Zenon DEF Reads
    <3>4. FleetLease!acquire_read(n, now)
      BY <3>1, <3>2, <3>3, Zenon DEF FleetLease!acquire_read, FleetLease!takeable, takeable,
         FleetLease!is_expired_at, is_expired_at
    <3> QED
      BY <3>4, Zenon DEF FleetLease!node
  <2>3. CASE Acquires(n)
    <3>1. PICK a \in seen[n], answer \in Answers :
            /\ put(a.lease, acquired(a.lease, n, a.now), answer)
            /\ seen' = [seen EXCEPT ![n] = {}]
            /\ HasNext(n) = IF answer = "ok" THEN Has(n) \cup {store'} ELSE Has(n)
      BY <2>3, Zenon DEF Acquires
    <3>2. FleetLease!acquired(a.lease, n, a.now) = acquired(a.lease, n, a.now)
      BY Zenon DEF FleetLease!acquired, acquired, FleetLease!is_expired_at, is_expired_at
    <3>3. FleetLease!put(a.lease, FleetLease!acquired(a.lease, n, a.now), answer)
      BY <1>p, <3>1, <3>2, Zenon
    <3>4. hs' = [hs EXCEPT ![n] = IF answer = "ok" THEN hs[n] \cup {store'} ELSE hs[n]]
      BY <1>1, <1>2, <3>1, Zenon
    <3>5. FleetLease!acquire_write(n, answer)
      BY <3>1, <3>3, <3>4, Zenon DEF FleetLease!acquire_write
    <3> QED
      BY <3>5, Zenon DEF FleetLease!node, FleetLease!Answers, Answers
  <2>4. CASE Writes(n)
    <3>1. PICK h \in Has(n), answer \in Answers : \E lease \in Successors(h) :
            /\ put(h, lease, answer)
            /\ seen' = seen
            /\ \E kept \in SUBSET Has(n) :
                  HasNext(n) = IF answer = "ok" THEN kept \cup {store'} ELSE kept
      BY <2>4, Zenon DEF Writes
    <3>2. PICK lease \in Successors(h) :
            /\ put(h, lease, answer)
            /\ \E kept \in SUBSET Has(n) :
                  HasNext(n) = IF answer = "ok" THEN kept \cup {store'} ELSE kept
      BY <3>1, Zenon
    <3>3. PICK kept \in SUBSET hs[n] :
            hs' = [hs EXCEPT ![n] = IF answer = "ok" THEN kept \cup {store'} ELSE kept]
      BY <1>1, <1>2, <3>2, Zenon
    <3>4. FleetLease!fenced_write(n, h, lease, answer)
      BY <1>1, <1>p, <3>1, <3>2, <3>3, Zenon DEF FleetLease!fenced_write
    <3>5. /\ \A now, s : FleetLease!renewed(h, now, s) = renewed(h, now, s)
          /\ \A s : FleetLease!stamped(h, s) = stamped(h, s)
          /\ \A i : FleetLease!naming(h, i) = naming(h, i)
      BY Zenon DEF FleetLease!renewed, FleetLease!stamped, FleetLease!naming, renewed, stamped,
         naming
    <3>s. \/ \E now \in Clocks, s \in RunStates : lease = renewed(h, now, s)
          \/ \E s \in RunStates : lease = stamped(h, s)
          \/ \E i \in InstanceIds : lease = naming(h, i)
      BY <3>2 DEF Successors
    <3>6. FleetLease!fenced(n, h, answer)
      BY <3>4, <3>5, <3>s, Zenon DEF FleetLease!fenced, FleetLease!renew,
         FleetLease!stamp_state,
         FleetLease!set_instance
    <3> QED
      BY <1>1, <1>n, <3>6, Zenon
  <2>5. CASE Releases(n)
    <3>1. PICK h \in Has(n), answer \in Answers :
            /\ put(h, released(h), answer)
            /\ seen' = seen
            /\ HasNext(n) \subseteq Has(n)
      BY <2>5, Zenon DEF Releases, Has, HasNext
    <3>2. FleetLease!put(h, FleetLease!released(h), answer)
      BY <1>p, <3>1, Zenon DEF FleetLease!released, released
    <3>3. HasNext(n) \in SUBSET hs[n] /\ hs' = [hs EXCEPT ![n] = HasNext(n)]
      BY <1>1, <1>2, <3>1, Zenon
    <3>4. FleetLease!release(n, h, answer)
      BY <1>1, <3>1, <3>2, <3>3, Zenon DEF FleetLease!release
    <3>5. FleetLease!fenced(n, h, answer)
      BY <3>4, Zenon DEF FleetLease!fenced
    <3> QED
      BY <1>1, <1>n, <3>5, Zenon
  <2> QED
    BY <2>1, <2>2, <2>3, <2>4, <2>5, Zenon DEF GoodStep, ClientStep
<1>4. store'.epoch <= MaxEpoch /\ store'.version <= MaxVersion
  <2>1. store'.epoch <= MaxEpoch /\ store'.version = 0
    BY Zenon DEF PassInv
  <2>2. 0 <= MaxVersion
    BY BoundsAssumption
  <2> QED
    BY <2>1, <2>2, Zenon
<1>5. ASSUME NEW m \in Nodes
      PROVE  Cardinality(hs'[m]) <= 2
  <2>1. hs'[m] = held'[m] \cup mine'[m]
    BY Zenon
  <2>2. (\A x, y \in held'[m] : x = y) /\ (\A x, y \in mine'[m] : x = y)
    BY Zenon DEF PassInv, Placed
  <2> QED
    BY <2>1, <2>2, TwoAtMost, Zenon
<1>6. \E m \in Nodes : FleetLease!node(m)
  BY <1>3, Zenon
<1>7. \A m \in Nodes : Cardinality([k \in Nodes |-> held'[k] \cup mine'[k]][m]) <= 2
  BY <1>5, Zenon
<1>8. \A S : FleetLease!Cardinality(S) = Cardinality(S)
  BY Zenon DEF FleetLease!Cardinality, Cardinality, FleetLease!IsFiniteSet, IsFiniteSet
<1> QED
  BY <1>4, <1>6, <1>7, <1>8, Zenon DEF FleetLease!LeaseNext

\* All the phase does to a lease is what a client of lease.rs may do, across crashes and
\* whatever the bucket answers, where an ETag is a digest of the body.
THEOREM FleetIsLeaseClient ==
    ASSUME UniqueTags = FALSE
    PROVE  FleetSpec => IsLease
<1>1. FleetInit => FleetLease!LeaseInit
  BY Zenon DEF FleetInit, Unasked, LeaseInit, FleetLease!LeaseInit, NoLease, FleetLease!NoLease
<1>2. ASSUME FleetTypeOK, PassInv, PassInv', [FleetNext]_fleetVars
      PROVE  [FleetLease!LeaseNext]_FleetLease!leaseVars
  <2>1. CASE UNCHANGED <<leaseVars, pc, mine, target>>
    BY <2>1, Zenon DEF leaseVars, FleetLease!leaseVars
  <2>2. ASSUME NEW n \in Nodes, GoodStep(n)
        PROVE  FleetLease!LeaseNext
    BY <1>2, <2>2, GoodStepIsClients, Zenon
  <2> QED
    BY <1>2, <2>1, <2>2, NextGood, Zenon
<1>3. FleetTypeOK /\ PassInv /\ PassInv' /\ [FleetNext]_fleetVars
         => [FleetLease!LeaseNext]_FleetLease!leaseVars
  BY <1>2, Zenon
<1> QED
  BY <1>1, <1>3, FleetTypeCorrect, PassesInPlace, PTL
     DEF FleetSpec, IsLease, FleetLease!LeaseSpec

-------------------------------------------------------------------------------
(***************************************************************************)
(* Teardown before release.  The instance is gone when a pass decides to   *)
(* release; it is gone still when the release is written, since nothing    *)
(* but a create brings a row back and a task is never at work on one that  *)
(* is gone.                                                                *)
(***************************************************************************)
\* The engine of a node with instances f and tasks g, whose pass is at p with ms.
Settled(f, g, p, ms) ==
    /\ p = "down" => \A i \in InstanceIds : g[i].at = "none"
    /\ \A i \in InstanceIds : release_intent(f[i]) => g[i].at = "none"
    /\ p = "unlease" => \A h \in ms : h.instance_id \in InstanceIds
                                         => release_intent(f[h.instance_id])

SettledInv == \A n \in Nodes : Settled(inst[n], task[n], pc[n], mine[n])

\* What a step of n does to its engine and to nobody else's.
EngineStep(n) ==
    /\ Settled(inst'[n], task'[n], pc'[n], mine'[n])
    /\ \A m \in Nodes \ {n} : /\ inst'[m] = inst[m] /\ task'[m] = task[m]
                              /\ pc'[m] = pc[m] /\ mine'[m] = mine[m]

\* Every step leaves every engine settled.
LEMMA NextSettles ==
    FleetTypeOK /\ PassInv /\ SettledInv /\ "Create" \notin ClientKinds
       /\ [FleetNext]_fleetVars => SettledInv'
\* The invariant follows from what a step does.
<1>EngineStepSettles. ASSUME SettledInv, NEW n \in Nodes, EngineStep(n)
                      PROVE  SettledInv'
  BY <1>EngineStepSettles, Zenon DEF SettledInv, EngineStep
\* A submission is refused, or takes an instance that is not gone to a state in which
\* it is not, or is a create.
<1>SubmitsMoves. ASSUME FleetTypeOK, NEW n \in Nodes, NEW i \in InstanceIds, NEW kind \in FleetKinds,
                        Submits(n, i, kind)
                 PROVE  \/ UNCHANGED <<inst, task>>
                        \/ /\ ~release_intent(inst'[n][i])
                           /\ release_intent(inst[n][i]) => kind = "Create"
                           /\ \A j \in InstanceIds \ {i} : inst'[n][j] = inst[n][j] /\ task'[n][j] = task[n][j]
                           /\ \A m \in Nodes \ {n} : inst'[m] = inst[m] /\ task'[m] = task[m]
  <2> USE <1>SubmitsMoves
  <2> DEFINE to == IF carries_spec(kind)
                   THEN IF inst[n][i] = "ABSENT" THEN "CREATING" ELSE "REFUSED"
                   ELSE IF inst[n][i] = "ABSENT" THEN "REFUSED"
                   ELSE plan_transition(kind, inst[n][i])
  <2>1. /\ inst \in [Nodes -> [InstanceIds -> InstanceState \cup {"ABSENT"}]]
        /\ task \in [Nodes -> [InstanceIds -> Task]]
    BY Zenon DEF FleetTypeOK
  <2>2. \/ UNCHANGED <<inst, task>>
        \/ /\ to # "REFUSED"
           /\ inst' = [inst EXCEPT ![n][i] = to]
           /\ task' = [task EXCEPT ![n][i] = [kind |-> kind, at |-> "spawned"]]
    BY Zenon DEF Submits
  <2>3. ASSUME to # "REFUSED"
        PROVE  ~release_intent(to) /\ (release_intent(inst[n][i]) => kind = "Create")
    <3>1. CASE carries_spec(kind)
      BY <2>3, <3>1, Zenon DEF carries_spec, release_intent, FleetKinds
    <3>2. CASE ~carries_spec(kind)
      <4>1. /\ kind \in {"Start", "Stop", "Pause", "Resume", "Destroy"}
            /\ inst[n][i] # "ABSENT" /\ to = plan_transition(kind, inst[n][i])
        BY <2>3, <3>2, Zenon DEF carries_spec, FleetKinds
      <4>2. transitional_state(kind) \in {"STARTING", "STOPPING", "PAUSING", "RESUMING", "DESTROYING"}
        BY <4>1, Zenon DEF transitional_state
      <4>3. to = transitional_state(kind) /\ can_transition(inst[n][i], transitional_state(kind))
        BY <2>3, <4>1, Zenon DEF plan_transition
      <4>4. inst[n][i] # "DESTROYED"
        BY <4>2, <4>3, Zenon DEF can_transition, TRANSITIONS
      <4> QED
        BY <4>1, <4>2, <4>3, <4>4, Zenon DEF release_intent
    <3> QED
      BY <3>1, <3>2, Zenon
  <2> HIDE DEF to
  <2> QED
    BY <2>1, <2>2, <2>3
\* A submission leaves the engine settled, where the pass is not about to release or
\* the verb is not a create.
<1>SubmitsSettles. ASSUME FleetTypeOK, SettledInv, NEW n \in Nodes, NEW i \in InstanceIds,
                          NEW kind \in FleetKinds, Submits(n, i, kind),
                          pc'[n] # "down",
                          \/ pc'[n] # "unlease"
                          \/ kind # "Create" /\ pc'[n] = pc[n] /\ mine'[n] = mine[n]
                   PROVE  /\ Settled(inst'[n], task'[n], pc'[n], mine'[n])
                          /\ \A m \in Nodes \ {n} : inst'[m] = inst[m] /\ task'[m] = task[m]
  <2> USE <1>SubmitsSettles
  <2>1. Settled(inst[n], task[n], pc[n], mine[n])
    BY Zenon DEF SettledInv
  <2>2. CASE UNCHANGED <<inst, task>>
    BY <2>1, <2>2, Zenon DEF Settled
  <2>3. CASE /\ ~release_intent(inst'[n][i])
             /\ release_intent(inst[n][i]) => kind = "Create"
             /\ \A j \in InstanceIds \ {i} : inst'[n][j] = inst[n][j] /\ task'[n][j] = task[n][j]
             /\ \A m \in Nodes \ {n} : inst'[m] = inst[m] /\ task'[m] = task[m]
    BY <2>1, <2>3, Zenon DEF Settled
  <2> QED
    BY <2>2, <2>3, <1>SubmitsMoves, Zenon
\* The same with a key.
<1>SubmitSettles. ASSUME FleetTypeOK, SettledInv, NEW n \in Nodes, NEW i \in InstanceIds,
                         NEW kind \in FleetKinds, NEW key, submit(n, i, kind, key),
                         pc'[n] \notin {"down", "unlease"}
                  PROVE  /\ Settled(inst'[n], task'[n], pc'[n], mine'[n])
                         /\ \A m \in Nodes \ {n} : inst'[m] = inst[m] /\ task'[m] = task[m]
  <2> USE <1>SubmitSettles
  <2>1. CASE Submits(n, i, kind)
    BY <2>1, <1>SubmitsSettles, Zenon
  <2>2. CASE UNCHANGED <<inst, task>>
    BY <2>2, Zenon DEF SettledInv, Settled
  <2> QED
    BY <2>1, <2>2, Zenon DEF submit
\* A step that leaves the engine alone, and does not decide to release.
<1>EngineAlone. ASSUME SettledInv, NEW n \in Nodes, UNCHANGED <<inst, task>>, Others(n),
                       \/ pc'[n] \notin {"down", "unlease"}
                       \/ pc'[n] = pc[n] /\ mine'[n] = mine[n]
                PROVE  EngineStep(n)
  BY <1>EngineAlone, Zenon DEF SettledInv, Settled, EngineStep, Others
\* The executor works on nothing that is gone.
<1>ExecuteSettles. ASSUME FleetTypeOK, SettledInv, NEW n \in Nodes, NEW i \in InstanceIds, execute(n, i)
                   PROVE  EngineStep(n)
  <2> USE <1>ExecuteSettles
  <2>1. /\ inst \in [Nodes -> [InstanceIds -> InstanceState \cup {"ABSENT"}]]
        /\ task \in [Nodes -> [InstanceIds -> Task]]
    BY Zenon DEF FleetTypeOK
  <2>2. Settled(inst[n], task[n], pc[n], mine[n])
    BY Zenon DEF SettledInv
  <2>3. UNCHANGED <<pc, mine>>
    BY Zenon DEF execute, execute_begin, execute_finish, stamp_read, stamp_write, pass
  <2>4. CASE stamp_read(n, i) \/ stamp_write(n, i)
    <3>1. UNCHANGED <<inst, task>>
      BY <2>4, Zenon DEF stamp_read, stamp_write, journal
    <3> QED
      BY <2>2, <2>3, <3>1, Zenon DEF EngineStep
  <2>5. CASE execute_begin(n, i)
    <3>1. inst' = inst /\ task[n][i].at = "spawned"
      BY <2>5, Zenon DEF execute_begin, journal
    <3>2. ~release_intent(inst[n][i]) /\ pc[n] # "down"
      BY <2>2, <3>1, Zenon DEF Settled
    <3>3. /\ \A j \in InstanceIds \ {i} : task'[n][j] = task[n][j]
          /\ \A m \in Nodes \ {n} : task'[m] = task[m]
      BY <2>1, <2>5, Zenon DEF execute_begin
    <3>4. Settled(inst'[n], task'[n], pc'[n], mine'[n])
      BY <2>2, <2>3, <3>1, <3>2, <3>3, Zenon DEF Settled
    <3> QED
      BY <2>3, <3>1, <3>3, <3>4, Zenon DEF EngineStep
  <2>6. CASE execute_finish(n, i)
    <3>1. task[n][i].at = "working"
      BY <2>6, Zenon DEF execute_finish
    <3>2. ~release_intent(inst[n][i]) /\ pc[n] # "down"
      BY <2>2, <3>1, Zenon DEF Settled
    <3>3. /\ task'[n][i] = NoTask
          /\ \A j \in InstanceIds \ {i} : task'[n][j] = task[n][j] /\ inst'[n][j] = inst[n][j]
          /\ \A m \in Nodes \ {n} : task'[m] = task[m] /\ inst'[m] = inst[m]
      BY <2>1, <2>6 DEF execute_finish
    <3>4. task'[n][i].at = "none"
      BY <3>3 DEF NoTask
    <3>5. Settled(inst'[n], task'[n], pc'[n], mine'[n])
      BY <2>2, <2>3, <3>2, <3>3, <3>4, Zenon DEF Settled
    <3> QED
      BY <2>3, <3>3, <3>5, Zenon DEF EngineStep
  <2> QED
    BY <2>4, <2>5, <2>6, Zenon DEF execute
\* The steps of a pass that submit.
<1>FenceSettles. ASSUME FleetTypeOK, SettledInv, NEW n \in Nodes, NEW i \in InstanceIds \cup {""},
                        self_fence(n, i), pc'[n] \notin {"down", "unlease"}
                 PROVE  /\ Settled(inst'[n], task'[n], pc'[n], mine'[n])
                        /\ \A m \in Nodes \ {n} : inst'[m] = inst[m] /\ task'[m] = task[m]
  <2> USE <1>FenceSettles
  <2>1. CASE i = ""
    BY <2>1, Zenon DEF self_fence, SettledInv, Settled
  <2>2. CASE i # ""
    <3>1. i \in InstanceIds /\ "Stop" \in FleetKinds
          /\ submit(n, i, "Stop", [verb |-> "fence", epoch |-> 0, instance_id |-> i])
      BY <2>2, Zenon DEF self_fence, FleetKinds
    <3> QED
      BY <3>1, <1>SubmitSettles, Zenon
  <2> QED
    BY <2>1, <2>2, Zenon
\* The steps of a pass that submit leave the engine settled.
<1>PassSettles. ASSUME FleetTypeOK, PassInv, SettledInv, NEW n \in Nodes, GoodStep(n),
                       fence(n) \/ name_instance(n) \/ materialise(n) \/ release_name(n)
                PROVE  EngineStep(n)
  <2> USE <1>PassSettles
  <2>o. Others(n)
    BY Zenon DEF GoodStep
  <2>m. mine[n] \subseteq LeaseRecord /\ target[n] \in InstanceIds \cup {""}
    BY Zenon DEF FleetTypeOK
  <2>k. {"Create", "Start", "Resume", "Destroy"} \subseteq FleetKinds
    BY Zenon DEF FleetKinds
  <2>1. CASE fence(n)
    <3>1. self_fence(n, target[n]) /\ pc'[n] \in {"confirm", "reconfirm"}
      BY <2>1, Domains, Zenon DEF fence
    <3>2. /\ Settled(inst'[n], task'[n], pc'[n], mine'[n])
          /\ \A m \in Nodes \ {n} : inst'[m] = inst[m] /\ task'[m] = task[m]
      BY <2>m, <3>1, <1>FenceSettles, Zenon
    <3> QED
      BY <2>o, <3>2, Zenon DEF EngineStep, Others
  <2>2. CASE name_instance(n)
    <3>1. \/ UNCHANGED <<inst, task>> /\ pc'[n] = "materialise"
          \/ UNCHANGED <<inst, task>> /\ EndPass(n)
          \/ EndPass(n) /\ \E h \in mine[n] : self_fence(n, h.instance_id)
      BY <2>2, Domains, Zenon DEF name_instance
    <3>2. EndPass(n) => pc'[n] = "idle"
      BY EndPassPlace, Zenon
    <3>3. CASE UNCHANGED <<inst, task>> /\ pc'[n] \in {"materialise", "idle"}
      BY <2>o, <3>3, <1>EngineAlone, Zenon
    <3>4. ASSUME pc'[n] = "idle", NEW h \in mine[n], self_fence(n, h.instance_id)
          PROVE  EngineStep(n)
      <4>1. h.instance_id \in InstanceIds \cup {""}
        BY <2>m, Zenon DEF LeaseRecord
      <4>2. /\ Settled(inst'[n], task'[n], pc'[n], mine'[n])
            /\ \A m \in Nodes \ {n} : inst'[m] = inst[m] /\ task'[m] = task[m]
        BY <3>4, <4>1, <1>FenceSettles, Zenon
      <4> QED
        BY <2>o, <4>2, Zenon DEF EngineStep, Others
    <3> QED
      BY <3>1, <3>2, <3>3, <3>4, Zenon
  <2>3. CASE materialise(n)
    <3>1. pc'[n] = "idle"
      BY <2>3, EndPassPlace, Zenon DEF materialise
    <3>2. target[n] \in InstanceIds
      BY <2>3, Elsewhere, Zenon DEF materialise, Placed
    <3>3. \/ UNCHANGED <<inst, task, keys>>
          \/ \E kind \in {"Create", "Start", "Resume"} : \E key : submit(n, target[n], kind, key)
      BY <2>3, Zenon DEF materialise
    <3>4. CASE UNCHANGED <<inst, task, keys>>
      BY <2>o, <3>1, <3>4, <1>EngineAlone, Zenon
    <3>5. ASSUME NEW kind \in {"Create", "Start", "Resume"}, NEW key,
                 submit(n, target[n], kind, key)
          PROVE  EngineStep(n)
      <4>1. /\ Settled(inst'[n], task'[n], pc'[n], mine'[n])
            /\ \A m \in Nodes \ {n} : inst'[m] = inst[m] /\ task'[m] = task[m]
        BY <2>k, <3>1, <3>2, <3>5, <1>SubmitSettles, Zenon
      <4> QED
        BY <2>o, <4>1, Zenon DEF EngineStep, Others
    <3> QED
      BY <3>3, <3>4, <3>5, Zenon
  <2>4. CASE release_name(n)
    <3>1. PICK h \in mine[n] :
            IF release_intent(journal_state(n, h.instance_id))
            THEN pc' = [pc EXCEPT ![n] = "unlease"] /\ UNCHANGED <<inst, task, mine>>
            ELSE /\ submit(n, h.instance_id, "Destroy",
                           [verb |-> "delete", epoch |-> h.epoch, instance_id |-> h.instance_id])
                 /\ EndPass(n)
      BY <2>4, Zenon DEF release_name
    <3>2. CASE release_intent(journal_state(n, h.instance_id))
      <4>1. pc'[n] = "unlease" /\ UNCHANGED <<inst, task, mine>>
        BY <3>1, <3>2, Domains, Zenon
      <4>2. \A k \in mine[n] : k = h
        BY Elsewhere, Zenon DEF Placed
      <4>3. \A k \in mine[n] : k.instance_id \in InstanceIds => release_intent(inst[n][k.instance_id])
        BY <3>2, <4>2, Zenon DEF journal_state
      <4>4. Settled(inst[n], task[n], pc[n], mine[n])
        BY Zenon DEF SettledInv
      <4>5. Settled(inst'[n], task'[n], pc'[n], mine'[n])
        BY <4>1, <4>3, <4>4, Zenon DEF Settled
      <4> QED
        BY <2>o, <4>1, <4>5, Zenon DEF EngineStep, Others
    <3>3. CASE ~release_intent(journal_state(n, h.instance_id))
      <4>1. h.instance_id \in InstanceIds
        BY <3>3, Zenon DEF journal_state, release_intent
      <4>2. pc'[n] = "idle"
        BY <3>1, <3>3, EndPassPlace, Zenon
      <4>3. /\ Settled(inst'[n], task'[n], pc'[n], mine'[n])
            /\ \A m \in Nodes \ {n} : inst'[m] = inst[m] /\ task'[m] = task[m]
        BY <2>k, <3>1, <3>3, <4>1, <4>2, <1>SubmitSettles, Zenon
      <4> QED
        BY <2>o, <4>3, Zenon DEF EngineStep, Others
    <3> QED
      BY <3>2, <3>3, Zenon
  <2> QED
    BY <2>1, <2>2, <2>3, <2>4, Zenon
\* The steps of a pass that leave the engine alone.
<1>QuietSettles. ASSUME FleetTypeOK, PassInv, SettledInv, NEW n \in Nodes, GoodStep(n),
                        \/ pass_renew(n) \/ confirm(n) \/ list(n) \/ sweep(n) \/ reacquire(n)
                        \/ release_lease(n) \/ acquire_desired(n) \/ acquire(n) \/ realise(n)
                        \/ recover(n) \/ join(n)
                 PROVE  EngineStep(n)
  <2> USE <1>QuietSettles
  <2>o. Others(n)
    BY Zenon DEF GoodStep
  <2>e. EndPass(n) => pc'[n] = "idle"
    BY EndPassPlace, Zenon
  <2>1. UNCHANGED <<inst, task>>
    BY Zenon DEF pass_renew, confirm, list, sweep, reacquire, release_lease, acquire_desired,
       acquire,
           realise, recover, join, journal, tasks
  <2>2. CASE pass_renew(n) \/ confirm(n) \/ list(n) \/ recover(n) \/ join(n)
    <3>1. pc'[n] \notin {"down", "unlease"}
      BY <2>2, <2>e, Domains, Zenon DEF pass_renew, confirm, list, recover, join
    <3> QED
      BY <2>o, <2>1, <3>1, <1>EngineAlone, Zenon
  <2>3. CASE sweep(n) \/ acquire_desired(n) \/ realise(n) \/ release_lease(n)
    <3>1. pc'[n] \notin {"down", "unlease"}
      BY <2>3, <2>e, Domains, ZenonT(40) DEF sweep, acquire_desired, realise, release_lease
    <3> QED
      BY <2>o, <2>1, <3>1, <1>EngineAlone, Zenon
  <2>4. CASE reacquire(n) \/ acquire(n)
    <3>1. pc'[n] \notin {"down", "unlease"}
      BY <2>4, <2>e, Domains, Zenon DEF reacquire, acquire
    <3> QED
      BY <2>o, <2>1, <3>1, <1>EngineAlone, Zenon
  <2> QED
    BY <2>2, <2>3, <2>4, Zenon
\* A crash takes every task with it, and a restart finds none.
<1>CrashSettles. ASSUME FleetTypeOK, SettledInv, NEW n \in Nodes, GoodStep(n), Crash(n) \/ Restart(n)
                 PROVE  EngineStep(n)
  <2> USE <1>CrashSettles
  <2>o. Others(n)
    BY Zenon DEF GoodStep
  <2>1. /\ inst \in [Nodes -> [InstanceIds -> InstanceState \cup {"ABSENT"}]]
        /\ task \in [Nodes -> [InstanceIds -> Task]]
    BY Zenon DEF FleetTypeOK
  <2>2. CASE Crash(n)
    <3>1. /\ inst' = inst /\ pc'[n] = "down" /\ mine'[n] = {}
          /\ task' = [task EXCEPT ![n] = [i \in InstanceIds |-> NoTask]]
      BY <2>2, Domains, Zenon DEF Crash, journal
    <3>2. /\ \A i \in InstanceIds : task'[n][i] = NoTask
          /\ \A m \in Nodes \ {n} : task'[m] = task[m]
      BY <2>1, <3>1, Zenon
    <3>3. \A i \in InstanceIds : task'[n][i].at = "none"
      BY <3>2 DEF NoTask
    <3> QED
      BY <2>o, <3>1, <3>2, <3>3, Zenon DEF EngineStep, Settled, Others
  <2>3. CASE Restart(n)
    <3>1. /\ pc[n] = "down" /\ pc'[n] = "recover" /\ task' = task
          /\ \A m \in Nodes \ {n} : inst'[m] = inst[m]
      BY <2>1, <2>3, Domains, Zenon DEF Restart, tasks
    <3>2. \A i \in InstanceIds : task'[n][i].at = "none"
      BY <3>1, Zenon DEF SettledInv, Settled
    <3> QED
      BY <2>o, <3>1, <3>2, Zenon DEF EngineStep, Settled, Others
  <2> QED
    BY <2>2, <2>3, Zenon
<1> SUFFICES ASSUME FleetTypeOK, PassInv, SettledInv, "Create" \notin ClientKinds,
                    [FleetNext]_fleetVars
             PROVE  SettledInv'
  BY Zenon
<1>1. CASE UNCHANGED fleetVars
  BY <1>1, Zenon DEF fleetVars, pass, journal, tasks, SettledInv
<1>2. ASSUME NEW n \in Nodes, pass_step(n) \/ Crash(n) \/ Restart(n)
      PROVE  SettledInv'
  <2>1. GoodStep(n)
    BY <1>2, StepGood, Zenon
  <2>2. EngineStep(n)
    BY <1>2, <2>1, <1>PassSettles, <1>QuietSettles, <1>CrashSettles, Zenon DEF pass_step
  <2> QED
    BY <2>2, <1>EngineStepSettles, Zenon
<1>3. ASSUME NEW n \in Nodes, NEW i \in InstanceIds, execute(n, i)
      PROVE  SettledInv'
  BY <1>3, <1>ExecuteSettles, <1>EngineStepSettles, Zenon
<1>4. ASSUME NEW n \in Nodes, NEW i \in InstanceIds, NEW kind \in ClientKinds, client(n, i, kind)
      PROVE  SettledInv'
  <2>1. /\ pc' = pc /\ mine' = mine /\ pc[n] # "down" /\ Submits(n, i, kind)
        /\ kind # "Create" /\ kind \in FleetKinds
    BY <1>4, FleetAssumption, Zenon DEF client, pass
  <2>2. /\ Settled(inst'[n], task'[n], pc'[n], mine'[n])
        /\ \A m \in Nodes \ {n} : inst'[m] = inst[m] /\ task'[m] = task[m]
    BY <2>1, <1>SubmitsSettles, Zenon
  <2>3. EngineStep(n)
    BY <2>1, <2>2, Zenon DEF EngineStep
  <2> QED
    BY <2>3, <1>EngineStepSettles, Zenon
<1>5. CASE withdraw \/ \E d \in Desired : apply(d)
  BY <1>5, Zenon DEF withdraw, apply, pass, journal, tasks, SettledInv
<1> QED
  BY <1>1, <1>2, <1>3, <1>4, <1>5, Zenon DEF FleetNext

\* A successor of a Held runs as long as it, or from a clock's reading on.
LEMMA SuccessorLives ==
    ASSUME NEW h \in LeaseRecord, NEW lease \in Successors(h)
    PROVE  lease.expires_ms = h.expires_ms \/ \E now \in Clocks : lease.expires_ms = now + Ttl
<1>1. CASE lease \in {renewed(h, now, s) : now \in Clocks, s \in RunStates}
  <2>1. PICK now \in Clocks, s \in RunStates : lease = renewed(h, now, s)
    BY <1>1
  <2>2. lease.expires_ms = now + Ttl
    BY <2>1, Zenon DEF renewed, LeaseRecord
  <2> QED
    BY <2>2, Zenon
<1>2. CASE lease \in {stamped(h, s) : s \in RunStates} \cup {naming(h, i) : i \in InstanceIds}
  <2>1. (\E s \in RunStates : lease = stamped(h, s)) \/ \E i \in InstanceIds : lease = naming(h, i)
    BY <1>2, Zenon
  <2>2. lease.expires_ms = h.expires_ms
    BY <2>1, Zenon DEF stamped, naming, LeaseRecord
  <2> QED
    BY <2>2, Zenon
<1> QED
  BY <1>1, <1>2 DEF Successors

\* A lease that is acquired or replaced is not given up.
LEMMA OnlyReleased ==
    ASSUME FleetTypeOK, PassInv, NEW n \in Nodes, GoodStep(n),
           store.expires_ms > 0, store'.expires_ms = 0
    PROVE  pc[n] = "unlease" /\ store \in mine[n]
<1>b. Ttl \in Nat \ {0} /\ Clocks \subseteq Nat
  BY TimingAssumption, Zenon
<1>u. /\ held[n] \subseteq LeaseRecord /\ mine[n] \subseteq LeaseRecord /\ store \in LeaseRecord
      /\ seen[n] \subseteq [lease : LeaseRecord, now : Clocks]
  BY Zenon DEF FleetTypeOK, LeaseTypeOK
<1>t. /\ Has(n) \subseteq LeaseRecord /\ store \in LeaseRecord
      /\ \A a \in seen[n] : a.lease \in LeaseRecord /\ a.now \in Clocks
  BY <1>u, Zenon DEF Has, HasNext
<1>s. store' # store
  OBVIOUS
<1>1. CASE Drops(n) \/ Reads(n)
  BY <1>1, <1>s, Zenon DEF Drops, Reads
<1>2. CASE Acquires(n)
  <2>1. PICK a \in seen[n], answer \in Answers : put(a.lease, acquired(a.lease, n, a.now), answer)
    BY <1>2, Zenon DEF Acquires
  <2>2. acquired(a.lease, n, a.now) \in LeaseRecord
    BY <1>t, BuiltTypes, Zenon
  <2>3. acquired(a.lease, n, a.now).expires_ms = a.now + Ttl
    BY <1>t, Zenon DEF acquired, LeaseRecord
  <2>4. store'.expires_ms = a.now + Ttl
    BY <1>s, <2>1, <2>2, <2>3, PutLeaves, Zenon
  <2>5. a.now \in Nat
    BY <1>b, <1>t, Zenon
  <2> QED
    BY <1>b, <2>4, <2>5
<1>3. CASE Writes(n)
  <2>0. PICK h \in Has(n), answer \in Answers : \E lease \in Successors(h) : put(h, lease, answer)
    BY <1>3, Zenon DEF Writes
  <2>1. PICK lease \in Successors(h) : put(h, lease, answer)
    BY <2>0, Zenon
  <2>2. lease \in LeaseRecord
    BY <1>t, <2>1, SuccessorKeeps, Zenon
  <2>3. store = h /\ store'.expires_ms = lease.expires_ms
    BY <1>s, <2>1, <2>2, PutLeaves, Zenon
  <2>4. lease.expires_ms = h.expires_ms \/ \E now \in Clocks : lease.expires_ms = now + Ttl
    BY <1>t, SuccessorLives, Zenon
  <2> QED
    BY <1>b, <2>3, <2>4
<1>4. CASE Releases(n)
  <2>1. pc[n] = "unlease"
    BY <1>4, Zenon DEF Releases
  <2>2. PICK h \in mine[n], answer \in Answers : put(h, released(h), answer)
    BY <1>4, Zenon DEF Releases
  <2>3. h \in LeaseRecord
    BY <1>t, Zenon DEF Has, HasNext
  <2>4. released(h) \in LeaseRecord
    BY <2>3, BuiltTypes, Zenon
  <2>5. store = h
    BY <1>s, <2>2, <2>4, PutLeaves, Zenon
  <2> QED
    BY <2>1, <2>2, <2>5, Zenon
<1> QED
  BY <1>1, <1>2, <1>3, <1>4, Zenon DEF GoodStep, ClientStep

\* A name is given up only once what it stood for is gone.
LEMMA ReleaseIsLast ==
    ASSUME FleetTypeOK, PassInv, SettledInv, [FleetNext]_fleetVars
    PROVE  GoneBeforeRelease
<1>0. store.expires_ms > 0 /\ store'.expires_ms = 0 => store' # store
  OBVIOUS
<1> SUFFICES ASSUME store.expires_ms > 0, store'.expires_ms = 0,
                    NEW i \in {store.instance_id} \ {""}
             PROVE  inst[store.owner][i] \in {"ABSENT", "DESTROYED"}
  BY Zenon DEF GoneBeforeRelease
<1>1. ~UNCHANGED <<leaseVars, pc, mine, target>>
  BY <1>0, Zenon DEF leaseVars
<1>2. PICK n \in Nodes : GoodStep(n)
  BY <1>1, NextGood, Zenon
<1>3. pc[n] = "unlease" /\ store \in mine[n]
  BY <1>2, OnlyReleased, Zenon
<1>4. store.owner = n
  BY <1>3, Zenon DEF PassInv
<1>5. store.instance_id \in InstanceIds
  BY Zenon DEF FleetTypeOK, LeaseTypeOK, LeaseRecord
<1>6. release_intent(inst[n][store.instance_id])
  BY <1>3, <1>5, Zenon DEF SettledInv, Settled
<1> QED
  BY <1>4, <1>6, Zenon DEF release_intent

\* The invariant of the teardown: no task is at work on what is gone, and what a pass
\* has found gone before it gives the name up is still gone when it does.
THEOREM EnginesSettled ==
    ASSUME "Create" \notin ClientKinds PROVE FleetSpec => []SettledInv
<1>1. ASSUME FleetInit
      PROVE  SettledInv
  <2>1. \A n \in Nodes : pc[n] = "idle" /\ \A i \in InstanceIds : task[n][i] = NoTask
    BY <1>1, Zenon DEF FleetInit, Unasked
  <2> QED
    BY <2>1 DEF SettledInv, Settled, NoTask
<1>2. FleetTypeOK /\ PassInv /\ SettledInv /\ [FleetNext]_fleetVars => SettledInv'
  BY NextSettles, Zenon
<1> QED
  BY <1>1, <1>2, FleetTypeCorrect, PassesInPlace, PTL DEF FleetSpec

\* release_sweep: the teardown comes first.  A name's lease is given up only when the
\* journal of its owner has the instance destroyed, or never had it, as long as no
\* client creates an instance under an id that the fleet has minted.
THEOREM TeardownBeforeRelease ==
    ASSUME "Create" \notin ClientKinds PROVE FleetSpec => TeardownFirst
<1>1. FleetTypeOK /\ PassInv /\ SettledInv /\ [FleetNext]_fleetVars
          => [GoneBeforeRelease]_fleetVars
  BY ReleaseIsLast, Zenon
<1> QED
  BY <1>1, FleetTypeCorrect, PassesInPlace, EnginesSettled, PTL DEF FleetSpec, TeardownFirst
===============================================================================
