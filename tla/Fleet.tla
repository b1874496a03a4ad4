-------------------------------- MODULE Fleet --------------------------------
(***************************************************************************)
(* The fleet phase of the nodes that share a bucket (fleet_phase.rs,       *)
(* fleet.rs), for one session name: the pass of each node's reconciler     *)
(* over the lease and the desired record, what it asks of the node's       *)
(* operation engine, and what it does after a restart.                     *)
(*                                                                         *)
(* The engine is reduced to what a pass sees of it: a submission moves the *)
(* instance to its transitional state and spawns a task, unless its key is *)
(* known (a replay, which changes nothing), another task is at work, or    *)
(* the state machine forbids it.  The stamp before the runtime call is one *)
(* step; the one after it is cut where it reads the journal and where it   *)
(* has the lock.  The bucket answers one request per step, and a node      *)
(* takes any number of steps between two of another; a pass is cut         *)
(* wherever it waits for the bucket or reads the journal anew.             *)
(***************************************************************************)
EXTENDS Lease, StateMachine

CONSTANTS
    RecordIds,    \* the instances that consumers name in desired records
    Policies,     \* the values of on_owner_loss consumers write
    ClientKinds,  \* the verbs clients and deadlines use on instances
    OpsFail,      \* whether an operation may fail
    Unreachable,  \* whether the bucket may be unreachable
    MaxCrashes,   \* bound on crashes, of all nodes together
    MaxWrites     \* bound on the writes of the desired record

\* The verbs of the engine that fleet sessions meet.
FleetKinds == {"Create", "Start", "Stop", "Pause", "Resume", "Destroy"}

ASSUME FleetAssumption ==
    /\ {"running", "paused"} \subseteq RunStates
    /\ RecordIds \subseteq InstanceIds
    /\ Policies \subseteq {"coldboot", "hold"}
    /\ ClientKinds \subseteq FleetKinds
    /\ OpsFail \in BOOLEAN
    /\ Unreachable \in BOOLEAN
    /\ MaxCrashes \in Nat /\ MaxWrites \in Nat

VARIABLES
    desired,  \* the object desired/<name>, if it exists
    row,      \* the row of fleet_leases for the name, if any (survives a crash)
    inst,     \* instances.state
    task,     \* the operation at work on each instance
    stamps,   \* the stamps of executors that have finalized
    keys,     \* the idempotency keys of the fleet phase in the journal
    pc,       \* where the pass is
    want,     \* the desired record the pass has listed
    mine,     \* the Held the pass works from, a copy of the map's entry
    target,   \* the instance the pass has decided on, or fences
    crashes,
    writes

journal == <<row, inst, keys>>
pass == <<pc, want, mine, target>>
spent == <<crashes, writes>>
tasks == <<task, stamps>>
fleetVars == <<leaseVars, desired, journal, tasks, pass, spent>>

Desired == [instance_id : RecordIds, on_owner_loss : Policies]
Row == [epoch : Nat, instance_id : InstanceIds \cup {""}, fencing : BOOLEAN]
Key == [verb : {"create", "start", "resume", "delete", "fence"}, epoch : Nat,
        instance_id : InstanceIds \cup {""}]
Task == [kind : FleetKinds, at : {"none", "spawned", "working"}]
NoTask == [kind |-> "Create", at |-> "none"]
Stamp == [instance_id : InstanceIds, state : RunStates \cup {"unread"}]
PassPc == {"idle", "fence", "confirm", "list", "sweep", "reacquire", "release",
           "unlease", "want", "acquire", "realise", "name", "materialise", "down",
           "recover", "refence", "reconfirm", "join", "alone"}

FleetTypeOK ==
    /\ LeaseTypeOK
    /\ desired \in SUBSET Desired
    /\ row \in [Nodes -> SUBSET Row]
    /\ inst \in [Nodes -> [InstanceIds -> InstanceState \cup {"ABSENT"}]]
    /\ task \in [Nodes -> [InstanceIds -> Task]]
    /\ stamps \in [Nodes -> SUBSET Stamp]
    /\ keys \in [Nodes -> SUBSET Key]
    /\ pc \in [Nodes -> PassPc]
    /\ want \in [Nodes -> SUBSET Desired]
    /\ mine \in [Nodes -> SUBSET LeaseRecord]
    /\ target \in [Nodes -> InstanceIds \cup {""}]
    /\ crashes \in 0..MaxCrashes /\ writes \in 0..MaxWrites

\* Nothing has been asked of any node yet.
Unasked ==
    /\ LeaseInit
    /\ desired = {}
    /\ row = [n \in Nodes |-> {}]
    /\ inst = [n \in Nodes |-> [i \in InstanceIds |-> "ABSENT"]]
    /\ task = [n \in Nodes |-> [i \in InstanceIds |-> NoTask]]
    /\ stamps = [n \in Nodes |-> {}]
    /\ keys = [n \in Nodes |-> {}]
    /\ want = [n \in Nodes |-> {}]
    /\ mine = [n \in Nodes |-> {}]
    /\ target = [n \in Nodes |-> ""]
    /\ writes = 0

FleetInit == Unasked /\ pc = [n \in Nodes |-> "idle"] /\ crashes = 0

BucketAnswers == IF Unreachable THEN Answers ELSE {"ok", "refused"}

\* A step of the pass that may be its last: everything it holds goes with it.
EndPass(n) ==
    /\ pc' = [pc EXCEPT ![n] = "idle"]
    /\ want' = [want EXCEPT ![n] = {}]
    /\ mine' = [mine EXCEPT ![n] = {}]
    /\ target' = [target EXCEPT ![n] = ""]

-------------------------------------------------------------------------------
(***************************************************************************)
(* The node's engine, as the fleet phase uses it.                          *)
(***************************************************************************)
\* journal_state, with "ABSENT" for an id that is empty or has no row
journal_state(n, i) == IF i \in InstanceIds THEN inst[n][i] ELSE "ABSENT"

Submits(n, i, kind) ==
    LET to == IF carries_spec(kind)
              THEN IF inst[n][i] = "ABSENT" THEN "CREATING" ELSE "REFUSED"
              ELSE IF inst[n][i] = "ABSENT" THEN "REFUSED"
              ELSE plan_transition(kind, inst[n][i])
    IN  IF task[n][i] = NoTask /\ to # "REFUSED"
        THEN /\ inst' = [inst EXCEPT ![n][i] = to]
             /\ task' = [task EXCEPT ![n][i] = [kind |-> kind, at |-> "spawned"]]
        ELSE UNCHANGED <<inst, task>>

\* ops::submit.  A key the journal knows reads its operation back.
submit(n, i, kind, key) ==
    IF key \in keys[n] THEN UNCHANGED <<inst, task, keys>>
    ELSE /\ Submits(n, i, kind)
         /\ keys' = [keys EXCEPT ![n] = IF task' = task THEN @ ELSE @ \cup {key}]

\* lease_state_for
lease_state_for(state) == IF state = "RUNNING" THEN "running" ELSE "paused"

\* stamp_lease_state under its lock: nothing is written for an instance that no
\* held lease names, or if the lease says so already; a refusal decides nothing.
stamp_lease_state(n, i, state) ==
    IF \E h \in held[n] : h.instance_id = i /\ h.state # state
    THEN \E h \in held[n], answer \in BucketAnswers :
           /\ put(h, stamped(h, state), answer)
           /\ held' = [held EXCEPT ![n] = IF answer = "ok" THEN {store'} ELSE @]
    ELSE UNCHANGED <<store, held>>

\* The executor: it stamps before it calls the runtime, and after it finalized.
execute_begin(n, i) ==
    /\ task[n][i].at = "spawned"
    /\ task' = [task EXCEPT ![n][i].at = "working"]
    /\ stamp_lease_state(n, i, lease_state_for(inst[n][i]))
    /\ UNCHANGED <<seen, desired, journal, stamps, pass, spent>>

execute_finish(n, i) ==
    /\ task[n][i].at = "working"
    /\ \E to \in {final_state(task[n][i].kind)} \cup (IF OpsFail THEN {"FAILED"} ELSE {}) :
         inst' = [inst EXCEPT ![n][i] = to]
    /\ task' = [task EXCEPT ![n][i] = NoTask]
    /\ stamps' = [stamps EXCEPT ![n] = @ \cup {[instance_id |-> i, state |-> "unread"]}]
    /\ UNCHANGED <<leaseVars, desired, row, keys, pass, spent>>

\* The claim is gone by then: the journal may have moved on when the stamp reads
\* it, and again when the stamp has the lock.
stamp_read(n, i) ==
    LET unread == [instance_id |-> i, state |-> "unread"]
    IN  /\ unread \in stamps[n]
        /\ stamps' = [stamps EXCEPT ![n] = (@ \ {unread}) \cup
                         {[unread EXCEPT !.state = lease_state_for(inst[n][i])]}]
        /\ UNCHANGED <<leaseVars, desired, journal, task, pass, spent>>

stamp_write(n, i) ==
    /\ \E s \in stamps[n] :
         /\ s.instance_id = i /\ s.state # "unread"
         /\ stamp_lease_state(n, i, s.state)
         /\ stamps' = [stamps EXCEPT ![n] = @ \ {s}]
    /\ UNCHANGED <<seen, desired, journal, task, pass, spent>>

execute(n, i) ==
    execute_begin(n, i) \/ execute_finish(n, i) \/ stamp_read(n, i) \/ stamp_write(n, i)

\* A client, a TTL or an alarm uses the engine.
client(n, i, kind) ==
    /\ pc[n] \notin {"down", "recover", "refence", "reconfirm", "join"}
    /\ Submits(n, i, kind)
    /\ UNCHANGED <<leaseVars, desired, row, keys, stamps, pass, spent>>

-------------------------------------------------------------------------------
(***************************************************************************)
(* The pass: renew, fence, list, release or acquire, realise.              *)
(***************************************************************************)
\* 1. renew.  A refusal is taken for a takeover; an error ends the pass.
pass_renew(n) ==
    /\ pc[n] = "idle"
    /\ \/ /\ held[n] = {}
          /\ pc' = [pc EXCEPT ![n] = "list"]
          /\ UNCHANGED <<store, held, target>>
       \/ \E h \in held[n], now \in Clocks, answer \in BucketAnswers :
          /\ put(h, renewed(h, now, lease_state_for(journal_state(n, h.instance_id))), answer)
          /\ \/ /\ answer = "ok"
                /\ held' = [held EXCEPT ![n] = {store'}]
                /\ pc' = [pc EXCEPT ![n] = "list"]
                /\ UNCHANGED target
             \/ /\ answer = "refused"
                /\ held' = [held EXCEPT ![n] = {}]
                /\ pc' = [pc EXCEPT ![n] = "fence"]
                /\ target' = [target EXCEPT ![n] = h.instance_id]
             \/ /\ answer = "error"
                /\ UNCHANGED <<held, pc, target>>
    /\ UNCHANGED <<seen, desired, journal, tasks, want, mine, spent>>

\* self_fence
self_fence(n, i) ==
    IF i = "" THEN UNCHANGED <<inst, task, keys>>
    ELSE submit(n, i, "Stop", [verb |-> "fence", epoch |-> 0, instance_id |-> i])

\* 2. fence: fence_and_confirm up to the stop it submits, in a pass or at a restart.
fence(n) ==
    /\ pc[n] \in {"fence", "refence"}
    /\ row' = [row EXCEPT ![n] = {[r EXCEPT !.fencing = TRUE] : r \in @}]
    /\ self_fence(n, target[n])
    /\ pc' = [pc EXCEPT ![n] = IF @ = "fence" THEN "confirm" ELSE "reconfirm"]
    /\ UNCHANGED <<leaseVars, desired, stamps, want, mine, target, spent>>

\* Mutation: what is not RUNNING or STARTING counts as stopped.
not_started(state) == state \notin {"RUNNING", "STARTING"}

\* A workload is observed not to run; an absent one has nothing to stop.
stopped(state) == state \in {"ABSENT", "STOPPED", "DESTROYED", "PAUSED"}

\* The rest of fence_and_confirm.
confirm(n) ==
    /\ pc[n] \in {"confirm", "reconfirm"}
    /\ row' = [row EXCEPT ![n] = IF stopped(journal_state(n, target[n])) THEN {} ELSE @]
    /\ pc' = [pc EXCEPT ![n] = IF @ = "confirm" THEN "list" ELSE "join"]
    /\ target' = [target EXCEPT ![n] = ""]
    /\ UNCHANGED <<leaseVars, desired, inst, keys, tasks, want, mine, spent>>

\* Fleet::desired
list(n) ==
    /\ pc[n] = "list"
    /\ \/ /\ pc' = [pc EXCEPT ![n] = IF desired = {} THEN "sweep" ELSE "want"]
          /\ want' = [want EXCEPT ![n] = desired]
          /\ UNCHANGED <<mine, target>>
       \/ Unreachable /\ EndPass(n)
    /\ UNCHANGED <<leaseVars, desired, journal, tasks, spent>>

\* The read of acquire, at the clock reading now.  MaxEpoch bounds the takeovers:
\* a reading that would make one more is not taken.
acquire_reads(n) ==
    \E now \in Clocks :
        /\ takeable(store, n, now)
        /\ acquired(store, n, now).epoch <= MaxEpoch
        /\ seen' = [seen EXCEPT ![n] = {[lease |-> store, now |-> now]}]

HeldByOther(n) == \E now \in Clocks : ~takeable(store, n, now)

\* Mutation: only the leases in the map are looked at.
sweep_in_memory(n) ==
    /\ pc[n] = "sweep"
    /\ \/ /\ held[n] # {}
          /\ mine' = [mine EXCEPT ![n] = held[n]]
          /\ pc' = [pc EXCEPT ![n] = "release"]
          /\ UNCHANGED <<want, target>>
       \/ held[n] = {} /\ EndPass(n)
    /\ UNCHANGED <<leaseVars, desired, journal, tasks, spent>>

\* 3b. release_sweep, for a name that is not desired: the lease in the map, or
\* one the journal remembers and that is not being fenced.
sweep(n) ==
    /\ pc[n] = "sweep"
    /\ \/ /\ held[n] # {}
          /\ mine' = [mine EXCEPT ![n] = held[n]]
          /\ pc' = [pc EXCEPT ![n] = "release"]
          /\ UNCHANGED <<seen, want, target>>
       \/ /\ held[n] = {}
          /\ \E r \in row[n] : ~r.fencing
          /\ acquire_reads(n)
          /\ pc' = [pc EXCEPT ![n] = "reacquire"]
          /\ UNCHANGED <<want, mine, target>>
       \/ /\ held[n] = {}
          /\ \/ \A r \in row[n] : r.fencing
             \/ Unreachable
             \/ HeldByOther(n)
          /\ EndPass(n)
          /\ UNCHANGED seen
    /\ UNCHANGED <<store, held, desired, journal, tasks, spent>>

reacquire(n) ==
    /\ pc[n] = "reacquire"
    /\ \E a \in seen[n], answer \in BucketAnswers :
         /\ put(a.lease, acquired(a.lease, n, a.now), answer)
         /\ IF answer = "ok"
            THEN /\ held' = [held EXCEPT ![n] = {store'}]
                 /\ mine' = [mine EXCEPT ![n] = {store'}]
                 /\ pc' = [pc EXCEPT ![n] = "release"]
                 /\ UNCHANGED <<want, target>>
            ELSE EndPass(n) /\ UNCHANGED held
    /\ seen' = [seen EXCEPT ![n] = {}]
    /\ UNCHANGED <<desired, journal, tasks, spent>>

\* Mutation: a paused instance is gone.
paused_is_gone(state) == state \in {"ABSENT", "DESTROYED", "PAUSED"}

\* release_intent, for a name that is not desired and not being fenced
release_intent(state) == state \in {"ABSENT", "DESTROYED"}

\* Teardown first.
release_name(n) ==
    /\ pc[n] = "release"
    /\ \E h \in mine[n] :
         IF release_intent(journal_state(n, h.instance_id))
         THEN /\ pc' = [pc EXCEPT ![n] = "unlease"]
              /\ UNCHANGED <<inst, task, keys, want, mine, target>>
         ELSE /\ submit(n, h.instance_id, "Destroy",
                        [verb |-> "delete", epoch |-> h.epoch,
                         instance_id |-> h.instance_id])
              /\ EndPass(n)
    /\ UNCHANGED <<leaseVars, desired, row, stamps, spent>>

\* Then the release, which a refusal counts as.
release_lease(n) ==
    /\ pc[n] = "unlease"
    /\ \E h \in mine[n], answer \in BucketAnswers :
         /\ put(h, released(h), answer)
         /\ held' = [held EXCEPT ![n] = IF answer = "error" THEN @ ELSE {}]
         /\ row' = [row EXCEPT ![n] = IF answer = "error" THEN @ ELSE {}]
    /\ EndPass(n)
    /\ UNCHANGED <<seen, desired, inst, keys, tasks, spent>>

\* Mutation: a name that is held needs no more looking at.
acquire_desired_skips_held(n) ==
    /\ pc[n] = "want"
    /\ \/ /\ held[n] = {}
          /\ acquire_reads(n)
          /\ pc' = [pc EXCEPT ![n] = "acquire"]
          /\ UNCHANGED <<want, mine, target>>
       \/ /\ held[n] # {} \/ Unreachable \/ HeldByOther(n)
          /\ EndPass(n)
          /\ UNCHANGED seen
    /\ UNCHANGED <<store, held, desired, journal, tasks, spent>>

\* 3. acquire a name that is desired and not held.
acquire_desired(n) ==
    /\ pc[n] = "want"
    /\ \/ /\ held[n] # {}
          /\ mine' = [mine EXCEPT ![n] = held[n]]
          /\ pc' = [pc EXCEPT ![n] = "realise"]
          /\ UNCHANGED <<seen, want, target>>
       \/ /\ held[n] = {}
          /\ acquire_reads(n)
          /\ pc' = [pc EXCEPT ![n] = "acquire"]
          /\ UNCHANGED <<want, mine, target>>
       \/ /\ held[n] = {}
          /\ Unreachable \/ HeldByOther(n)
          /\ EndPass(n)
          /\ UNCHANGED seen
    /\ UNCHANGED <<store, held, desired, journal, tasks, spent>>

\* Db::hold_lease: a row that is there keeps its fencing flag.
hold_lease(n, lease) ==
    row' = [row EXCEPT ![n] =
        {[epoch |-> lease.epoch, instance_id |-> lease.instance_id,
          fencing |-> \E r \in row[n] : r.fencing]}]

\* Mutation: what is kept is the lease as it was read.
acquire_keeps_read(n) ==
    /\ pc[n] = "acquire"
    /\ \E a \in seen[n], answer \in BucketAnswers :
         /\ put(a.lease, acquired(a.lease, n, a.now), answer)
         /\ IF answer = "ok"
            THEN /\ hold_lease(n, a.lease)
                 /\ held' = [held EXCEPT ![n] = {a.lease}]
                 /\ mine' = [mine EXCEPT ![n] = {a.lease}]
                 /\ pc' = [pc EXCEPT ![n] = "realise"]
                 /\ UNCHANGED <<want, target>>
            ELSE EndPass(n) /\ UNCHANGED <<held, row>>
    /\ seen' = [seen EXCEPT ![n] = {}]
    /\ UNCHANGED <<desired, inst, keys, tasks, spent>>

acquire(n) ==
    /\ pc[n] = "acquire"
    /\ \E a \in seen[n], answer \in BucketAnswers :
         /\ put(a.lease, acquired(a.lease, n, a.now), answer)
         /\ IF answer = "ok"
            THEN /\ hold_lease(n, store')
                 /\ held' = [held EXCEPT ![n] = {store'}]
                 /\ mine' = [mine EXCEPT ![n] = {store'}]
                 /\ pc' = [pc EXCEPT ![n] = "realise"]
                 /\ UNCHANGED <<want, target>>
            ELSE EndPass(n) /\ UNCHANGED <<held, row>>
    /\ seen' = [seen EXCEPT ![n] = {}]
    /\ UNCHANGED <<desired, inst, keys, tasks, spent>>

\* realising_instance
realising_instance(n, recorded, leased) ==
    CASE ~is_terminal(inst[n][recorded]) -> "Record"
      [] /\ is_terminal(inst[n][recorded])
         /\ leased \notin {"", recorded}
         /\ ~is_terminal(journal_state(n, leased)) -> "Lease"
      [] OTHER -> "Fresh"

\* An id that a generated ULID may stand for: nothing has ever named it.
Unused(i) ==
    /\ \A n \in Nodes : /\ inst[n][i] = "ABSENT"
                        /\ \A r \in row[n] \cup held[n] \cup mine[n] \cup want[n] :
                              r.instance_id # i
    /\ \A r \in desired \cup {store} : r.instance_id # i

\* intent_for
intent_for(policy, took_over, realised) ==
    CASE realised -> "AlreadyRunning"
      [] ~realised /\ took_over /\ policy = "hold" -> "Hold"
      [] OTHER -> "Materialise"

\* 4. Which instance realises the session, and whether to do anything for it.
\* InstanceIds bounds the instances that may be minted.
realise(n) ==
    /\ pc[n] = "realise"
    /\ \E w \in want[n], h \in mine[n] :
         LET which == realising_instance(n, w.instance_id, h.instance_id)
             ids == CASE which = "Record" -> {w.instance_id}
                      [] which = "Lease" -> {h.instance_id}
                      [] which = "Fresh" -> {i \in InstanceIds : Unused(i)}
         IN  \/ \E i \in ids :
                IF intent_for(w.on_owner_loss, h.epoch > 1,
                              inst[n][i] \in {"RUNNING", "PAUSED"}) = "Materialise"
                THEN /\ target' = [target EXCEPT ![n] = i]
                     /\ pc' = [pc EXCEPT ![n] = IF h.instance_id # i THEN "name"
                                               ELSE "materialise"]
                     /\ UNCHANGED <<want, mine>>
                ELSE EndPass(n)
             \/ ids = {} /\ EndPass(n)
    /\ UNCHANGED <<leaseVars, desired, journal, tasks, spent>>

\* The lease learns which instance realises the session, fenced by the copy the
\* pass took of the map's entry.
name_instance(n) ==
    /\ pc[n] = "name"
    /\ \E h \in mine[n], answer \in BucketAnswers :
         /\ put(h, naming(h, target[n]), answer)
         /\ \/ /\ answer = "ok"
               /\ held' = [held EXCEPT ![n] = {store'}]
               /\ row' = [row EXCEPT ![n] = {[r EXCEPT !.instance_id = target[n]] : r \in @}]
               /\ pc' = [pc EXCEPT ![n] = "materialise"]
               /\ UNCHANGED <<inst, keys, task, want, mine, target>>
            \/ /\ answer = "refused"
               /\ held' = [held EXCEPT ![n] = {}]
               /\ self_fence(n, h.instance_id)
               /\ EndPass(n)
               /\ UNCHANGED row
            \/ /\ answer = "error"
               /\ EndPass(n)
               /\ UNCHANGED <<held, row, inst, keys, task>>
    /\ UNCHANGED <<seen, desired, stamps, spent>>

\* materialise: one operation a pass, keyed by the epoch and the instance.
materialise(n) ==
    /\ pc[n] = "materialise"
    /\ LET i == target[n]
           state == inst[n][i]
       IN  \E h \in mine[n] :
             LET step(kind, verb) ==
                   submit(n, i, kind, [verb |-> verb, epoch |-> h.epoch, instance_id |-> i])
             IN  CASE state = "ABSENT" -> step("Create", "create")
                   [] state = "PAUSED" /\ h.epoch = 1 -> step("Resume", "resume")
                   [] state \in {"CREATED", "STOPPED"} -> step("Start", "start")
                   [] state = "PAUSED" /\ h.epoch > 1 -> step("Start", "start")
                   [] OTHER -> UNCHANGED <<inst, task, keys>>
    /\ EndPass(n)
    /\ UNCHANGED <<leaseVars, desired, row, stamps, spent>>

-------------------------------------------------------------------------------
(***************************************************************************)
(* Crash and restart.  The engine's recovery settles every instance before *)
(* the fleet phase looks at the bucket.                                    *)
(***************************************************************************)
Crash(n) ==
    /\ pc[n] # "down"
    /\ crashes < MaxCrashes
    /\ crashes' = crashes + 1
    /\ pc' = [pc EXCEPT ![n] = "down"]
    /\ held' = [held EXCEPT ![n] = {}]
    /\ seen' = [seen EXCEPT ![n] = {}]
    /\ want' = [want EXCEPT ![n] = {}]
    /\ mine' = [mine EXCEPT ![n] = {}]
    /\ target' = [target EXCEPT ![n] = ""]
    /\ task' = [task EXCEPT ![n] = [i \in InstanceIds |-> NoTask]]
    /\ stamps' = [stamps EXCEPT ![n] = {}]
    /\ UNCHANGED <<store, desired, journal, writes>>

\* The states engine recovery may leave an instance in.
recovered_states(s) ==
    CASE s = "STOPPING" -> {"STOPPED"} \cup (IF OpsFail THEN {"FAILED"} ELSE {})
      [] s = "CHECKPOINTING" -> {"RUNNING"}
      [] s = "DESTROYING" -> {"DESTROYED"}
      [] s \in {"CREATING", "STARTING", "PAUSING", "RESUMING"} -> {"FAILED"}
      [] OTHER -> {s}

Restart(n) ==
    /\ pc[n] = "down"
    /\ \E f \in [InstanceIds -> InstanceState \cup {"ABSENT"}] :
         /\ \A i \in InstanceIds : f[i] \in recovered_states(inst[n][i])
         /\ inst' = [inst EXCEPT ![n] = f]
    /\ pc' = [pc EXCEPT ![n] = "recover"]
    /\ UNCHANGED <<leaseVars, desired, row, keys, tasks, want, mine, target, spent>>

\* fleet_phase::recover.  A lease that is not ours at the epoch of the row is
\* fenced; a bucket that cannot be reached decides nothing.
recover(n) ==
    /\ pc[n] = "recover"
    /\ \/ \E r \in row[n] :
             /\ store.owner # n \/ store.epoch # r.epoch
             /\ pc' = [pc EXCEPT ![n] = "refence"]
             /\ target' = [target EXCEPT ![n] = r.instance_id]
       \/ /\ Unreachable \/ \A r \in row[n] : store.owner = n /\ store.epoch = r.epoch
          /\ pc' = [pc EXCEPT ![n] = "join"]
          /\ UNCHANGED target
    /\ UNCHANGED <<leaseVars, desired, journal, tasks, want, mine, spent>>

\* The end of join_fleet: Arc::get_mut gives the agent only while nothing else
\* refers to it, and an executor does.  Without it the agent has no fleet.
join(n) ==
    /\ pc[n] = "join"
    /\ pc' = [pc EXCEPT ![n] =
                 IF stamps[n] = {} /\ \A i \in InstanceIds : task[n][i] = NoTask
                 THEN "idle" ELSE "alone"]
    /\ UNCHANGED <<leaseVars, desired, journal, tasks, want, mine, target, spent>>

-------------------------------------------------------------------------------
\* A consumer writes or deletes desired/<name>.
apply(d) ==
    /\ desired # {d}
    /\ writes < MaxWrites
    /\ writes' = writes + 1
    /\ desired' = {d}
    /\ UNCHANGED <<leaseVars, journal, tasks, pass, crashes>>

withdraw ==
    /\ desired # {}
    /\ writes < MaxWrites
    /\ writes' = writes + 1
    /\ desired' = {}
    /\ UNCHANGED <<leaseVars, journal, tasks, pass, crashes>>

pass_step(n) ==
    \/ pass_renew(n) \/ fence(n) \/ confirm(n) \/ list(n)
    \/ sweep(n) \/ reacquire(n) \/ release_name(n) \/ release_lease(n)
    \/ acquire_desired(n) \/ acquire(n) \/ realise(n) \/ name_instance(n)
    \/ materialise(n) \/ recover(n) \/ join(n)

FleetNext ==
    \/ \E n \in Nodes : pass_step(n) \/ Crash(n) \/ Restart(n)
    \/ \E n \in Nodes, i \in InstanceIds : execute(n, i)
    \/ \E n \in Nodes, i \in InstanceIds, kind \in ClientKinds : client(n, i, kind)
    \/ \E d \in Desired : apply(d)
    \/ withdraw

FleetSpec == FleetInit /\ [][FleetNext]_fleetVars

\* Passes recur on every tick, executors run on, and a node that died is started
\* again.
FleetFairness ==
    /\ \A n \in Nodes : WF_fleetVars(pass_step(n)) /\ WF_fleetVars(Restart(n))
    /\ \A n \in Nodes, i \in InstanceIds : WF_fleetVars(execute(n, i))

FairFleetSpec == FleetSpec /\ FleetFairness

-------------------------------------------------------------------------------
(***************************************************************************)
(* Properties.                                                             *)
(***************************************************************************)
\* The workload of an instance may be up.  A failed one is left to the sweep of
\* orphaned sandboxes.
MayRun(n, i) ==
    inst[n][i] \in {"STARTING", "RUNNING", "PAUSING", "RESUMING", "CHECKPOINTING", "STOPPING"}

\* What the journals say is owned is never claimed twice, at any moment of any
\* crash: the rows of two nodes are of different epochs, no row is ahead of the
\* bucket, and a row of the bucket's epoch is the owner's.  It is what lets
\* fleet_phase::recover tell its own lease from a lost one by owner and epoch.
NoSharedClaim ==
    \A n \in Nodes : \A r \in row[n] :
        /\ r.epoch <= store.epoch
        /\ r.epoch = store.epoch => store.owner = n
        /\ \A m \in Nodes \ {n} : \A q \in row[m] : q.epoch # r.epoch

\* A workload that may be up is one that the node's journal can name: fencing
\* drops the row only once the workload is observed not to run, so a restart
\* finds what to fence (fence_and_confirm).  For a session with one instance.
FenceRemembered ==
    \A n \in Nodes, i \in InstanceIds :
        MayRun(n, i) => \E r \in row[n] : r.instance_id = i

\* Teardown comes before release, "never the reverse": when the lease of a name
\* is released, the instance it names is gone from its owner's node
\* (release_sweep).
GoneBeforeRelease ==
    store.expires_ms > 0 /\ store'.expires_ms = 0
        => \A i \in {store.instance_id} \ {""} :
              inst[store.owner][i] \in {"ABSENT", "DESTROYED"}
TeardownFirst == [][GoneBeforeRelease]_fleetVars

\* All the phase does to a lease is what a client of lease.rs may do: the map's
\* entry and the copy a pass works from are Helds the lease has given out.
FleetLease == INSTANCE Lease WITH
    held <- [n \in Nodes |-> held[n] \cup mine[n]],
    MaxHeld <- 2

IsLease == FleetLease!LeaseSpec

\* A desired session comes up on the node that owns its name, whichever node
\* takes it over on the way, and across a restart: an instance that recovery left
\* in a terminal state is replaced by a fresh one (unless nobody wants it any more).
Realised ==
    desired # {} ~> \/ desired = {}
                    \/ \E n \in Nodes, i \in InstanceIds :
                          store.owner = n /\ inst[n][i] = "RUNNING"

\* A session that is deleted for good is torn down, on whichever node had it and
\* across a restart of that node, and its name is left to whoever takes it: nobody
\* renews the lease any more (release_sweep).
Withdrawn ==
    <>[](desired = {}) =>
        <>[](\A n \in Nodes : held[n] = {} /\ \A i \in InstanceIds : ~MayRun(n, i))

-------------------------------------------------------------------------------
(***************************************************************************)
(* What the comments, events and messages of the code say, and the code    *)
(* does not do.                                                            *)
(***************************************************************************)
\* fence_and_confirm: "Otherwise the row survives with `fencing = 1` and the next
\* pass tries again": a workload that is being fenced stops, or its name is won back.
FenceRetried ==
    \A n \in Nodes, i \in InstanceIds :
        (inst[n][i] = "RUNNING" /\ \E r \in row[n] : r.fencing /\ r.instance_id = i)
            ~> (stopped(inst[n][i]) \/ store.owner = n)
===============================================================================
