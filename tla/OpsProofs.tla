------------------------------ MODULE OpsProofs ------------------------------
(***************************************************************************)
(* The safety properties of Ops, for any number of instances, operations   *)
(* and crashes, with and without journal faults; and that it implements    *)
(* Lifecycle, as long as no client forks: a fork ends in RUNNING straight  *)
(* from CREATING, an edge the table lacks.                                 *)
(***************************************************************************)
EXTENDS Ops, TLAPS

-------------------------------------------------------------------------------
(***************************************************************************)
(* The inductive invariant.                                                *)
(***************************************************************************)

\* Claims: an operation in flight, and one whose task is alive, holds its claim;
\* claims on the same instance are one claim; tasks exist on a serving node only,
\* and recovery takes every claim back before it resolves instances.  No caller
\* of this engine asks for input.
ClaimInv ==
    /\ \A o \in Operations : op_is_in_flight(opState[o]) => executorActive[o]
    /\ \A o \in Operations : live(o) => executorActive[o]
    /\ \A o, p \in Operations :
         executorActive[o] /\ executorActive[p] /\ opInst[o] = opInst[p] => o = p
    /\ \A o \in Operations : live(o) => phase = "up"
    /\ phase = "ops" =>
         \A o \in Operations : executorActive[o] => op_is_in_flight(opState[o])
    /\ phase \in {"instances", "sweep"} => \A o \in Operations : ~executorActive[o]
    /\ \A o \in Operations :
         executorActive[o] => op_is_in_flight(opState[o]) \/ opState[o] = "CANCELED"
    /\ \A o \in Operations : opState[o] # "AWAITING_INPUT"

\* What a live task knows: the row is as its submission left it or was failed
\* since, the state recorded then fits its verb, and only failed creates and forks
\* compensate.
TaskInv ==
    \A o \in Operations : live(o) =>
        /\ inst[opInst[o]] \in {recorded[o], "FAILED"}
        /\ \/ recorded[o] = transitional_state(opKind[o])
           \/ opKind[o] = "DeleteSnapshot" /\ ~is_transitional(recorded[o])
           \/ opKind[o] = "CreateSnapshot" /\ recorded[o] = "PAUSED"
        /\ pc[o] = "compensate" => carries_spec(opKind[o]) /\ result[o] = "err"

\* What a task was handed is still true of the sandbox, also when the row no longer
\* says so: the task may write it back.
HandedInv ==
    \A o \in Operations : live(o) =>
        /\ recorded[o] \in {"CREATED", "STOPPED", "PAUSED"} => sandbox[opInst[o]] # "running"
        /\ recorded[o] \in {"RUNNING", "CHECKPOINTING"} =>
             sandbox[opInst[o]] = "running" \/ opInst[o] \in lost
        /\ opInst[o] \in late => recorded[o] \in {"FAILED", "DESTROYING", "DESTROYED"}

\* What the runtime call left behind still holds when the task finalizes.
WorkInv ==
    \A o \in Operations : pc[o] = "finalize" /\ result[o] = "ok" =>
        /\ opKind[o] \in {"Create", "Stop", "Pause"} => sandbox[opInst[o]] # "running"
        /\ boots(opKind[o]) => sandbox[opInst[o]] = "running" \/ opInst[o] \in lost

\* The capture of a running instance does not stop it.
CheckpointInv ==
    \A i \in Instances :
        inst[i] = "CHECKPOINTING" => sandbox[i] = "running" \/ i \in lost

\* A boot left over from a dead process can only hit an instance that recovery
\* is about to fail, or has failed.
LateInv ==
    \A i \in late :
        \/ inst[i] \in {"FAILED", "DESTROYING", "DESTROYED"}
        \/ /\ phase \in {"down", "ops", "instances"}
           /\ inst[i] \in {"CREATING", "STARTING", "RESUMING"}

\* What recovery's runtime call left behind still holds when it is recorded.
RecoverInv ==
    /\ \A c \in rcall :
         /\ phase = "instances"
         /\ is_transitional(inst[c.instance])
         /\ inst[c.instance] = "STOPPING" /\ c.ok => sandbox[c.instance] # "running"
    /\ phase = "sweep" => \A i \in Instances : ~is_transitional(inst[i])

\* The reconcile pass runs on a serving node and judges instances that have a row.
VerdictInv ==
    \A i \in Instances :
        /\ verdict[i] # "none" => phase = "up"
        /\ verdict[i] = "vanished" => inst[i] # "ABSENT"

IInv ==
    /\ TypeOK
    /\ ClaimInv
    /\ TaskInv
    /\ HandedInv
    /\ WorkInv
    /\ CheckpointInv
    /\ LateInv
    /\ RecoverInv
    /\ VerdictInv
    /\ JournalHonest
    /\ TransitionalOwned

-------------------------------------------------------------------------------
\* What a submission may record, given the state it finds.
LEMMA PlanFacts ==
    ASSUME NEW k \in OpKind, NEW s \in InstanceState,
           plan_transition(k, s) # "REFUSED"
    PROVE  LET to == plan_transition(k, s) IN
           /\ to \in InstanceState
           /\ \/ k # "DeleteSnapshot" /\ to = transitional_state(k)
              \/ k = "DeleteSnapshot" /\ to = s
              \/ k = "CreateSnapshot" /\ s = "PAUSED" /\ to = "PAUSED"
           /\ to = s \/ can_transition(s, to)
           /\ ~is_transitional(to) => to = s
           /\ to = "CHECKPOINTING" => s \in {"RUNNING", "CHECKPOINTING"}
           /\ s \in {"FAILED", "DESTROYING", "DESTROYED"} =>
                to \in {"FAILED", "DESTROYING", "DESTROYED"}
           /\ s = "DESTROYED" => to = "DESTROYED"
<1> DEFINE t == transitional_state(k)
<1>1. k # "DeleteSnapshot" =>
         t \in {"CREATING", "STARTING", "STOPPING", "PAUSING", "RESUMING",
                "CHECKPOINTING", "DESTROYING"}
    BY Zenon DEF transitional_state, OpKind
<1> HIDE DEF t
<1>2. CASE k = "DeleteSnapshot"
    BY <1>2, Zenon DEF plan_transition
<1>3. CASE k = "CreateSnapshot" /\ s = "PAUSED"
    BY <1>3, Zenon DEF plan_transition, is_transitional, InstanceState
<1>4. CASE k # "DeleteSnapshot" /\ ~(k = "CreateSnapshot" /\ s = "PAUSED")
    <2>1. plan_transition(k, s) = t /\ can_transition(s, t)
        BY <1>4, Zenon DEF plan_transition, t
    <2>2. t = "CREATING" => FALSE
        BY <2>1, Zenon DEF can_transition, TRANSITIONS
    <2>3. t = "CHECKPOINTING" => s = "RUNNING"
        BY <2>1, Zenon DEF can_transition, TRANSITIONS
    <2>4. s \in {"FAILED", "DESTROYING", "DESTROYED"} => t = "DESTROYING"
        BY <1>1, <1>4, <2>1, Zenon DEF can_transition, TRANSITIONS
    <2>5. s # "DESTROYED"
        BY <1>1, <1>4, <2>1, Zenon DEF can_transition, TRANSITIONS
    <2> QED
        BY <1>1, <1>4, <2>1, <2>2, <2>3, <2>4, <2>5, Zenon DEF t, is_transitional, InstanceState
<1> QED BY <1>2, <1>3, <1>4, Zenon

\* The two states of a verb.
LEMMA StateFacts ==
    ASSUME NEW k \in OpKind
    PROVE  /\ k # "DeleteSnapshot" =>
                /\ transitional_state(k) \in InstanceState
                /\ is_transitional(transitional_state(k))
                /\ final_state(k) \in InstanceState
                /\ ~is_transitional(final_state(k))
           /\ transitional_state("DeleteSnapshot") \notin InstanceState
           /\ transitional_state(k) = "CREATING" <=> carries_spec(k)
           /\ transitional_state(k) = "DESTROYING" <=> k = "Destroy"
           /\ transitional_state(k) = "CHECKPOINTING" <=> k = "CreateSnapshot"
           /\ boots(k) => /\ transitional_state(k) \in {"CREATING", "STARTING", "RESUMING"}
                          /\ final_state(k) = "RUNNING"
           /\ final_state(k) \in {"CREATED", "STOPPED", "PAUSED"} =>
                k \in {"Create", "Stop", "Pause"}
           /\ final_state(k) = "RUNNING" => boots(k) \/ k = "CreateSnapshot"
           /\ k \in {"Create", "Stop", "Pause"} => 
                can_transition(transitional_state(k), final_state(k))
BY SMT DEF transitional_state, final_state, is_transitional, OpKind, InstanceState,
           carries_spec, boots, can_transition, TRANSITIONS

\* A submission finds the instance at rest and unclaimed, and claims it.
LEMMA SubmitKeeps ==
    ASSUME IInv, NEW o \in Operations, NEW i \in Instances, NEW k \in Kinds,
           submit(o, i, k)
    PROVE  IInv'
<1> DEFINE to == IF carries_spec(k) THEN "CREATING" ELSE plan_transition(k, inst[i])
<1>k. k \in OpKind
    BY KindsAssumption, Zenon
<1>s. /\ phase = "up" /\ opState[o] = "NONE" /\ ~has_inflight_op(i)
      /\ inst' = [inst EXCEPT ![i] = to]
      /\ opState' = [opState EXCEPT ![o] = "QUEUED"]
      /\ opKind' = [opKind EXCEPT ![o] = k]
      /\ opInst' = [opInst EXCEPT ![o] = i]
      /\ executorActive' = [executorActive EXCEPT ![o] = TRUE]
      /\ pc' = [pc EXCEPT ![o] = "spawned"]
      /\ recorded' = [recorded EXCEPT ![o] = to]
      /\ UNCHANGED <<result, phase, rcall, verdict, crashes, sandbox, late, lost>>
    BY Zenon DEF submit, submit_atomically, process, substrate
\* What the submission finds and what it records.
<1>t. /\ to \in InstanceState
      /\ \/ to = transitional_state(k)
         \/ k = "DeleteSnapshot" /\ ~is_transitional(to)
         \/ k = "CreateSnapshot" /\ to = "PAUSED"
      /\ ~is_transitional(to) => to = inst[i]
      /\ to = "CHECKPOINTING" => inst[i] = "RUNNING"
      /\ i \in late => to \in {"FAILED", "DESTROYING", "DESTROYED"}
    <2>1. CASE carries_spec(k)
        <3>1. inst[i] = "ABSENT"
            BY <2>1, Zenon DEF submit, submit_atomically
        <3> QED BY <1>k, <2>1, <3>1, StateFacts, Zenon
                DEF InstanceState, is_transitional, IInv, LateInv
    <2>2. CASE ~carries_spec(k)
        <3>1. inst[i] \in InstanceState /\ plan_transition(k, inst[i]) # "REFUSED"
            BY <2>2, Zenon DEF submit, submit_atomically, IInv, TypeOK
        <3>2. ~is_transitional(inst[i])
            BY <1>s, Zenon DEF IInv, TransitionalOwned
        <3>3. i \in late => inst[i] \in {"FAILED", "DESTROYING", "DESTROYED"}
            BY <1>s, Zenon DEF IInv, LateInv
        <3>4. inst[i] # "CHECKPOINTING"
            BY <3>2, Zenon DEF is_transitional
        <3> QED BY <1>k, <2>2, <3>1, <3>2, <3>3, <3>4, PlanFacts
    <2> QED BY <2>1, <2>2, Zenon
<1> HIDE DEF to
<1>1. TypeOK'
    BY <1>k, <1>s, <1>t, Zenon DEF IInv, TypeOK, OperationState, Pc
<1>2. ClaimInv'
    <2>1. ~live(o) /\ \A p \in Operations : executorActive[p] => opInst[p] # i
        BY <1>s, Zenon DEF IInv, ClaimInv, has_inflight_op, TypeOK, op_is_in_flight
    <2> QED BY <1>s, <2>1 DEF IInv, ClaimInv, TypeOK, live, op_is_in_flight
<1>3. TaskInv'
    <2>1. \A p \in Operations : live(p) => p # o /\ opInst[p] # i
        BY <1>s, Zenon DEF IInv, ClaimInv, has_inflight_op, TypeOK, op_is_in_flight
    <2> QED BY <1>s, <1>t, <2>1 DEF IInv, TaskInv, TypeOK, live
<1>4. WorkInv'
    BY <1>s, Zenon DEF IInv, WorkInv, TypeOK
<1>5. CheckpointInv'
    BY <1>s, <1>t, Zenon DEF IInv, CheckpointInv, TypeOK, JournalHonest
<1>6. LateInv'
    BY <1>s, <1>t, Zenon DEF IInv, LateInv, TypeOK
<1>7. RecoverInv'
    BY <1>s, Zenon DEF IInv, RecoverInv, TypeOK
<1>8. JournalHonest'
    BY <1>s, <1>t DEF IInv, JournalHonest, TypeOK, is_transitional, InstanceState
<1>9. TransitionalOwned'
    <2> SUFFICES ASSUME NEW j \in Instances, is_transitional(inst'[j])
                 PROVE  \E p \in Operations : executorActive'[p] /\ opInst'[p] = j
        BY Zenon DEF TransitionalOwned, has_inflight_op, is_transitional
    <2>1. CASE j = i
        BY <1>s, <2>1, Zenon DEF IInv, TypeOK
    <2>2. CASE j # i
        <3>1. PICK p \in Operations : executorActive[p] /\ opInst[p] = j
            BY <1>s, <2>2, Zenon DEF IInv, TransitionalOwned, TypeOK, has_inflight_op,
               is_transitional
        <3> QED BY <1>s, <2>2, <3>1, Zenon DEF IInv, ClaimInv, TypeOK, op_is_in_flight
    <2> QED BY <2>1, <2>2, Zenon
<1>10. HandedInv'
    <2>1. \A p \in Operations : live(p) => p # o
        BY <1>s, Zenon DEF IInv, ClaimInv, TypeOK, op_is_in_flight, has_inflight_op
    <2>2. /\ to \in {"CREATED", "STOPPED", "PAUSED"} => sandbox[i] # "running"
          /\ to \in {"RUNNING", "CHECKPOINTING"} => sandbox[i] = "running" \/ i \in lost
        BY <1>t, Zenon DEF IInv, JournalHonest, is_transitional
    <2> QED BY <1>s, <1>t, <2>1, <2>2, Zenon DEF IInv, HandedInv, TypeOK, live
<1>11. VerdictInv'
    BY <1>s, <1>t, Zenon DEF IInv, VerdictInv, TypeOK, InstanceState
<1> QED BY <1>1, <1>2, <1>3, <1>4, <1>5, <1>6, <1>7, <1>8, <1>9, <1>10, <1>11, Zenon DEF IInv

\* A step's journal write moves an operation in flight to RUNNING or nothing.
LEMMA StepFacts ==
    ASSUME IInv, NEW o \in Operations, set_op_step(o)
    PROVE  /\ opState' \in [Operations -> OperationState \cup {"NONE"}]
           /\ \A p \in Operations :
                /\ op_is_in_flight(opState'[p]) <=> op_is_in_flight(opState[p])
                /\ opState'[p] = "NONE" <=> opState[p] = "NONE"
                /\ opState'[p] = "CANCELED" <=> opState[p] = "CANCELED"
                /\ opState'[p] # "AWAITING_INPUT"
BY DEF set_op_step, IInv, TypeOK, ClaimInv, op_is_in_flight, OperationState

\* The first step of execute() moves the task and marks the operation RUNNING.
LEMMA BeginKeeps ==
    ASSUME IInv, NEW o \in Operations, execute_begin(o)
    PROVE  IInv'
<1>s. /\ pc[o] = "spawned" /\ pc' = [pc EXCEPT ![o] = "calling"] /\ set_op_step(o)
      /\ UNCHANGED <<inst, opKind, opInst, executorActive, recorded, result, phase,
                     rcall, verdict, crashes, sandbox, late, lost>>
    BY Zenon DEF execute_begin, GoTo, process, substrate
<1>1. TypeOK'
    BY <1>s, StepFacts, Zenon DEF IInv, TypeOK, Pc
<1>2. ClaimInv'
    BY <1>s, StepFacts DEF IInv, ClaimInv, TypeOK, live
<1>3. TaskInv' /\ WorkInv'
    BY <1>s DEF IInv, TaskInv, WorkInv, TypeOK, live
<1>4. CheckpointInv' /\ LateInv' /\ RecoverInv' /\ JournalHonest' /\ TransitionalOwned'
    BY <1>s, Zenon DEF IInv, CheckpointInv, LateInv, RecoverInv, JournalHonest,
       TransitionalOwned, has_inflight_op
<1>5. HandedInv' /\ VerdictInv'
    BY <1>s, Zenon DEF IInv, HandedInv, VerdictInv, TypeOK, live
<1> QED BY <1>1, <1>2, <1>3, <1>4, <1>5, Zenon DEF IInv

\* A boot that gets no execution epoch goes to its finalize without a call.
LEMMA EpochErrorKeeps ==
    ASSUME IInv, NEW o \in Operations, execute_epoch_error(o)
    PROVE  IInv'
<1>s. /\ pc[o] = "spawned" /\ pc' = [pc EXCEPT ![o] = "finalize"] /\ set_op_step(o)
      /\ result' = [result EXCEPT ![o] = "err"]
      /\ UNCHANGED <<inst, opKind, opInst, executorActive, recorded, phase,
                     rcall, verdict, crashes, sandbox, late, lost>>
    BY Zenon DEF execute_epoch_error, GoTo, process, substrate
<1>1. TypeOK'
    BY <1>s, StepFacts, Zenon DEF IInv, TypeOK, Pc
<1>2. ClaimInv'
    BY <1>s, StepFacts DEF IInv, ClaimInv, TypeOK, live
<1>3. TaskInv' /\ WorkInv'
    BY <1>s DEF IInv, TaskInv, WorkInv, TypeOK, live
<1>4. CheckpointInv' /\ LateInv' /\ RecoverInv' /\ JournalHonest' /\ TransitionalOwned'
    BY <1>s, Zenon DEF IInv, CheckpointInv, LateInv, RecoverInv, JournalHonest,
       TransitionalOwned, has_inflight_op
<1>5. HandedInv' /\ VerdictInv'
    BY <1>s, Zenon DEF IInv, HandedInv, VerdictInv, TypeOK, live
<1> QED BY <1>1, <1>2, <1>3, <1>4, <1>5, Zenon DEF IInv

\* What a runtime call may do to a sandbox.
LEMMA SandboxFacts ==
    ASSUME NEW k \in OpKind, NEW r \in {"ok", "err"}, NEW s \in SandboxState,
           NEW t \in SandboxAfter(k, r, s)
    PROVE  /\ t \in SandboxState
           /\ r = "ok" /\ k \in {"Create", "Stop", "Pause"} => t # "running"
           /\ r = "ok" /\ boots(k) => t = "running"
           /\ k \in {"CreateSnapshot", "DeleteSnapshot"} => t = s
BY Zenon DEF SandboxAfter, SandboxState, OpKind, boots

\* The runtime call changes the sandbox of an instance in transition only.
LEMMA RuntimeKeeps ==
    ASSUME IInv, NEW o \in Operations, execute_runtime(o)
    PROVE  IInv'
<1> DEFINE i == opInst[o]
           k == opKind[o]
<1>s. /\ pc[o] = "calling" /\ set_op_step(o)
      /\ UNCHANGED <<inst, opKind, opInst, executorActive, recorded, phase,
                     rcall, verdict, crashes, late>>
    BY Zenon DEF execute_runtime, process
<1>i. i \in Instances /\ k \in OpKind /\ sandbox[i] \in SandboxState
    BY Zenon DEF IInv, TypeOK
<1>q. PICK r \in {"ok", "err"} :
         /\ \E t \in SandboxAfter(k, r, sandbox[i]) : sandbox' = [sandbox EXCEPT ![i] = t]
         /\ result' = [result EXCEPT ![o] = r]
         /\ lost' = IF r = "ok" /\ boots(k) THEN lost \ {i} ELSE lost
         /\ pc' = [pc EXCEPT ![o] = IF r = "err" /\ carries_spec(k) THEN "compensate"
                                    ELSE "finalize"]
    BY Zenon DEF execute_runtime, GoTo
<1>r. PICK t \in SandboxAfter(k, r, sandbox[i]) : sandbox' = [sandbox EXCEPT ![i] = t]
    BY <1>q, Zenon
<1>t. /\ t \in SandboxState
      /\ r = "ok" /\ k \in {"Create", "Stop", "Pause"} => t # "running"
      /\ r = "ok" /\ boots(k) => t = "running"
      /\ k \in {"CreateSnapshot", "DeleteSnapshot"} => t = sandbox[i]
    BY <1>i, SandboxFacts
\* The instance is in its verb's transitional state or failed, unless the call
\* leaves its sandbox alone.
<1>n. /\ phase = "up"
      /\ \/ t = sandbox[i] /\ lost' = lost
         \/ /\ recorded[o] \in {"CREATING", "STARTING", "STOPPING", "PAUSING", "RESUMING",
                                "DESTROYING"}
            /\ inst[i] \in {recorded[o], "FAILED"}
    <2>1. live(o) /\ phase = "up"
        BY <1>s, Zenon DEF IInv, ClaimInv, live
    <2>2. CASE k \in {"CreateSnapshot", "DeleteSnapshot"}
        BY <1>q, <1>r, <1>t, <2>1, <2>2, Zenon DEF boots
    <2>3. CASE k \notin {"CreateSnapshot", "DeleteSnapshot"}
        <3>1. recorded[o] = transitional_state(k) /\ inst[i] \in {recorded[o], "FAILED"}
            BY <2>1, <2>3, Zenon DEF IInv, TaskInv
        <3> QED BY <1>i, <2>1, <2>3, <3>1, Zenon DEF transitional_state, OpKind
    <2> QED BY <2>2, <2>3, Zenon
<1> HIDE DEF i, k
<1>1. TypeOK'
    BY <1>s, <1>i, <1>q, <1>r, <1>t, StepFacts, Zenon DEF IInv, TypeOK, Pc
<1>2. ClaimInv'
    BY <1>s, <1>q, <1>r, StepFacts DEF IInv, ClaimInv, TypeOK, live
<1>3. TaskInv'
    BY <1>s, <1>q, <1>r, ZenonT(40) DEF IInv, TaskInv, TypeOK, live, k
<1>4. WorkInv'
    <2> SUFFICES ASSUME NEW p \in Operations, pc'[p] = "finalize", result'[p] = "ok"
                 PROVE  /\ opKind[p] \in {"Create", "Stop", "Pause"} =>
                               sandbox'[opInst[p]] # "running"
                        /\ boots(opKind[p]) =>
                               sandbox'[opInst[p]] = "running" \/ opInst[p] \in lost'
        BY <1>s, Zenon DEF WorkInv, boots
    <2>1. CASE p = o
        BY <1>i, <1>q, <1>r, <1>t, <2>1, Zenon DEF IInv, TypeOK, i, k
    <2>2. CASE p # o
        <3>1. opInst[p] # i
            BY <1>s, <1>q, <1>r, <2>2, ZenonT(40) DEF IInv, ClaimInv, TypeOK, live, i
        <3> QED BY <1>i, <1>q, <1>r, <2>2, <3>1, Zenon DEF IInv, WorkInv, TypeOK
    <2> QED BY <2>1, <2>2, Zenon
<1>5. CheckpointInv' /\ JournalHonest'
    BY <1>s, <1>i, <1>q, <1>r, <1>n DEF IInv, CheckpointInv, JournalHonest, TypeOK
<1>6. LateInv' /\ TransitionalOwned'
    BY <1>s, Zenon DEF IInv, LateInv, TransitionalOwned, has_inflight_op
<1>7. RecoverInv'
    BY <1>s, <1>n, Zenon DEF IInv, RecoverInv
<1>8. HandedInv'
    <2> SUFFICES ASSUME NEW p \in Operations, pc'[p] # "idle"
                 PROVE  /\ recorded[p] \in {"CREATED", "STOPPED", "PAUSED"} =>
                             sandbox'[opInst[p]] # "running"
                        /\ recorded[p] \in {"RUNNING", "CHECKPOINTING"} =>
                             sandbox'[opInst[p]] = "running" \/ opInst[p] \in lost'
                        /\ opInst[p] \in late =>
                             recorded[p] \in {"FAILED", "DESTROYING", "DESTROYED"}
        BY <1>s, Zenon DEF HandedInv, live
    <2>1. live(p)
        BY <1>s, <1>q, Zenon DEF IInv, TypeOK, live
    <2>2. CASE p = o
        BY <1>i, <1>q, <1>r, <1>n, <2>1, <2>2, Zenon DEF IInv, HandedInv, TypeOK, i
    <2>3. CASE p # o
        <3>1. opInst[p] # i
            BY <1>s, <2>1, <2>3, Zenon DEF IInv, ClaimInv, live, i
        <3> QED BY <1>i, <1>q, <1>r, <2>1, <3>1, Zenon DEF IInv, HandedInv, TypeOK
    <2> QED BY <2>2, <2>3, Zenon
<1>9. VerdictInv'
    BY <1>s, Zenon DEF IInv, VerdictInv
<1> QED BY <1>1, <1>2, <1>3, <1>4, <1>5, <1>6, <1>7, <1>8, <1>9, Zenon DEF IInv

\* The compensation of a failed create or fork removes a sandbox in CREATING.
LEMMA CompensateKeeps ==
    ASSUME IInv, NEW o \in Operations, execute_compensate(o)
    PROVE  IInv'
<1> DEFINE i == opInst[o]
<1>s. /\ pc[o] = "compensate" /\ pc' = [pc EXCEPT ![o] = "finalize"]
      /\ UNCHANGED <<inst, opState, opKind, opInst, executorActive, recorded, result,
                     phase, rcall, verdict, crashes, late, lost>>
    BY Zenon DEF execute_compensate, GoTo, journal, process
<1>r. PICK t \in {sandbox[i], "absent"} : sandbox' = [sandbox EXCEPT ![i] = t]
    BY Zenon DEF execute_compensate, remove_orphan
<1>n. /\ live(o) /\ phase = "up" /\ result[o] = "err"
      /\ inst[i] \in {"CREATING", "FAILED"} /\ recorded[o] = "CREATING"
      /\ i \in Instances /\ t \in SandboxState
    <2>1. opKind[o] \in OpKind /\ i \in Instances /\ sandbox[i] \in SandboxState
        BY Zenon DEF IInv, TypeOK
    <2>2. live(o) /\ carries_spec(opKind[o]) /\ result[o] = "err"
        BY <1>s, Zenon DEF IInv, TaskInv, live
    <2>3. recorded[o] = transitional_state(opKind[o]) /\ inst[i] \in {recorded[o], "FAILED"}
        BY <2>2, Zenon DEF IInv, TaskInv, carries_spec
    <2>4. transitional_state(opKind[o]) = "CREATING"
        BY <2>1, <2>2, StateFacts, Zenon
    <2>5. phase = "up"
        BY <2>2, Zenon DEF IInv, ClaimInv
    <2>6. t \in SandboxState
        BY <2>1, Zenon DEF SandboxState
    <2> QED BY <2>1, <2>2, <2>3, <2>4, <2>5, <2>6, Zenon
<1> HIDE DEF i
<1>1. TypeOK'
    BY <1>s, <1>r, <1>n, Zenon DEF IInv, TypeOK, Pc
<1>2. ClaimInv' /\ TaskInv'
    BY <1>s DEF IInv, ClaimInv, TaskInv, TypeOK, live
<1>3. WorkInv'
    <2> SUFFICES ASSUME NEW p \in Operations, pc'[p] = "finalize", result'[p] = "ok"
                 PROVE  /\ opKind[p] \in {"Create", "Stop", "Pause"} =>
                               sandbox'[opInst[p]] # "running"
                        /\ boots(opKind[p]) =>
                               sandbox'[opInst[p]] = "running" \/ opInst[p] \in lost
        BY <1>s, Zenon DEF WorkInv, boots
    <2>1. p # o
        BY <1>s, <1>n, Zenon
    <2>2. opInst[p] # i
        BY <1>s, <1>n, <2>1, Zenon DEF IInv, ClaimInv, TypeOK, live, i
    <2> QED BY <1>s, <1>r, <2>1, <2>2, Zenon DEF IInv, WorkInv, TypeOK
<1>4. CheckpointInv' /\ JournalHonest'
    BY <1>s, <1>r, <1>n, Zenon DEF IInv, CheckpointInv, JournalHonest, TypeOK
<1>5. LateInv' /\ TransitionalOwned'
    BY <1>s, Zenon DEF IInv, LateInv, TransitionalOwned, has_inflight_op
<1>6. RecoverInv'
    BY <1>s, <1>n, Zenon DEF IInv, RecoverInv
<1>7. HandedInv' /\ VerdictInv'
    <2> SUFFICES ASSUME NEW p \in Operations, pc'[p] # "idle"
                 PROVE  /\ recorded[p] \in {"CREATED", "STOPPED", "PAUSED"} =>
                             sandbox'[opInst[p]] # "running"
                        /\ recorded[p] \in {"RUNNING", "CHECKPOINTING"} =>
                             sandbox'[opInst[p]] = "running" \/ opInst[p] \in lost
                        /\ opInst[p] \in late =>
                             recorded[p] \in {"FAILED", "DESTROYING", "DESTROYED"}
        BY <1>s, Zenon DEF IInv, HandedInv, VerdictInv, live
    <2>1. live(p)
        BY <1>s, Zenon DEF IInv, TypeOK, live
    <2>2. CASE p = o
        BY <1>n, <2>1, <2>2, Zenon DEF IInv, HandedInv
    <2>3. CASE p # o
        <3>1. opInst[p] # i
            BY <1>n, <2>1, <2>3, Zenon DEF IInv, ClaimInv, live, i
        <3> QED BY <1>r, <1>n, <2>1, <3>1, Zenon DEF IInv, HandedInv, TypeOK
    <2> QED BY <2>2, <2>3, Zenon
<1> QED BY <1>1, <1>2, <1>3, <1>4, <1>5, <1>6, <1>7, Zenon DEF IInv

\* The state a task settles on: at rest, and true of the sandbox.
LEMMA SettledFacts ==
    ASSUME IInv, NEW o \in Operations, pc[o] = "finalize"
    PROVE  LET i == opInst[o] IN
           /\ settled(o) \in InstanceState /\ ~is_transitional(settled(o))
           /\ settled(o) \in {"CREATED", "STOPPED", "PAUSED"} => sandbox[i] # "running"
           /\ settled(o) = "RUNNING" => sandbox[i] = "running" \/ i \in lost
           /\ recorded[o] \in {"FAILED", "DESTROYED"} => settled(o) = recorded[o]
           /\ recorded[o] = "DESTROYING" => settled(o) \in {"FAILED", "DESTROYED"}
<1> DEFINE i == opInst[o]
           k == opKind[o]
<1>k. i \in Instances /\ k \in OpKind /\ recorded[o] \in InstanceState
    BY Zenon DEF IInv, TypeOK
<1>l. live(o)
    BY Zenon DEF live
<1>1. CASE k = "DeleteSnapshot"
    <2>1. settled(o) = recorded[o] /\ ~is_transitional(recorded[o])
        BY <1>k, <1>l, <1>1, StateFacts
           DEF settled, success_state, touches_instance_state, IInv, TaskInv
    <2> QED BY <1>k, <1>l, <2>1, Zenon DEF IInv, HandedInv, is_transitional
<1>2. CASE k = "CreateSnapshot"
    <2>1. \/ recorded[o] = "PAUSED" /\ settled(o) = "PAUSED"
          \/ recorded[o] = "CHECKPOINTING" /\ settled(o) = "RUNNING"
        BY <1>l, <1>2, Zenon DEF settled, success_state, touches_instance_state, IInv, TaskInv,
           transitional_state, final_state
    <2> QED BY <1>k, <1>l, <2>1, Zenon DEF IInv, HandedInv, is_transitional, InstanceState
<1>3. CASE k \notin {"CreateSnapshot", "DeleteSnapshot"}
    <2>1. recorded[o] = transitional_state(k)
        BY <1>l, <1>3, Zenon DEF IInv, TaskInv
    <2>2. /\ is_transitional(recorded[o])
          /\ recorded[o] = "DESTROYING" => k = "Destroy"
        BY <1>k, <1>3, <2>1, StateFacts
    <2>3. CASE result[o] # "ok"
        <3>1. settled(o) = "FAILED"
            BY <1>3, <2>3, Zenon DEF settled, touches_instance_state
        <3> QED BY <2>2, <3>1, Zenon DEF is_transitional, InstanceState
    <2>4. CASE result[o] = "ok"
        <3>1. settled(o) = final_state(k)
            BY <2>1, <2>4, Zenon DEF settled, success_state
        <3>2. k = "Destroy" => final_state(k) = "DESTROYED"
            BY Zenon DEF final_state
        <3> QED BY <1>k, <1>3, <2>2, <2>4, <3>1, <3>2, StateFacts
                DEF IInv, WorkInv, is_transitional
    <2> QED BY <2>3, <2>4, Zenon
<1> QED BY <1>k, <1>1, <1>2, <1>3, Zenon

\* finish_operation applies a true state and lets the claim go, or keeps both.
LEMMA FinalizeKeeps ==
    ASSUME IInv, NEW o \in Operations, execute_finalize(o)
    PROVE  IInv'
<1> DEFINE i == opInst[o]
           state == settled(o)
<1>s. /\ pc[o] = "finalize" /\ pc' = [pc EXCEPT ![o] = "idle"]
      /\ recorded' = [recorded EXCEPT ![o] = "CREATING"]
      /\ result' = [result EXCEPT ![o] = "ok"]
      /\ UNCHANGED <<opKind, opInst, phase, rcall, verdict, crashes, sandbox, late, lost>>
    BY Zenon DEF execute_finalize, Exit, GoTo, process, substrate
<1>f. \/ /\ inst' = [inst EXCEPT ![i] = state]
         /\ executorActive' = [executorActive EXCEPT ![o] = FALSE]
         /\ \/ opState' = opState /\ ~op_is_in_flight(opState[o])
            \/ opState' = [opState EXCEPT ![o] = "DONE"]
            \/ opState' = [opState EXCEPT ![o] = "FAILED"]
      \/ /\ UNCHANGED <<inst, opState, executorActive>>
         /\ ~op_is_in_flight(opState[o])
    BY Zenon DEF execute_finalize, finish_operation, IInv, TypeOK
<1>n. /\ i \in Instances /\ live(o) /\ phase = "up" /\ executorActive[o]
      /\ \A p \in Operations : executorActive[p] /\ p # o => opInst[p] # i
    BY <1>s, Zenon DEF IInv, ClaimInv, TypeOK, live
<1>t. /\ state \in InstanceState /\ ~is_transitional(state)
      /\ state \in {"CREATED", "STOPPED", "PAUSED"} => sandbox[i] # "running"
      /\ state = "RUNNING" => sandbox[i] = "running" \/ i \in lost
      /\ i \in late => state \in {"FAILED", "DESTROYED"}
    BY <1>s, <1>n, SettledFacts, Zenon DEF IInv, HandedInv
<1> HIDE DEF i, state
<1>1. TypeOK'
    <2>1. "CREATING" \in InstanceState /\ "idle" \in Pc
        BY Zenon DEF InstanceState, Pc
    <2>2. inst' \in [Instances -> InstanceState \cup {"ABSENT"}]
        BY <1>f, <1>t, Zenon DEF IInv, TypeOK
    <2>3. opState' \in [Operations -> OperationState \cup {"NONE"}]
        BY <1>f, Zenon DEF IInv, TypeOK, OperationState
    <2>4. executorActive' \in [Operations -> BOOLEAN]
        BY <1>f, Zenon DEF IInv, TypeOK
    <2> QED BY <1>s, <2>1, <2>2, <2>3, <2>4, Zenon DEF IInv, TypeOK
<1>2. ClaimInv'
    <2>1. ASSUME NEW p \in Operations, p # o
          PROVE  /\ opState'[p] = opState[p] /\ executorActive'[p] = executorActive[p]
                 /\ pc'[p] = pc[p] /\ opInst'[p] = opInst[p]
        BY <1>s, <1>f, <2>1, Zenon DEF IInv, TypeOK
    <2>2. pc'[o] = "idle" /\ ~op_is_in_flight(opState'[o]) /\ opState'[o] # "AWAITING_INPUT"
        BY <1>s, <1>f, Zenon DEF IInv, ClaimInv, TypeOK, op_is_in_flight
    <2>3. \/ executorActive'[o] = FALSE
          \/ executorActive'[o] = executorActive[o] /\ opState'[o] = opState[o]
        BY <1>f, Zenon DEF IInv, TypeOK
    <2>4. phase' = "up" /\ opInst'[o] = opInst[o]
        BY <1>s, <1>n, Zenon
    <2>5. \A p \in Operations : op_is_in_flight(opState'[p]) => executorActive'[p]
        BY <2>1, <2>2, Zenon DEF IInv, ClaimInv
    <2>6. \A p \in Operations : pc'[p] # "idle" => executorActive'[p]
        BY <2>1, <2>2, Zenon DEF IInv, ClaimInv, live
    <2>7. ASSUME NEW p \in Operations, NEW q \in Operations,
                 executorActive'[p], executorActive'[q], opInst'[p] = opInst'[q]
          PROVE  p = q
        <3>1. CASE p # o /\ q # o
            BY <2>1, <2>7, <3>1, Zenon DEF IInv, ClaimInv
        <3>2. CASE p = o /\ q # o
            BY <1>n, <2>1, <2>4, <2>7, <3>2, Zenon DEF i
        <3>3. CASE p # o /\ q = o
            BY <1>n, <2>1, <2>4, <2>7, <3>3, Zenon DEF i
        <3> QED BY <3>1, <3>2, <3>3, Zenon
    <2>8. \A p \in Operations :
             /\ executorActive'[p] => op_is_in_flight(opState'[p]) \/ opState'[p] = "CANCELED"
             /\ opState'[p] # "AWAITING_INPUT"
        BY <2>1, <2>2, <2>3, Zenon DEF IInv, ClaimInv
    <2> QED BY <2>4, <2>5, <2>6, <2>7, <2>8, Zenon DEF ClaimInv, live
<1>3. TaskInv'
    <2> SUFFICES ASSUME NEW p \in Operations, pc'[p] # "idle"
                 PROVE  p # o /\ live(p) /\ inst'[opInst[p]] = inst[opInst[p]]
        BY <1>s DEF IInv, TaskInv, TypeOK, live
    <2> QED BY <1>s, <1>f, <1>n DEF IInv, ClaimInv, TypeOK, live
<1>4. WorkInv'
    BY <1>s, Zenon DEF IInv, WorkInv, TypeOK
<1>5. CheckpointInv' /\ JournalHonest'
    BY <1>s, <1>f, <1>n, <1>t
       DEF IInv, CheckpointInv, JournalHonest, TypeOK, is_transitional, InstanceState
<1>6. LateInv'
    BY <1>s, <1>f, <1>n, <1>t, Zenon DEF IInv, LateInv, TypeOK
<1>7. RecoverInv'
    BY <1>s, <1>n, Zenon DEF IInv, RecoverInv
<1>8. TransitionalOwned'
    <2> SUFFICES ASSUME NEW j \in Instances, is_transitional(inst'[j])
                 PROVE  \E p \in Operations : executorActive'[p] /\ opInst'[p] = j
        BY Zenon DEF TransitionalOwned, has_inflight_op, is_transitional
    <2>1. is_transitional(inst[j]) /\ (inst' = inst \/ j # i)
        BY <1>f, <1>n, <1>t, Zenon DEF IInv, TypeOK
    <2>2. PICK p \in Operations : executorActive[p] /\ opInst[p] = j
        BY <1>n, <2>1, Zenon DEF IInv, TransitionalOwned, has_inflight_op
    <2>3. p # o \/ executorActive' = executorActive
        BY <1>f, <1>n, <1>t, <2>1, <2>2, Zenon DEF i, IInv, TypeOK
    <2> QED BY <1>s, <1>f, <2>2, <2>3, Zenon DEF IInv, TypeOK
<1>9. HandedInv' /\ VerdictInv'
    <2>1. HandedInv'
        BY <1>s, Zenon DEF IInv, HandedInv, TypeOK, live
    <2>2. VerdictInv'
        BY <1>s, <1>f, <1>t, Zenon DEF IInv, VerdictInv, TypeOK, InstanceState
    <2> QED BY <2>1, <2>2, Zenon
<1> QED BY <1>1, <1>2, <1>3, <1>4, <1>5, <1>6, <1>7, <1>8, <1>9, Zenon DEF IInv

\* A finalize that could not be written leaves the claim in place.
LEMMA FinalizeLostKeeps ==
    ASSUME IInv, NEW o \in Operations, execute_finalize_lost(o)
    PROVE  IInv'
<1>s. /\ pc[o] = "finalize" /\ pc' = [pc EXCEPT ![o] = "idle"]
      /\ recorded' = [recorded EXCEPT ![o] = "CREATING"]
      /\ result' = [result EXCEPT ![o] = "ok"]
      /\ UNCHANGED <<inst, opState, opKind, opInst, executorActive, phase, rcall, verdict,
                     crashes, sandbox, late, lost>>
    BY Zenon DEF execute_finalize_lost, Exit, GoTo, journal, process, substrate
<1>1. TypeOK'
    BY <1>s, Zenon DEF IInv, TypeOK, Pc, InstanceState
<1>2. ClaimInv' /\ TaskInv' /\ WorkInv'
    BY <1>s DEF IInv, ClaimInv, TaskInv, WorkInv, TypeOK, live
<1>3. CheckpointInv' /\ LateInv' /\ RecoverInv' /\ JournalHonest' /\ TransitionalOwned'
    BY <1>s, Zenon DEF IInv, CheckpointInv, LateInv, RecoverInv, JournalHonest,
       TransitionalOwned, has_inflight_op
<1>5. HandedInv' /\ VerdictInv'
    BY <1>s, Zenon DEF IInv, HandedInv, VerdictInv, TypeOK, live
<1> QED BY <1>1, <1>2, <1>3, <1>5, Zenon DEF IInv

\* A cancellation settles the operation and leaves its executor the claim.
LEMMA CancelKeeps ==
    ASSUME IInv, NEW o \in Operations, cancel(o)
    PROVE  IInv'
<1>s. /\ phase = "up" /\ opState' = [opState EXCEPT ![o] = "CANCELED"]
      /\ executorActive' = executorActive
      /\ UNCHANGED <<inst, opKind, opInst, pc, recorded, result, phase, rcall, verdict,
                     crashes, sandbox, late, lost>>
    BY Zenon DEF cancel, tasks, process, substrate, IInv, TypeOK, ClaimInv
<1>1. TypeOK'
    BY <1>s, Zenon DEF IInv, TypeOK, OperationState
<1>2. ClaimInv'
    BY <1>s, Zenon DEF IInv, ClaimInv, TypeOK, live, op_is_in_flight
<1>3. TaskInv' /\ WorkInv' /\ CheckpointInv' /\ LateInv' /\ RecoverInv' /\ JournalHonest'
      /\ TransitionalOwned'
    <2>1. TaskInv' /\ WorkInv'
        BY <1>s, Zenon DEF IInv, TaskInv, WorkInv, live
    <2>2. CheckpointInv' /\ LateInv' /\ RecoverInv'
        BY <1>s, Zenon DEF IInv, CheckpointInv, LateInv, RecoverInv
    <2>3. JournalHonest' /\ TransitionalOwned'
        BY <1>s, Zenon DEF IInv, JournalHonest, TransitionalOwned, has_inflight_op
    <2> QED BY <2>1, <2>2, <2>3, Zenon
<1>5. HandedInv' /\ VerdictInv'
    BY <1>s, Zenon DEF IInv, HandedInv, VerdictInv, TypeOK, live
<1> QED BY <1>1, <1>2, <1>3, <1>5, Zenon DEF IInv

\* A crash ends every task; boots in flight may still reach the substrate.
LEMMA CrashKeeps ==
    ASSUME IInv, Crash
    PROVE  IInv'
<1> DEFINE booting == {opInst[o] : o \in {p \in Operations :
                                     pc[p] = "calling" /\ boots(opKind[p])}}
<1>s. /\ crashes < MaxCrashes /\ crashes' = crashes + 1
      /\ phase' = "down" /\ rcall' = {}
      /\ verdict' = [i \in Instances |-> "none"]
      /\ pc' = [o \in Operations |-> "idle"]
      /\ recorded' = [o \in Operations |-> "CREATING"]
      /\ result' = [o \in Operations |-> "ok"]
      /\ UNCHANGED <<inst, opState, opKind, opInst, executorActive, sandbox, lost>>
    BY Zenon DEF Crash, journal
<1>l. PICK accepted \in SUBSET booting : late' = late \cup accepted
    BY Zenon DEF Crash
<1>b. \A i \in booting :
        i \in Instances /\ inst[i] \in {"CREATING", "STARTING", "RESUMING", "FAILED"}
    <2> SUFFICES ASSUME NEW o \in Operations, pc[o] = "calling", boots(opKind[o])
                 PROVE  /\ opInst[o] \in Instances
                        /\ inst[opInst[o]] \in {"CREATING", "STARTING", "RESUMING", "FAILED"}
        BY Zenon
    <2>1. opKind[o] \in OpKind /\ opInst[o] \in Instances
        BY Zenon DEF IInv, TypeOK
    <2>2. inst[opInst[o]] \in {transitional_state(opKind[o]), "FAILED"}
        BY Zenon DEF IInv, TaskInv, live, boots
    <2> QED BY <2>1, <2>2, StateFacts, Zenon
<1> HIDE DEF booting
<1>1. TypeOK'
    <2>1. crashes' \in 0..MaxCrashes
        BY <1>s, CrashesAssumption DEF IInv, TypeOK
    <2> QED BY <1>s, <1>l, <1>b, <2>1, Zenon DEF IInv, TypeOK, Pc, Phase, InstanceState, Verdict
<1>2. ClaimInv' /\ TaskInv' /\ WorkInv'
    BY <1>s, Zenon DEF IInv, ClaimInv, TaskInv, WorkInv, TypeOK, live
<1>3. LateInv'
    BY <1>s, <1>l, <1>b, Zenon DEF IInv, LateInv
<1>4. CheckpointInv' /\ RecoverInv' /\ JournalHonest' /\ TransitionalOwned'
    BY <1>s, Zenon DEF IInv, CheckpointInv, RecoverInv, JournalHonest, TransitionalOwned
<1>5. HandedInv' /\ VerdictInv'
    BY <1>s, Zenon DEF IInv, HandedInv, VerdictInv, TypeOK, live
<1> QED BY <1>1, <1>2, <1>3, <1>4, <1>5, Zenon DEF IInv

\* Db::open releases the claims of settled operations.
LEMMA OpenKeeps ==
    ASSUME IInv, open
    PROVE  IInv'
<1>s. /\ phase = "down" /\ phase' = "ops"
      /\ executorActive' = [o \in Operations |-> op_is_in_flight(opState[o])]
      /\ UNCHANGED <<inst, opState, opKind, opInst, pc, recorded, result, rcall, verdict,
                     crashes, sandbox, late, lost>>
    BY Zenon DEF open, tasks, substrate
<1>1. TypeOK'
    BY <1>s DEF IInv, TypeOK, Phase, op_is_in_flight
<1>2. ClaimInv'
    BY <1>s, Zenon DEF IInv, ClaimInv, TypeOK, live, op_is_in_flight
<1>3. TaskInv' /\ WorkInv' /\ CheckpointInv' /\ LateInv' /\ RecoverInv' /\ JournalHonest'
      /\ TransitionalOwned'
    <2>1. TaskInv' /\ WorkInv'
        BY <1>s, Zenon DEF IInv, TaskInv, WorkInv, live
    <2>2. CheckpointInv' /\ LateInv' /\ RecoverInv'
        BY <1>s, Zenon DEF IInv, CheckpointInv, LateInv, RecoverInv
    <2>3. JournalHonest' /\ TransitionalOwned'
        BY <1>s, Zenon DEF IInv, JournalHonest, TransitionalOwned
    <2> QED BY <2>1, <2>2, <2>3, Zenon
<1>5. HandedInv' /\ VerdictInv'
    BY <1>s, Zenon DEF IInv, HandedInv, VerdictInv, TypeOK, live
<1> QED BY <1>1, <1>2, <1>3, <1>5, Zenon DEF IInv

\* Recovery fails an operation in flight and releases its claim.
LEMMA FailInflightKeeps ==
    ASSUME IInv, NEW o \in Operations, fail_inflight_op(o)
    PROVE  IInv'
<1>s. /\ phase = "ops" /\ op_is_in_flight(opState[o])
      /\ opState' = [opState EXCEPT ![o] = "FAILED"]
      /\ executorActive' = [executorActive EXCEPT ![o] = FALSE]
      /\ UNCHANGED <<inst, opKind, opInst, pc, recorded, result, phase, rcall, verdict,
                     crashes, sandbox, late, lost>>
    BY Zenon DEF fail_inflight_op, tasks, process, substrate
<1>1. TypeOK'
    BY <1>s, Zenon DEF IInv, TypeOK, OperationState
<1>2. ClaimInv'
    BY <1>s DEF IInv, ClaimInv, TypeOK, live, op_is_in_flight
<1>3. TaskInv' /\ WorkInv' /\ CheckpointInv' /\ LateInv' /\ RecoverInv' /\ JournalHonest'
      /\ TransitionalOwned'
    <2>1. TaskInv' /\ WorkInv'
        BY <1>s, Zenon DEF IInv, TaskInv, WorkInv, live
    <2>2. CheckpointInv' /\ LateInv' /\ RecoverInv'
        BY <1>s, Zenon DEF IInv, CheckpointInv, LateInv, RecoverInv
    <2>3. JournalHonest' /\ TransitionalOwned'
        BY <1>s, Zenon DEF IInv, JournalHonest, TransitionalOwned
    <2> QED BY <2>1, <2>2, <2>3, Zenon
<1>5. HandedInv' /\ VerdictInv'
    BY <1>s, Zenon DEF IInv, HandedInv, VerdictInv, TypeOK, live
<1> QED BY <1>1, <1>2, <1>3, <1>5, Zenon DEF IInv

\* The two steps that only move recovery on.
LEMMA PhaseKeeps ==
    ASSUME IInv, ops_failed \/ instances_resolved
    PROVE  IInv'
<1>s. /\ \/ /\ phase = "ops" /\ phase' = "instances"
            /\ \A o \in Operations : ~op_is_in_flight(opState[o])
         \/ /\ phase = "instances" /\ phase' = "sweep" /\ rcall = {}
            /\ \A i \in Instances : ~is_transitional(inst[i])
      /\ UNCHANGED <<inst, opState, opKind, opInst, executorActive, pc, recorded,
                     result, rcall, verdict, crashes, sandbox, late, lost>>
    BY Zenon DEF ops_failed, instances_resolved, journal, tasks, substrate
<1>1. TypeOK'
    BY <1>s, Zenon DEF IInv, TypeOK, Phase
<1>2. ClaimInv' /\ TaskInv' /\ WorkInv' /\ CheckpointInv' /\ JournalHonest'
      /\ TransitionalOwned'
    BY <1>s, Zenon DEF IInv, ClaimInv, TaskInv, WorkInv, CheckpointInv, JournalHonest,
       TransitionalOwned, live
<1>3. LateInv' /\ RecoverInv'
    BY <1>s, Zenon DEF IInv, LateInv, RecoverInv, TypeOK, is_transitional
<1>4. HandedInv' /\ VerdictInv'
    BY <1>s, Zenon DEF IInv, HandedInv, VerdictInv, TypeOK, live
<1> QED BY <1>1, <1>2, <1>3, <1>4, Zenon DEF IInv

\* Recovery's runtime call for an instance found in transition.
LEMMA RecoverCallKeeps ==
    ASSUME IInv, NEW i \in Instances, recover_call(i)
    PROVE  IInv'
<1>s. /\ phase = "instances" /\ is_transitional(inst[i])
      /\ UNCHANGED <<inst, opState, opKind, opInst, executorActive, pc, recorded,
                     result, phase, verdict, crashes, late, lost>>
    BY Zenon DEF recover_call, journal, tasks
<1>c. \E ok \in BOOLEAN, t \in SandboxState :
         /\ rcall' = {[instance |-> i, ok |-> ok]}
         /\ sandbox' = [sandbox EXCEPT ![i] = t]
         /\ inst[i] = "STOPPING" /\ ok => t # "running"
         /\ inst[i] = "CHECKPOINTING" => t = sandbox[i]
    <2>1. sandbox[i] \in SandboxState /\ "absent" \in SandboxState
        BY Zenon DEF IInv, TypeOK, SandboxState
    <2>2. CASE inst[i] = "STOPPING"
        <3>1. PICK r \in {"ok", "err"}, t \in SandboxState :
                 /\ t \in SandboxAfter("Stop", r, sandbox[i])
                 /\ sandbox' = [sandbox EXCEPT ![i] = t]
                 /\ rcall' = {[instance |-> i, ok |-> r = "ok"]}
            BY <2>2, Zenon DEF recover_call
        <3>2. r = "ok" => t # "running"
            BY <2>1, <3>1, SandboxFacts, Zenon DEF OpKind
        <3> QED BY <2>2, <3>1, <3>2, Zenon
    <2>3. CASE inst[i] = "CHECKPOINTING"
        <3>1. rcall' = {[instance |-> i, ok |-> TRUE]} /\ sandbox' = sandbox
            BY <2>3, Zenon DEF recover_call
        <3>2. sandbox' = [sandbox EXCEPT ![i] = sandbox[i]]
            BY <3>1, Zenon DEF IInv, TypeOK
        <3> QED BY <2>1, <2>3, <3>1, <3>2, Zenon
    <2>4. CASE inst[i] \notin {"STOPPING", "CHECKPOINTING"}
        <3>1. rcall' = {[instance |-> i, ok |-> TRUE]} /\ remove_orphan(i)
            BY <2>4, Zenon DEF recover_call
        <3> QED BY <2>1, <2>4, <3>1, Zenon DEF remove_orphan
    <2> QED BY <2>2, <2>3, <2>4, Zenon
<1>p. PICK ok \in BOOLEAN, t \in SandboxState :
         /\ rcall' = {[instance |-> i, ok |-> ok]}
         /\ sandbox' = [sandbox EXCEPT ![i] = t]
         /\ inst[i] = "STOPPING" /\ ok => t # "running"
         /\ inst[i] = "CHECKPOINTING" => t = sandbox[i]
    BY <1>c, Zenon
<1>1. TypeOK'
    BY <1>s, <1>p DEF IInv, TypeOK
<1>2. ClaimInv' /\ TaskInv' /\ LateInv' /\ TransitionalOwned'
    BY <1>s, Zenon DEF IInv, ClaimInv, TaskInv, LateInv, TransitionalOwned, live
<1>3. WorkInv'
    BY <1>s, Zenon DEF IInv, ClaimInv, WorkInv, live
<1>4. CheckpointInv' /\ JournalHonest'
    BY <1>s, <1>p, Zenon DEF IInv, CheckpointInv, JournalHonest, TypeOK, is_transitional
<1>5. RecoverInv'
    BY <1>s, <1>p DEF IInv, RecoverInv, TypeOK
<1>6. HandedInv' /\ VerdictInv'
    BY <1>s, Zenon DEF IInv, ClaimInv, HandedInv, VerdictInv, live
<1> QED BY <1>1, <1>2, <1>3, <1>4, <1>5, <1>6, Zenon DEF IInv

\* Recovery records a state its runtime call made true.
LEMMA RecoverRecordKeeps ==
    ASSUME IInv, recover_record
    PROVE  IInv'
<1>s. /\ phase = "instances" /\ rcall' = {}
      /\ UNCHANGED <<opState, opKind, opInst, executorActive, pc, recorded,
                     result, phase, verdict, crashes, sandbox, late, lost>>
    BY Zenon DEF recover_record, tasks, substrate
<1>c. PICK c \in rcall :
         inst' = [inst EXCEPT ![c.instance] = recovered_state(inst[c.instance], c.ok)]
    BY Zenon DEF recover_record
<1> DEFINE i == c.instance
           to == recovered_state(inst[i], c.ok)
<1>n. /\ i \in Instances /\ is_transitional(inst[i])
      /\ inst[i] = "STOPPING" /\ c.ok => sandbox[i] # "running"
    BY <1>c, Zenon DEF IInv, RecoverInv, TypeOK
<1>t. /\ to \in {"STOPPED", "FAILED", "RUNNING", "DESTROYED"}
      /\ to = "STOPPED" => inst[i] = "STOPPING" /\ c.ok
      /\ to = "RUNNING" => inst[i] = "CHECKPOINTING"
      /\ inst[i] \in {"CREATING", "STARTING", "RESUMING"} => to = "FAILED"
      /\ inst[i] = "DESTROYING" => to = "DESTROYED"
    BY <1>n, Zenon DEF recovered_state, is_transitional
<1>e. inst' = [inst EXCEPT ![i] = to]
    BY <1>c, Zenon
<1> HIDE DEF i, to
<1>1. TypeOK'
    BY <1>s, <1>e, <1>t, Zenon DEF IInv, TypeOK, InstanceState
<1>2. ClaimInv' /\ WorkInv' /\ TransitionalOwned'
    BY <1>s, Zenon DEF IInv, ClaimInv, WorkInv, TransitionalOwned, live
<1>3. TaskInv'
    BY <1>s, Zenon DEF IInv, ClaimInv, TaskInv, live
<1>4. CheckpointInv' /\ JournalHonest'
    BY <1>s, <1>n, <1>t, <1>e, Zenon DEF IInv, CheckpointInv, JournalHonest, TypeOK
<1>5. LateInv'
    BY <1>s, <1>n, <1>t, <1>e, Zenon DEF IInv, LateInv, TypeOK, is_transitional
<1>6. RecoverInv'
    BY <1>s, Zenon DEF RecoverInv
<1>7. HandedInv' /\ VerdictInv'
    BY <1>s, Zenon DEF IInv, ClaimInv, HandedInv, VerdictInv, live
<1> QED BY <1>1, <1>2, <1>3, <1>4, <1>5, <1>6, <1>7, Zenon DEF IInv

\* The zero-orphan sweep removes sandboxes of terminal instances only.
LEMMA SweepKeeps ==
    ASSUME IInv, sweep_orphans
    PROVE  IInv'
<1>s. /\ phase = "sweep" /\ phase' = "up"
      /\ UNCHANGED <<inst, opState, opKind, opInst, executorActive, pc, recorded,
                     result, rcall, verdict, crashes, late, lost>>
    BY Zenon DEF sweep_orphans, journal, tasks
<1>c. PICK S \in SUBSET {i \in Instances : inst[i] = "ABSENT" \/ is_terminal(inst[i])} :
         sandbox' = [i \in Instances |-> IF i \in S THEN "absent" ELSE sandbox[i]]
    BY Zenon DEF sweep_orphans
<1>1. TypeOK'
    BY <1>s, <1>c, Zenon DEF IInv, TypeOK, Phase, SandboxState
<1>2. ClaimInv' /\ TaskInv' /\ LateInv' /\ RecoverInv'
    BY <1>s, Zenon DEF IInv, ClaimInv, TaskInv, LateInv, RecoverInv, TransitionalOwned, live
<1>3. WorkInv'
    BY <1>s, Zenon DEF IInv, ClaimInv, WorkInv, live
<1>4. TransitionalOwned'
    BY <1>s, Zenon DEF IInv, RecoverInv, TransitionalOwned
<1>5. CheckpointInv' /\ JournalHonest'
    BY <1>s, <1>c, Zenon DEF IInv, CheckpointInv, JournalHonest, TypeOK, is_terminal
<1>6. HandedInv' /\ VerdictInv'
    BY <1>s, Zenon DEF IInv, ClaimInv, HandedInv, VerdictInv, live
<1> QED BY <1>1, <1>2, <1>3, <1>4, <1>5, <1>6, Zenon DEF IInv

\* A sandbox that dies by itself.
LEMMA SandboxDiesKeeps ==
    ASSUME IInv, NEW i \in Instances, SandboxDies(i)
    PROVE  IInv'
<1>s. /\ sandbox[i] # "absent" /\ lost' = lost \cup {i}
      /\ UNCHANGED <<inst, opState, opKind, opInst, executorActive, pc, recorded,
                     result, phase, rcall, verdict, crashes, late>>
    BY Zenon DEF SandboxDies, journal, tasks, process
<1>c. PICK t \in {"halted", "absent"} : sandbox' = [sandbox EXCEPT ![i] = t]
    BY Zenon DEF SandboxDies
<1>1. TypeOK'
    BY <1>s, <1>c, Zenon DEF IInv, TypeOK, SandboxState
<1>2. ClaimInv' /\ TaskInv' /\ LateInv' /\ TransitionalOwned'
    BY <1>s, Zenon DEF IInv, ClaimInv, TaskInv, LateInv, TransitionalOwned, has_inflight_op,
       live
<1>3. WorkInv'
    BY <1>s, <1>c, Zenon DEF IInv, WorkInv, TypeOK
<1>4. CheckpointInv' /\ JournalHonest' /\ RecoverInv'
    BY <1>s, <1>c, Zenon DEF IInv, CheckpointInv, JournalHonest, RecoverInv, TypeOK
<1>5. HandedInv' /\ VerdictInv'
    BY <1>s, <1>c, Zenon DEF IInv, HandedInv, VerdictInv, TypeOK, live
<1> QED BY <1>1, <1>2, <1>3, <1>4, <1>5, Zenon DEF IInv

\* A boot of a dead process that takes effect late.
LEMMA LateBootKeeps ==
    ASSUME IInv, NEW i \in Instances, LateBoot(i)
    PROVE  IInv'
<1>s. /\ i \in late /\ late' = late \ {i}
      /\ sandbox' = [sandbox EXCEPT ![i] = "running"]
      /\ UNCHANGED <<inst, opState, opKind, opInst, executorActive, pc, recorded,
                     result, phase, rcall, verdict, crashes, lost>>
    BY Zenon DEF LateBoot, journal, tasks, process
<1>n. \/ inst[i] \in {"FAILED", "DESTROYING", "DESTROYED"}
      \/ phase # "up" /\ inst[i] \in {"CREATING", "STARTING", "RESUMING"}
    BY <1>s, Zenon DEF IInv, LateInv
<1>1. TypeOK'
    BY <1>s, Zenon DEF IInv, TypeOK, SandboxState
<1>2. ClaimInv' /\ TaskInv' /\ LateInv' /\ TransitionalOwned'
    BY <1>s, Zenon DEF IInv, ClaimInv, TaskInv, LateInv, TransitionalOwned, has_inflight_op,
       live
<1>3. WorkInv'
    <2> SUFFICES ASSUME NEW o \in Operations, pc[o] = "finalize", opInst[o] = i,
                        opKind[o] \in {"Create", "Stop", "Pause"}
                 PROVE  FALSE
        BY <1>s, Zenon DEF IInv, WorkInv, TypeOK
    <2>1. live(o) /\ recorded[o] = transitional_state(opKind[o])
        BY DEF IInv, TaskInv, live
    <2>2. recorded[o] \in {"FAILED", "DESTROYING", "DESTROYED"}
        BY <1>s, <2>1, Zenon DEF IInv, HandedInv
    <2> QED BY <2>1, <2>2, Zenon DEF transitional_state
<1>4. CheckpointInv' /\ JournalHonest' /\ RecoverInv'
    BY <1>s, <1>n, ZenonT(40) DEF IInv, CheckpointInv, JournalHonest, RecoverInv, TypeOK
<1>5. HandedInv' /\ VerdictInv'
    BY <1>s, Zenon DEF IInv, HandedInv, VerdictInv, TypeOK, live
<1> QED BY <1>1, <1>2, <1>3, <1>4, <1>5, Zenon DEF IInv

\* The reconcile pass lists sandboxes and reads rows.
LEMMA JudgeKeeps ==
    ASSUME IInv, list_present \/ judge_missing
    PROVE  IInv'
<1>s. UNCHANGED <<inst, opState, opKind, opInst, executorActive, pc, recorded, result,
                  phase, rcall, crashes, sandbox, late, lost>>
    BY Zenon DEF list_present, judge_missing, journal, tasks, substrate
<1>v. /\ verdict' \in [Instances -> Verdict]
      /\ \A i \in Instances : verdict'[i] # "none" => phase = "up"
      /\ \A i \in Instances : verdict'[i] = "vanished" => inst[i] = "RUNNING"
    <2>1. CASE list_present
        BY <2>1, Zenon DEF list_present, Verdict
    <2>2. CASE judge_missing
        <3>1. phase = "up"
            BY <2>2, Zenon DEF judge_missing, IInv, VerdictInv
        <3> QED BY <2>2, <3>1, Zenon DEF judge_missing, Verdict
    <2> QED BY <2>1, <2>2, Zenon
<1>1. TypeOK'
    BY <1>s, <1>v, Zenon DEF IInv, TypeOK
<1>2. ClaimInv' /\ TaskInv' /\ HandedInv' /\ WorkInv'
    BY <1>s, Zenon DEF IInv, ClaimInv, TaskInv, HandedInv, WorkInv, live
<1>3. CheckpointInv' /\ LateInv' /\ RecoverInv' /\ JournalHonest' /\ TransitionalOwned'
    BY <1>s, Zenon DEF IInv, CheckpointInv, LateInv, RecoverInv, JournalHonest,
       TransitionalOwned, has_inflight_op
<1>4. VerdictInv'
    BY <1>s, <1>v, Zenon DEF VerdictInv
<1> QED BY <1>1, <1>2, <1>3, <1>4, Zenon DEF IInv

\* The reconcile pass fails a row, whatever the row says by then.
LEMMA FailVanishedKeeps ==
    ASSUME IInv, NEW i \in Instances, fail_vanished(i)
    PROVE  IInv'
<1>s. /\ verdict[i] = "vanished" /\ verdict' = [verdict EXCEPT ![i] = "none"]
      /\ inst' = [inst EXCEPT ![i] = "FAILED"] \/ inst' = inst
      /\ UNCHANGED <<opState, opKind, opInst, executorActive, pc, recorded, result,
                     phase, rcall, crashes, sandbox, late, lost>>
    BY Zenon DEF fail_vanished, tasks, substrate
<1>n. phase = "up" /\ rcall = {}
    BY <1>s, Zenon DEF IInv, VerdictInv, RecoverInv
<1>t. \A j \in Instances : inst'[j] \in {inst[j], "FAILED"}
    BY <1>s, Zenon DEF IInv, TypeOK
<1>1. TypeOK'
    BY <1>s, Zenon DEF IInv, TypeOK, InstanceState, Verdict
<1>2. ClaimInv' /\ HandedInv' /\ WorkInv'
    BY <1>s, Zenon DEF IInv, ClaimInv, HandedInv, WorkInv, live
<1>3. TaskInv'
    BY <1>s, <1>t, Zenon DEF IInv, TaskInv, TypeOK, live
<1>4. CheckpointInv' /\ LateInv' /\ JournalHonest'
    BY <1>s, <1>n, <1>t, Zenon DEF IInv, CheckpointInv, LateInv, JournalHonest, TypeOK
<1>5. RecoverInv'
    BY <1>s, <1>n, Zenon DEF RecoverInv
<1>6. VerdictInv'
    BY <1>s, <1>n, <1>t, Zenon DEF IInv, VerdictInv, TypeOK
<1>7. TransitionalOwned'
    BY <1>s, <1>t, Zenon DEF IInv, TransitionalOwned, TypeOK, is_transitional, has_inflight_op
<1> QED BY <1>1, <1>2, <1>3, <1>4, <1>5, <1>6, <1>7, Zenon DEF IInv

\* An empty journal on an empty substrate.
LEMMA InitHolds == Init => IInv
BY CrashesAssumption
   DEF Init, IInv, TypeOK, ClaimInv, TaskInv, HandedInv, VerdictInv, Verdict, WorkInv,
       CheckpointInv, LateInv, RecoverInv, JournalHonest, TransitionalOwned, live, op_is_in_flight, is_transitional,
       OperationState, OpKind, Pc, Phase, InstanceState, SandboxState

\* Every step keeps the invariant.
LEMMA NextKeeps == IInv /\ [Next]_vars => IInv'
<1> SUFFICES ASSUME IInv, [Next]_vars PROVE IInv'
    BY Zenon
<1>1. CASE \E o \in Operations, i \in Instances, k \in Kinds : submit(o, i, k)
    BY <1>1, SubmitKeeps, Zenon
<1>2. CASE \E o \in Operations : execute(o)
    BY Zenon, <1>2, BeginKeeps, EpochErrorKeeps, RuntimeKeeps, CompensateKeeps,
       FinalizeKeeps DEF execute
<1>3. CASE \E o \in Operations : cancel(o)
    BY <1>3, CancelKeeps, Zenon
<1>4. CASE Crash
    BY <1>4, CrashKeeps, Zenon
<1>5. CASE recover
    BY Zenon, <1>5, OpenKeeps, FailInflightKeeps, PhaseKeeps, RecoverCallKeeps,
       RecoverRecordKeeps, SweepKeeps DEF recover
<1>6. CASE \E i \in Instances : SandboxDies(i)
    BY <1>6, SandboxDiesKeeps, Zenon
<1>7. CASE \E i \in Instances : LateBoot(i)
    BY <1>7, LateBootKeeps, Zenon
<1>8. CASE UNCHANGED vars
    <2>1. UNCHANGED <<inst, opState, opKind, opInst, executorActive, pc, recorded,
                      result, phase, rcall, verdict, crashes, sandbox, late, lost>>
        BY <1>8, Zenon DEF vars, journal, tasks, process, substrate
    <2>2. TypeOK'
        BY <2>1, Zenon DEF IInv, TypeOK
    <2>3. ClaimInv' /\ TaskInv' /\ HandedInv' /\ WorkInv' /\ VerdictInv'
        BY <2>1, Zenon DEF IInv, ClaimInv, TaskInv, HandedInv, WorkInv, VerdictInv, live
    <2>4. CheckpointInv' /\ LateInv' /\ RecoverInv' /\ JournalHonest' /\ TransitionalOwned'
        BY <2>1, Zenon DEF IInv, CheckpointInv, LateInv, RecoverInv, JournalHonest,
           TransitionalOwned, has_inflight_op
    <2> QED BY <2>2, <2>3, <2>4, Zenon DEF IInv
<1>9. CASE \E o \in Operations : execute_finalize_lost(o)
    BY <1>9, FinalizeLostKeeps, Zenon
<1>10. CASE reconcile_vanished_sandboxes
    BY <1>10, JudgeKeeps, FailVanishedKeeps, Zenon DEF reconcile_vanished_sandboxes
<1> QED BY <1>1, <1>2, <1>3, <1>4, <1>5, <1>6, <1>7, <1>8, <1>9, <1>10, Zenon DEF Next, Steps

\* The inductive invariant holds in every reachable state of the engine.
THEOREM Invariance == Spec => []IInv
BY InitHolds, NextKeeps, PTL DEF Spec

-------------------------------------------------------------------------------
(***************************************************************************)
(* The theorems.                                                           *)
(***************************************************************************)

\* Every reachable state of the journal, the tasks and the substrate is well
\* typed; in particular an operation that moves nothing (DeleteSnapshot) never
\* writes its verb's placeholder state to the instance row.
THEOREM TypeCorrect == Spec => []TypeOK
BY Invariance, PTL DEF IInv

\* submit_atomically's check of executor_active keeps two executors off one
\* instance, through cancellations, lost finalizes, crashes and recovery.
THEOREM ExecutorsExclude == Spec => []OneExecutor
<1>1. IInv => OneExecutor
    BY Zenon DEF IInv, ClaimInv, OneExecutor
<1> QED BY <1>1, Invariance, PTL

\* The state handed to execute() at submission is the instance's state until the
\* task ends, or the vanished sweep has failed the row: nothing else moves it, so
\* the settled state the task computes from it is stale in that one case only.
THEOREM RecordedNeverStale == Spec => []RecordedStands
<1>1. IInv => RecordedStands
    BY Zenon DEF IInv, TaskInv, RecordedStands
<1> QED BY <1>1, Invariance, PTL

\* The journal never contradicts the substrate about an instance at rest, at any
\* point of an operation, a crash or a recovery.
THEOREM JournalStaysHonest == Spec => []JournalHonest
BY Invariance, PTL DEF IInv

\* A serving node holds a claim on every instance in a transitional state.
THEOREM TransitionalAlwaysOwned == Spec => []TransitionalOwned
BY Invariance, PTL DEF IInv

\* The steps that write an instance's state; every other step leaves them all.
LEMMA InstWrites ==
    ASSUME [Next]_vars
    PROVE  \/ \E o \in Operations, i \in Instances, k \in Kinds : submit(o, i, k)
           \/ \E o \in Operations : execute_finalize(o)
           \/ recover_record
           \/ \E i \in Instances : fail_vanished(i)
           \/ inst' = inst
<1>1. CASE \E o \in Operations : execute(o) \/ execute_finalize_lost(o)
    BY <1>1, Zenon DEF execute, execute_begin, execute_epoch_error, execute_runtime,
       execute_compensate, execute_finalize_lost, journal
<1>2. CASE \E o \in Operations : cancel(o)
    BY <1>2, Zenon DEF cancel
<1>3. CASE Crash
    BY <1>3, Zenon DEF Crash, journal
<1>4. CASE recover
    BY <1>4, Zenon DEF recover, open, fail_inflight_op, ops_failed, recover_call,
       instances_resolved, sweep_orphans, journal
<1>5. CASE \E i \in Instances : SandboxDies(i) \/ LateBoot(i)
    BY <1>5, Zenon DEF SandboxDies, LateBoot, journal
<1>6. CASE UNCHANGED vars
    BY <1>6, Zenon DEF vars, journal
<1>7. CASE reconcile_vanished_sandboxes
    BY <1>7, Zenon DEF reconcile_vanished_sandboxes, list_present, judge_missing, journal
<1> QED BY <1>1, <1>2, <1>3, <1>4, <1>5, <1>6, <1>7, Zenon DEF Next, Steps

\* What a step may make of a destroyed instance, and of a failed one nobody holds.
LEMMA TerminalStep ==
    ASSUME IInv, [Next]_vars, NEW i \in Instances,
           inst[i] = "DESTROYED" \/ (inst[i] = "FAILED" /\ ~has_inflight_op(i))
    PROVE  inst'[i] \in {inst[i], "FAILED"} \/ (inst[i] = "FAILED" /\ inst'[i] = "DESTROYING")
<1> DEFINE Goal == inst'[i] \in {inst[i], "FAILED"}
                     \/ (inst[i] = "FAILED" /\ inst'[i] = "DESTROYING")
<1>1. ASSUME NEW o \in Operations, NEW j \in Instances, NEW k \in Kinds, submit(o, j, k)
      PROVE  Goal
    <2>1. CASE j # i
        BY <1>1, <2>1, Zenon DEF submit, submit_atomically, IInv, TypeOK
    <2>2. CASE j = i
        <3> DEFINE to == plan_transition(k, inst[i])
        <3>1. ~carries_spec(k) /\ to # "REFUSED" /\ inst[i] \in InstanceState /\ k \in OpKind
            BY <1>1, <2>2, KindsAssumption, Zenon
               DEF submit, submit_atomically, InstanceState
        <3>2. inst'[i] = to
            BY <1>1, <2>2, <3>1, Zenon DEF submit, submit_atomically, IInv, TypeOK
        <3>3. /\ ~is_transitional(to) => to = inst[i]
              /\ inst[i] \in {"FAILED", "DESTROYING", "DESTROYED"} =>
                   to \in {"FAILED", "DESTROYING", "DESTROYED"}
              /\ inst[i] = "DESTROYED" => to = "DESTROYED"
            BY <3>1, PlanFacts
        <3> HIDE DEF to
        <3> QED BY <3>2, <3>3, Zenon DEF is_transitional
    <2> QED BY <2>1, <2>2, Zenon
<1>2. ASSUME NEW o \in Operations, execute_finalize(o)
      PROVE  Goal
    <2>1. pc[o] = "finalize" /\ live(o) /\ executorActive[o]
        BY <1>2, Zenon DEF execute_finalize, live, IInv, ClaimInv
    <2>2. inst' = [inst EXCEPT ![opInst[o]] = settled(o)] \/ inst' = inst
        BY <1>2, Zenon DEF execute_finalize, finish_operation
    <2>3. CASE opInst[o] = i
        <3>1. inst[i] = "DESTROYED"
            BY <2>1, <2>3, Zenon DEF has_inflight_op
        <3>2. recorded[o] = "DESTROYED"
            BY <2>1, <2>3, <3>1, Zenon DEF IInv, TaskInv
        <3>3. settled(o) = "DESTROYED"
            BY <2>1, <3>2, SettledFacts, Zenon
        <3> QED BY <2>2, <2>3, <3>1, <3>3, Zenon DEF IInv, TypeOK
    <2>4. CASE opInst[o] # i
        BY <2>2, <2>4, Zenon DEF IInv, TypeOK
    <2> QED BY <2>3, <2>4, Zenon
<1>3. CASE recover_record
    <2>1. PICK c \in rcall :
             inst' = [inst EXCEPT ![c.instance] = recovered_state(inst[c.instance], c.ok)]
        BY <1>3, Zenon DEF recover_record
    <2>2. c.instance # i
        BY <2>1, Zenon DEF IInv, RecoverInv, is_transitional
    <2> QED BY <2>1, <2>2, Zenon DEF IInv, TypeOK
<1>4. CASE \E j \in Instances : fail_vanished(j)
    BY <1>4, Zenon DEF fail_vanished, IInv, TypeOK
<1>5. CASE inst' = inst
    BY <1>5, Zenon
<1>6. \/ \E o \in Operations, j \in Instances, k \in Kinds : submit(o, j, k)
      \/ \E o \in Operations : execute_finalize(o)
      \/ recover_record
      \/ \E j \in Instances : fail_vanished(j)
      \/ inst' = inst
    BY InstWrites, Zenon
<1> QED BY <1>1, <1>2, <1>3, <1>4, <1>5, <1>6, Zenon

\* No submission, late finalize or recovery brings a destroyed instance back, nor
\* a failed one that no executor holds; the vanished sweep may rename DESTROYED to
\* FAILED, and a failed instance may still be destroyed.
THEOREM DestroyedStays == Spec => DestroyedForGood
<1> DEFINE A == \A i \in Instances :
                  /\ inst[i] = "DESTROYED" => inst'[i] \in {"DESTROYED", "FAILED"}
                  /\ inst[i] = "FAILED" /\ ~has_inflight_op(i) =>
                       inst'[i] \in {"FAILED", "DESTROYING"}
<1>1. IInv /\ [Next]_vars => A
    BY TerminalStep, Zenon
<1> QED BY <1>1, Invariance, PTL DEF Spec, DestroyedForGood

-------------------------------------------------------------------------------
(***************************************************************************)
(* The promise.                                                            *)
(***************************************************************************)
\* The refinement mapping's claim: who holds each instance.
claimOf == [i \in Instances |-> {o \in Operations : executorActive[o] /\ opInst[o] = i}]

NoFork == \A o \in Operations : opKind[o] # "Fork"

\* Only a submission writes an operation's kind.
LEMMA NoForkStays ==
    ASSUME "Fork" \notin Kinds, NoFork, IInv, [Next]_vars
    PROVE  NoFork'
<1>1. CASE \E o \in Operations, i \in Instances, k \in Kinds : submit(o, i, k)
    BY <1>1 DEF submit, submit_atomically, NoFork, IInv, TypeOK
<1>2. CASE opKind' = opKind
    BY <1>2, Zenon DEF NoFork
<1>3. CASE \E o \in Operations : execute(o) \/ execute_finalize_lost(o) \/ cancel(o)
    BY <1>2, <1>3, Zenon DEF execute, execute_begin, execute_epoch_error, execute_runtime,
       execute_compensate, execute_finalize, execute_finalize_lost, cancel, journal
<1>4. CASE Crash \/ recover
    BY <1>2, <1>4, Zenon DEF Crash, recover, open, fail_inflight_op, ops_failed, recover_call,
       recover_record, instances_resolved, sweep_orphans, journal
<1>5. CASE (\E i \in Instances : SandboxDies(i) \/ LateBoot(i)) \/ UNCHANGED vars
    BY <1>2, <1>5, Zenon DEF SandboxDies, LateBoot, vars, journal
<1>6. CASE reconcile_vanished_sandboxes
    BY <1>2, <1>6, Zenon DEF reconcile_vanished_sandboxes, list_present, judge_missing,
       fail_vanished, journal
<1> QED BY <1>1, <1>3, <1>4, <1>5, <1>6, Zenon DEF Next, Steps

\* A step that leaves instances, operations and claims alone is a stutter.
LEMMA Stutters ==
    ASSUME UNCHANGED <<inst, opState, opInst, executorActive>>
    PROVE  UNCHANGED Promise!vars
BY Zenon DEF Promise!vars

\* A journaled step of an operation is progress, or nothing.
LEMMA StepRefines ==
    ASSUME IInv, NEW o \in Operations, set_op_step(o),
           UNCHANGED <<inst, opInst, executorActive>>
    PROVE  [Promise!Next]_(Promise!vars)
<1>1. CASE UNCHANGED opState
    BY <1>1, Stutters, Zenon
<1>2. CASE opState' = [opState EXCEPT ![o] = IF op_is_in_flight(opState[o]) THEN "RUNNING"
                                             ELSE opState[o]]
    <2>1. CASE op_is_in_flight(opState[o])
        <3>1. Promise!Progress(o)
            BY <1>2, <2>1, Zenon DEF Promise!Progress, Promise!op_is_in_flight, op_is_in_flight
        <3> QED BY <3>1, Zenon DEF Promise!Next
    <2>2. CASE ~op_is_in_flight(opState[o])
        <3>1. opState' = opState
            BY <1>2, <2>2, Zenon DEF IInv, TypeOK
        <3> QED BY <1>1, <3>1, Zenon
    <2> QED BY <2>1, <2>2, Zenon
<1> QED BY <1>1, <1>2, Zenon DEF set_op_step

\* The tables of the two modules are the same tables.
LEMMA SameTables ==
    ASSUME NEW a, NEW b
    PROVE  /\ Promise!can_transition(a, b) <=> can_transition(a, b)
           /\ Promise!is_transitional(a) <=> is_transitional(a)
           /\ Promise!op_is_in_flight(a) <=> op_is_in_flight(a)
           /\ Promise!InstanceState = InstanceState
BY Zenon DEF Promise!can_transition, can_transition, Promise!is_transitional, is_transitional,
       Promise!TRANSITIONS, TRANSITIONS, Promise!op_is_in_flight, op_is_in_flight,
       Promise!InstanceState, InstanceState

\* A submission takes an instance at rest that nobody holds.
LEMMA SubmitRefines ==
    ASSUME IInv, NEW o \in Operations, NEW i \in Instances, NEW k \in Kinds,
           submit(o, i, k)
    PROVE  Promise!Take(o, i)
<1> DEFINE to == IF carries_spec(k) THEN "CREATING" ELSE plan_transition(k, inst[i])
<1>s. /\ phase = "up" /\ opState[o] = "NONE" /\ ~has_inflight_op(i)
      /\ carries_spec(k) <=> inst[i] = "ABSENT"
      /\ to # "REFUSED"
      /\ inst' = [inst EXCEPT ![i] = to]
      /\ opState' = [opState EXCEPT ![o] = "QUEUED"]
      /\ opInst' = [opInst EXCEPT ![o] = i]
      /\ executorActive' = [executorActive EXCEPT ![o] = TRUE]
    BY Zenon DEF submit, submit_atomically
<1>1. claimOf[i] = {} /\ claimOf' = [claimOf EXCEPT ![i] = {o}]
    <2>1. \A p \in Operations : executorActive[p] => opInst[p] # i /\ p # o
        BY <1>s, Zenon DEF has_inflight_op, IInv, ClaimInv, op_is_in_flight
    <2> QED BY <1>s, <2>1, Zenon DEF claimOf, IInv, TypeOK
<1>2. ~is_transitional(inst[i])
    BY <1>s, Zenon DEF IInv, TransitionalOwned
<1>3. \/ inst[i] = "ABSENT" /\ inst' = [inst EXCEPT ![i] = "CREATING"]
      \/ inst[i] # "ABSENT" /\ Promise!Moves(i)
    <2>1. CASE inst[i] = "ABSENT"
        BY <1>s, <2>1, Zenon
    <2>2. CASE inst[i] # "ABSENT"
        <3>1. inst[i] \in InstanceState /\ to = plan_transition(k, inst[i])
            BY <1>s, <2>2, Zenon DEF IInv, TypeOK
        <3>2. to \in InstanceState /\ (to = inst[i] \/ can_transition(inst[i], to))
            BY <1>s, <3>1, KindsAssumption, PlanFacts
        <3> HIDE DEF to
        <3> QED BY <1>s, <2>2, <3>2, SameTables, Zenon DEF Promise!Moves
    <2> QED BY <2>1, <2>2, Zenon
<1> QED BY <1>s, <1>1, <1>2, <1>3, SameTables, Zenon DEF Promise!Take, claimOf

\* Where an executor settles its instance is an edge of the table away from where
\* its submission left it.
LEMMA FinalizeEdge ==
    ASSUME IInv, NoFork, NEW o \in Operations, live(o)
    PROVE  settled(o) = recorded[o] \/ can_transition(recorded[o], settled(o))
<1> DEFINE state == settled(o)
           k == opKind[o]
<1>1. k \in OpKind \ {"Fork"} /\ recorded[o] \in InstanceState
    BY Zenon DEF IInv, TypeOK, NoFork
<1>2. CASE recorded[o] # transitional_state(k)
    <2>1. k \in {"CreateSnapshot", "DeleteSnapshot"}
        BY <1>2, Zenon DEF IInv, TaskInv
    <2>2. state = recorded[o]
        BY <1>2, <2>1, Zenon DEF settled, success_state, touches_instance_state
    <2> QED BY <1>1, <2>2, Zenon
<1>3. CASE recorded[o] = transitional_state(k)
    <2>1. k # "DeleteSnapshot"
        BY <1>1, <1>3, StateFacts
    <2>2. can_transition(transitional_state(k), final_state(k))
        BY <1>1, <2>1, Zenon DEF can_transition, TRANSITIONS, transitional_state, final_state,
           OpKind
    <2>3. can_transition(transitional_state(k), "FAILED")
        BY <1>1, <2>1, StateFacts, Zenon DEF can_transition
    <2>4. state \in {final_state(k), "FAILED"}
        BY <1>3, Zenon DEF settled, success_state
    <2> QED BY <1>1, <1>3, <2>2, <2>3, <2>4, Zenon
<1> QED BY <1>2, <1>3, Zenon

\* A finalize brings the instance to rest along an edge of the table, or over a
\* FAILED that was written under it.
LEMMA FinalizeRefines ==
    ASSUME IInv, NoFork, NEW o \in Operations, execute_finalize(o)
    PROVE  [Promise!Next]_(Promise!vars)
<1>i. PICK i \in Instances : i = opInst[o]
    BY Zenon DEF IInv, TypeOK
<1> DEFINE state == settled(o)
           outcome == IF result[o] = "ok" THEN "DONE" ELSE "FAILED"
<1>s. /\ pc[o] = "finalize" /\ opInst' = opInst /\ finish_operation(o, state, outcome)
      /\ live(o) /\ executorActive[o]
    BY Zenon DEF execute_finalize, IInv, TypeOK, ClaimInv, live
<1>1. state \in InstanceState /\ ~is_transitional(state)
    BY <1>s, SettledFacts, Zenon
<1>2. state = inst[i] \/ can_transition(inst[i], state) \/ inst[i] = "FAILED"
    BY <1>s, <1>i, FinalizeEdge, Zenon DEF IInv, TaskInv
<1> HIDE DEF state, outcome
<1>3. CASE UNCHANGED <<inst, opState, executorActive>>
    BY <1>s, <1>3, Stutters, Zenon
<1>4. CASE ~UNCHANGED <<inst, opState, executorActive>>
    <2>1. /\ inst' = [inst EXCEPT ![i] = state]
          /\ executorActive' = [executorActive EXCEPT ![o] = FALSE]
          /\ \/ /\ op_is_in_flight(opState[o])
                /\ opState' = [opState EXCEPT ![o] = outcome]
             \/ /\ opState[o] = "CANCELED" /\ opState' = opState
                /\ state = inst[i] \/ can_transition(inst[i], state)
        BY <1>s, <1>i, <1>4, Zenon DEF finish_operation, IInv, TypeOK, op_is_in_flight
    <2>2. claimOf[i] = {o} /\ claimOf' = [claimOf EXCEPT ![i] = {}]
        <3>1. \A p \in Operations : executorActive[p] /\ opInst[p] = i => p = o
            BY <1>s, <1>i, Zenon DEF IInv, ClaimInv
        <3> QED BY <1>s, <1>i, <2>1, <3>1, Zenon DEF claimOf, IInv, TypeOK
    <2>3. \/ op_is_in_flight(opState[o]) /\ (Promise!Moves(i) \/ Promise!Overrules(i))
          \/ opState[o] = "CANCELED" /\ Promise!Moves(i)
        BY <1>1, <1>2, <2>1, SameTables, Zenon DEF Promise!Moves, Promise!Overrules
    <2>4. ~is_transitional(inst'[i])
        BY <1>s, <1>1, <2>1, Zenon DEF IInv, TypeOK
    <2>5. outcome \in {"DONE", "FAILED"}
        BY Zenon DEF outcome
    <2>6. ~Promise!is_transitional(inst'[i])
        BY <2>4, SameTables, Zenon
    <2>7. ASSUME op_is_in_flight(opState[o]), Promise!Moves(i) \/ Promise!Overrules(i)
          PROVE  Promise!Finish(o, i)
        <3>1. Promise!op_is_in_flight(opState[o]) /\ opState' = [opState EXCEPT ![o] = outcome]
            BY <2>1, <2>7, SameTables, Zenon DEF op_is_in_flight
        <3> QED BY <2>2, <2>5, <2>6, <2>7, <3>1, Zenon DEF Promise!Finish, claimOf
    <2>8. ASSUME opState[o] = "CANCELED", Promise!Moves(i)
          PROVE  Promise!Finish(o, i)
        <3>1. opState' = opState
            BY <2>1, <2>8, Zenon DEF op_is_in_flight
        <3> QED BY <2>2, <2>6, <2>8, <3>1, Zenon DEF Promise!Finish, claimOf
    <2>9. Promise!Finish(o, i)
        BY <2>3, <2>7, <2>8, Zenon
    <2> QED BY <2>9, Zenon DEF Promise!Next
<1> QED BY <1>3, <1>4, Zenon

\* Every other step of an executor is progress or a stutter.
LEMMA ExecuteRefines ==
    ASSUME IInv, NoFork, NEW o \in Operations, execute(o)
    PROVE  [Promise!Next]_(Promise!vars)
<1>1. CASE execute_begin(o) \/ execute_epoch_error(o) \/ execute_runtime(o)
    <2>1. set_op_step(o) /\ UNCHANGED <<inst, opInst, executorActive>>
        BY <1>1, Zenon DEF execute_begin, execute_epoch_error, execute_runtime
    <2> QED BY <2>1, StepRefines, Zenon
<1>2. CASE execute_compensate(o)
    <2>1. UNCHANGED <<inst, opState, opInst, executorActive>>
        BY <1>2, Zenon DEF execute_compensate, journal
    <2> QED BY <2>1, Stutters, Zenon
<1>3. CASE execute_finalize(o)
    BY <1>3, FinalizeRefines, Zenon
<1> QED BY <1>1, <1>2, <1>3, Zenon DEF execute

\* A cancellation is progress: the instance and the claim stay.
LEMMA CancelRefines ==
    ASSUME IInv, NEW o \in Operations, cancel(o)
    PROVE  [Promise!Next]_(Promise!vars)
<1>1. /\ op_is_in_flight(opState[o])
      /\ opState' = [opState EXCEPT ![o] = "CANCELED"]
      /\ UNCHANGED <<inst, opInst, executorActive>>
    BY Zenon DEF cancel, op_can_transition, op_is_settled, op_is_in_flight, OperationState,
       IInv, TypeOK, ClaimInv
<1>2. Promise!Progress(o)
    BY <1>1, SameTables, Zenon DEF Promise!Progress
<1> QED BY <1>2, Zenon DEF Promise!Next

\* Db::open abandons the canceled operations whose executor died.
LEMMA OpenRefines ==
    ASSUME IInv, open
    PROVE  [Promise!Next]_(Promise!vars)
<1> DEFINE D == {o \in Operations : opState[o] = "CANCELED"}
<1>1. /\ executorActive' = [o \in Operations |-> op_is_in_flight(opState[o])]
      /\ UNCHANGED <<inst, opState, opInst>>
    BY Zenon DEF open
<1>2. \A o \in Operations : executorActive'[o] <=> executorActive[o] /\ o \notin D
    BY <1>1, Zenon DEF IInv, ClaimInv, TypeOK, op_is_in_flight
<1>3. claimOf' = [i \in Instances |-> claimOf[i] \ D]
    BY <1>1, <1>2, Zenon DEF claimOf
<1>4. Promise!Abandon
    BY <1>1, <1>3, Zenon DEF Promise!Abandon, claimOf
<1> QED BY <1>4, Zenon DEF Promise!Next

\* fail_inflight_ops fails an operation and lets its instance go.
LEMMA FailInflightRefines ==
    ASSUME IInv, NEW o \in Operations, fail_inflight_op(o)
    PROVE  [Promise!Next]_(Promise!vars)
<1>i. PICK i \in Instances : i = opInst[o]
    BY Zenon DEF IInv, TypeOK
<1>1. /\ op_is_in_flight(opState[o])
      /\ opState' = [opState EXCEPT ![o] = "FAILED"]
      /\ executorActive' = [executorActive EXCEPT ![o] = FALSE]
      /\ UNCHANGED <<inst, opInst>>
    BY Zenon DEF fail_inflight_op
<1>2. claimOf[i] = {o} /\ claimOf' = [claimOf EXCEPT ![i] = {}]
    <2>1. \A p \in Operations : executorActive[p] /\ opInst[p] = i <=> p = o
        BY <1>i, <1>1, Zenon DEF IInv, ClaimInv
    <2>2. claimOf[i] = {o}
        BY <2>1, Zenon DEF claimOf
    <2>3. ASSUME NEW j \in Instances
          PROVE  claimOf'[j] = IF j = i THEN {} ELSE claimOf[j]
        BY <1>i, <1>1, <2>1 DEF claimOf, IInv, TypeOK
    <2> QED BY <2>2, <2>3, Zenon DEF claimOf
<1>3. Promise!Fail(o, i)
    BY <1>1, <1>2, SameTables, Zenon DEF Promise!Fail, claimOf
<1> QED BY <1>3, Zenon DEF Promise!Next

\* Recovery resolves an instance nobody holds along an edge of the table.
LEMMA RecordRefines ==
    ASSUME IInv, recover_record
    PROVE  [Promise!Next]_(Promise!vars)
<1>1. phase = "instances" /\ UNCHANGED <<opState, opInst, executorActive>>
    BY Zenon DEF recover_record
<1>2. PICK c \in rcall :
         inst' = [inst EXCEPT ![c.instance] = recovered_state(inst[c.instance], c.ok)]
    BY Zenon DEF recover_record
<1>3. PICK i \in Instances : i = c.instance
    BY <1>2, Zenon DEF IInv, TypeOK
<1>4. is_transitional(inst[i])
    BY <1>2, <1>3, Zenon DEF IInv, RecoverInv
<1>5. PICK to \in InstanceState : to = recovered_state(inst[i], c.ok)
    BY Zenon DEF recovered_state, InstanceState
<1>6. can_transition(inst[i], to) /\ ~is_transitional(to)
    BY <1>4, <1>5, Zenon DEF recovered_state, can_transition, is_transitional, TRANSITIONS
<1>7. claimOf[i] = {} /\ claimOf' = claimOf
    BY <1>1, Zenon DEF IInv, ClaimInv, claimOf
<1>8. inst' = [inst EXCEPT ![i] = to]
    BY <1>2, <1>3, <1>5, Zenon
<1>9. Promise!Moves(i) /\ ~is_transitional(inst'[i])
    BY <1>5, <1>6, <1>8, SameTables, Zenon DEF Promise!Moves, IInv, TypeOK
<1>10. Promise!Resolve(i)
    BY <1>1, <1>4, <1>7, <1>9, SameTables, Zenon DEF Promise!Resolve, claimOf
<1> QED BY <1>10, Zenon DEF Promise!Next

\* The reconcile pass fails an instance that has a row, or does nothing to it.
LEMMA VanishRefines ==
    ASSUME IInv, NEW i \in Instances, fail_vanished(i)
    PROVE  [Promise!Next]_(Promise!vars)
<1>1. UNCHANGED <<opState, opInst, executorActive>> /\ inst[i] # "ABSENT"
    BY Zenon DEF fail_vanished, IInv, VerdictInv
<1>2. CASE inst' = [inst EXCEPT ![i] = "FAILED"]
    <2>1. Promise!Vanish(i)
        BY <1>1, <1>2, Zenon DEF Promise!Vanish
    <2> QED BY <2>1, Zenon DEF Promise!Next
<1>3. CASE inst' = inst
    BY <1>1, <1>3, Stutters, Zenon
<1> QED BY <1>2, <1>3, Zenon DEF fail_vanished

\* Every step of the engine is a step of Lifecycle or a stutter.
LEMMA NextRefines ==
    ASSUME IInv, NoFork, [Next]_vars
    PROVE  [Promise!Next]_(Promise!vars)
<1>1. CASE \E o \in Operations, i \in Instances, k \in Kinds : submit(o, i, k)
    <2>1. PICK o \in Operations, i \in Instances, k \in Kinds : submit(o, i, k)
        BY <1>1, Zenon
    <2>2. Promise!Take(o, i)
        BY <2>1, SubmitRefines, Zenon
    <2> QED BY <2>2, Zenon DEF Promise!Next
<1>2. CASE \E o \in Operations : execute(o)
    BY <1>2, ExecuteRefines, Zenon
<1>3. CASE \E o \in Operations : cancel(o)
    BY <1>3, CancelRefines, Zenon
<1>4. CASE open \/ recover_record \/ \E o \in Operations : fail_inflight_op(o)
    BY <1>4, OpenRefines, RecordRefines, FailInflightRefines, Zenon
<1>5. CASE \/ Crash \/ ops_failed \/ instances_resolved \/ sweep_orphans
           \/ \E i \in Instances : recover_call(i) \/ SandboxDies(i) \/ LateBoot(i)
           \/ \E o \in Operations : execute_finalize_lost(o)
           \/ list_present \/ judge_missing
           \/ UNCHANGED vars
    <2>1. UNCHANGED <<inst, opState, opInst, executorActive>>
        BY <1>5, Zenon DEF Crash, ops_failed, instances_resolved, sweep_orphans, recover_call,
           SandboxDies, LateBoot, execute_finalize_lost, list_present, judge_missing, vars,
           journal
    <2> QED BY <2>1, Stutters, Zenon
<1>6. CASE \E i \in Instances : fail_vanished(i)
    BY <1>6, VanishRefines, Zenon
<1> QED BY <1>1, <1>2, <1>3, <1>4, <1>5, <1>6, Zenon
        DEF Next, Steps, recover, reconcile_vanished_sandboxes

\* Without forks the engine implements its promise, for any number of clients
\* and crashes and whether or not journal writes fail: verbs serialise, every
\* move is an edge of a table, settled outcomes stand, and an instance abandoned
\* half-way is at rest before the next verb takes it.  The one exception the
\* promise names is an instance whose sandbox vanished.
THEOREM EngineKeepsPromise ==
    ASSUME "Fork" \notin Kinds
    PROVE  Spec => KeepsPromise
<1>1. Init => Promise!Init /\ NoFork
    BY DEF Init, Promise!Init, NoFork
<1>2. NoFork /\ IInv /\ [Next]_vars => NoFork'
    BY NoForkStays, Zenon
<1>3. NoFork /\ IInv /\ [Next]_vars => [Promise!Next]_(Promise!vars)
    BY NextRefines, Zenon
<1> QED BY <1>1, <1>2, <1>3, Invariance, PTL DEF Spec, KeepsPromise, Promise!Spec

-------------------------------------------------------------------------------
(***************************************************************************)
(* Nothing is stranded.                                                    *)
(***************************************************************************)
\* On a serving node a claim is a live executor's, or is left on a failed row.
ActiveIsLive ==
    phase = "up" =>
        \A o \in Operations : executorActive[o] => live(o) \/ inst[opInst[o]] = "FAILED"

\* A finalize lets its claim go, also of an operation that was canceled, unless
\* the row was failed under it.
LEMMA FinalizeReleases ==
    ASSUME IInv, NoFork, NEW o \in Operations, execute_finalize(o)
    PROVE  /\ ~executorActive'[o] \/ inst'[opInst[o]] = "FAILED"
           /\ \A p \in Operations \ {o} :
                /\ executorActive'[p] = executorActive[p] /\ pc'[p] = pc[p]
                /\ executorActive[p] => inst'[opInst[p]] = inst[opInst[p]]
<1>1. live(o) /\ executorActive[o]
    BY Zenon DEF execute_finalize, live, IInv, ClaimInv
<1>2. op_is_in_flight(opState[o]) \/ opState[o] = "CANCELED"
    BY <1>1, Zenon DEF IInv, ClaimInv
<1>3. \/ inst[opInst[o]] = "FAILED"
      \/ settled(o) = inst[opInst[o]] \/ can_transition(inst[opInst[o]], settled(o))
    BY <1>1, FinalizeEdge, Zenon DEF IInv, TaskInv
<1>4. \/ /\ executorActive' = [executorActive EXCEPT ![o] = FALSE]
         /\ inst' = [inst EXCEPT ![opInst[o]] = settled(o)]
      \/ executorActive' = executorActive /\ inst' = inst /\ inst[opInst[o]] = "FAILED"
    BY <1>2, <1>3, Zenon DEF execute_finalize, finish_operation
<1>5. \A p \in Operations \ {o} : executorActive[p] => opInst[p] # opInst[o]
    BY <1>1, Zenon DEF IInv, ClaimInv
<1>6. pc' = [pc EXCEPT ![o] = "idle"]
    BY Zenon DEF execute_finalize, Exit, GoTo
<1> QED BY <1>4, <1>5, <1>6, Zenon DEF IInv, TypeOK

\* Every step but a lost finalize keeps the claims with their executors.
LEMMA StepsKeepLive ==
    ASSUME IInv, NoFork, ActiveIsLive, [Steps]_vars
    PROVE  ActiveIsLive'
<1>0. /\ pc \in [Operations -> Pc] /\ executorActive \in [Operations -> BOOLEAN]
      /\ \A o \in Operations : opState[o] # "AWAITING_INPUT"
    BY Zenon DEF IInv, TypeOK, ClaimInv
<1>1. ASSUME NEW o \in Operations, NEW i \in Instances, NEW k \in Kinds, submit(o, i, k)
      PROVE  ActiveIsLive'
    <2>1. /\ phase = "up" /\ phase' = phase
          /\ \E to : inst' = [inst EXCEPT ![i] = to]
          /\ executorActive' = [executorActive EXCEPT ![o] = TRUE]
          /\ pc' = [pc EXCEPT ![o] = "spawned"]
          /\ opInst' = [opInst EXCEPT ![o] = i]
        BY <1>1, Zenon DEF submit, submit_atomically, process
    <2>2. \A p \in Operations : executorActive[p] => opInst[p] # i
        BY <1>1, Zenon DEF submit, submit_atomically, has_inflight_op
    <2>3. ASSUME NEW p \in Operations, p # o, executorActive'[p]
          PROVE  pc'[p] # "idle" \/ inst'[opInst'[p]] = "FAILED"
        BY <1>0, <2>1, <2>2, <2>3, Zenon DEF ActiveIsLive, live, IInv, TypeOK
    <2>4. pc'[o] # "idle"
        BY <1>0, <2>1, Zenon
    <2> QED BY <2>3, <2>4, Zenon DEF ActiveIsLive, live
<1>2. ASSUME NEW o \in Operations, execute_begin(o) \/ execute_epoch_error(o)
                  \/ execute_runtime(o) \/ execute_compensate(o)
      PROVE  ActiveIsLive'
    <2>1. /\ UNCHANGED <<phase, executorActive, inst, opInst>>
          /\ \E label \in Pc \ {"idle"} : pc' = [pc EXCEPT ![o] = label]
        BY <1>2, Zenon DEF execute_begin, execute_epoch_error, execute_runtime,
           execute_compensate, GoTo, process, journal, Pc
    <2> QED BY <1>0, <2>1, Zenon DEF ActiveIsLive, live
<1>3. ASSUME NEW o \in Operations, execute_finalize(o)
      PROVE  ActiveIsLive'
    <2>1. phase' = phase /\ opInst' = opInst
        BY <1>3, Zenon DEF execute_finalize, process
    <2>2. /\ ~executorActive'[o] \/ inst'[opInst[o]] = "FAILED"
          /\ \A p \in Operations \ {o} :
               /\ executorActive'[p] = executorActive[p] /\ pc'[p] = pc[p]
               /\ executorActive[p] => inst'[opInst[p]] = inst[opInst[p]]
        BY <1>3, FinalizeReleases, Zenon
    <2> QED BY <2>1, <2>2, Zenon DEF ActiveIsLive, live
<1>4. ASSUME NEW o \in Operations, cancel(o)
      PROVE  ActiveIsLive'
    BY <1>0, <1>4, Zenon DEF cancel, ActiveIsLive, live, tasks, process
<1>5. CASE sweep_orphans
    BY <1>5, Zenon DEF sweep_orphans, journal, ActiveIsLive, IInv, ClaimInv
<1>6. CASE Crash \/ open \/ ops_failed \/ instances_resolved
    BY <1>6, Zenon DEF Crash, open, ops_failed, instances_resolved, ActiveIsLive
<1>7. CASE \/ \E o \in Operations : fail_inflight_op(o)
           \/ \E i \in Instances : recover_call(i)
           \/ recover_record
    BY <1>7, Zenon DEF fail_inflight_op, recover_call, recover_record, ActiveIsLive, process
<1>8. CASE \/ \E i \in Instances : SandboxDies(i) \/ LateBoot(i)
           \/ list_present \/ judge_missing
           \/ UNCHANGED vars
    <2>1. UNCHANGED <<phase, executorActive, inst, opInst, pc>>
        BY <1>8, Zenon DEF SandboxDies, LateBoot, list_present, judge_missing, vars, journal,
           tasks, process
    <2> QED BY <2>1, Zenon DEF ActiveIsLive, live
<1>9. ASSUME NEW i \in Instances, fail_vanished(i)
      PROVE  ActiveIsLive'
    <2>1. /\ UNCHANGED <<phase, executorActive, opInst, pc>>
          /\ \A j \in Instances : inst'[j] \in {inst[j], "FAILED"}
        BY <1>9, Zenon DEF fail_vanished, tasks, IInv, TypeOK
    <2> QED BY <2>1, Zenon DEF ActiveIsLive, live, IInv, TypeOK
<1> QED BY <1>1, <1>2, <1>3, <1>4, <1>5, <1>6, <1>7, <1>8, <1>9, Zenon
        DEF Steps, execute, recover, reconcile_vanished_sandboxes

\* As long as the journal takes what an executor ends with, and nobody forks, an
\* instance on a serving node is half-way only while an executor is at work on it:
\* a cancellation, a crash and a recovery strand nothing.
THEOREM NothingStranded ==
    ASSUME "Fork" \notin Kinds
    PROVE  SoundSpec => []NotStranded
<1> DEFINE J == IInv /\ NoFork /\ ActiveIsLive
<1>1. Init => J
    BY InitHolds, Zenon DEF Init, NoFork, ActiveIsLive
<1>2. J /\ [Steps]_vars => J'
    <2>1. [Steps]_vars => [Next]_vars
        BY Zenon DEF Next
    <2> QED BY <2>1, NextKeeps, NoForkStays, StepsKeepLive, Zenon
<1>3. J => NotStranded
    BY Zenon DEF IInv, TransitionalOwned, has_inflight_op, ActiveIsLive, NotStranded,
       is_transitional
<1> HIDE DEF J
<1> QED BY <1>1, <1>2, <1>3, PTL DEF SoundSpec
===============================================================================
