--------------------------------- MODULE Ops ---------------------------------
(***************************************************************************)
(* The operation engine of the node agent: submissions, the executor task  *)
(* behind each operation, cancellation, crash and crash recovery (ops.rs,  *)
(* with the transactions of db.rs it is built from), and the one other     *)
(* writer of instances.state, the reconcile pass that fails instances      *)
(* whose sandbox vanished (reconcile.rs): it takes no claim.               *)
(*                                                                         *)
(* The journal (inst, op*, executorActive) is SQLite and survives a crash; *)
(* the executor tasks (pc, recorded, result) are memory and do not; the    *)
(* substrate (sandbox, late, lost) lives outside the process and changes   *)
(* under it.  An operation id stands for its idempotency key: keys are     *)
(* unique in the operations table, and a repeated key reads the original   *)
(* row back and writes nothing, so a replay is a stuttering step here.     *)
(*                                                                         *)
(* Left out, because no property below tells them apart: the columns of a  *)
(* row that are neither its state nor its claim (spec, token, deadlines,   *)
(* readiness, stop reason, degradations), snapshots, events, lease stamps. *)
(***************************************************************************)
EXTENDS StateMachine, Naturals

CONSTANTS
    Instances,      \* instance ids
    Operations,     \* operation ids, one per idempotency key
    Kinds,          \* the verbs clients use
    MaxCrashes      \* bound on process crashes

ASSUME KindsAssumption == Kinds \subseteq OpKind
ASSUME CrashesAssumption == MaxCrashes \in Nat

VARIABLES
    inst,            \* instances.state
    opState,         \* operations.state
    opKind,          \* operations.kind
    opInst,          \* operations.instance_id
    executorActive,  \* operations.executor_active
    pc,              \* where the operation's executor task is, "idle" if none
    recorded,        \* execute()'s argument: the state the submission wrote
    result,          \* execute()'s local: what the runtime call returned
    phase,           \* "up", "down", or the step of recover() being run
    rcall,           \* crash recovery's runtime call that returned, if any
    verdict,         \* what the reconcile pass under way holds of each instance
    sandbox,         \* the substrate's sandbox of each instance
    late,            \* boots the substrate accepted from a process now dead
    lost,            \* sandboxes that died outside of any operation
    crashes

journal == <<inst, opState, opKind, opInst, executorActive>>
tasks == <<pc, recorded, result>>
substrate == <<sandbox, late, lost>>
process == <<phase, rcall, verdict, crashes>>
vars == <<journal, tasks, process, substrate>>

SandboxState == {"absent", "halted", "running"}
Pc == {"idle", "spawned", "calling", "compensate", "finalize"}
Phase == {"up", "down", "ops", "instances", "sweep"}
Verdict == {"none", "missing", "vanished"}

TypeOK ==
    /\ inst \in [Instances -> InstanceState \cup {"ABSENT"}]
    /\ opState \in [Operations -> OperationState \cup {"NONE"}]
    /\ opKind \in [Operations -> OpKind]
    /\ opInst \in [Operations -> Instances]
    /\ executorActive \in [Operations -> BOOLEAN]
    /\ pc \in [Operations -> Pc]
    /\ recorded \in [Operations -> InstanceState]
    /\ result \in [Operations -> {"ok", "err"}]
    /\ phase \in Phase
    /\ rcall \in SUBSET [instance : Instances, ok : BOOLEAN]
    /\ verdict \in [Instances -> Verdict]
    /\ sandbox \in [Instances -> SandboxState]
    /\ late \in SUBSET Instances
    /\ lost \in SUBSET Instances
    /\ crashes \in 0..MaxCrashes

Init ==
    /\ inst = [i \in Instances |-> "ABSENT"]
    /\ opState = [o \in Operations |-> "NONE"]
    /\ opKind = [o \in Operations |-> "Create"]
    /\ \E i \in Instances : opInst = [o \in Operations |-> i]
    /\ executorActive = [o \in Operations |-> FALSE]
    /\ pc = [o \in Operations |-> "idle"]
    /\ recorded = [o \in Operations |-> "CREATING"]
    /\ result = [o \in Operations |-> "ok"]
    /\ phase = "up"
    /\ rcall = {}
    /\ verdict = [i \in Instances |-> "none"]
    /\ sandbox = [i \in Instances |-> "absent"]
    /\ late = {}
    /\ lost = {}
    /\ crashes = 0

-------------------------------------------------------------------------------
(***************************************************************************)
(* Journal transactions.                                                   *)
(***************************************************************************)
\* Mutation: the conflict check asks the operation's state, not its claim.
has_inflight_op_by_state(i) ==
    \E o \in Operations : op_is_in_flight(opState[o]) /\ opInst[o] = i

\* An operation on the instance still has an executor that may act.
has_inflight_op(i) ==
    \E o \in Operations : executorActive[o] /\ opInst[o] = i

\* set_op_step: RUNNING if still in flight.  execute() only logs a failure.
set_op_step(o) ==
    \/ opState' = [opState EXCEPT ![o] =
                      IF op_is_in_flight(@) THEN "RUNNING" ELSE @]
    \/ UNCHANGED opState

\* Mutation: a canceled operation rolls its whole finalize back.
finish_operation_all_or_nothing(o, state, outcome) ==
    IF op_is_in_flight(opState[o])
    THEN /\ inst' = [inst EXCEPT ![opInst[o]] = state]
         /\ opState' = [opState EXCEPT ![o] = outcome]
         /\ executorActive' = [executorActive EXCEPT ![o] = FALSE]
    ELSE UNCHANGED <<inst, opState, executorActive>>

\* Mutation: the operation's outcome is written without the in-flight guard.
finish_operation_unguarded(o, state, outcome) ==
    /\ inst' = [inst EXCEPT ![opInst[o]] = state]
    /\ opState' = [opState EXCEPT ![o] = outcome]
    /\ executorActive' = [executorActive EXCEPT ![o] = FALSE]

\* finish_operation: the instance takes the state the work reached; an
\* operation in flight takes its outcome.  A canceled one keeps CANCELED and
\* still moves its instance, but only along an edge of the table: otherwise the
\* transaction rolls back, and the claim stays.
finish_operation(o, state, outcome) ==
    LET i == opInst[o]
        inFlight == op_is_in_flight(opState[o])
        applies == \/ inFlight
                   \/ /\ opState[o] = "CANCELED"
                      /\ inst[i] = state \/ can_transition(inst[i], state)
    IN  IF applies
        THEN /\ inst' = [inst EXCEPT ![i] = state]
             /\ opState' = [opState EXCEPT ![o] = IF inFlight THEN outcome ELSE @]
             /\ executorActive' = [executorActive EXCEPT ![o] = FALSE]
        ELSE UNCHANGED <<inst, opState, executorActive>>

-------------------------------------------------------------------------------
(***************************************************************************)
(* The substrate, as the two runtimes drive it.  A sandbox in standby and  *)
(* a stopped one are both "halted".                                        *)
(***************************************************************************)
boots(kind) == kind \in {"Start", "Resume", "Fork"}

\* The states a call that returns r may leave a sandbox in.  Stopping or
\* pausing a sandbox that is not there is an error; destroying it is not.
SandboxAfter(kind, r, s) ==
    LET halt == IF s = "absent" THEN {} ELSE {"halted"}
    IN  IF r = "ok"
        THEN CASE kind = "Create" -> {"absent", "halted"}
               [] boots(kind) -> {"running"}
               [] kind \in {"Stop", "Pause"} -> halt
               [] kind = "CreateSnapshot" -> {s} \ {"absent"}
               [] kind = "DeleteSnapshot" -> {s}
               [] kind = "Destroy" -> {"absent"}
        ELSE CASE kind = "Create" -> {s, "halted"}
               [] boots(kind) -> SandboxState
               [] kind \in {"Stop", "Pause"} -> {s} \cup halt
               [] kind \in {"CreateSnapshot", "DeleteSnapshot"} -> {s}
               [] kind = "Destroy" -> {s, "absent"}

\* remove_orphan is destroy; every caller here ignores its error.
remove_orphan(i) ==
    \E s \in {sandbox[i], "absent"} : sandbox' = [sandbox EXCEPT ![i] = s]

\* A sandbox exits or vanishes with no operation asking for it.
SandboxDies(i) ==
    /\ sandbox[i] # "absent"
    /\ \E s \in {"halted", "absent"} \ {sandbox[i]} :
          sandbox' = [sandbox EXCEPT ![i] = s]
    /\ lost' = lost \cup {i}
    /\ UNCHANGED <<journal, tasks, process, late>>

\* A boot the substrate accepted from a process that died takes effect.
LateBoot(i) ==
    /\ i \in late
    /\ late' = late \ {i}
    /\ sandbox' = [sandbox EXCEPT ![i] = "running"]
    /\ UNCHANGED <<journal, tasks, process, lost>>

-------------------------------------------------------------------------------
(***************************************************************************)
(* A submission.  The operation row and the state of the instance are one  *)
(* transaction; the executor is spawned when it commits.                   *)
(***************************************************************************)
submit_atomically(o, i, kind, to) ==
    /\ opState[o] = "NONE"
    /\ ~has_inflight_op(i)
    /\ carries_spec(kind) <=> inst[i] = "ABSENT"
    /\ to # "REFUSED"
    /\ inst' = [inst EXCEPT ![i] = to]
    /\ opState' = [opState EXCEPT ![o] = "QUEUED"]
    /\ opKind' = [opKind EXCEPT ![o] = kind]
    /\ opInst' = [opInst EXCEPT ![o] = i]
    /\ executorActive' = [executorActive EXCEPT ![o] = TRUE]

submit(o, i, kind) ==
    LET to == IF carries_spec(kind) THEN "CREATING"
              ELSE plan_transition(kind, inst[i])
    IN  /\ phase = "up"
        /\ submit_atomically(o, i, kind, to)
        /\ pc' = [pc EXCEPT ![o] = "spawned"]
        /\ recorded' = [recorded EXCEPT ![o] = to]
        /\ UNCHANGED <<result, process, substrate>>

(***************************************************************************)
(* The executor task, execute(), cut where it leaves the process: before   *)
(* the runtime call, after it, after the compensation, after the finalize. *)
(***************************************************************************)
GoTo(o, label) == pc' = [pc EXCEPT ![o] = label]

\* The task ends and its locals go with it.
Exit(o) ==
    /\ GoTo(o, "idle")
    /\ recorded' = [recorded EXCEPT ![o] = "CREATING"]
    /\ result' = [result EXCEPT ![o] = "ok"]

execute_begin(o) ==
    /\ pc[o] = "spawned"
    /\ set_op_step(o)
    /\ GoTo(o, "calling")
    /\ UNCHANGED <<inst, opKind, opInst, executorActive, recorded, result,
                   process, substrate>>

\* The execution epoch of a boot could not be issued or bound: the operation
\* fails before the runtime is called.
execute_epoch_error(o) ==
    /\ pc[o] = "spawned"
    /\ boots(opKind[o])
    /\ set_op_step(o)
    /\ result' = [result EXCEPT ![o] = "err"]
    /\ GoTo(o, "finalize")
    /\ UNCHANGED <<inst, opKind, opInst, executorActive, recorded,
                   process, substrate>>

execute_runtime(o) ==
    LET i == opInst[o] IN
    /\ pc[o] = "calling"
    /\ \E r \in {"ok", "err"} :
         /\ \E s \in SandboxAfter(opKind[o], r, sandbox[i]) :
              sandbox' = [sandbox EXCEPT ![i] = s]
         /\ result' = [result EXCEPT ![o] = r]
         /\ lost' = IF r = "ok" /\ boots(opKind[o]) THEN lost \ {i} ELSE lost
         /\ GoTo(o, IF r = "err" /\ carries_spec(opKind[o]) THEN "compensate"
                    ELSE "finalize")
    /\ set_op_step(o)
    /\ UNCHANGED <<inst, opKind, opInst, executorActive, recorded, process, late>>

execute_compensate(o) ==
    /\ pc[o] = "compensate"
    /\ remove_orphan(opInst[o])
    /\ GoTo(o, "finalize")
    /\ UNCHANGED <<journal, recorded, result, process, late, lost>>

\* Where the work left the instance: an operation that moved nothing ends where
\* it started, and a failed snapshot verb says nothing about the instance.
success_state(o) ==
    IF recorded[o] = transitional_state(opKind[o]) THEN final_state(opKind[o])
    ELSE recorded[o]

settled(o) ==
    IF result[o] = "ok" \/ ~touches_instance_state(opKind[o])
    THEN success_state(o) ELSE "FAILED"

execute_finalize(o) ==
    /\ pc[o] = "finalize"
    /\ finish_operation(o, settled(o), IF result[o] = "ok" THEN "DONE" ELSE "FAILED")
    /\ Exit(o)
    /\ UNCHANGED <<opKind, opInst, process, substrate>>

\* The finalizing transaction failed: nothing was recorded and the task ends.
execute_finalize_lost(o) ==
    /\ pc[o] = "finalize"
    /\ Exit(o)
    /\ UNCHANGED <<journal, process, substrate>>

\* The CancelOperation RPC.  Only an operation with no executor (one that waits
\* for input) gives its claim up here.
cancel(o) ==
    /\ phase = "up"
    /\ op_can_transition(opState[o], "CANCELED")
    /\ opState' = [opState EXCEPT ![o] = "CANCELED"]
    /\ executorActive' = [executorActive EXCEPT ![o] =
                            IF opState[o] = "AWAITING_INPUT" THEN FALSE ELSE @]
    /\ UNCHANGED <<inst, opKind, opInst, tasks, process, substrate>>

-------------------------------------------------------------------------------
(***************************************************************************)
(* Crash, restart and recover().  A boot whose call was in flight may have *)
(* been accepted by the substrate.                                         *)
(***************************************************************************)
Crash ==
    /\ phase # "down"
    /\ crashes < MaxCrashes
    /\ crashes' = crashes + 1
    /\ phase' = "down"
    /\ rcall' = {}
    /\ verdict' = [i \in Instances |-> "none"]
    /\ pc' = [o \in Operations |-> "idle"]
    /\ recorded' = [o \in Operations |-> "CREATING"]
    /\ result' = [o \in Operations |-> "ok"]
    /\ \E accepted \in SUBSET {opInst[o] : o \in {p \in Operations :
                                  pc[p] = "calling" /\ boots(opKind[p])}} :
         late' = late \cup accepted
    /\ UNCHANGED <<journal, sandbox, lost>>

\* Mutation: claims are left as the dead process had them.
open_keeps_claims ==
    /\ phase = "down"
    /\ phase' = "ops"
    /\ UNCHANGED <<journal, tasks, rcall, verdict, crashes, substrate>>

\* Db::open: only an operation still in flight keeps its claim.
open ==
    /\ phase = "down"
    /\ phase' = "ops"
    /\ executorActive' = [o \in Operations |-> op_is_in_flight(opState[o])]
    /\ UNCHANGED <<inst, opState, opKind, opInst, tasks, rcall, verdict, crashes,
                   substrate>>

\* Mutation: only operations that had begun are failed.
fail_running_op(o) ==
    /\ phase = "ops"
    /\ opState[o] = "RUNNING"
    /\ opState' = [opState EXCEPT ![o] = "FAILED"]
    /\ executorActive' = [executorActive EXCEPT ![o] = FALSE]
    /\ UNCHANGED <<inst, opKind, opInst, tasks, process, substrate>>

\* recover, step 1: one operation of fail_inflight_ops.
fail_inflight_op(o) ==
    /\ phase = "ops"
    /\ op_is_in_flight(opState[o])
    /\ opState' = [opState EXCEPT ![o] = "FAILED"]
    /\ executorActive' = [executorActive EXCEPT ![o] = FALSE]
    /\ UNCHANGED <<inst, opKind, opInst, tasks, process, substrate>>

ops_failed ==
    /\ phase = "ops"
    /\ \A o \in Operations : ~op_is_in_flight(opState[o])
    /\ phase' = "instances"
    /\ UNCHANGED <<journal, tasks, rcall, verdict, crashes, substrate>>

\* recover, step 2: the runtime call for an instance found transitional.
recover_call(i) ==
    /\ phase = "instances"
    /\ rcall = {}
    /\ is_transitional(inst[i])
    /\ CASE inst[i] = "STOPPING" ->
              \E r \in {"ok", "err"}, s \in SandboxState :
                /\ s \in SandboxAfter("Stop", r, sandbox[i])
                /\ sandbox' = [sandbox EXCEPT ![i] = s]
                /\ rcall' = {[instance |-> i, ok |-> r = "ok"]}
         [] inst[i] = "CHECKPOINTING" ->
              /\ UNCHANGED sandbox
              /\ rcall' = {[instance |-> i, ok |-> TRUE]}
         [] OTHER ->
              /\ remove_orphan(i)
              /\ rcall' = {[instance |-> i, ok |-> TRUE]}
    /\ UNCHANGED <<journal, tasks, phase, verdict, crashes, late, lost>>

\* Mutation: STOPPED is recorded even when the stop failed.
recovered_state_optimistic(s, ok) ==
    CASE s = "STOPPING" -> "STOPPED"
      [] s = "CHECKPOINTING" -> "RUNNING"
      [] s = "DESTROYING" -> "DESTROYED"
      [] OTHER -> "FAILED"

\* The state recovery records for an instance found in state s.
recovered_state(s, ok) ==
    CASE s = "STOPPING" -> IF ok THEN "STOPPED" ELSE "FAILED"
      [] s = "CHECKPOINTING" -> "RUNNING"
      [] s = "DESTROYING" -> "DESTROYED"
      [] OTHER -> "FAILED"

recover_record ==
    /\ phase = "instances"
    /\ \E c \in rcall :
         inst' = [inst EXCEPT ![c.instance] = recovered_state(@, c.ok)]
    /\ rcall' = {}
    /\ UNCHANGED <<opState, opKind, opInst, executorActive, tasks, phase, verdict,
                   crashes, substrate>>

instances_resolved ==
    /\ phase = "instances"
    /\ rcall = {}
    /\ \A i \in Instances : ~is_transitional(inst[i])
    /\ phase' = "sweep"
    /\ UNCHANGED <<journal, tasks, rcall, verdict, crashes, substrate>>

\* recover, step 3: sandboxes of instances that are not known are removed, as
\* far as the substrate lists and removes them.  The node then serves.
sweep_orphans ==
    /\ phase = "sweep"
    /\ \E S \in SUBSET {i \in Instances : inst[i] = "ABSENT" \/ is_terminal(inst[i])} :
         sandbox' = [i \in Instances |-> IF i \in S THEN "absent" ELSE sandbox[i]]
    /\ phase' = "up"
    /\ UNCHANGED <<journal, tasks, rcall, verdict, crashes, late, lost>>

-------------------------------------------------------------------------------
(***************************************************************************)
(* reconcile_vanished_sandboxes, on a runtime that lists its sandboxes.    *)
(* The listing is an await; the rows are read after it, and each write is  *)
(* a transaction of its own that asks neither the state nor the claim.     *)
(* How many passes an instance must be missing from is in Sweeps: here     *)
(* any RUNNING row the listing lacks may be the one that has been.         *)
(***************************************************************************)
list_present ==
    /\ phase = "up"
    /\ \A i \in Instances : verdict[i] # "vanished"
    /\ verdict' = [i \in Instances |-> IF sandbox[i] = "absent" THEN "missing" ELSE "none"]
    /\ UNCHANGED <<journal, tasks, phase, rcall, crashes, substrate>>

judge_missing ==
    /\ \E i \in Instances : verdict[i] = "missing"
    /\ \E V \in SUBSET {i \in Instances : verdict[i] = "missing" /\ inst[i] = "RUNNING"} :
         verdict' = [i \in Instances |-> IF i \in V THEN "vanished" ELSE "none"]
    /\ UNCHANGED <<journal, tasks, phase, rcall, crashes, substrate>>

\* set_instance_state(FAILED); a failed write is only logged.
fail_vanished(i) ==
    /\ verdict[i] = "vanished"
    /\ verdict' = [verdict EXCEPT ![i] = "none"]
    /\ \/ inst' = [inst EXCEPT ![i] = "FAILED"]
       \/ UNCHANGED inst
    /\ UNCHANGED <<opState, opKind, opInst, executorActive, tasks, phase, rcall, crashes,
                   substrate>>

-------------------------------------------------------------------------------
execute(o) ==
    \/ execute_begin(o)
    \/ execute_epoch_error(o)
    \/ execute_runtime(o)
    \/ execute_compensate(o)
    \/ execute_finalize(o)

recover ==
    \/ open
    \/ \E o \in Operations : fail_inflight_op(o)
    \/ ops_failed
    \/ \E i \in Instances : recover_call(i)
    \/ recover_record
    \/ instances_resolved
    \/ sweep_orphans

reconcile_vanished_sandboxes ==
    \/ list_present
    \/ judge_missing
    \/ \E i \in Instances : fail_vanished(i)

\* Everything but a finalizing transaction that fails.
Steps ==
    \/ \E o \in Operations, i \in Instances, k \in Kinds : submit(o, i, k)
    \/ \E o \in Operations : execute(o)
    \/ \E o \in Operations : cancel(o)
    \/ Crash
    \/ recover
    \/ reconcile_vanished_sandboxes
    \/ \E i \in Instances : SandboxDies(i)
    \/ \E i \in Instances : LateBoot(i)

Next == Steps \/ \E o \in Operations : execute_finalize_lost(o)

Spec == Init /\ [][Next]_vars

\* A journal that takes what an executor ends with.  Without it a claim stays
\* until the next start of the node.
SoundSpec == Init /\ [][Steps]_vars

\* Every task the process spawned runs on, its runtime calls return (the client
\* bounds each with HTTP_TIMEOUT), and a dead process is restarted and recovers.
Fairness ==
    /\ \A o \in Operations : WF_vars(execute(o))
    /\ WF_vars(recover)

FairSpec == SoundSpec /\ Fairness

-------------------------------------------------------------------------------
(***************************************************************************)
(* Properties.                                                             *)
(***************************************************************************)
live(o) == pc[o] # "idle"

\* Two executor tasks never work on the same instance, whatever was canceled,
\* lost or restarted: submit_atomically's conflict check asks executor_active,
\* not the operation's state, so a canceled operation still excludes others.
OneExecutor ==
    \A o, p \in Operations :
        live(o) /\ live(p) /\ opInst[o] = opInst[p] => o = p

\* The state execute() was handed at submission is still the instance's state
\* when it finalizes, however long its runtime call took (success_state is
\* computed from a value read before the await), unless the vanished sweep has
\* failed the row meanwhile: no other writer gets past the claim.
RecordedStands ==
    \A o \in Operations : live(o) => inst[opInst[o]] \in {recorded[o], "FAILED"}

\* The journal never says of an instance at rest what the substrate denies: a
\* STOPPED, PAUSED or CREATED instance has no running sandbox, a RUNNING one has
\* one unless it died by itself, and no sandbox exists without a row.  ("the
\* one thing recovery must never do", recover().)
JournalHonest ==
    \A i \in Instances :
        /\ inst[i] \in {"CREATED", "STOPPED", "PAUSED"} => sandbox[i] # "running"
        /\ inst[i] = "RUNNING" => sandbox[i] = "running" \/ i \in lost
        /\ inst[i] = "ABSENT" => sandbox[i] = "absent"

\* On a serving node an instance in a transitional state is held by a claim, so
\* the next verb is refused as a conflict instead of starting from half-way:
\* bootstrap serves only after recover() resolved every such instance.
TransitionalOwned ==
    phase = "up" =>
        \A i \in Instances : is_transitional(inst[i]) => has_inflight_op(i)

\* An instance is in a transitional state only while an executor is at work on
\* it (state_machine.rs, is_transitional: "only be in while an operation is
\* executing"): a cancellation does not strand it.
NotStranded ==
    phase = "up" =>
        \A i \in Instances : is_transitional(inst[i]) =>
            \E o \in Operations : live(o) /\ opInst[o] = i

\* A destroyed instance never comes back, and neither does a failed one once no
\* executor holds it: no late finalize and no recovery revives it.  The vanished
\* sweep may still write FAILED over DESTROYED (the row was RUNNING when it was
\* read), and a failed instance may be destroyed.
DestroyedForGood ==
    [][\A i \in Instances :
         /\ inst[i] = "DESTROYED" => inst'[i] \in {"DESTROYED", "FAILED"}
         /\ inst[i] = "FAILED" /\ ~has_inflight_op(i) =>
              inst'[i] \in {"FAILED", "DESTROYING"}]_vars

\* The engine keeps the promise of Lifecycle: the operations that hold an
\* instance are those whose executor_active is set.
Promise ==
    INSTANCE Lifecycle WITH claim <- [i \in Instances |->
        {o \in Operations : executorActive[o] /\ opInst[o] = i}]

KeepsPromise == Promise!Spec

\* Every operation that was accepted settles, across crashes.
EverySettles ==
    \A o \in Operations : op_is_in_flight(opState[o]) ~> op_is_settled(opState[o])

\* Every claim is released, so an instance never refuses verbs for good, but for
\* one case: the sweep failed the row of an operation that was canceled.  Its
\* finalize then has no edge to move along, rolls back, and the claim stays until
\* the next start (db.rs, finish_operation).
ClaimReleases ==
    \A o \in Operations : executorActive[o] ~>
        \/ ~executorActive[o]
        \/ opState[o] = "CANCELED" /\ ~live(o) /\ inst[opInst[o]] = "FAILED"
===============================================================================
