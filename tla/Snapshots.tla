------------------------------ MODULE Snapshots ------------------------------
(***************************************************************************)
(* The snapshots of one instance (the snapshot verbs of service.rs and     *)
(* ops.rs, restore.rs, the snapshot table of db.rs, and what the hypeman   *)
(* runtime does for them).                                                 *)
(*                                                                         *)
(* A pause leaves one image inside the sandbox and mints an id for it; an  *)
(* explicit snapshot is an object of the substrate with an id of its own.  *)
(* The journal has a row per id and the instance points at the latest.     *)
(* Which memory a resume brings back depends on all three, and a journal   *)
(* write, a substrate call or the node itself may fail between any two of  *)
(* them.  One verb executes at a time (module Ops); a submission is        *)
(* checked before it is accepted, and others may run in between.           *)
(***************************************************************************)
EXTENDS StateMachine, Integers, FiniteSets

CONSTANTS Names,       \* the names a caller may give, besides none
          Bundles,     \* versions of the runtime bundle
          DiskOnly,    \* may a pause capture the disk alone?
          MaxSnaps, MaxVerbs, MaxCrashes, MaxFaults

Ids == 1 .. MaxSnaps        \* capture i makes image i; its id is i
NoName == "none"
Cold == 0                   \* the memory of a cold boot: nobody's image
None == 0                   \* no snapshot id, no image

VARIABLES
    state,    \* instances.state
    latest,   \* instances.latest_snapshot_id
    rows,     \* table snapshots: [SUBSET Ids -> Row]
    sandbox,  \* the substrate: mode, and the image its pause left
    objects,  \* the substrate's explicit snapshots: [SUBSET Ids -> Object]
    bundle,   \* runtime.version()
    sub,      \* a submission past its checks and not accepted yet
    op,       \* the operation that executes
    n,        \* how many captures there were
    runs,     \* history: the memory this run came from, and what was asked
    verbs, crashes, faults

vars == <<state, latest, rows, sandbox, objects, bundle, sub, op, n, runs,
          verbs, crashes, faults>>
journal == <<latest, rows>>
bounds == <<verbs, crashes, faults>>

Kinds == {"Start", "Stop", "Pause", "Resume", "CreateSnapshot",
          "DeleteSnapshot", "Destroy"}
Row == [minted : BOOLEAN, image : Ids, memory : BOOLEAN, bundle : Bundles,
        name : Names \cup {NoName}]
Request == [kind : Kinds \cup {"none"}, id : Ids \cup {None}, flag : BOOLEAN,
            name : Names \cup {NoName}]
NoRequest == [kind |-> "none", id |-> None, flag |-> FALSE, name |-> NoName]
NoOp == [req |-> NoRequest, pc |-> "none", lands |-> "CREATED", ok |-> FALSE,
         id |-> None, todo |-> {}]

TypeOK ==
    /\ state \in InstanceState
    /\ latest \in Ids \cup {None}
    /\ DOMAIN rows \subseteq Ids /\ \A i \in DOMAIN rows : rows[i] \in Row
    /\ DOMAIN objects \subseteq Ids
    /\ \A i \in DOMAIN objects :
          objects[i] \in [image : Ids, name : Names \cup {NoName}]
    /\ sandbox \in [mode : {"none", "running", "standby", "stopped"},
                    image : Ids \cup {None}]
    /\ bundle \in Bundles
    /\ sub \in Request
    /\ op.req \in Request /\ op.lands \in InstanceState
    /\ op.id \in Ids \cup {None} /\ op.todo \subseteq Ids
    /\ n \in 0 .. MaxSnaps
    /\ runs.memory \in Ids \cup {Cold}

Init ==
    /\ state = "RUNNING"
    /\ latest = None
    /\ rows = <<>>
    /\ sandbox = [mode |-> "running", image |-> None]
    /\ objects = <<>>
    /\ bundle \in Bundles
    /\ sub = NoRequest
    /\ op = NoOp
    /\ n = 0
    /\ runs = [memory |-> Cold, wanted |-> None, strict |-> FALSE,
               clean |-> TRUE]
    /\ verbs = 0 /\ crashes = 0 /\ faults = 0

Put(f, i, v) == [j \in DOMAIN f \cup {i} |-> IF j = i THEN v ELSE f[j]]
Drop(f, i) == [j \in DOMAIN f \ {i} |-> f[j]]

-----------------------------------------------------------------------------
(* Mutant: the fallback is a cold boot for everyone.                       *)
decide_ignores_strict(i, require_memory) ==
    IF i \in DOMAIN rows /\ rows[i].memory /\ rows[i].bundle = bundle
    THEN "FromMemory" ELSE "ColdBoot"

(* The restore decision.  Template, CPU class and instance are this        *)
(* instance's own, so what can differ is the kind of capture and the       *)
(* bundle; module Portable has the whole table.                           *)
decide(i, require_memory) ==
    IF i \in DOMAIN rows /\ rows[i].memory /\ rows[i].bundle = bundle
    THEN "FromMemory"
    ELSE IF require_memory THEN "Refuse" ELSE "ColdBoot"

resolve_restore(id, require_memory) ==
    decide(IF id = None THEN latest ELSE id, require_memory)

snapshot_named(name) == \E i \in DOMAIN rows : rows[i].name = name

(* Mutant: the name is left to the substrate to refuse.                    *)
preflight_no_name(r) ==
    /\ r.kind = "Resume" /\ r.flag => resolve_restore(r.id, TRUE) # "Refuse"
    /\ r.kind \in {"Resume", "DeleteSnapshot"} /\ r.id # None => r.id \in DOMAIN rows
    /\ r.kind = "DeleteSnapshot" => r.id # None

(* What a handler and submit check before the transaction.                 *)
preflight(r) ==
    /\ r.kind = "Resume" /\ r.flag => resolve_restore(r.id, TRUE) # "Refuse"
    /\ r.kind \in {"Resume", "DeleteSnapshot"} /\ r.id # None => r.id \in DOMAIN rows
    /\ r.kind = "DeleteSnapshot" => r.id # None
    /\ r.kind = "CreateSnapshot" /\ r.name # NoName => ~snapshot_named(r.name)

(* flag: keep_snapshots of a destroy, require_memory of the others.        *)
Requests ==
    {r \in Request :
       /\ r.kind # "none"
       /\ r.id # None => r.kind \in {"Resume", "DeleteSnapshot"}
       /\ r.flag => r.kind \in {"Pause", "Resume", "Destroy"}
       /\ r.name # NoName => r.kind = "CreateSnapshot"}

submit(r) ==
    /\ sub = NoRequest
    /\ verbs < MaxVerbs
    /\ preflight(r)
    /\ sub' = r
    /\ verbs' = verbs + 1
    /\ UNCHANGED <<state, journal, sandbox, objects, bundle, op, n, runs,
                   crashes, faults>>

(* Where a verb that succeeds leaves the instance: one that moves nothing  *)
(* leaves it where it was found.                                           *)
success_state(kind, recorded) ==
    IF recorded = transitional_state(kind) THEN final_state(kind) ELSE recorded

(* The transaction: refused while another operation is in flight, or by    *)
(* the transition table.                                                   *)
submit_atomically ==
    LET recorded == plan_transition(sub.kind, state)
    IN  /\ sub # NoRequest
        /\ sub' = NoRequest
        /\ IF op = NoOp /\ recorded # "REFUSED"
           THEN /\ state' = recorded
                /\ op' = [NoOp EXCEPT !.req = sub, !.pc = "run",
                                       !.lands = success_state(sub.kind, recorded)]
           ELSE UNCHANGED <<state, op>>
        /\ UNCHANGED <<journal, sandbox, objects, bundle, n, runs, bounds>>

-----------------------------------------------------------------------------
Running(kind, pc) == op.req.kind = kind /\ op.pc = pc
Done == op' = [op EXCEPT !.pc = "final", !.ok = TRUE]
Failed == op' = [op EXCEPT !.pc = "final", !.ok = FALSE]
Goto(pc, i) == op' = [op EXCEPT !.pc = pc, !.id = i]
Fault == faults < MaxFaults /\ faults' = faults + 1
NoFault == UNCHANGED faults

(* A substrate call that is refused does nothing: the verb fails.  One     *)
(* that took effect and could not be confirmed is Unconfirmed.             *)
SubstrateFails ==
    /\ op.pc = "run"
    /\ Failed
    /\ UNCHANGED <<state, journal, sandbox, objects, bundle, sub, n, runs,
                   bounds>>

Start ==
    /\ Running("Start", "run")
    /\ sandbox' = [mode |-> "running", image |-> None]
    /\ runs' = [memory |-> Cold, wanted |-> None, strict |-> FALSE,
                clean |-> TRUE]
    /\ Done
    /\ UNCHANGED <<state, journal, objects, bundle, sub, n, bounds>>

Stop ==
    /\ Running("Stop", "run")
    /\ sandbox' = [mode |-> "stopped", image |-> None]
    /\ Done
    /\ UNCHANGED <<state, journal, objects, bundle, sub, n, runs, bounds>>

(* await_running, or the read after the standby, fails although the call   *)
(* before it did its work.                                                 *)
Unconfirmed == Fault /\ Failed

(* runtime.pause: the image is inside the sandbox, the id is ours.  Asked  *)
(* for memory and given disk only, the pause fails.                        *)
Pause ==
    /\ Running("Pause", "run")
    /\ n < MaxSnaps
    /\ n' = n + 1
    /\ sandbox' = [mode |-> "standby", image |-> n']
    /\ \/ /\ NoFault
          /\ \E memory \in {TRUE} \cup (IF DiskOnly THEN {FALSE} ELSE {}) :
                IF op.req.flag /\ ~memory THEN Failed
                ELSE Goto(IF memory THEN "record" ELSE "record_disk", n')
       \/ Unconfirmed
    /\ UNCHANGED <<state, journal, objects, bundle, sub, runs, verbs, crashes>>

RowOf(memory, image) ==
    [minted |-> op.req.kind = "Pause", image |-> image, memory |-> memory,
     bundle |-> bundle, name |-> op.req.name]

(* insert_snapshot: the row and the pointer, or neither.                   *)
insert_snapshot(i, row) == rows' = Put(rows, i, row) /\ latest' = i

(* A pause that cannot journal its capture still succeeds.                 *)
record_pause ==
    /\ Running("Pause", "record") \/ Running("Pause", "record_disk")
    /\ \/ insert_snapshot(op.id, RowOf(op.pc = "record", op.id)) /\ NoFault
       \/ Fault /\ UNCHANGED journal
    /\ Done
    /\ UNCHANGED <<state, sandbox, objects, bundle, sub, n, runs, verbs,
                   crashes>>

-----------------------------------------------------------------------------
(* runtime.resume: in place, from the image the sandbox has; or from an    *)
(* explicit snapshot the substrate still has.                              *)
resume_in_place == sandbox.mode = "standby"
resume_by_id(i) == i \in DOMAIN objects

(* Mutant: whatever is asked for is restored in place.                     *)
restore_target_none(i) == None

(* The latest by its id is the latest: restored in place.                  *)
restore_target(i) == IF i = latest THEN None ELSE i

(* The image the sandbox has is in the journal, so the pointer is not old. *)
Journaled == \E i \in DOMAIN rows : rows[i].image = sandbox.image

Resume ==
    LET i == op.req.id
        target == restore_target(i)
        cameFrom(image) ==
            [memory |-> image, strict |-> op.req.flag, clean |-> Journaled,
             wanted |-> IF i \in DOMAIN rows THEN rows[i].image ELSE None]
    IN  /\ Running("Resume", "run")
        /\ CASE resolve_restore(i, op.req.flag) = "FromMemory" ->
                  IF target = None
                  THEN /\ resume_in_place
                       /\ runs' = cameFrom(sandbox.image)
                       /\ sandbox' = [mode |-> "running", image |-> None]
                       /\ Done
                  ELSE /\ resume_by_id(target)
                       /\ runs' = cameFrom(objects[target].image)
                       /\ sandbox' = [mode |-> "running", image |-> None]
                       /\ Done
             [] resolve_restore(i, op.req.flag) = "ColdBoot" ->
                  /\ runs' = cameFrom(Cold)
                  /\ sandbox' = [mode |-> "running", image |-> None]
                  /\ Done
             [] OTHER -> Failed /\ UNCHANGED <<sandbox, runs>>
        /\ UNCHANGED <<state, journal, objects, bundle, sub, n, bounds>>

-----------------------------------------------------------------------------
(* runtime.create_snapshot copies what the sandbox has; a name the         *)
(* substrate holds is refused there (SubstrateFails).                      *)
CreateSnapshot ==
    /\ Running("CreateSnapshot", "run")
    /\ n < MaxSnaps
    /\ op.req.name # NoName =>
          \A i \in DOMAIN objects : objects[i].name # op.req.name
    /\ n' = n + 1
    /\ objects' = Put(objects, n',
          [image |-> IF sandbox.mode = "standby" THEN sandbox.image ELSE n',
           name |-> op.req.name])
    /\ \/ Goto("record", n') /\ NoFault
       \/ sandbox.mode = "running" /\ Unconfirmed
    /\ UNCHANGED <<state, journal, sandbox, bundle, sub, runs, verbs, crashes>>

(* Mutant: the capture is done, journaled or not.                          *)
records_or_not ==
    /\ Running("CreateSnapshot", "record")
    /\ \/ /\ insert_snapshot(op.id, RowOf(TRUE, objects[op.id].image))
          /\ NoFault
       \/ NoFault /\ UNCHANGED journal
    /\ Done
    /\ UNCHANGED <<state, sandbox, objects, bundle, sub, n, runs, verbs,
                   crashes>>

(* A capture that cannot be journaled is deleted again and the verb fails. *)
record_snapshot ==
    /\ Running("CreateSnapshot", "record")
    /\ \/ /\ insert_snapshot(op.id, RowOf(TRUE, objects[op.id].image))
          /\ NoFault
          /\ Done
       \/ Fault /\ Goto("compensate", op.id) /\ UNCHANGED journal
    /\ UNCHANGED <<state, sandbox, objects, bundle, sub, n, runs, verbs,
                   crashes>>

compensate ==
    /\ Running("CreateSnapshot", "compensate")
    /\ \/ objects' = Drop(objects, op.id)
       \/ UNCHANGED objects
    /\ Failed
    /\ UNCHANGED <<state, journal, sandbox, bundle, sub, n, runs, bounds>>

-----------------------------------------------------------------------------
(* Mutant: the row goes and the pointer to it stays.                       *)
delete_keeps_pointer(i) == rows' = Drop(rows, i) /\ UNCHANGED latest

delete_snapshot_row(i) ==
    /\ rows' = Drop(rows, i)
    /\ latest' = IF latest = i THEN None ELSE latest

(* The substrate first; a snapshot it does not have is deleted already.    *)
DeleteSnapshot ==
    /\ Running("DeleteSnapshot", "run")
    /\ objects' = Drop(objects, op.req.id)
    /\ Goto("record", op.req.id)
    /\ UNCHANGED <<state, journal, sandbox, bundle, sub, n, runs, bounds>>

journal_delete ==
    /\ Running("DeleteSnapshot", "record")
    /\ \/ delete_snapshot_row(op.id) /\ NoFault /\ Done
       \/ Fault /\ Failed /\ UNCHANGED journal
    /\ UNCHANGED <<state, sandbox, objects, bundle, sub, n, runs, verbs,
                   crashes>>

(* Mutant: keep_snapshots is accepted and discarded.                       *)
forgets_always == TRUE

forgets == ~op.req.flag

Destroy ==
    /\ Running("Destroy", "run")
    /\ sandbox' = [mode |-> "none", image |-> None]
    /\ IF forgets
       THEN op' = [op EXCEPT !.pc = "forget", !.todo = DOMAIN rows]
       ELSE Done
    /\ UNCHANGED <<state, journal, objects, bundle, sub, n, runs, bounds>>

(* forget_snapshots, one after the other: what the substrate will not give *)
(* up keeps its row, and nothing fails the destroy.                        *)
forget_snapshots ==
    /\ Running("Destroy", "forget")
    /\ IF op.todo = {} THEN Done /\ UNCHANGED objects
       ELSE LET i == CHOOSE x \in op.todo : TRUE
                rest == op.todo \ {i}
            IN  \/ /\ objects' = Drop(objects, i)
                   /\ op' = [op EXCEPT !.pc = "forget_row", !.id = i,
                                       !.todo = rest]
                \/ /\ UNCHANGED objects
                   /\ op' = [op EXCEPT !.todo = rest]
    /\ UNCHANGED <<state, journal, sandbox, bundle, sub, n, runs, bounds>>

forget_row ==
    /\ Running("Destroy", "forget_row")
    /\ \/ delete_snapshot_row(op.id) /\ NoFault
       \/ Fault /\ UNCHANGED journal
    /\ Goto("forget", None)
    /\ UNCHANGED <<state, sandbox, objects, bundle, sub, n, runs, verbs,
                   crashes>>

-----------------------------------------------------------------------------
finalize ==
    /\ op.pc = "final"
    /\ state' = IF op.ok \/ ~touches_instance_state(op.req.kind)
                THEN op.lands ELSE "FAILED"
    /\ op' = NoOp
    /\ UNCHANGED <<journal, sandbox, objects, bundle, sub, n, runs, bounds>>

(* The node dies and recovers: transitional states are resolved, what has  *)
(* no live instance is removed, and the new process may be another bundle. *)
recovered ==
    CASE state = "STOPPING" -> {"STOPPED", "FAILED"}
      [] state = "CHECKPOINTING" -> {"RUNNING"}
      [] state = "DESTROYING" -> {"DESTROYED"}
      [] state \in {"CREATING", "STARTING", "PAUSING", "RESUMING"} -> {"FAILED"}
      [] OTHER -> {state}

CrashRecover ==
    /\ crashes < MaxCrashes
    /\ crashes' = crashes + 1
    /\ sub' = NoRequest
    /\ op' = NoOp
    /\ state' \in recovered
    /\ sandbox' = IF is_terminal(state') THEN [mode |-> "none", image |-> None]
                  ELSE IF state = "STOPPING"
                  THEN [mode |-> "stopped", image |-> None] ELSE sandbox
    /\ bundle' \in Bundles
    /\ UNCHANGED <<journal, objects, n, runs, verbs, faults>>

Execute ==
    \/ Start \/ Stop \/ Pause \/ record_pause \/ Resume
    \/ CreateSnapshot \/ record_snapshot \/ compensate
    \/ DeleteSnapshot \/ journal_delete
    \/ Destroy \/ forget_snapshots \/ forget_row
    \/ SubstrateFails \/ finalize

Next == \/ \E r \in Requests : submit(r)
        \/ submit_atomically
        \/ Execute
        \/ CrashRecover

Spec == Init /\ [][Next]_vars

(* The executor works, and owes an end to every operation it has.          *)
Progress == Execute \/ submit_atomically
Owed == op # NoOp

-----------------------------------------------------------------------------
(* A resume that names a snapshot brings back the memory that snapshot     *)
(* captured or none at all, whatever pauses, captures, deletions, crashes  *)
(* and bundles came in between; as long as the image in the sandbox is in  *)
(* the journal (restore_target, resolve_restore, insert_snapshot).         *)
ServesWhatItNames ==
    runs.clean /\ runs.wanted # None /\ runs.memory # Cold
       => runs.memory = runs.wanted

(* A resume with require_memory never comes up cold: it is refused when    *)
(* submitted or fails when it runs, although the row, the pointer or the   *)
(* bundle may change between the two (decide, resolve_restore).            *)
StrictNeverCold == runs.strict => runs.memory # Cold

(* The pointer names a row, across deletions, failed journal writes and    *)
(* crashes (insert_snapshot, delete_snapshot).                             *)
PointerResolves == latest # None => latest \in DOMAIN rows

(* Without a failed journal write no two snapshots of the instance carry   *)
(* one name, though the name is looked up before the submission is         *)
(* accepted and a crash may leave a row without its object.                *)
NamesUnique ==
    faults = 0 => \A i, j \in DOMAIN rows :
       i # j /\ rows[i].name # NoName => rows[i].name # rows[j].name

(* An explicit snapshot leaves the substrate only because its deletion was *)
(* asked for, by id or by a destroy without keep_snapshots, or because     *)
(* nothing ever listed it (Destroy, forget_snapshots, compensate).         *)
MayLeave(i) ==
    \/ op.req.kind = "DeleteSnapshot" /\ op.req.id = i
    \/ op.req.kind = "Destroy" /\ ~op.req.flag
    \/ i \notin DOMAIN rows
KeptUntilAsked == [][\A i \in DOMAIN objects \ DOMAIN objects' : MayLeave(i)]_vars

(* Between operations the journal and the substrate agree on the explicit  *)
(* snapshots, unless a crash, a failed journal write or a capture nobody   *)
(* could confirm came in between (record_snapshot, CreateSnapshot).        *)
JournalMatches ==
    crashes = 0 /\ faults = 0 /\ op = NoOp =>
       DOMAIN objects = {i \in DOMAIN rows : ~rows[i].minted}
=============================================================================
