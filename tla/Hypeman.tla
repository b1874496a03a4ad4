------------------------------- MODULE Hypeman -------------------------------
(***************************************************************************)
(* How the hypeman runtime materialises instances on its substrate         *)
(* (runtime/hypeman: runtime.rs, client.rs, ingress.rs, token_volume.rs).  *)
(*                                                                         *)
(* One boot makes three things of one instance: a volume with its          *)
(* credential, a sandbox, and an ingress with the port the sandbox was     *)
(* told.  Every one is a call that may be refused, or may take effect and  *)
(* never be answered; names are not unique, so a call by name finds a      *)
(* sandbox only while there is exactly one; and the port is chosen before  *)
(* the ingress that claims it can be created.  Several boots run at once,  *)
(* and others use the same ports.                                          *)
(***************************************************************************)
EXTENDS Integers, FiniteSets

CONSTANTS Inst,        \* instances of this node
          MaxPort,     \* the configured range is 1 .. MaxPort
          Attempts,    \* INGRESS_PLAN_ATTEMPTS (4 in the code)
          Foreigners,  \* do others publish on this host?
          MaxBoxes,    \* names for sandboxes, more than can exist at once
          MaxVerbs, MaxFaults

VARIABLES
    phase,    \* the state the journal has for each instance
    op,       \* the operation executing for it
    box,      \* the sandboxes: [SUBSET Ids -> Box]
    vol,      \* the instances whose token volume exists
    ing,      \* the listener of each instance's ingress, 0 without one
    foreign,  \* listeners of others
    held,     \* PortReservations
    verbs, faults

vars == <<phase, op, box, vol, ing, foreign, held, verbs, faults>>
substrate == <<box, vol, ing, foreign>>

Ids == 1 .. MaxBoxes
Ports == 1 .. MaxPort
Box == [inst : Inst, st : {"Initializing", "Running", "Standby", "Stopped"},
        told : Ports]
Pcs == {"idle", "dedup", "discard", "plan", "used", "pick", "clear", "ensure",
        "create", "publish", "await", "undo_box", "undo_vol", "undo_create",
        "adopt", "route", "sandbox", "credential"}
Idle == [pc |-> "idle", used |-> {}, port |-> 0, try |-> 0, id |-> 0,
         raced |-> FALSE, todo |-> {}]

TypeOK ==
    /\ phase \in [Inst -> {"CREATED", "STARTING", "RUNNING", "STOPPED",
                           "PAUSED", "DESTROYING", "FAILED", "DESTROYED"}]
    /\ \A i \in Inst :
          /\ op[i].pc \in Pcs /\ op[i].used \subseteq Ports
          /\ op[i].port \in 0 .. MaxPort /\ op[i].try \in 0 .. Attempts - 1
          /\ op[i].id \in 0 .. MaxBoxes /\ op[i].todo \subseteq Ids
    /\ DOMAIN box \subseteq Ids /\ \A b \in DOMAIN box : box[b] \in Box
    /\ vol \subseteq Inst
    /\ ing \in [Inst -> 0 .. MaxPort]
    /\ foreign \subseteq Ports /\ held \subseteq Ports

(* A new node, or one where an instance was left with two sandboxes.       *)
Init ==
    /\ op = [i \in Inst |-> Idle]
    /\ foreign = {} /\ held = {} /\ verbs = 0 /\ faults = 0
    /\ \/ /\ phase = [i \in Inst |-> "CREATED"]
          /\ box = <<>> /\ vol = {} /\ ing = [i \in Inst |-> 0]
       \/ \E i \in Inst, st \in {"Stopped", "Standby"} :
          /\ phase = [j \in Inst |-> IF j = i THEN "STOPPED" ELSE "CREATED"]
          /\ box = [b \in 1 .. 2 |-> [inst |-> i, told |-> 1,
                      st |-> IF b = 1 THEN "Stopped" ELSE st]]
          /\ vol = {i} /\ ing = [j \in Inst |-> IF j = i THEN 1 ELSE 0]

-----------------------------------------------------------------------------
(* The substrate, as the client sees it.                                   *)
Boxes(i) == {b \in DOMAIN box : box[b].inst = i}

(* A name that two sandboxes carry resolves to none: 404.                  *)
Named(i) == IF Cardinality(Boxes(i)) = 1 THEN Boxes(i) ELSE {}

Remove(S) == box' = [b \in DOMAIN box \ S |-> box[b]]
SetBox(b, st) == box' = [box EXCEPT ![b].st = st]
Listeners == ({ing[i] : i \in Inst} \ {0}) \cup foreign

(* A call is answered, or it costs a fault: the request or its answer is   *)
(* lost.                                                                   *)
Answered == UNCHANGED faults
Lost == faults < MaxFaults /\ faults' = faults + 1

(* A volume in use cannot be deleted.                                      *)
delete_volume(i) == Boxes(i) = {} /\ vol' = vol \ {i}

(* The sandbox boots, or its workload never comes up.                      *)
boots(b) ==
    /\ box[b].st = "Initializing"
    /\ \E st \in {"Running", "Stopped"} : SetBox(b, st)
    /\ UNCHANGED <<phase, op, vol, ing, foreign, held, verbs, faults>>

(* Someone else's ingress, there and gone again.                           *)
others(p) ==
    /\ Foreigners
    /\ \/ foreign = {} /\ p \notin Listeners /\ foreign' = {p}
       \/ p \in foreign /\ foreign' = {}
    /\ UNCHANGED <<phase, op, box, vol, ing, held, verbs, faults>>

-----------------------------------------------------------------------------
At(i, pc) == op[i].pc = pc
To(i, pc) == op' = [op EXCEPT ![i].pc = pc]

(* The attempt is over: its reservation is dropped.                        *)
Release(i) == held' = held \ {op[i].port}

Ends(i, st) ==
    /\ op' = [op EXCEPT ![i] = Idle]
    /\ phase' = [phase EXCEPT ![i] = st]

Fails(i) == Ends(i, "FAILED") /\ Release(i)

Submit(i, from, st, pc) ==
    /\ At(i, "idle") /\ verbs < MaxVerbs
    /\ phase[i] \in from
    /\ phase' = [phase EXCEPT ![i] = st]
    /\ op' = [op EXCEPT ![i] = [Idle EXCEPT !.pc = pc]]
    /\ verbs' = verbs + 1
    /\ UNCHANGED <<substrate, held, faults>>

start(i) == Submit(i, {"CREATED", "STOPPED", "PAUSED"}, "STARTING", "dedup")

destroy(i) == Submit(i, {"CREATED", "RUNNING", "STOPPED", "PAUSED", "FAILED"},
                     "DESTROYING", "route")

(* stop and pause, by name, on what runs.                                  *)
Halt(i, st, b_st) ==
    /\ At(i, "idle") /\ phase[i] = "RUNNING" /\ verbs < MaxVerbs
    /\ verbs' = verbs + 1
    /\ \E b \in Named(i) : box[b].st = "Running" /\ SetBox(b, b_st)
    /\ phase' = [phase EXCEPT ![i] = st]
    /\ UNCHANGED <<op, vol, ing, foreign, held, faults>>

stop(i) == Halt(i, "STOPPED", "Stopped")
pause(i) == Halt(i, "PAUSED", "Standby")

-----------------------------------------------------------------------------
survivor_rank(st) ==
    CASE st = "Running" -> 7 [] st = "Initializing" -> 6
      [] st = "Standby" -> 4 [] st = "Stopped" -> 2

(* The most alive of them is kept, and of equals the last.                 *)
dedup_decision(S) ==
    {b \in S : \A c \in S \ {b} :
        \/ survivor_rank(box[b].st) > survivor_rank(box[c].st)
        \/ survivor_rank(box[b].st) = survivor_rank(box[c].st) /\ b > c}

(* start: list by tag; keep one; delete the others by id, each of which    *)
(* may fail with a warning; then adopt, replace or create.                 *)
dedup_instances(i) ==
    LET kept == dedup_decision(Boxes(i))
    IN  /\ At(i, "dedup")
        /\ \/ \E gone \in SUBSET (Boxes(i) \ kept) :
                 /\ IF gone = Boxes(i) \ kept THEN Answered ELSE Lost
                 /\ Remove(gone)
                 /\ op' = [op EXCEPT ![i].todo = kept,
                       ![i].pc = IF kept = {} THEN "plan"
                          ELSE IF \E b \in kept : box[b].st = "Standby"
                          THEN "discard" ELSE "adopt"]
                 /\ UNCHANGED <<phase, held>>
           \/ Lost /\ Fails(i) /\ UNCHANGED box
        /\ UNCHANGED <<vol, ing, foreign, verbs>>

(* A paused sandbox can only be restored: it is deleted, by id.            *)
discard(i) ==
    /\ At(i, "discard")
    /\ \/ Answered /\ Remove(op[i].todo)
          /\ op' = [op EXCEPT ![i].pc = "plan", ![i].todo = {}]
          /\ UNCHANGED <<phase, held>>
       \/ Lost /\ Fails(i) /\ (Remove(op[i].todo) \/ UNCHANGED box)
    /\ UNCHANGED <<vol, ing, foreign, verbs>>

(* start_instance, by name: the substrate starts a stopped one only.       *)
adopt(i) ==
    /\ At(i, "adopt")
    /\ \/ /\ Answered
          /\ \E b \in Named(i) : box[b].st = "Stopped" /\ SetBox(b, "Initializing")
          /\ op' = [op EXCEPT ![i].pc = "await", ![i].todo = {}]
          /\ UNCHANGED <<phase, held>>
       \/ /\ Answered /\ \A b \in Named(i) : box[b].st # "Stopped"
          /\ Fails(i) /\ UNCHANGED box
       \/ /\ Lost /\ Fails(i)
          /\ \/ UNCHANGED box
             \/ \E b \in Named(i) : box[b].st = "Stopped" /\ SetBox(b, "Initializing")
    /\ UNCHANGED <<vol, ing, foreign, verbs>>

-----------------------------------------------------------------------------
(* Mutant: the number is only looked at, not reserved.                     *)
pick_unreserved(i, p) ==
    /\ op' = [op EXCEPT ![i].port = p, ![i].used = {}, ![i].pc = "clear"]
    /\ UNCHANGED held

(* The reservation is held until the attempt ends.                         *)
try_take(i, p) ==
    /\ p \notin held
    /\ held' = held \cup {p}
    /\ op' = [op EXCEPT ![i].port = p, ![i].used = {}, ![i].pc = "clear"]

(* Mutant: every boot plans a port of its own.                             *)
forgets_listener(i) == 0

(* An instance with an ingress keeps its listener.                         *)
sticky(i) == ing[i]

(* planned_port: its own listener, which nobody else may have planned, or  *)
(* a free one.                                                             *)
planned_port(i) ==
    /\ At(i, "plan")
    /\ \/ Answered /\ sticky(i) # 0 /\ try_take(i, sticky(i)) /\ UNCHANGED phase
       \/ Answered /\ sticky(i) \in held /\ Fails(i)
       \/ Answered /\ sticky(i) = 0 /\ To(i, "used") /\ UNCHANGED <<phase, held>>
       \/ Lost /\ Fails(i)
    /\ UNCHANGED <<substrate, verbs>>

(* used_ports is a listing, and it is answered before the pick.            *)
used_ports(i) ==
    /\ At(i, "used")
    /\ \/ /\ Answered
          /\ op' = [op EXCEPT ![i].used = Listeners, ![i].pc = "pick"]
          /\ UNCHANGED <<phase, held>>
       \/ Lost /\ Fails(i)
    /\ UNCHANGED <<substrate, verbs>>

(* The lowest port that neither the listing nor this agent's plans hold.   *)
pick_port(i) ==
    LET free == Ports \ (op[i].used \cup held)
    IN  /\ At(i, "pick")
        /\ IF free = {} THEN Fails(i)
           ELSE /\ try_take(i, CHOOSE p \in free : \A q \in free : p <= q)
                /\ UNCHANGED phase
        /\ UNCHANGED <<substrate, verbs, faults>>

(* token_volume::ensure: delete what is there, then write this one.        *)
remove_stale(i) ==
    /\ At(i, "clear")
    /\ \/ Answered /\ delete_volume(i) /\ To(i, "ensure") /\ UNCHANGED <<phase, held>>
       \/ Answered /\ Boxes(i) # {} /\ i \in vol /\ Fails(i) /\ UNCHANGED vol
       \/ Answered /\ Boxes(i) # {} /\ i \notin vol /\ To(i, "ensure")
          /\ UNCHANGED <<phase, held, vol>>
       \/ Lost /\ Fails(i) /\ (delete_volume(i) \/ UNCHANGED vol)
    /\ UNCHANGED <<box, ing, foreign, verbs>>

ensure(i) ==
    /\ At(i, "ensure")
    /\ \/ Answered /\ vol' = vol \cup {i} /\ To(i, "create") /\ UNCHANGED <<phase, held>>
       \/ Lost /\ Fails(i) /\ (vol' = vol \cup {i} \/ UNCHANGED vol)
    /\ UNCHANGED <<box, ing, foreign, verbs>>

NewBox(i, new) ==
    box' = [b \in DOMAIN box \cup {new} |-> IF b \in DOMAIN box THEN box[b]
        ELSE [inst |-> i, st |-> "Initializing", told |-> op[i].port]]

(* POST /instances: the guest is told the planned port.                    *)
create_instance(i) ==
    /\ At(i, "create")
    /\ LET new == CHOOSE b \in Ids \ DOMAIN box :
                     \A c \in Ids \ DOMAIN box : b <= c
       IN  \/ /\ Answered /\ NewBox(i, new)
              /\ op' = [op EXCEPT ![i].pc = "publish", ![i].id = new]
           \/ /\ Lost /\ (NewBox(i, new) \/ UNCHANGED box)
              /\ To(i, "undo_create")
    /\ UNCHANGED <<phase, held, vol, ing, foreign, verbs>>

(* publish, after a read that finds no object, its own, or one that has    *)
(* drifted; the substrate arbitrates a listener that is taken.             *)
publish(i) ==
    LET p == op[i].port
        taken == p \in {ing[j] : j \in Inst \ {i}} \cup foreign
    IN  /\ At(i, "publish")
        /\ \/ /\ Answered /\ ~taken
              /\ ing' = [ing EXCEPT ![i] = p]
              /\ To(i, "await")
           \/ /\ Answered /\ taken
              /\ op' = [op EXCEPT ![i].pc = "undo_box", ![i].raced = TRUE]
              /\ UNCHANGED ing
           \/ /\ Lost /\ To(i, "undo_box")
              /\ ing' \in {ing, IF taken THEN ing ELSE [ing EXCEPT ![i] = p]}
        /\ UNCHANGED <<phase, held, box, vol, foreign, verbs>>

(* Mutant: accepted is as good as running.                                 *)
accepted_is_running(st) == IF st = "Stopped" THEN "Refuse" ELSE "Complete"

running_decision(st) ==
    CASE st = "Running" -> "Complete"
      [] st = "Initializing" -> "Wait"
      [] OTHER -> "Refuse"

(* await_running, by name.  An adopted sandbox that does not come up is    *)
(* left alone; one of this attempt is rolled back.                         *)
await_running(i) ==
    LET gives_up == IF op[i].id = 0 THEN Fails(i)
                    ELSE To(i, "undo_box") /\ UNCHANGED <<phase, held>>
    IN  /\ At(i, "await")
        /\ \/ /\ Answered
              /\ \E b \in Named(i) : running_decision(box[b].st) = "Complete"
              /\ Ends(i, "RUNNING") /\ Release(i)
           \/ /\ Answered
              /\ \A b \in Named(i) : running_decision(box[b].st) = "Refuse"
              /\ gives_up
           \/ Lost /\ gives_up
        /\ UNCHANGED <<substrate, verbs>>

(* The rollback: the sandbox by id, then the volume; a failure of either   *)
(* is a warning, and left to the sweeps.                                   *)
undo_box(i) ==
    /\ At(i, "undo_box")
    /\ \/ Answered /\ Remove({op[i].id})
       \/ Lost /\ UNCHANGED box
    /\ To(i, "undo_vol")
    /\ UNCHANGED <<phase, held, vol, ing, foreign, verbs>>

counted(i) == op[i].try + 1

replans(n) == n < Attempts

(* After the rollback a lost port is planned again, a few times.           *)
undo_vol(i) ==
    /\ At(i, "undo_vol")
    /\ \/ Answered /\ delete_volume(i)
       \/ Answered /\ Boxes(i) # {} /\ UNCHANGED vol
       \/ Lost /\ UNCHANGED vol
    /\ IF op[i].raced /\ replans(counted(i))
       THEN /\ op' = [op EXCEPT ![i] = [Idle EXCEPT !.pc = "plan",
                                                    !.try = counted(i)]]
            /\ Release(i) /\ UNCHANGED phase
       ELSE Fails(i)
    /\ UNCHANGED <<box, ing, foreign, verbs>>

(* A create that was refused or not answered: the credential goes again.   *)
undo_create(i) ==
    /\ At(i, "undo_create")
    /\ \/ Answered /\ delete_volume(i)
       \/ Answered /\ Boxes(i) # {} /\ UNCHANGED vol
       \/ Lost /\ UNCHANGED vol
    /\ Fails(i)
    /\ UNCHANGED <<box, ing, foreign, verbs>>

-----------------------------------------------------------------------------
(* destroy: the route, the sandbox by name, the credential; each of them   *)
(* may be gone already, and a failure of one ends it.                      *)
delete_ingress(i) ==
    /\ At(i, "route")
    /\ \/ Answered /\ ing' = [ing EXCEPT ![i] = 0] /\ To(i, "sandbox") /\ UNCHANGED <<phase, held>>
       \/ Lost /\ Fails(i) /\ ing' \in {ing, [ing EXCEPT ![i] = 0]}
    /\ UNCHANGED <<box, vol, foreign, verbs>>

delete_instance(i) ==
    /\ At(i, "sandbox")
    /\ \/ Answered /\ Remove(Named(i)) /\ To(i, "credential") /\ UNCHANGED <<phase, held>>
       \/ Lost /\ Fails(i) /\ (Remove(Named(i)) \/ UNCHANGED box)
    /\ UNCHANGED <<vol, ing, foreign, verbs>>

(* Mutant: a credential that cannot be removed does not fail the destroy.  *)
credential_warned(i) ==
    /\ At(i, "credential")
    /\ \/ Answered /\ delete_volume(i) /\ Ends(i, "DESTROYED") /\ UNCHANGED held
       \/ Answered /\ Boxes(i) # {} /\ UNCHANGED vol /\ Ends(i, "DESTROYED") /\ UNCHANGED held
       \/ Lost /\ Ends(i, "DESTROYED") /\ UNCHANGED <<vol, held>>
    /\ UNCHANGED <<box, ing, foreign, verbs>>

remove_credential(i) ==
    /\ At(i, "credential")
    /\ \/ Answered /\ delete_volume(i) /\ Ends(i, "DESTROYED") /\ UNCHANGED held
       \/ Answered /\ Boxes(i) # {} /\ i \in vol /\ Fails(i) /\ UNCHANGED vol
       \/ Answered /\ Boxes(i) # {} /\ i \notin vol /\ Ends(i, "DESTROYED")
          /\ UNCHANGED <<vol, held>>
       \/ Lost /\ Fails(i) /\ (delete_volume(i) \/ UNCHANGED vol)
    /\ UNCHANGED <<box, ing, foreign, verbs>>

(* The sweeps, on instances the journal has written off: sandboxes by id,  *)
(* and then credentials (module Sweeps has them in full).                  *)
sweep(i) ==
    /\ phase[i] \in {"FAILED", "DESTROYED"}
    /\ \/ Boxes(i) # {} /\ Remove(Boxes(i)) /\ UNCHANGED vol
       \/ Boxes(i) = {} /\ i \in vol /\ vol' = vol \ {i} /\ UNCHANGED box
    /\ UNCHANGED <<phase, op, ing, foreign, held, verbs, faults>>

-----------------------------------------------------------------------------
Execute(i) ==
    \/ dedup_instances(i) \/ discard(i) \/ adopt(i)
    \/ planned_port(i) \/ used_ports(i) \/ pick_port(i)
    \/ remove_stale(i) \/ ensure(i) \/ create_instance(i) \/ publish(i)
    \/ await_running(i) \/ undo_box(i) \/ undo_vol(i) \/ undo_create(i)
    \/ delete_ingress(i) \/ delete_instance(i) \/ remove_credential(i)

Next ==
    \/ \E i \in Inst : start(i) \/ destroy(i) \/ stop(i) \/ pause(i)
    \/ \E i \in Inst : Execute(i) \/ sweep(i)
    \/ \E b \in DOMAIN box : boots(b)
    \/ \E p \in Ports : others(p)

Spec == Init /\ [][Next]_vars

(* Executors, sweeps and the substrate's boots run on.  What is owed is an *)
(* end to every operation, and the removal of what an instance that failed *)
(* or was destroyed has left on the substrate.                             *)
Progress == (\E i \in Inst : Execute(i) \/ sweep(i)) \/ \E b \in DOMAIN box : boots(b)
Owed == \E i \in Inst :
           \/ op[i].pc # "idle"
           \/ phase[i] \in {"FAILED", "DESTROYED"} /\ (Boxes(i) # {} \/ i \in vol)

-----------------------------------------------------------------------------
(* A boot that reports RUNNING has one sandbox, running, told the port its *)
(* ingress publishes, with its credential in place; whatever was left over *)
(* by earlier attempts, lost answers and lost races (create_fresh, start,  *)
(* dedup_instances).                                                       *)
RunningIsReal ==
    \A i \in Inst :
       phase[i] = "STARTING" /\ phase'[i] = "RUNNING" =>
          /\ i \in vol
          /\ \E b \in DOMAIN box :
                /\ Boxes(i) = {b} /\ box[b].st = "Running"
                /\ box[b].told = ing[i]

(* The address of an instance stays what it is until it is destroyed,      *)
(* through cold boots, failed boots and lost races (planned_port).         *)
AddressSticky ==
    \A i \in Inst : ing[i] # 0 /\ ing'[i] # ing[i]
       => phase[i] = "DESTROYING" /\ ing'[i] = 0

(* A destroy that reports success has removed the route and the credential *)
(* (destroy, token_volume::remove).                                        *)
DestroyedIsClean ==
    \A i \in Inst : phase[i] = "DESTROYED" => ing[i] = 0 /\ i \notin vol

(* A boot that fails because a port was taken leaves nothing behind that   *)
(* its next attempt or its neighbours trip over: a reservation belongs to  *)
(* an attempt in progress (PortReservation's drop).                        *)
ReservationsHeld == held = {op[i].port : i \in Inst} \ {0}
=============================================================================
