------------------------------ MODULE Lifecycle ------------------------------
(***************************************************************************)
(* What the operation engine promises its clients, with no executor task,  *)
(* no runtime and no crash in sight:                                       *)
(*   - a verb takes an instance that is at rest and that no other verb     *)
(*     holds, and holds it until its work is over;                         *)
(*   - instances and operations move along the edges of their two tables,  *)
(*     and a settled operation keeps its outcome;                          *)
(*   - an instance whose holder was abandoned half-way comes to rest again *)
(*     before the next verb takes it;                                      *)
(*   - an instance whose sandbox vanished may be failed wherever it        *)
(*     stands, held or not.  Its holder then still records over FAILED     *)
(*     what its own work reached, unless it was called off.                *)
(***************************************************************************)
EXTENDS StateMachine

CONSTANTS Instances, Operations

VARIABLES
    inst,     \* the state of each instance
    opState,  \* the state of each operation
    claim     \* the operations that hold each instance

vars == <<inst, opState, claim>>

Init ==
    /\ inst = [i \in Instances |-> "ABSENT"]
    /\ opState = [o \in Operations |-> "NONE"]
    /\ claim = [i \in Instances |-> {}]

\* The instance stays where it is, or moves along an edge of its table.
Moves(i) ==
    \E to \in InstanceState :
        /\ to = inst[i] \/ can_transition(inst[i], to)
        /\ inst' = [inst EXCEPT ![i] = to]

\* A verb takes an instance at rest.
Take(o, i) ==
    /\ opState[o] = "NONE"
    /\ claim[i] = {}
    /\ ~is_transitional(inst[i])
    /\ \/ inst[i] = "ABSENT" /\ inst' = [inst EXCEPT ![i] = "CREATING"]
       \/ inst[i] # "ABSENT" /\ Moves(i)
    /\ opState' = [opState EXCEPT ![o] = "QUEUED"]
    /\ claim' = [claim EXCEPT ![i] = {o}]

\* The operation makes progress, or its caller calls it off; the instance and
\* the claim stay.
Progress(o) ==
    /\ \E to \in {"RUNNING", "CANCELED"} :
         /\ op_is_in_flight(opState[o])
         /\ opState' = [opState EXCEPT ![o] = to]
    /\ UNCHANGED <<inst, claim>>

\* The instance was failed under its holder, whose work ends elsewhere.
Overrules(i) ==
    /\ inst[i] = "FAILED"
    /\ \E to \in InstanceState : inst' = [inst EXCEPT ![i] = to]

\* The work is over: the instance comes to rest and is released.  The outcome
\* of an operation called off stands.
Finish(o, i) ==
    /\ claim[i] = {o}
    /\ \/ /\ op_is_in_flight(opState[o])
          /\ \E to \in {"DONE", "FAILED"} :
               opState' = [opState EXCEPT ![o] = to]
          /\ Moves(i) \/ Overrules(i)
       \/ opState[o] = "CANCELED" /\ UNCHANGED opState /\ Moves(i)
    /\ ~is_transitional(inst'[i])
    /\ claim' = [claim EXCEPT ![i] = {}]

\* The process died: what was called off, or has now failed, lets go of its
\* instance, which stays half-way.
Abandon ==
    /\ \E D \in SUBSET {o \in Operations : opState[o] = "CANCELED"} :
         claim' = [i \in Instances |-> claim[i] \ D]
    /\ UNCHANGED <<inst, opState>>

Fail(o, i) ==
    /\ claim[i] = {o}
    /\ op_is_in_flight(opState[o])
    /\ opState' = [opState EXCEPT ![o] = "FAILED"]
    /\ claim' = [claim EXCEPT ![i] = {}]
    /\ UNCHANGED inst

\* An instance nobody holds is brought to rest.
Resolve(i) ==
    /\ claim[i] = {}
    /\ is_transitional(inst[i])
    /\ Moves(i)
    /\ ~is_transitional(inst'[i])
    /\ UNCHANGED <<opState, claim>>

\* Its sandbox is gone.
Vanish(i) ==
    /\ inst[i] # "ABSENT"
    /\ inst' = [inst EXCEPT ![i] = "FAILED"]
    /\ UNCHANGED <<opState, claim>>

Next ==
    \/ \E o \in Operations, i \in Instances :
         Take(o, i) \/ Finish(o, i) \/ Fail(o, i)
    \/ \E o \in Operations : Progress(o)
    \/ Abandon
    \/ \E i \in Instances : Resolve(i) \/ Vanish(i)

Spec == Init /\ [][Next]_vars
===============================================================================
