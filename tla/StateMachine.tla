----------------------------- MODULE StateMachine -----------------------------
(***************************************************************************)
(* The two state machines of the node agent (state_machine.rs) and the     *)
(* verbs that drive the first one (OpKind and plan_transition of ops.rs).  *)
(* Constant operators only: every other module of the node reads the       *)
(* tables from here, as every module of the agent does.                    *)
(***************************************************************************)

(***************************************************************************)
(* Instances.  "ABSENT" stands for "no row in the instances table".        *)
(***************************************************************************)
InstanceState ==
    {"CREATING", "CREATED", "STARTING", "RUNNING", "CHECKPOINTING", "PAUSING",
     "PAUSED", "RESUMING", "STOPPING", "STOPPED", "DESTROYING", "DESTROYED",
     "FAILED"}

TRANSITIONS ==
    {<<"CREATING", "CREATED">>, <<"CREATED", "STARTING">>,
     <<"STARTING", "RUNNING">>, <<"RUNNING", "CHECKPOINTING">>,
     <<"CHECKPOINTING", "RUNNING">>, <<"RUNNING", "PAUSING">>,
     <<"PAUSING", "PAUSED">>, <<"PAUSED", "RESUMING">>,
     <<"RESUMING", "RUNNING">>, <<"RUNNING", "STOPPING">>,
     <<"STOPPING", "STOPPED">>, <<"STOPPED", "STARTING">>}

is_transitional(s) ==
    s \in {"CREATING", "STARTING", "CHECKPOINTING", "PAUSING", "RESUMING",
           "STOPPING", "DESTROYING"}

is_terminal(s) == s \in {"DESTROYED", "FAILED"}

can_transition(from, to) ==
    IF to \in {"DESTROYING", "DESTROYED"} THEN from # "DESTROYED"
    ELSE IF to = "FAILED" THEN is_transitional(from)
    ELSE <<from, to>> \in TRANSITIONS

(***************************************************************************)
(* Operations.  "NONE" stands for "no row in the operations table".        *)
(***************************************************************************)
OperationState ==
    {"QUEUED", "RUNNING", "AWAITING_INPUT", "DONE", "FAILED", "CANCELED"}

OP_TRANSITIONS ==
    {<<"QUEUED", "RUNNING">>, <<"RUNNING", "AWAITING_INPUT">>,
     <<"AWAITING_INPUT", "RUNNING">>}

op_is_in_flight(s) == s \in {"QUEUED", "RUNNING", "AWAITING_INPUT"}

op_is_settled(s) == s \in {"DONE", "FAILED", "CANCELED"}

op_can_transition(from, to) ==
    /\ from \in OperationState
    /\ to \in OperationState
    /\ ~op_is_settled(from)
    /\ op_is_settled(to) \/ <<from, to>> \in OP_TRANSITIONS

(***************************************************************************)
(* The verbs.  A restored capsule travels as a "Fork".                     *)
(***************************************************************************)
OpKind ==
    {"Create", "Start", "Stop", "Pause", "Resume", "CreateSnapshot",
     "DeleteSnapshot", "Destroy", "Fork"}

\* The verbs whose payload carries a create spec: they journal a new row.
carries_spec(kind) == kind \in {"Create", "Fork"}

\* The verbs whose failure says something about the instance.
touches_instance_state(kind) == kind \notin {"CreateSnapshot", "DeleteSnapshot"}

transitional_state(kind) ==
    CASE kind \in {"Create", "Fork"} -> "CREATING"
      [] kind = "Start" -> "STARTING"
      [] kind = "Stop" -> "STOPPING"
      [] kind = "Pause" -> "PAUSING"
      [] kind = "Resume" -> "RESUMING"
      [] kind = "CreateSnapshot" -> "CHECKPOINTING"
      [] kind = "DeleteSnapshot" -> "UNSPECIFIED"
      [] kind = "Destroy" -> "DESTROYING"

final_state(kind) ==
    CASE kind = "Create" -> "CREATED"
      [] kind \in {"Start", "Resume", "CreateSnapshot", "Fork"} -> "RUNNING"
      [] kind = "Stop" -> "STOPPED"
      [] kind = "Pause" -> "PAUSED"
      [] kind = "DeleteSnapshot" -> "UNSPECIFIED"
      [] kind = "Destroy" -> "DESTROYED"

\* The state a submission records for the duration of the operation, given the
\* state it finds, or "REFUSED" where the verb is illegal.
plan_transition(kind, from) ==
    IF kind = "DeleteSnapshot" THEN from
    ELSE IF kind = "CreateSnapshot" /\ from = "PAUSED" THEN "PAUSED"
    ELSE IF can_transition(from, transitional_state(kind))
         THEN transitional_state(kind)
    ELSE "REFUSED"
===============================================================================
