------------------------------ MODULE Deadlines ------------------------------
(***************************************************************************)
(* The deadlines of one instance: its TTL lease, its wake alarm and the    *)
(* idle declaration of its workload (reconcile.rs, the claims of db.rs).   *)
(*                                                                         *)
(* The reconciler reads the row once, at the top of a tick, and acts on    *)
(* that copy later: on the alarm, on the lease, and, after a guest has     *)
(* answered a probe, on the declaration.  Clients submit verbs, set the    *)
(* alarm and use the session meanwhile, executors finish, and the node may *)
(* crash.  The engine is reduced to what a deadline sees of it: the state  *)
(* of the instance, the one executor that may be active, and the keys the  *)
(* journal has.  Time 0 stands for NULL, as it does in the guest.          *)
(***************************************************************************)
EXTENDS StateMachine, Naturals

CONSTANTS
    Ttl,             \* spec.ttl_seconds; 0 is no TTL
    TtlAction,       \* spec.ttl_action
    IdleAction,      \* spec.idle_action, or "none" where it is absent
    MemorySnapshot,  \* the runtime's memory_snapshot capability
    CallsArePrompt,  \* whether time stands still during a client's call
    MaxTime,         \* bound on the clock
    MaxVerbs,        \* bound on the verbs clients submit
    MaxCrashes       \* bound on crashes

Actions == {"UNSPECIFIED", "PAUSE", "STOP", "DESTROY"}

ASSUME SpecAssumption ==
    Ttl \in Nat /\ TtlAction \in Actions /\ IdleAction \in Actions \cup {"none"}
ASSUME CapabilityAssumption == MemorySnapshot \in BOOLEAN /\ CallsArePrompt \in BOOLEAN
ASSUME DeadlineBounds == MaxTime \in Nat /\ MaxVerbs \in Nat /\ MaxCrashes \in Nat

VARIABLES
    now,      \* now_ms(): it never goes back
    row,      \* the columns of the instance row; began is history: when this run began
    task,     \* the operation whose executor is active
    keys,     \* the idempotency keys of the node's own submissions
    tick,     \* where the reconciler is, the row it read, the guest's answer
    call,     \* the client's call in progress: note_activity or set_wake
    guest,    \* the guest agent: what its Health would answer
    verbs,    \* how many verbs clients have submitted
    crashes,  \* how many crashes there were
    ready,    \* the readiness column
    used      \* history: when the lease was last renewed

vars == <<now, row, task, keys, tick, call, guest, verbs, crashes, ready, used>>

Time == Nat
Row == [state : InstanceState, ttl : Time, wake : Time, epoch : Time, began : Time]
Guest == [up : BOOLEAN, idle : Time, activity : Time]
Health == [idle : Time, activity : Time, ready : BOOLEAN]
Tick == [at : {"none", "wake", "ttl", "probe", "ready", "idle"}, row : Row, health : Health]
Key == {"ttl", "wake", "idle"} \X Time

Verbs == {"Start", "Stop", "Pause", "Resume", "CreateSnapshot", "Destroy"}
NoTask == [kind |-> "none", lands |-> "CREATED"]
NoCall == [rpc |-> "none", at |-> 0]
NewRow == [state |-> "CREATED", ttl |-> 0, wake |-> 0, epoch |-> 0, began |-> 0]
NoGuest == [up |-> FALSE, idle |-> 0, activity |-> 0]
NoHealth == [idle |-> 0, activity |-> 0, ready |-> FALSE]
NoTick == [at |-> "none", row |-> NewRow, health |-> NoHealth]

TypeOK ==
    /\ now \in Time
    /\ row \in Row
    /\ task \in [kind : Verbs \cup {"none"}, lands : InstanceState]
    /\ keys \in SUBSET Key
    /\ tick \in Tick
    /\ call \in [rpc : {"none", "activity", "exec", "set_wake"}, at : Time]
    /\ guest \in Guest
    /\ verbs \in Nat /\ crashes \in Nat /\ ready \in BOOLEAN /\ used \in Time

Init ==
    /\ now = 1
    /\ row = NewRow
    /\ task = NoTask
    /\ keys = {}
    /\ tick = NoTick
    /\ call = NoCall
    /\ guest = NoGuest
    /\ verbs = 0 /\ crashes = 0 /\ ready = FALSE /\ used = 0

-------------------------------------------------------------------------------
(***************************************************************************)
(* The journal: claims, submissions, finalization.                         *)
(***************************************************************************)
NoClaim == [column |-> "none", expected |-> 0]
TtlExpiry(at) == [column |-> "ttl", expected |-> at]
Wake(at) == [column |-> "wake", expected |-> at]

\* Mutation: the deadline is taken whatever it holds.
claimable_any(claim, r) == TRUE

\* take_deadline: only the deadline that was observed, and only once it is due.
claimable(claim, r) ==
    CASE claim.column = "ttl" -> r.ttl = claim.expected /\ r.ttl <= now
      [] claim.column = "wake" -> r.wake = claim.expected /\ r.wake <= now
      [] OTHER -> TRUE

cleared(claim, r) ==
    CASE claim.column = "ttl" -> [r EXCEPT !.ttl = 0]
      [] claim.column = "wake" -> [r EXCEPT !.wake = 0]
      [] OTHER -> r

\* submit_atomically, past the replay: no executor, a legal transition, and the
\* claim, in one transaction that journals the operation.
journals(kind, claim) ==
    /\ task = NoTask
    /\ plan_transition(kind, row.state) # "REFUSED"
    /\ claimable(claim, row)

journaled(kind, claim) ==
    LET recorded == plan_transition(kind, row.state)
    IN  /\ row' = [cleared(claim, row) EXCEPT !.state = recorded]
        /\ task' = [kind |-> kind,
                    lands |-> IF recorded = transitional_state(kind)
                              THEN final_state(kind) ELSE recorded]

\* submit_claiming of the node's own: a key the journal has is replayed, and
\* whatever does not journal leaves the deadline as it found it.
submit_claiming(kind, key, claim) ==
    IF key \notin keys /\ journals(kind, claim)
    THEN journaled(kind, claim) /\ keys' = keys \cup {key}
    ELSE UNCHANGED <<row, task, keys>>

ttl_deadline_ms == now + Ttl

\* Mutation: a resume does not arm the lease.
settled_lease_booted(kind, state) ==
    IF state = "RUNNING" /\ Ttl > 0 /\ kind # "Resume" THEN ttl_deadline_ms ELSE 0

\* execute, the lease it finalizes with: armed on the way into RUNNING, cleared
\* everywhere else.
settled_lease(kind, state) ==
    IF state = "RUNNING" /\ Ttl > 0 THEN ttl_deadline_ms ELSE 0

\* What the verb did to the guest: a start boots a fresh one, as does a resume
\* that cannot use the memory; a resume from memory brings back the old one.
guest_after(kind, state) ==
    LET booted == [up |-> TRUE, idle |-> 0, activity |-> now]
    IN  IF state # "RUNNING" THEN {[guest EXCEPT !.up = FALSE]}
        ELSE IF kind = "Start" THEN {booted}
        ELSE IF kind = "Resume" THEN {booted, [guest EXCEPT !.up = TRUE]}
        ELSE {guest}

\* finish_operation, whatever the outcome: state, lease and readiness.
settle(ok) ==
    LET kind == task.kind
        state == IF ok \/ ~touches_instance_state(kind) THEN task.lands ELSE "FAILED"
    IN  /\ task # NoTask
        /\ row' = [row EXCEPT !.state = state,
                              !.ttl = settled_lease(kind, state),
                              !.began = IF kind \in {"Start", "Resume"} /\ state = "RUNNING"
                                        THEN now ELSE @]
        /\ ready' = (ready /\ state = "RUNNING")
        /\ guest' \in guest_after(kind, state)
        /\ task' = NoTask
        /\ used' = IF state = "RUNNING" THEN now ELSE used
        /\ UNCHANGED <<now, keys, tick, call, verbs, crashes>>

-------------------------------------------------------------------------------
(***************************************************************************)
(* The reconciler: one tick, on the row it read.                           *)
(***************************************************************************)
goes_to(step) == tick' = [tick EXCEPT !.at = step]
tick_ends == tick' = NoTick

tick_read ==
    /\ tick = NoTick
    /\ tick' = [NoTick EXCEPT !.at = "wake", !.row = row]
    /\ UNCHANGED <<now, row, task, keys, call, guest, verbs, crashes, ready, used>>

\* Mutation: one key for all the alarms of the instance.
wake_key_same(wake_at) == <<"wake", 0>>

wake_key(wake_at) == <<"wake", wake_at>>

\* claim_wake: the alarm is taken on its own, no operation with it.
claim_wake(wake_at) ==
    /\ row' = IF claimable(Wake(wake_at), row) THEN cleared(Wake(wake_at), row) ELSE row
    /\ UNCHANGED <<task, keys>>

fire_due_wake ==
    LET seen == tick.row
        due == seen.wake # 0 /\ now >= seen.wake
    IN  /\ tick.at = "wake"
        /\ \/ /\ due /\ seen.state = "PAUSED"
              /\ submit_claiming("Resume", wake_key(seen.wake), Wake(seen.wake))
           \/ /\ due /\ seen.state = "STOPPED"
              /\ submit_claiming("Start", wake_key(seen.wake), Wake(seen.wake))
           \/ /\ due
              /\ seen.state = "RUNNING" \/ is_terminal(seen.state)
              /\ claim_wake(seen.wake)
           \/ /\ due => is_transitional(seen.state) \/ seen.state = "CREATED"
              /\ UNCHANGED <<row, task, keys>>
        /\ goes_to("ttl")
        /\ UNCHANGED <<now, call, guest, verbs, crashes, ready, used>>

\* resolve_ttl_action, and the verb it stands for.
resolve_ttl_action(action) ==
    CASE action = "DESTROY" -> "Destroy"
      [] action = "STOP" -> "Stop"
      [] OTHER -> IF MemorySnapshot THEN "Pause" ELSE "Stop"

\* Mutation: one key for all the leases of the instance.
ttl_key_same(deadline) == <<"ttl", 0>>

ttl_key(deadline) == <<"ttl", deadline>>

\* Rows that were RUNNING when they were read have their lease enforced and,
\* then, the guest asked; the others have had their turn.
enforce_ttl ==
    LET seen == tick.row
    IN  /\ tick.at = "ttl"
        /\ IF seen.state = "RUNNING" /\ seen.ttl # 0 /\ now >= seen.ttl
           THEN submit_claiming(resolve_ttl_action(TtlAction), ttl_key(seen.ttl),
                                TtlExpiry(seen.ttl))
           ELSE UNCHANGED <<row, task, keys>>
        /\ IF seen.state = "RUNNING" THEN goes_to("probe") ELSE tick_ends
        /\ UNCHANGED <<now, call, guest, verbs, crashes, ready, used>>

\* probe_readiness, up to the guest's answer, which may not come.
probe_answered(verdict) ==
    /\ tick.at = "probe"
    /\ guest.up
    /\ tick' = [tick EXCEPT !.at = "ready",
                            !.health = [idle |-> guest.idle, activity |-> guest.activity,
                                        ready |-> verdict]]
    /\ UNCHANGED <<now, row, task, keys, call, guest, verbs, crashes, ready, used>>

\* No answer, no verdict.  should_probe, too, leaves a ready instance without an
\* idle action alone on most ticks.
probe_ends ==
    /\ tick.at = "probe"
    /\ tick_ends
    /\ UNCHANGED <<now, row, task, keys, call, guest, verbs, crashes, ready, used>>

set_instance_ready ==
    /\ tick.at = "ready"
    /\ ready' = tick.health.ready
    /\ goes_to("idle")
    /\ UNCHANGED <<now, row, task, keys, call, guest, verbs, crashes, used>>

\* enforce_idle: the declaration must be newer than the run, by the row that was
\* read, and newer than the last activity, by the same answer; no claim.
enforce_idle ==
    LET declared == tick.health.idle
    IN  /\ tick.at = "idle"
        /\ IF /\ IdleAction # "none"
              /\ declared # 0
              /\ declared > tick.row.epoch
              /\ declared > tick.health.activity
           THEN submit_claiming(resolve_ttl_action(IdleAction), <<"idle", declared>>, NoClaim)
           ELSE UNCHANGED <<row, task, keys>>
        /\ tick_ends
        /\ UNCHANGED <<now, call, guest, verbs, crashes, ready, used>>

-------------------------------------------------------------------------------
(***************************************************************************)
(* Clients, the workload, the clock, and the crash.                        *)
(***************************************************************************)
\* A client's verb, under a key of its own.
submit(kind) ==
    /\ verbs < MaxVerbs
    /\ journals(kind, NoClaim)
    /\ journaled(kind, NoClaim)
    /\ verbs' = verbs + 1
    /\ UNCHANGED <<now, keys, tick, call, guest, crashes, ready, used>>

\* A passthrough call: the lease is renewed, then the guest is reached.
note_activity ==
    /\ call = NoCall
    /\ guest.up
    /\ call' = IF Ttl = 0 THEN [rpc |-> "exec", at |-> 0]
               ELSE [rpc |-> "activity", at |-> ttl_deadline_ms]
    /\ UNCHANGED <<now, row, task, keys, tick, guest, verbs, crashes, ready, used>>

set_ttl_deadline ==
    /\ call.rpc = "activity"
    /\ row' = [row EXCEPT !.ttl = call.at]
    /\ used' = now
    /\ call' = [rpc |-> "exec", at |-> 0]
    /\ UNCHANGED <<now, task, keys, tick, guest, verbs, crashes, ready>>

mark_activity ==
    /\ call.rpc = "exec"
    /\ guest' = IF guest.up THEN [guest EXCEPT !.activity = now] ELSE guest
    /\ call' = NoCall
    /\ UNCHANGED <<now, row, task, keys, tick, verbs, crashes, ready, used>>

\* Mutation: an alarm in the past is accepted.
acceptable_any(at) == TRUE

\* Future, or clear.
acceptable(at) == at = 0 \/ at > now

set_wake(at) ==
    /\ call = NoCall
    /\ row.state # "DESTROYED"
    /\ acceptable(at)
    /\ call' = [rpc |-> "set_wake", at |-> at]
    /\ UNCHANGED <<now, row, task, keys, tick, guest, verbs, crashes, ready, used>>

set_wake_at ==
    /\ call.rpc = "set_wake"
    /\ row' = [row EXCEPT !.wake = call.at]
    /\ call' = NoCall
    /\ UNCHANGED <<now, task, keys, tick, guest, verbs, crashes, ready, used>>

declare_idle ==
    /\ guest.up
    /\ IdleAction # "none"
    /\ guest' = [guest EXCEPT !.idle = now]
    /\ UNCHANGED <<now, row, task, keys, tick, call, verbs, crashes, ready, used>>

time_passes ==
    /\ now < MaxTime
    /\ CallsArePrompt => call.rpc \notin {"activity", "set_wake"}
    /\ now' = now + 1
    /\ UNCHANGED <<row, task, keys, tick, call, guest, verbs, crashes, ready, used>>

\* recover: where each state is taken.
recovered(state) ==
    CASE state = "STOPPING" -> {"STOPPED", "FAILED"}
      [] state = "CHECKPOINTING" -> {"RUNNING"}
      [] state = "DESTROYING" -> {"DESTROYED"}
      [] is_transitional(state) -> {"FAILED"}
      [] OTHER -> {state}

\* The agent dies and comes back; set_instance_state stamps the run epoch.
crash ==
    /\ crashes < MaxCrashes
    /\ \E state \in recovered(row.state) :
          /\ row' = [row EXCEPT !.state = state,
                                !.epoch = IF is_transitional(row.state) /\ state = "RUNNING"
                                          THEN now ELSE @]
          /\ guest' = [guest EXCEPT !.up = @ /\ state = "RUNNING"]
    /\ task' = NoTask
    /\ tick' = NoTick
    /\ call' = NoCall
    /\ crashes' = crashes + 1
    /\ UNCHANGED <<now, keys, verbs, ready, used>>

-------------------------------------------------------------------------------
reconcile ==
    \/ tick_read \/ fire_due_wake \/ enforce_ttl
    \/ \E verdict \in BOOLEAN : probe_answered(verdict)
    \/ probe_ends \/ set_instance_ready \/ enforce_idle

execute == \E ok \in BOOLEAN : settle(ok)

serve == set_ttl_deadline \/ mark_activity \/ set_wake_at

\* Everything but the guest declaring itself idle.
Busy ==
    \/ reconcile \/ execute \/ serve
    \/ \E kind \in Verbs : submit(kind)
    \/ \E at \in 0..MaxTime : set_wake(at)
    \/ note_activity \/ time_passes \/ crash

Next == Busy \/ declare_idle

Spec == Init /\ [][Next]_vars

\* A guest that never declares itself idle: what ends then ends by the lease or
\* the alarm.
BusySpec == Init /\ [][Busy]_vars

FairSpec ==
    /\ BusySpec
    /\ WF_vars(reconcile) /\ WF_vars(execute) /\ WF_vars(serve) /\ SF_vars(time_passes)
-------------------------------------------------------------------------------
(***************************************************************************)
(* Properties.                                                             *)
(***************************************************************************)
\* A RUNNING instance with a TTL has a lease, whatever brought it there: no
\* expiry, renewal, snapshot or crash leaves it to run for ever (execute: "Arm the
\* lease on the way into RUNNING").
RunningIsLeased == row.state = "RUNNING" /\ Ttl > 0 => row.ttl # 0

\* An armed deadline has not been acted on before.  One that had would be answered
\* by a replay on every tick, and never be taken (wake_key, enforce_ttl: the key is
\* derived from the deadline).
FreshKeys ==
    /\ row.wake # 0 => wake_key(row.wake) \notin keys
    /\ row.ttl # 0 => ttl_key(row.ttl) \notin keys

\* The TTL acts on a session only when nothing has renewed its lease for a whole
\* TTL, however old the row the reconciler read (claim_ttl_expiry: "a renewal wins
\* by making the claim match nothing").
LeaseHonoured ==
    [][\A at \in 1..(MaxTime + Ttl) :
          ttl_key(at) \in keys' \ keys => now >= used + Ttl]_vars

\* A lapsed lease does not stay: the session is no longer RUNNING, or somebody has
\* used it (submit_atomically: "armed, and
\* retried on the next tick").
LeaseEnds ==
    \A at \in 1..MaxTime :
        row.state = "RUNNING" /\ row.ttl = at ~> ~(row.state = "RUNNING" /\ row.ttl = at)

\* Once a session has been started, no alarm stays armed past its time for ever
\* (fire_due_wake: "the alarm will be retried on the next tick").
AlarmAnswered ==
    \A at \in 1..MaxTime :
        row.state # "CREATED" /\ row.wake = at ~> row.wake # at

-------------------------------------------------------------------------------
(***************************************************************************)
(* What the comments of the code say, and the code does not do.            *)
(***************************************************************************)
\* An idle declaration acts on the run it was made in (enforce_idle, guard (a):
\* "newer than the run epoch").
IdleOfThisRun ==
    [][\A at \in 1..MaxTime : <<"idle", at>> \in keys' \ keys => at >= tick.row.began]_vars
===============================================================================
