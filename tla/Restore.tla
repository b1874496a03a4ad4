------------------------------- MODULE Restore ------------------------------
(***************************************************************************)
(* What happens around a memory image: the pre-snapshot hook before it is  *)
(* taken, and after it is restored the duties in the order that is         *)
(* normative (reseed, clock, grant carrier, network check, event, then the *)
(* post-restore hook).  The node's half is run_pre_snapshot_hook and       *)
(* restore_duties of ops.rs, the guest's half service.rs, duties.rs and    *)
(* the bounded command of cmd.rs.                                          *)
(*                                                                         *)
(* A CRNG key is a number; an image carries the key and the wall clock it  *)
(* was taken with, so a restored guest has both again.  What an operation  *)
(* tells is a set: the degradations it records, and "restored" for the     *)
(* Restored event of a resume whose duties were answered.                  *)
(***************************************************************************)
EXTENDS Integers, FiniteSets

CONSTANTS
    MaxOps,     \* bound: operations
    MaxFaults   \* bound: failed steps

VARIABLES
    hooks,      \* the spec's hooks: [cmd : BOOLEAN, timeout_ms : 0..1]
    phase,      \* the instance and its fork: "RUNNING", "PAUSED" or "ABSENT"
    guest,      \* [key, clock] of each guest
    image,      \* the snapshot: [key, outcome, alive, degraded]
    op,         \* the operation: [kind, pc, degraded, outcome]
    notes,      \* what the guest's duties could not do
    hook,       \* the running hook: [child, grand, timed_out, exit]
    last,       \* what the latest Resume and the latest Fork told, or NONE
    keys,       \* keys handed out so far
    nops, faults

vars == <<hooks, phase, guest, image, op, notes, hook, last, keys, nops, faults>>

NONE == {"none"}
Inst == {"orig", "fork"}
Note == {"unreached", "hook", "entropy", "duties", "reseed", "clock", "carrier", "net",
         "restored"}
Outcome == {"unasked", "not_run", "ran", "failed", "timed_out"}
Quiet == [child |-> FALSE, grand |-> FALSE, timed_out |-> FALSE, exit |-> 0]
Idle  == [kind |-> "none", pc |-> "idle", degraded |-> {}, outcome |-> "not_run"]
NoImage == [key |-> 0, outcome |-> "not_run", alive |-> FALSE, degraded |-> {}]

Pcs == {"idle", "hook", "hook_wait", "hook_collect", "capture", "resume", "connect", "reseed",
        "step_clock", "carrier", "report", "health", "post"}

TypeOK ==
    /\ hooks \in [cmd : BOOLEAN, timeout_ms : 0..1]
    /\ phase \in [Inst -> {"RUNNING", "PAUSED", "ABSENT"}]
    /\ guest \in [Inst -> [key : 0..keys, clock : {"host", "snapshot"}]]
    /\ image \in [key : 0..keys, outcome : Outcome, alive : BOOLEAN, degraded : SUBSET Note]
    /\ op \in [kind : {"none", "Pause", "Resume"}, pc : Pcs, degraded : SUBSET Note,
              outcome : Outcome]
    /\ notes \subseteq Note
    /\ hook \in [child : BOOLEAN, grand : BOOLEAN, timed_out : BOOLEAN, exit : {-1, 0, 1}]
    /\ \A k \in {"Resume", "Fork"} : last[k] = NONE \/ last[k] \subseteq Note
    /\ keys \in Nat /\ nops \in 0..MaxOps /\ faults \in 0..MaxFaults

Init ==
    /\ hooks \in [cmd : BOOLEAN, timeout_ms : 0..1]
    /\ phase = [i \in Inst |-> IF i = "orig" THEN "RUNNING" ELSE "ABSENT"]
    /\ guest = [i \in Inst |-> [key |-> IF i = "orig" THEN 1 ELSE 0, clock |-> "host"]]
    /\ image = NoImage /\ op = Idle /\ notes = {} /\ hook = Quiet
    /\ last = [k \in {"Resume", "Fork"} |-> NONE]
    /\ keys = 1 /\ nops = 0 /\ faults = 0

Goto(p) == op' = [op EXCEPT !.pc = p]
Record(n, p) == op' = [op EXCEPT !.degraded = @ \cup n, !.pc = p]
Fault == faults < MaxFaults /\ faults' = faults + 1
orig == guest["orig"]

-----------------------------------------------------------------------------
(* Submission.  One operation at a time: the instance is the lock.         *)

Pause ==
    /\ op = Idle /\ phase["orig"] = "RUNNING" /\ nops < MaxOps
    /\ op' = [Idle EXCEPT !.kind = "Pause", !.pc = "hook"] /\ nops' = nops + 1
    /\ UNCHANGED <<hooks, phase, guest, image, notes, hook, last, keys, faults>>

Resume ==
    /\ op = Idle /\ phase["orig"] = "PAUSED" /\ nops < MaxOps
    /\ op' = [Idle EXCEPT !.kind = "Resume", !.pc = "resume"] /\ nops' = nops + 1
    /\ UNCHANGED <<hooks, phase, guest, image, notes, hook, last, keys, faults>>

\* A fork of the image comes up running from it, and its operation ends there.
Fork ==
    /\ op = Idle /\ image /= NoImage /\ phase["fork"] = "ABSENT" /\ nops < MaxOps
    /\ phase' = [phase EXCEPT !["fork"] = "RUNNING"]
    /\ guest' = [guest EXCEPT !["fork"] = [key |-> image.key, clock |-> "snapshot"]]
    /\ last' = [last EXCEPT !["Fork"] = {}] /\ nops' = nops + 1
    /\ UNCHANGED <<hooks, image, op, notes, hook, keys, faults>>

-----------------------------------------------------------------------------
(* The bounded command: cmd.rs, and the hook around it                     *)

\* What the node makes of a hook's ending, which it then stands by.
Ended(outcome, n) ==
    IF op.kind = "Pause"
    THEN op' = [op EXCEPT !.degraded = @ \cup n, !.pc = "capture", !.outcome = outcome]
         /\ UNCHANGED last
    ELSE op' = Idle /\ last' = [last EXCEPT !["Resume"] = op.degraded \cup n]

\* Nothing configured is not a degradation; a guest that cannot be asked is one.  But
\* a row that cannot be read before a pause leaves the hook unasked without a word.
hook_asked ==
    /\ op.pc \in {"hook", "post"}
    /\ \/ op.pc = "hook" /\ Fault /\ Ended("unasked", {}) /\ UNCHANGED hook
       \/ ~hooks.cmd /\ Ended("not_run", {}) /\ UNCHANGED <<hook, faults>>
       \/ hooks.cmd /\ Fault /\ Ended("unasked", {"hook"}) /\ UNCHANGED hook
       \/ /\ hooks.cmd /\ Goto("hook_wait") /\ hook' = [Quiet EXCEPT !.child = TRUE]
          /\ UNCHANGED <<last, faults>>
    /\ UNCHANGED <<hooks, phase, guest, image, notes, keys, nops>>

\* The hook's own processes: a child that may fork one more, end, or hang.
hook_runs ==
    /\ op.pc = "hook_wait" /\ hook.child
    /\ \/ hook' = [hook EXCEPT !.grand = TRUE]
       \/ \E c \in {0, 1} : hook' = [hook EXCEPT !.child = FALSE, !.exit = c]
    /\ UNCHANGED <<hooks, phase, guest, image, op, notes, last, keys, nops, faults>>

grand_ends ==
    /\ hook.grand /\ hook' = [hook EXCEPT !.grand = FALSE]
    /\ UNCHANGED <<hooks, phase, guest, image, op, notes, last, keys, nops, faults>>

hook_exited ==
    /\ op.pc = "hook_wait" /\ ~hook.child /\ Goto("hook_collect")
    /\ UNCHANGED <<hooks, phase, guest, image, notes, hook, last, keys, nops, faults>>

DEFAULT_HOOK_TIMEOUT == 2

\* The spec's bound, else the default: a hook always has one.
hook_timeout == IF hooks.timeout_ms = 0 THEN DEFAULT_HOOK_TIMEOUT ELSE hooks.timeout_ms

\* The timeout kills the whole process group; a killed process has no exit code.
killpg == [hook EXCEPT !.child = FALSE, !.grand = FALSE, !.timed_out = TRUE, !.exit = -1]

hook_timed_out ==
    /\ op.pc = "hook_wait" /\ hook.child /\ hook_timeout > 0
    /\ hook' = killpg /\ Goto("hook_collect")
    /\ UNCHANGED <<hooks, phase, guest, image, notes, last, keys, nops, faults>>

\* collect: the pipes close, or DRAIN_GRACE is over while a grandchild holds them; then
\* the answer.  A timeout is a degradation, a failing exit code is not.
hook_answers ==
    /\ op.pc = "hook_collect"
    /\ Ended(IF hook.timed_out THEN "timed_out" ELSE IF hook.exit = 0 THEN "ran" ELSE "failed",
             IF hook.timed_out THEN {"hook"} ELSE {})
    /\ UNCHANGED <<hooks, phase, guest, image, notes, hook, keys, nops, faults>>

\* The call is lost while the hook runs: the handler is dropped and the child with it.
hook_lost ==
    /\ op.pc \in {"hook_wait", "hook_collect"} /\ Fault
    /\ hook' = [hook EXCEPT !.child = FALSE] /\ Ended("unasked", {"hook"})
    /\ UNCHANGED <<hooks, phase, guest, image, notes, keys, nops>>

\* The image is taken whatever the hook did.
capture ==
    /\ op.pc = "capture"
    /\ image' = [key |-> orig.key, outcome |-> op.outcome, degraded |-> op.degraded,
                 alive |-> hook.child \/ hook.grand]
    /\ phase' = [phase EXCEPT !["orig"] = "PAUSED"]
    /\ op' = Idle /\ hook' = Quiet
    /\ UNCHANGED <<hooks, guest, notes, last, keys, nops, faults>>

-----------------------------------------------------------------------------
(* Resume from memory, and the duties                                      *)

runtime_resume ==
    /\ op.pc = "resume"
    /\ phase' = [phase EXCEPT !["orig"] = "RUNNING"]
    /\ guest' = [guest EXCEPT !["orig"] = [key |-> image.key, clock |-> "snapshot"]]
    /\ Goto("connect")
    /\ UNCHANGED <<hooks, image, notes, hook, last, keys, nops, faults>>

\* Nothing fails the resume: the duties stop with what they note and the operation ends.
Abandon(n) == op' = Idle /\ last' = [last EXCEPT !["Resume"] = op.degraded \cup n]

\* Mutation: the clock is stepped before the key is new.
clock_first(p) == CASE p = "connect"    -> "step_clock"
                    [] p = "step_clock" -> "reseed"
                    [] p = "reseed"     -> "carrier"
                    [] p = "carrier"    -> "report"

\* duties::run: entropy, then the clock, then the carrier, then the answer.
next_duty(p) == CASE p = "connect"    -> "reseed"
                  [] p = "reseed"     -> "step_clock"
                  [] p = "step_clock" -> "carrier"
                  [] p = "carrier"    -> "report"

\* The row, whose loss nobody is told of; the channel, then 32 bytes of the host's
\* entropy, then the call.
duties_asked ==
    /\ op.pc = "connect"
    /\ \/ Fault /\ \E n \in {{}, {"unreached"}, {"entropy"}} : Abandon(n)
       \/ Goto(next_duty("connect")) /\ UNCHANGED <<last, faults>>
    /\ notes' = {}
    /\ UNCHANGED <<hooks, phase, guest, image, hook, keys, nops>>

\* reseed: mixed, credited and re-keyed; or mixed without a new key, or not at all,
\* and both say so.
reseed ==
    /\ op.pc = "reseed"
    /\ \/ /\ guest' = [guest EXCEPT !["orig"].key = keys + 1] /\ keys' = keys + 1
          /\ UNCHANGED <<notes, faults>>
       \/ Fault /\ notes' = notes \cup {"reseed"} /\ UNCHANGED <<guest, keys>>
    /\ Goto(next_duty(op.pc))
    /\ UNCHANGED <<hooks, phase, image, hook, last, nops>>

step_clock ==
    /\ op.pc = "step_clock"
    /\ \/ guest' = [guest EXCEPT !["orig"].clock = "host"] /\ UNCHANGED <<notes, faults>>
       \/ Fault /\ notes' = notes \cup {"clock"} /\ UNCHANGED guest
    /\ Goto(next_duty(op.pc))
    /\ UNCHANGED <<hooks, phase, image, hook, last, keys, nops>>

\* The node delivers no grant carrier, so a stale one is removed.
place_grant_carrier ==
    /\ op.pc = "carrier"
    /\ \/ UNCHANGED <<notes, faults>>
       \/ Fault /\ notes' = notes \cup {"carrier"}
    /\ Goto(next_duty(op.pc))
    /\ UNCHANGED <<hooks, phase, guest, image, hook, last, keys, nops>>

\* Mutation: the guest's notes are not passed on.
drops_notes == {}

\* The answer brings the guest's notes; a call that failed brings none and ends here.
reported == notes

duties_answer ==
    /\ op.pc = "report"
    /\ \/ Record(reported, "health") /\ UNCHANGED <<last, faults>>
       \/ Fault /\ Abandon({"duties"})
    /\ notes' = {}
    /\ UNCHANGED <<hooks, phase, guest, image, hook, keys, nops>>

\* The network check, the Restored event, and only then the workload's own hook.
health ==
    /\ op.pc = "health"
    /\ \/ Record({"restored"}, "post") /\ UNCHANGED faults
       \/ Fault /\ Record({"net", "restored"}, "post")
    /\ UNCHANGED <<hooks, phase, guest, image, notes, hook, last, keys, nops>>

-----------------------------------------------------------------------------
Hooks  == \/ hook_asked \/ hook_runs \/ grand_ends \/ hook_exited \/ hook_timed_out
          \/ hook_answers \/ hook_lost \/ capture
Duties == \/ runtime_resume \/ duties_asked \/ reseed \/ step_clock \/ place_grant_carrier
          \/ duties_answer \/ health
Next == Pause \/ Resume \/ Fork \/ Hooks \/ Duties
Spec == Init /\ [][Next]_vars

\* The executor and the guest run, and timers fire; a hook's processes may hang.  A hook
\* cannot hold a pause or a resume open, whatever it and its children do: each owes its end.
Progress == hook_asked \/ hook_exited \/ hook_timed_out \/ hook_answers \/ capture \/ Duties
Owed == op.kind /= "none"

-----------------------------------------------------------------------------
\* A resume that tells its caller of the restore and of nothing degraded gave its guest
\* a key no other restore of the image has and the host's time (restore_duties,
\* duties.rs).  The Restored event is needed: a resume whose row could not be read ends
\* with nothing degraded and none of its duties done.
HonestResume ==
    last["Resume"] = {"restored"} /\ op.kind /= "Resume" /\ phase["orig"] = "RUNNING"
        => orig.key /= image.key /\ orig.clock = "host"

\* Nothing the workload can notice happens on a duplicated key unless a note says so:
\* not the clock's step, and not its post-restore hook (the order of duties::run and
\* restore_duties).
KeyFirst ==
    op.kind = "Resume" =>
        /\ op.pc \in {"step_clock", "carrier", "report"} =>
               orig.key /= image.key \/ "reseed" \in notes
        /\ hook.child => /\ orig.key /= image.key \/ "reseed" \in op.degraded
                         /\ orig.clock = "host" \/ "clock" \in op.degraded

\* What a snapshot says of its hook is true: one that says none was to run is of a
\* workload without a hook; one that says its hook timed out has it on the operation's
\* record and nothing of the hook runs on inside the image; and the record speaks of
\* the hook only if it was not asked or timed out (run_pre_snapshot_hook, cmd::run's
\* process group).  A hook that was not asked need not be on the record.
SnapshotHonest ==
    /\ image /= NoImage /\ image.outcome = "not_run" => ~hooks.cmd
    /\ image.outcome = "timed_out" => "hook" \in image.degraded /\ ~image.alive
    /\ "hook" \in image.degraded => image.outcome \in {"unasked", "timed_out"}
=============================================================================
