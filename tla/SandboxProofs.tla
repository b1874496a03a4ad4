---------------------------- MODULE SandboxProofs ---------------------------
(***************************************************************************)
(* Proofs about the sandbox: the guest in it and the container around it.  *)
(*                                                                         *)
(* Of Restore, for any number of operations and failed steps: what a       *)
(* resume reports is true of its guest, nothing the workload can notice    *)
(* comes before the new key, and a snapshot says how its hook went.  Of    *)
(* Serve, for any number of dial attempts and of moves on the network: the *)
(* node's channel ends at its own guest behind TLS, and the agent exits    *)
(* with what its workload ended with.  Of Docker, for any nodes, instances *)
(* and exit codes: the journal's words are true of the containers.         *)
(***************************************************************************)
EXTENDS Restore, Serve, Docker, TLAPS

-----------------------------------------------------------------------------
(***************************************************************************)
(* The duties of a restore.                                                *)
(***************************************************************************)
(* The inductive invariant                                                 *)

Hook == [child : BOOLEAN, grand : BOOLEAN, timed_out : BOOLEAN, exit : {-1, 0, 1}]
Op == [kind : {"none", "Pause", "Resume"}, pc : Pcs, degraded : SUBSET Note, outcome : Outcome]

(* The types the steps rely on: every key in use is one that was handed out. *)
Typed ==
    /\ keys \in Nat
    /\ phase \in [Inst -> {"RUNNING", "PAUSED", "ABSENT"}]
    /\ guest \in [Inst -> [key : 0..keys, clock : {"host", "snapshot"}]]
    /\ image \in [key : 0..keys, outcome : Outcome, alive : BOOLEAN, degraded : SUBSET Note]
    /\ op \in Op
    /\ notes \in SUBSET Note
    /\ hook \in Hook
    /\ last \in [{"Resume", "Fork"} -> SUBSET (Note \cup NONE)]

(* Where each operation can be. *)
Places ==
    /\ op.kind = "none" => op.pc = "idle"
    /\ op.kind = "Pause" => op.pc \in {"hook", "hook_wait", "hook_collect", "capture"}
    /\ op.kind = "Resume" => op.pc \in Pcs \ {"idle", "hook", "capture"}

(* Where a hook runs, and what is left of one that was killed. *)
HookPlaces ==
    /\ hook.child => op.pc = "hook_wait"
    /\ hook.timed_out => ~hook.child /\ ~hook.grand

NewKey(record) == orig.key # image.key \/ "reseed" \in record
HostTime(record) == orig.clock = "host" \/ "clock" \in record

(* What the duties have done, or noted, by the place they have come to; the Restored *)
(* event is not told before they are answered. *)
DutiesDone ==
    /\ "restored" \notin notes
    /\ op.kind = "Resume" =>
        /\ op.pc \in {"step_clock", "carrier", "report"} => NewKey(notes)
        /\ op.pc \in {"carrier", "report"} => HostTime(notes)
        /\ op.pc \in {"health", "post", "hook_wait", "hook_collect"} =>
              NewKey(op.degraded) /\ HostTime(op.degraded)
        /\ op.pc \notin {"post", "hook_wait", "hook_collect"} => "restored" \notin op.degraded

(* What the operation says of its hook before the image is taken. *)
HookSaid ==
    /\ op.kind = "Pause" /\ op.pc # "capture" => "hook" \notin op.degraded
    /\ op.pc = "capture" =>
        /\ op.outcome = "not_run" => ~hooks.cmd
        /\ op.outcome = "timed_out" => "hook" \in op.degraded /\ hook.timed_out
        /\ "hook" \in op.degraded => op.outcome \in {"unasked", "timed_out"}

RestoreInv ==
    /\ Typed /\ Places /\ HookPlaces /\ DutiesDone /\ HookSaid
    /\ HonestResume /\ SnapshotHonest

\* The initial state has the invariant.
LEMMA InitRestore == Init => RestoreInv
BY DEF Init, RestoreInv, Typed, Places, HookPlaces, DutiesDone, HookSaid, HonestResume,
   SnapshotHonest,
       NewKey, HostTime, Op, Hook, Idle, Quiet, NoImage, Inst, Note, Outcome, Pcs, NONE, orig
-----------------------------------------------------------------------------
(* What the shared steps do *)

\* The last step of a hook: of a pause's, the operation goes on to the capture; of a
\* resume's, it is over.
LEMMA EndedEffect ==
    ASSUME Typed, NEW outcome \in Outcome, NEW n \in SUBSET Note, Ended(outcome, n)
    PROVE  \/ /\ op.kind = "Pause" /\ last' = last
              /\ op' \in Op /\ op'.kind = "Pause" /\ op'.pc = "capture"
              /\ op'.outcome = outcome /\ op'.degraded = op.degraded \cup n
           \/ /\ op.kind # "Pause" /\ op' = Idle
              /\ last' \in [{"Resume", "Fork"} -> SUBSET (Note \cup NONE)]
              /\ last'["Resume"] = op.degraded \cup n
<1>1. CASE op.kind = "Pause"
  <2>1. op' = [op EXCEPT !.degraded = @ \cup n, !.pc = "capture", !.outcome = outcome]
    BY <1>1, Zenon DEF Ended
  <2>2. op' = [kind |-> op.kind, pc |-> "capture", degraded |-> op.degraded \cup n, outcome |-> outcome]
    BY <2>1, Zenon DEF Typed, Op
  <2> QED
    BY <1>1, <2>2, Zenon DEF Typed, Op, Ended, Pcs
<1>2. CASE op.kind # "Pause"
  BY <1>2 DEF Ended, Typed, Op
<1> QED
  BY <1>1, <1>2, Zenon

\* A note on the record of the operation.
LEMMA RecordEffect ==
    ASSUME Typed, NEW n \in SUBSET Note, NEW p \in Pcs, Record(n, p)
    PROVE  /\ op' \in Op /\ op'.kind = op.kind /\ op'.pc = p /\ op'.outcome = op.outcome
           /\ op'.degraded = op.degraded \cup n
<1>1. op' = [kind |-> op.kind, pc |-> p, degraded |-> op.degraded \cup n, outcome |-> op.outcome]
  BY Zenon DEF Record, Typed, Op
<1> QED
  BY <1>1, Zenon DEF Typed, Op

\* A step of the hook's processes leaves a hook.
LEMMA HookEffect ==
    ASSUME hook \in Hook
    PROVE  /\ [hook EXCEPT !.grand = TRUE] \in Hook
           /\ [hook EXCEPT !.grand = FALSE] \in Hook
           /\ [hook EXCEPT !.child = FALSE] \in Hook
           /\ \A c \in {0, 1} : [hook EXCEPT !.child = FALSE, !.exit = c] \in Hook
           /\ killpg \in Hook
<1>1. [hook EXCEPT !.grand = TRUE] \in Hook
  BY Zenon DEF Hook
<1>2. [hook EXCEPT !.grand = FALSE] \in Hook
  BY Zenon DEF Hook
<1>3. [hook EXCEPT !.child = FALSE] \in Hook
  BY Zenon DEF Hook
<1>4. \A c \in {0, 1} : [hook EXCEPT !.child = FALSE, !.exit = c] \in Hook
  BY Zenon DEF Hook
<1>5. killpg \in Hook
  BY Zenon DEF Hook, killpg
<1> QED
  BY <1>1, <1>2, <1>3, <1>4, <1>5, Zenon

-----------------------------------------------------------------------------
(* One lemma per action                                                    *)

\* Pause keeps the invariant.
LEMMA Step_Pause == RestoreInv /\ Pause => RestoreInv'
<1> SUFFICES ASSUME RestoreInv, Pause PROVE RestoreInv'
  BY Zenon
<1>1. Typed'
  BY ZenonT(40) DEF RestoreInv, Pause, Typed, Op, Hook, Inst, Note, Outcome, Pcs, NONE, Idle,
     Places
<1>2. Places' /\ HookPlaces'
  BY Zenon DEF RestoreInv, Pause, Typed, Op, Hook, Inst, Note, Outcome, Pcs, NONE, Idle, Places,
     HookPlaces
<1>3. DutiesDone'
  BY Zenon DEF RestoreInv, Pause, Typed, Op, Hook, Inst, Note, Outcome, Pcs, NONE, Idle, Places,
     DutiesDone, NewKey, HostTime, orig
<1>4. HookSaid'
  BY Zenon DEF RestoreInv, Pause, Typed, Op, Hook, Inst, Note, Outcome, Pcs, NONE, Idle, Places,
     HookPlaces, HookSaid
<1>5. HonestResume'
  BY Zenon DEF RestoreInv, Pause, Typed, Op, Hook, Inst, Note, Outcome, Pcs, NONE, Idle, Places,
     DutiesDone, NewKey, HostTime, HonestResume, orig
<1>6. SnapshotHonest'
  BY Zenon DEF RestoreInv, Pause, Typed, Op, Hook, Inst, Note, Outcome, Pcs, NONE,
     SnapshotHonest
<1> QED
  BY <1>1, <1>2, <1>3, <1>4, <1>5, <1>6, Zenon DEF RestoreInv

\* Resume keeps the invariant.
LEMMA Step_Resume == RestoreInv /\ Resume => RestoreInv'
<1> SUFFICES ASSUME RestoreInv, Resume PROVE RestoreInv'
  BY Zenon
<1>1. Typed'
  BY ZenonT(40) DEF RestoreInv, Resume, Typed, Op, Hook, Inst, Note, Outcome, Pcs, NONE, Idle,
     Places
<1>2. Places' /\ HookPlaces'
  BY Zenon DEF RestoreInv, Resume, Typed, Op, Hook, Inst, Note, Outcome, Pcs, NONE, Idle,
     Places, HookPlaces
<1>3. DutiesDone'
  BY Zenon DEF RestoreInv, Resume, Typed, Op, Hook, Inst, Note, Outcome, Pcs, NONE, Idle,
     Places, DutiesDone, NewKey, HostTime, orig
<1>4. HookSaid'
  BY Zenon DEF RestoreInv, Resume, Typed, Op, Hook, Inst, Note, Outcome, Pcs, NONE, Idle,
     Places, HookPlaces, HookSaid
<1>5. HonestResume'
  BY Zenon DEF RestoreInv, Resume, Typed, Op, Hook, Inst, Note, Outcome, Pcs, NONE, Idle,
     Places, DutiesDone, NewKey, HostTime, HonestResume, orig
<1>6. SnapshotHonest'
  BY Zenon DEF RestoreInv, Resume, Typed, Op, Hook, Inst, Note, Outcome, Pcs, NONE,
     SnapshotHonest
<1> QED
  BY <1>1, <1>2, <1>3, <1>4, <1>5, <1>6, Zenon DEF RestoreInv

\* Fork keeps the invariant.
LEMMA Step_Fork == RestoreInv /\ Fork => RestoreInv'
BY DEF Fork, RestoreInv, Typed, Places, HookPlaces, DutiesDone, HookSaid, HonestResume,
   SnapshotHonest, NewKey, HostTime, Op, Hook, Idle, Inst, Note, Outcome, Pcs, NONE, orig,
   NoImage

\* hook_asked keeps the invariant.
LEMMA Step_hook_asked == RestoreInv /\ hook_asked => RestoreInv'
<1> SUFFICES ASSUME RestoreInv, hook_asked PROVE RestoreInv'
  BY Zenon
<1>0. CASE op.pc = "hook" /\ Ended("unasked", {}) /\ UNCHANGED hook
  <2>1. /\ op.kind = "Pause" /\ last' = last
        /\ op' \in Op /\ op'.kind = "Pause" /\ op'.pc = "capture"
        /\ op'.outcome = "unasked" /\ op'.degraded = op.degraded
    BY <1>0, EndedEffect, Zenon DEF RestoreInv, Outcome, Places, Typed, Op
  <2> QED
    BY <1>0, <2>1 DEF hook_asked, RestoreInv, Typed, Places, HookPlaces, DutiesDone, HookSaid,
       HonestResume,
         SnapshotHonest, NewKey, HostTime, Op, Idle, Outcome, Pcs, orig
<1>1. CASE ~hooks.cmd /\ Ended("not_run", {}) /\ UNCHANGED hook
  <2>1. \/ /\ op.kind = "Pause" /\ last' = last
           /\ op' \in Op /\ op'.kind = "Pause" /\ op'.pc = "capture"
           /\ op'.outcome = "not_run" /\ op'.degraded = op.degraded \cup {}
        \/ /\ op.kind # "Pause" /\ op' = Idle
           /\ last' \in [{"Resume", "Fork"} -> SUBSET (Note \cup NONE)]
           /\ last'["Resume"] = op.degraded \cup {}
    BY <1>1, EndedEffect, Zenon DEF RestoreInv, Outcome
  <2> QED
    BY <1>1, <2>1 DEF hook_asked, RestoreInv, Typed, Places, HookPlaces, DutiesDone, HookSaid,
       HonestResume,
         SnapshotHonest, NewKey, HostTime, Op, Idle, Outcome, Pcs, orig
<1>2. CASE Ended("unasked", {"hook"}) /\ UNCHANGED hook
  <2>1. \/ /\ op.kind = "Pause" /\ last' = last
           /\ op' \in Op /\ op'.kind = "Pause" /\ op'.pc = "capture"
           /\ op'.outcome = "unasked" /\ op'.degraded = op.degraded \cup {"hook"}
        \/ /\ op.kind # "Pause" /\ op' = Idle
           /\ last' \in [{"Resume", "Fork"} -> SUBSET (Note \cup NONE)]
           /\ last'["Resume"] = op.degraded \cup {"hook"}
    BY <1>2, EndedEffect, Zenon DEF RestoreInv, Outcome, Note
  <2> QED
    BY <1>2, <2>1 DEF hook_asked, RestoreInv, Typed, Places, HookPlaces, DutiesDone, HookSaid,
       HonestResume,
         SnapshotHonest, NewKey, HostTime, Op, Idle, Outcome, Pcs, orig
<1>3. CASE Goto("hook_wait") /\ hook' = [Quiet EXCEPT !.child = TRUE] /\ UNCHANGED last
  <2>1. hook' = [child |-> TRUE, grand |-> FALSE, timed_out |-> FALSE, exit |-> 0] /\ hook' \in Hook
    BY <1>3, Zenon DEF Quiet, Hook
  <2> QED
    BY <1>3, <2>1 DEF Goto, hook_asked, RestoreInv, Typed, Places, HookPlaces, DutiesDone,
       HookSaid, HonestResume,
         SnapshotHonest, NewKey, HostTime, Op, Idle, Outcome, Pcs, orig
<1> QED
  BY <1>0, <1>1, <1>2, <1>3, Zenon DEF hook_asked

\* hook_runs keeps the invariant.
LEMMA Step_hook_runs == RestoreInv /\ hook_runs => RestoreInv'
<1> SUFFICES ASSUME RestoreInv, hook_runs PROVE RestoreInv'
  BY Zenon
<1>1. Typed'
  BY HookEffect, Zenon DEF RestoreInv, Typed, hook_runs
<1>2. Places' /\ HookPlaces'
  BY Zenon DEF RestoreInv, hook_runs, Typed, Op, Hook, Pcs, Idle, Places, HookPlaces
<1>3. DutiesDone'
  BY Zenon DEF RestoreInv, hook_runs, Typed, Op, Pcs, Idle, Places, DutiesDone, NewKey,
     HostTime, orig
<1>4. HookSaid'
  BY Zenon DEF RestoreInv, hook_runs, Typed, Op, Pcs, Idle, Places, HookPlaces, HookSaid
<1>5. HonestResume'
  BY Zenon DEF RestoreInv, hook_runs, Typed, Op, Idle, Places, DutiesDone, NewKey, HostTime,
     HonestResume, orig
<1>6. SnapshotHonest'
  BY Zenon DEF RestoreInv, hook_runs, SnapshotHonest
<1> QED
  BY <1>1, <1>2, <1>3, <1>4, <1>5, <1>6, Zenon DEF RestoreInv

\* grand_ends keeps the invariant.
LEMMA Step_grand_ends == RestoreInv /\ grand_ends => RestoreInv'
<1> SUFFICES ASSUME RestoreInv, grand_ends PROVE RestoreInv'
  BY Zenon
<1>1. Typed'
  BY HookEffect, Zenon DEF RestoreInv, Typed, grand_ends
<1>2. Places' /\ HookPlaces'
  BY DEF RestoreInv, grand_ends, Typed, Op, Pcs, Idle, Places, HookPlaces
<1>3. DutiesDone'
  BY Zenon DEF RestoreInv, grand_ends, Typed, Op, Pcs, Idle, Places, DutiesDone, NewKey,
     HostTime, orig
<1>4. HookSaid'
  BY Zenon DEF RestoreInv, grand_ends, Typed, Op, Pcs, Idle, Places, HookPlaces, HookSaid
<1>5. HonestResume'
  BY Zenon DEF RestoreInv, grand_ends, Typed, Op, Idle, Places, DutiesDone, NewKey, HostTime,
     HonestResume, orig
<1>6. SnapshotHonest'
  BY Zenon DEF RestoreInv, grand_ends, SnapshotHonest
<1> QED
  BY <1>1, <1>2, <1>3, <1>4, <1>5, <1>6, Zenon DEF RestoreInv

\* hook_exited keeps the invariant.
LEMMA Step_hook_exited == RestoreInv /\ hook_exited => RestoreInv'
BY DEF hook_exited, Goto, RestoreInv, Typed, Places, HookPlaces, DutiesDone, HookSaid,
   HonestResume, SnapshotHonest, NewKey, HostTime, Op, Hook, Idle, Inst, Note, Outcome, Pcs,
   NONE, orig, NoImage

\* hook_timed_out keeps the invariant.
LEMMA Step_hook_timed_out == RestoreInv /\ hook_timed_out => RestoreInv'
<1> SUFFICES ASSUME RestoreInv, hook_timed_out PROVE RestoreInv'
  BY Zenon
<1>1. Typed'
  BY Zenon DEF RestoreInv, hook_timed_out, killpg, Goto, Typed, Op, Hook, Inst, Note, Outcome,
     Pcs, NONE, Idle, Places
<1>2. Places' /\ HookPlaces'
  BY Zenon DEF RestoreInv, hook_timed_out, killpg, Goto, Typed, Op, Hook, Inst, Note, Outcome,
     Pcs, NONE, Idle, Places, HookPlaces
<1>3. DutiesDone'
  BY Zenon DEF RestoreInv, hook_timed_out, killpg, Goto, Typed, Op, Hook, Inst, Note, Outcome,
     Pcs, NONE, Idle, Places, DutiesDone, NewKey, HostTime, orig
<1>4. HookSaid'
  BY Zenon DEF RestoreInv, hook_timed_out, killpg, Goto, Typed, Op, Hook, Inst, Note, Outcome,
     Pcs, NONE, Idle, Places, HookPlaces, HookSaid
<1>5. HonestResume'
  BY Zenon DEF RestoreInv, hook_timed_out, killpg, Goto, Typed, Op, Hook, Inst, Note, Outcome,
     Pcs, NONE, Idle, Places, DutiesDone, NewKey, HostTime, HonestResume, orig
<1>6. SnapshotHonest'
  BY Zenon DEF RestoreInv, hook_timed_out, killpg, Goto, Typed, Op, Hook, Inst, Note, Outcome,
     Pcs, NONE, SnapshotHonest
<1> QED
  BY <1>1, <1>2, <1>3, <1>4, <1>5, <1>6, Zenon DEF RestoreInv

\* hook_answers keeps the invariant.
LEMMA Step_hook_answers == RestoreInv /\ hook_answers => RestoreInv'
<1> SUFFICES ASSUME RestoreInv, hook_answers PROVE RestoreInv'
  BY Zenon
<1> DEFINE o == IF hook.timed_out THEN "timed_out" ELSE IF hook.exit = 0 THEN "ran" ELSE "failed"
           d == IF hook.timed_out THEN {"hook"} ELSE {}
<1>a.
    \/ /\ op.kind = "Pause" /\ last' = last
       /\ op' \in Op /\ op'.kind = "Pause" /\ op'.pc = "capture"
       /\ op'.outcome = o /\ op'.degraded = op.degraded \cup d
    \/ /\ op.kind # "Pause" /\ op' = Idle
       /\ last' \in [{"Resume", "Fork"} -> SUBSET (Note \cup NONE)]
       /\ last'["Resume"] = op.degraded \cup d
  <2>1. Ended(o, d) /\ o \in Outcome /\ d \in SUBSET Note
    BY Zenon DEF hook_answers, Outcome, Note
  <2> QED
    BY <2>1, EndedEffect, Zenon DEF RestoreInv
<1>1. Typed'
  BY <1>a DEF RestoreInv, hook_answers, Typed, Op, Idle, Pcs, Outcome
<1>2. Places' /\ HookPlaces'
  BY <1>a DEF RestoreInv, hook_answers, Typed, Op, Pcs, Idle, Places, HookPlaces
<1>3. DutiesDone'
  BY <1>a DEF RestoreInv, hook_answers, Typed, Op, Pcs, Idle, Places, DutiesDone, NewKey,
     HostTime, orig
<1>4. HookSaid'
  BY <1>a DEF RestoreInv, hook_answers, Typed, Op, Pcs, Idle, Places, HookPlaces, HookSaid
<1>5. HonestResume'
  <2>1. UNCHANGED <<guest, image, phase>> /\ op.pc \in {"hook_wait", "hook_collect"}
    BY Zenon DEF hook_answers
  <2>2. CASE op.kind = "Pause"
    BY <1>a, <2>1, <2>2, Zenon DEF RestoreInv, HonestResume, orig
  <2>3. CASE op.kind # "Pause"
    <3>1. NewKey(op.degraded) /\ HostTime(op.degraded)
      BY <2>1, <2>3, Zenon DEF RestoreInv, Typed, Op, Places, DutiesDone
    <3>2. op.degraded \subseteq last'["Resume"]
      BY <1>a, <2>3, Zenon
    <3> QED
      BY <2>1, <3>1, <3>2, Zenon DEF HonestResume, NewKey, HostTime, orig
  <2> QED
    BY <2>2, <2>3, Zenon
<1>6. SnapshotHonest'
  BY <1>a, Zenon DEF RestoreInv, hook_answers, SnapshotHonest
<1> QED
  BY <1>1, <1>2, <1>3, <1>4, <1>5, <1>6, Zenon DEF RestoreInv

\* hook_lost keeps the invariant.
LEMMA Step_hook_lost == RestoreInv /\ hook_lost => RestoreInv'
<1> SUFFICES ASSUME RestoreInv, hook_lost PROVE RestoreInv'
  BY Zenon
<1>a.
    \/ /\ op.kind = "Pause" /\ last' = last
       /\ op' \in Op /\ op'.kind = "Pause" /\ op'.pc = "capture"
       /\ op'.outcome = "unasked" /\ op'.degraded = op.degraded \cup {"hook"}
    \/ /\ op.kind # "Pause" /\ op' = Idle
       /\ last' \in [{"Resume", "Fork"} -> SUBSET (Note \cup NONE)]
       /\ last'["Resume"] = op.degraded \cup {"hook"}
  BY EndedEffect, Zenon DEF RestoreInv, hook_lost, Outcome, Note
<1>b. hook' \in Hook
  BY HookEffect, Zenon DEF RestoreInv, Typed, hook_lost
<1>1. Typed'
  BY <1>a, <1>b DEF RestoreInv, hook_lost, Typed, Op, Idle, Pcs, Outcome
<1>2. Places' /\ HookPlaces'
  BY <1>a, <1>b DEF RestoreInv, hook_lost, Typed, Op, Pcs, Idle, Places, HookPlaces
<1>3. DutiesDone'
  BY <1>a, <1>b DEF RestoreInv, hook_lost, Typed, Op, Pcs, Idle, Places, DutiesDone, NewKey,
     HostTime, orig
<1>4. HookSaid'
  BY <1>a, <1>b DEF RestoreInv, hook_lost, Typed, Op, Pcs, Idle, Places, HookPlaces, HookSaid
<1>5. HonestResume'
  <2>1. UNCHANGED <<guest, image, phase>> /\ op.pc \in {"hook_wait", "hook_collect"}
    BY Zenon DEF hook_lost
  <2>2. CASE op.kind = "Pause"
    BY <1>a, <2>1, <2>2, Zenon DEF RestoreInv, HonestResume, orig
  <2>3. CASE op.kind # "Pause"
    <3>1. NewKey(op.degraded) /\ HostTime(op.degraded)
      BY <2>1, <2>3, Zenon DEF RestoreInv, Typed, Op, Places, DutiesDone
    <3>2. op.degraded \subseteq last'["Resume"]
      BY <1>a, <2>3, Zenon
    <3> QED
      BY <2>1, <3>1, <3>2, Zenon DEF HonestResume, NewKey, HostTime, orig
  <2> QED
    BY <2>2, <2>3, Zenon
<1>6. SnapshotHonest'
  BY <1>a, <1>b, Zenon DEF RestoreInv, hook_lost, SnapshotHonest
<1> QED
  BY <1>1, <1>2, <1>3, <1>4, <1>5, <1>6, Zenon DEF RestoreInv

\* capture keeps the invariant.
LEMMA Step_capture == RestoreInv /\ capture => RestoreInv'
BY DEF capture, Quiet, RestoreInv, Typed, Places, HookPlaces, DutiesDone, HookSaid,
   HonestResume, SnapshotHonest, NewKey, HostTime, Op, Hook, Idle, Inst, Note, Outcome, Pcs,
   NONE, orig, NoImage

\* runtime_resume keeps the invariant.
LEMMA Step_runtime_resume == RestoreInv /\ runtime_resume => RestoreInv'
BY DEF runtime_resume, Goto, RestoreInv, Typed, Places, HookPlaces, DutiesDone, HookSaid,
   HonestResume, SnapshotHonest, NewKey, HostTime, Op, Hook, Idle, Inst, Note, Outcome, Pcs,
   NONE, orig, NoImage

\* duties_asked keeps the invariant.
LEMMA Step_duties_asked == RestoreInv /\ duties_asked => RestoreInv'
BY DEF duties_asked, Abandon, Goto, Fault, next_duty, RestoreInv, Typed, Places, HookPlaces,
   DutiesDone, HookSaid, HonestResume, SnapshotHonest, NewKey, HostTime, Op, Hook, Idle, Inst,
   Note, Outcome, Pcs, NONE, orig, NoImage

\* reseed keeps the invariant.
LEMMA Step_reseed == RestoreInv /\ reseed => RestoreInv'
BY DEF reseed, Goto, Fault, next_duty, RestoreInv, Typed, Places, HookPlaces, DutiesDone,
   HookSaid, HonestResume, SnapshotHonest, NewKey, HostTime, Op, Hook, Idle, Inst, Note,
   Outcome, Pcs, NONE, orig, NoImage

\* step_clock keeps the invariant.
LEMMA Step_step_clock == RestoreInv /\ step_clock => RestoreInv'
BY DEF step_clock, Goto, Fault, next_duty, RestoreInv, Typed, Places, HookPlaces, DutiesDone,
   HookSaid, HonestResume, SnapshotHonest, NewKey, HostTime, Op, Hook, Idle, Inst, Note,
   Outcome, Pcs, NONE, orig, NoImage

\* place_grant_carrier keeps the invariant.
LEMMA Step_place_grant_carrier == RestoreInv /\ place_grant_carrier => RestoreInv'
BY DEF place_grant_carrier, Goto, Fault, next_duty, RestoreInv, Typed, Places, HookPlaces,
   DutiesDone, HookSaid, HonestResume, SnapshotHonest, NewKey, HostTime, Op, Hook, Idle, Inst,
   Note, Outcome, Pcs, NONE, orig, NoImage

\* duties_answer keeps the invariant.
LEMMA Step_duties_answer == RestoreInv /\ duties_answer => RestoreInv'
<1> SUFFICES ASSUME RestoreInv, duties_answer PROVE RestoreInv'
  BY Zenon
<1>1. CASE Record(notes, "health") /\ UNCHANGED last
  <2>1. /\ op' \in Op /\ op'.kind = op.kind /\ op'.pc = "health" /\ op'.outcome = op.outcome
        /\ op'.degraded = op.degraded \cup notes
    BY <1>1, RecordEffect, Zenon DEF RestoreInv, Typed, Pcs
  <2> QED
    BY <1>1, <2>1, Zenon DEF duties_answer, RestoreInv, Typed, Places, HookPlaces, DutiesDone,
       HookSaid, HonestResume,
         SnapshotHonest, NewKey, HostTime, Op, Idle, Outcome, Pcs, orig
<1>2. CASE Abandon({"duties"})
  BY <1>2, Zenon DEF Abandon, Note, duties_answer, RestoreInv, Typed, Places, HookPlaces,
     DutiesDone, HookSaid, HonestResume,
         SnapshotHonest, NewKey, HostTime, Op, Idle, Outcome, Pcs, orig
<1> QED
  BY <1>1, <1>2, Zenon DEF duties_answer, reported

\* health keeps the invariant.
LEMMA Step_health == RestoreInv /\ health => RestoreInv'
<1> SUFFICES ASSUME RestoreInv, health PROVE RestoreInv'
  BY Zenon
<1>1. \E n \in SUBSET Note :
         /\ op' \in Op /\ op'.kind = op.kind /\ op'.pc = "post" /\ op'.outcome = op.outcome
         /\ op'.degraded = op.degraded \cup n
  <2>1. CASE Record({"restored"}, "post")
    BY <2>1, RecordEffect, Zenon DEF RestoreInv, Pcs, Note
  <2>2. CASE Record({"net", "restored"}, "post")
    BY <2>2, RecordEffect, Zenon DEF RestoreInv, Pcs, Note
  <2> QED
    BY <2>1, <2>2, Zenon DEF health
<1> QED
  BY <1>1, Zenon DEF health, RestoreInv, Typed, Places, HookPlaces, DutiesDone, HookSaid,
     HonestResume,
       SnapshotHonest, NewKey, HostTime, Op, Idle, Outcome, Pcs, orig

-----------------------------------------------------------------------------
(* The theorems                                                            *)

\* Every step of the node's and the guest's tasks keeps the invariant.
LEMMA StepRestore == RestoreInv /\ [Next]_vars => RestoreInv'
<1> SUFFICES ASSUME RestoreInv, [Next]_vars PROVE RestoreInv'
  BY Zenon
<1>1. CASE UNCHANGED vars
  BY <1>1 DEF vars, RestoreInv, Typed, Places, HookPlaces, DutiesDone, HookSaid, HonestResume,
       SnapshotHonest, NewKey, HostTime, orig
<1>2. CASE Pause \/ Resume \/ Fork
  BY <1>2, Step_Pause, Step_Resume, Step_Fork, Zenon
<1>3. CASE Hooks
  BY Zenon, <1>3, Step_hook_asked, Step_hook_runs, Step_grand_ends, Step_hook_exited,
     Step_hook_timed_out, Step_hook_answers, Step_hook_lost, Step_capture DEF Hooks
<1>4. CASE Duties
  BY Zenon, <1>4, Step_runtime_resume, Step_duties_asked, Step_reseed, Step_step_clock,
     Step_place_grant_carrier, Step_duties_answer, Step_health DEF Duties
<1> QED
  BY <1>1, <1>2, <1>3, <1>4, Zenon DEF Next

\* The invariant holds always.
LEMMA AlwaysRestore == Spec => []RestoreInv
  BY InitRestore, StepRestore, PTL DEF Spec

\* A resume that tells of the restore and of nothing degraded gave its guest a key that is
\* not the image's and the host's time, whatever failed and whatever was forked from the
\* image (restore_duties, duties.rs).
THEOREM ResumeIsHonest == Spec => []HonestResume
<1>1. RestoreInv => HonestResume
  BY Zenon DEF RestoreInv
<1> QED
  BY <1>1, AlwaysRestore, PTL

\* The workload notices nothing on a duplicated key unless a note says so: the clock moves
\* and the post-restore hook runs after the reseed (duties::run, restore_duties).
THEOREM KeyComesFirst == Spec => []KeyFirst
<1>1. RestoreInv => KeyFirst
  BY Zenon DEF RestoreInv, KeyFirst, Typed, Op, HookPlaces, DutiesDone, NewKey, HostTime
<1> QED
  BY <1>1, AlwaysRestore, PTL

\* What a snapshot says of its hook is true: of one that was not to run, of one that timed
\* out, of which it holds nothing, and of one that is on the record
\* (run_pre_snapshot_hook, cmd::run).
THEOREM SnapshotIsHonest == Spec => []SnapshotHonest
<1>1. RestoreInv => SnapshotHonest
  BY Zenon DEF RestoreInv
<1> QED
  BY <1>1, AlwaysRestore, PTL

-----------------------------------------------------------------------------
(***************************************************************************)
(* The agent and the channel to it.                                        *)
(***************************************************************************)
(* The inductive invariant                                                 *)

(* A dial is a record; its counters do not matter here. *)
DialTyped == dial = [st |-> dial.st, addr |-> dial.addr, left |-> dial.left, peer |-> dial.peer]

(* What the network can reach of the guest, it reaches behind TLS. *)
Listening ==
    /\ tcp => has_identity
    /\ backlog \cup shake # {} => has_identity

(* A dial that got past its first check has the host's identity. *)
Dialled ==
    /\ dial.st \in {"dialling", "shaking", "connected"} => env.host
    /\ dial.st = "connected" => dial.peer = "mine" /\ has_identity

(* The agent drains only for a workload that is not there, or not any more; and then the *)
(* code is stored.  Before it serves there is no workload. *)
WorkloadFirst ==
    /\ pc \in {"boot", "bind", "probe", "spawn"} => work = "none"
    /\ ~env.cmd => work = "none"
    /\ work = "reaped" => code = (IF wcode = -2 THEN -1 ELSE wcode)
    /\ pc \in {"draining", "exited"} =>
          work \in {"none", "reaped"}

ServeInv == DialTyped /\ Listening /\ Dialled /\ WorkloadFirst

\* The initial state has the invariant.
LEMMA InitServe == ServeInit => ServeInv
BY DEF ServeInit, ServeInv, DialTyped, Listening, Dialled, WorkloadFirst, has_identity

-----------------------------------------------------------------------------
(* What the shared steps do *)

\* A failed attempt is over, or is tried again with no peer.
LEMMA AgainEffect ==
    ASSUME DialTyped
    PROVE  /\ Again = [st |-> Again.st, addr |-> Again.addr, left |-> Again.left, peer |-> Again.peer]
           /\ Again.st \in {"unreachable", "dialling"}
<1>1. CASE dial.left = 0
  <2>1. Again = [st |-> "unreachable", addr |-> dial.addr, left |-> dial.left, peer |-> "none"]
    BY <1>1, Zenon DEF Again, DialTyped
  <2> QED
    BY <2>1, Zenon
<1>2. CASE dial.left # 0
  <2>1. Again = [st |-> "dialling", addr |-> dial.addr, left |-> dial.left - 1, peer |-> "none"]
    BY <1>2, Zenon DEF Again, DialTyped
  <2> QED
    BY <2>1, Zenon
<1> QED
  BY <1>1, <1>2, Zenon

-----------------------------------------------------------------------------
(* One lemma per group of actions                                          *)

\* The bootstrap, up to serving: no step breaks the invariant.
LEMMA StepBoot == ServeInv /\ Boot => ServeInv'
<1> SUFFICES ASSUME ServeInv PROVE Boot => ServeInv'
  BY Zenon
<1>1. from_env => ServeInv'
  BY DEF from_env, network_port, net, ServeInv, DialTyped, Listening, Dialled, WorkloadFirst,
     has_identity
<1>2. bind_listeners => ServeInv'
  BY Zenon DEF bind_listeners, network_port, net, ServeInv, DialTyped, Listening, Dialled,
     WorkloadFirst, has_identity
<1>3. bind_fails => ServeInv'
  BY DEF bind_fails, network_port, net, ServeInv, DialTyped, Listening, Dialled, WorkloadFirst,
     has_identity
<1>4. evaluate_ready => ServeInv'
  BY DEF evaluate_ready, network_port, net, ServeInv, DialTyped, Listening, Dialled,
     WorkloadFirst, has_identity
<1>5. spawn_workload => ServeInv'
  BY DEF spawn_workload, network_port, net, ServeInv, DialTyped, Listening, Dialled,
     WorkloadFirst, has_identity
<1>6. spawn_fails => ServeInv'
  BY DEF spawn_fails, network_port, net, ServeInv, DialTyped, Listening, Dialled, WorkloadFirst,
     has_identity
<1> QED
  BY <1>1, <1>2, <1>3, <1>4, <1>5, <1>6, Zenon DEF Boot

\* Signals, the workload's end and the agent's: no step breaks the invariant.
LEMMA StepEnds ==
    /\ ServeInv
    /\ \/ terminate_signal \/ sigterm \/ forward_term \/ workload_ends
       \/ child_waited \/ shutdown_sent \/ shutdown_over
    => ServeInv'
<1> SUFFICES ASSUME ServeInv
             PROVE  \/ terminate_signal \/ sigterm \/ forward_term \/ workload_ends
                    \/ child_waited \/ shutdown_sent \/ shutdown_over
                    => ServeInv'
  BY Zenon
<1>1. terminate_signal => ServeInv'
  BY DEF terminate_signal, on_term, stored, after_the_store, net, ServeInv, DialTyped, Listening,
     Dialled, WorkloadFirst, has_identity
<1>2. sigterm => ServeInv'
  BY DEF sigterm, on_term, stored, after_the_store, net, ServeInv, DialTyped, Listening,
     Dialled, WorkloadFirst, has_identity
<1>3. forward_term => ServeInv'
  BY DEF forward_term, on_term, stored, after_the_store, net, ServeInv, DialTyped, Listening,
     Dialled, WorkloadFirst, has_identity
<1>4. workload_ends => ServeInv'
  BY DEF workload_ends, on_term, stored, after_the_store, net, ServeInv, DialTyped, Listening,
     Dialled, WorkloadFirst, has_identity
<1>5. child_waited => ServeInv'
  BY DEF child_waited, on_term, stored, after_the_store, net, ServeInv, DialTyped, Listening,
     Dialled, WorkloadFirst, has_identity
<1>6. shutdown_sent => ServeInv'
  BY DEF shutdown_sent, on_term, stored, after_the_store, net, ServeInv, DialTyped, Listening,
     Dialled, WorkloadFirst, has_identity
<1>7. shutdown_over => ServeInv'
  BY DEF shutdown_over, on_term, stored, after_the_store, net, ServeInv, DialTyped, Listening,
     Dialled, WorkloadFirst, has_identity
<1> QED
  BY <1>1, <1>2, <1>3, <1>4, <1>5, <1>6, <1>7, Zenon

\* The node's dial: no step breaks the invariant.
LEMMA StepDial == ServeInv /\ Dial => ServeInv'
<1> SUFFICES ASSUME ServeInv PROVE Dial => ServeInv'
  BY Zenon
<1>1. connect => ServeInv'
  <2> SUFFICES ASSUME connect PROVE ServeInv'
    BY Zenon
  <2>1. \/ dial' = [st |-> "unreachable", addr |-> dial.addr, left |-> dial.left, peer |-> dial.peer]
        \/ /\ env.host
           /\ dial' = [st |-> "dialling", addr |-> Address("mine"), left |-> Tries, peer |-> dial.peer]
    BY Zenon DEF connect, refuses_cleartext, ServeInv, DialTyped
  <2> QED
    BY <2>1, Zenon DEF connect, agent, ServeInv, DialTyped, Listening, Dialled, WorkloadFirst,
       has_identity
<1>2. no_address => ServeInv'
  BY DEF no_address, agent, refuses_cleartext, Again, Answers, Holder, verified, ServeInv,
     DialTyped, Listening, Dialled, WorkloadFirst, has_identity
<1>3. dial_tcp => ServeInv'
  <2> SUFFICES ASSUME dial_tcp PROVE ServeInv'
    BY Zenon
  <2>1. dial' = [st |-> "shaking", addr |-> dial.addr, left |-> dial.left, peer |-> Holder(dial.addr)]
    BY Zenon DEF dial_tcp, ServeInv, DialTyped
  <2> QED
    BY <2>1, Zenon DEF dial_tcp, Answers, agent, ServeInv, DialTyped, Listening, Dialled,
       WorkloadFirst, has_identity
<1>4. dial_refused => ServeInv'
  <2> SUFFICES ASSUME dial_refused PROVE ServeInv'
    BY Zenon
  <2>1. dial' = Again
    BY Zenon DEF dial_refused
  <2> QED
    BY <2>1, AgainEffect, Zenon DEF dial_refused, agent, ServeInv, DialTyped, Listening,
       Dialled, WorkloadFirst, has_identity
<1>5. handshake => ServeInv'
  BY Zenon DEF handshake, agent, refuses_cleartext, Again, Answers, Holder, verified, ServeInv,
     DialTyped, Listening, Dialled, WorkloadFirst, has_identity
<1>6. sibling_handshake => ServeInv'
  <2> SUFFICES ASSUME sibling_handshake PROVE ServeInv'
    BY Zenon
  <2>1. dial' = Again
    BY Zenon DEF sibling_handshake, verified
  <2> QED
    BY <2>1, AgainEffect, Zenon DEF sibling_handshake, agent, ServeInv, DialTyped, Listening,
       Dialled, WorkloadFirst, has_identity
<1>7. connection_reset => ServeInv'
  <2> SUFFICES ASSUME connection_reset PROVE ServeInv'
    BY Zenon
  <2>1. dial' = Again
    BY Zenon DEF connection_reset
  <2> QED
    BY <2>1, AgainEffect, Zenon DEF connection_reset, agent, ServeInv, DialTyped, Listening,
       Dialled, WorkloadFirst, has_identity
<1>8. connect_timeout => ServeInv'
  <2> SUFFICES ASSUME connect_timeout PROVE ServeInv'
    BY Zenon
  <2>1. dial' = [st |-> "unreachable", addr |-> dial.addr, left |-> dial.left, peer |-> "none"]
    BY Zenon DEF connect_timeout, ServeInv, DialTyped
  <2> QED
    BY <2>1, Zenon DEF connect_timeout, agent, ServeInv, DialTyped, Listening, Dialled,
       WorkloadFirst, has_identity
<1> QED
  BY <1>1, <1>2, <1>3, <1>4, <1>5, <1>6, <1>7, <1>8, Zenon DEF Dial

\* The other connections, the RPCs and a move: no step breaks the invariant.
LEMMA StepOthers == ServeInv /\ ((\E c \in {"node", "other"} : accept(c)) \/ rpc_opens \/ rpc_ends \/ other_connects \/ moved) => ServeInv'
<1> SUFFICES ASSUME ServeInv PROVE ((\E c \in {"node", "other"} : accept(c)) \/ rpc_opens \/ rpc_ends \/ other_connects \/ moved) => ServeInv'
  BY Zenon
<1>1. (\E c \in {"node", "other"} : accept(c)) => ServeInv'
  BY Zenon DEF agent, accept, ServeInv, DialTyped, Listening, Dialled, WorkloadFirst,
     has_identity
<1>2. rpc_opens => ServeInv'
  BY Zenon DEF rpc_opens, agent, accept, ServeInv, DialTyped, Listening, Dialled, WorkloadFirst,
     has_identity
<1>3. rpc_ends => ServeInv'
  BY DEF rpc_ends, agent, accept, ServeInv, DialTyped, Listening, Dialled, WorkloadFirst,
     has_identity
<1>4. other_connects => ServeInv'
  BY Zenon DEF other_connects, agent, accept, ServeInv, DialTyped, Listening, Dialled,
     WorkloadFirst, has_identity
<1>5. moved => ServeInv'
  BY DEF moved, agent, accept, ServeInv, DialTyped, Listening, Dialled, WorkloadFirst,
     has_identity
<1> QED
  BY <1>1, <1>2, <1>3, <1>4, <1>5, Zenon

-----------------------------------------------------------------------------
(* The theorems                                                            *)

\* Every step of the agent, the node and the network keeps the invariant.
LEMMA StepServe == ServeInv /\ [ServeNext]_serveVars => ServeInv'
<1>1. ServeInv /\ UNCHANGED serveVars => ServeInv'
  BY DEF serveVars, ServeInv, DialTyped, Listening, Dialled, WorkloadFirst, has_identity
<1> QED
  BY <1>1, StepBoot, StepEnds, StepDial, StepOthers, Zenon DEF ServeNext

\* The invariant holds always.
LEMMA AlwaysServe == ServeSpec => []ServeInv
  BY InitServe, StepServe, PTL DEF ServeSpec

\* What this guest takes from the network it takes behind TLS, and the node's channel ends at
\* this instance's guest, whoever holds the address it resolved and however often the two
\* change places (serve.rs network_port, channel.rs connect).
THEOREM ChannelIsPinned == ServeSpec => []Pinned
<1>1. ServeInv => Pinned
  BY Zenon DEF ServeInv, Listening, Dialled, Pinned
<1> QED
  BY <1>1, AlwaysServe, PTL

\* The agent is gone only when its workload is, with the code it ended with
\* (serve.rs child waiter, main.rs).
THEOREM ExitIsTheWorkloads == ServeSpec => []ExitIsWorkloads
<1>1. ServeInv => ExitIsWorkloads
  BY Zenon DEF ServeInv, WorkloadFirst, ExitIsWorkloads
<1> QED
  BY <1>1, AlwaysServe, PTL

-----------------------------------------------------------------------------
(***************************************************************************)
(* The containers.                                                         *)
(*                                                                         *)
(* The invariant speaks of one instance at a time: its row, its container  *)
(* and what the runtime has answered the operation at work.  Every action  *)
(* but a crash, the end of recovery and the sweep changes one instance, so *)
(* the proof of a step is that the instance it changes stays good.         *)
(***************************************************************************)
States == Transitional \cup Terminal \cup {"none", "created", "running", "paused", "stopped"}
Row == [state : States, code : Codes \cup {Absent, Killed}, made : Nat]
Box == [status : {"created", "running", "exited"}, code : Codes \cup {0, Killed},
        runs : 0 .. MaxRuns, node : Nodes]
Names == {container_name(n, i) : n \in Nodes, i \in Ids}

\* An instance of node n, with row r, container b and answer a, is good: the row has its
\* container from the moment it says CREATED until the operation that ends it; the run on
\* record is the container's except while a boot is in flight; what a pause or a stop was
\* answered with is true of the container, before the journal hears of it.
Good(n, r, b, a) ==
    /\ r \in Row /\ b \in Box \cup {NoBox} /\ a \in {"no", "ok", "error"}
    /\ b # NoBox => b.node = n
    /\ b.status = "exited" => b.code \in Codes \cup {Killed}
    /\ a # "no" => r.state \in Transitional
    /\ r.state \in {"created", "running", "paused", "stopped", "pausing", "stopping"}
          => b # NoBox /\ b.runs = r.made
    /\ r.state \in {"starting", "resuming"} => b # NoBox
    /\ r.state \in {"none", "creating"} => r.made = 0
    /\ r.state = "creating" /\ a = "ok" => b # NoBox /\ b.runs = 0
    /\ r.state \in {"pausing", "stopping"} /\ a = "ok" => b.status # "running"
    /\ r.state \in {"paused", "stopped"} => b.status # "running"
    /\ r.state = "stopped" /\ r.code # Absent => r.code = b.code

Shape ==
    /\ row \in [Nodes -> [Ids -> Row]]
    /\ box \in [Names -> Box \cup {NoBox}]
    /\ acted \in [Nodes -> [Ids -> {"no", "ok", "error"}]]
    /\ stage \in [Nodes -> {"serving", "resolving", "sweeping"}]
    /\ swept \in [Nodes -> BOOLEAN]

\* A node that recovers has no operation at work, and one that sweeps has settled every row.
Recovering(n) ==
    /\ stage[n] # "serving" => \A i \in Ids : acted[n][i] = "no"
    /\ stage[n] = "sweeping" => \A i \in Ids : row[n][i].state \notin Transitional

DockerInv ==
    /\ Shape
    /\ \A n \in Nodes, i \in Ids : Good(n, row[n][i], box[<<n, i>>], acted[n][i])
    /\ \A n \in Nodes : Recovering(n)
    /\ NoOrphanAfterSweep

\* The names of two instances, of one node or of two, differ.
LEMMA NamesApart ==
    /\ Names = Nodes \X Ids
    /\ \A n, m \in Nodes, i, j \in Ids : <<n, i>> = <<m, j>> <=> n = m /\ i = j
BY DEF Names, container_name

\* The sets the rows and containers are of do not change.
LEMMA SameShapes == Names' = Names /\ Row' = Row /\ Box' = Box /\ NoBox' = NoBox
BY DEF Names, Row, Box, NoBox, States, container_name

\* At the start there are no rows and no containers.
LEMMA InitDocker == DockerInit => DockerInv
<1> SUFFICES ASSUME DockerInit
             PROVE  DockerInv
  BY Zenon
<1>1. Names = Nodes \X Ids
  BY NamesApart, Zenon
<1>2. [state |-> "none", code |-> Absent, made |-> 0] \in Row
  BY Zenon DEF Row, States
<1>3. Shape
  BY <1>2 DEF DockerInit, Shape, Names
<1>4. \A n \in Nodes, i \in Ids : Good(n, row[n][i], box[<<n, i>>], acted[n][i])
  <2> TAKE n \in Nodes, i \in Ids
  <2>1. row[n][i] = [state |-> "none", code |-> Absent, made |-> 0] /\ acted[n][i] = "no"
    BY Zenon DEF DockerInit
  <2>2. box[<<n, i>>] = NoBox
    BY <1>1 DEF DockerInit, Names
  <2> QED
    BY <1>2, <2>1, <2>2 DEF Good, NoBox, Transitional
<1> QED
  BY <1>3, <1>4, Zenon DEF DockerInv, Recovering, NoOrphanAfterSweep, DockerInit

-----------------------------------------------------------------------------
\* The next state of a step that changes instance i of node n alone.
OneCell(n, i, r, b, a) ==
    /\ row' = [row EXCEPT ![n] = [@ EXCEPT ![i] = r]]
    /\ box' = [box EXCEPT ![<<n, i>>] = b]
    /\ acted' = [acted EXCEPT ![n] = [@ EXCEPT ![i] = a]]
    /\ stage' = stage

\* A step that leaves the one instance it changes good, that starts no operation on a
\* node that recovers, and that leaves no container behind unless the node's sweep is
\* over, keeps the invariant.
LEMMA OneCellKeeps ==
    ASSUME DockerInv, NEW n \in Nodes, NEW i \in Ids, NEW r, NEW b, NEW a,
           OneCell(n, i, r, b, a), Good(n, r, b, a),
           stage[n] # "serving" => a = "no",
           stage[n] = "sweeping" => r.state \notin Transitional,
           swept' \in [Nodes -> BOOLEAN],
           \A m \in Nodes : swept'[m] => swept[m],
           stage[n] = "serving" /\ swept'[n] /\ b # NoBox
              => r.state \notin Terminal \cup {"none"}
    PROVE  DockerInv'
<1>1. Names = Nodes \X Ids /\ <<n, i>> \in Names
  BY NamesApart, Zenon
<1>2. r \in Row /\ b \in Box \cup {NoBox} /\ a \in {"no", "ok", "error"}
  BY Zenon DEF Good
<1>3. /\ row \in [Nodes -> [Ids -> Row]]
      /\ box \in [Names -> Box \cup {NoBox}]
      /\ acted \in [Nodes -> [Ids -> {"no", "ok", "error"}]]
  BY Zenon DEF DockerInv, Shape
<1>4. row'[n][i] = r /\ box'[<<n, i>>] = b /\ acted'[n][i] = a
  BY <1>1, <1>3, Zenon DEF OneCell
<1>5. ASSUME NEW m \in Nodes, NEW j \in Ids, ~(m = n /\ j = i)
      PROVE  /\ row'[m][j] = row[m][j]
             /\ box'[<<m, j>>] = box[<<m, j>>]
             /\ acted'[m][j] = acted[m][j]
  <2>1. <<m, j>> # <<n, i>> /\ <<m, j>> \in Names
    BY <1>1, <1>5, NamesApart, Zenon
  <2>2. box'[<<m, j>>] = box[<<m, j>>]
    BY <1>3, <2>1, Zenon DEF OneCell
  <2>3. row'[m][j] = row[m][j] /\ acted'[m][j] = acted[m][j]
    BY <1>3, <1>5, Zenon DEF OneCell
  <2> QED
    BY <2>2, <2>3, Zenon
<1>6. Shape'
  <2>1. row' \in [Nodes -> [Ids -> Row]]
    BY <1>2, <1>3, Zenon DEF OneCell
  <2>2. box' \in [Names -> Box \cup {NoBox}]
    BY <1>1, <1>2, <1>3, Zenon DEF OneCell
  <2>3. acted' \in [Nodes -> [Ids -> {"no", "ok", "error"}]]
    BY <1>2, <1>3, Zenon DEF OneCell
  <2>4. Names' = Names /\ Row' = Row /\ Box' = Box /\ NoBox' = NoBox
    BY DEF Names, Row, Box, NoBox, States, container_name
  <2> QED
    BY <2>1, <2>2, <2>3, <2>4, Zenon DEF Shape, DockerInv, OneCell
<1>7. ASSUME NEW m \in Nodes, NEW j \in Ids
      PROVE  Good(m, row'[m][j], box'[<<m, j>>], acted'[m][j])
  <2>1. CASE m = n /\ j = i
    BY <1>4, <2>1, Zenon
  <2>2. CASE ~(m = n /\ j = i)
    BY <1>5, <2>2, Zenon DEF DockerInv
  <2> QED
    BY <2>1, <2>2, Zenon
<1>8. ASSUME NEW m \in Nodes
      PROVE  Recovering(m)'
  <2>1. Recovering(m) /\ stage'[m] = stage[m]
    BY Zenon DEF DockerInv, OneCell
  <2>2. ASSUME stage'[m] # "serving", NEW j \in Ids
        PROVE  acted'[m][j] = "no"
    BY <1>4, <1>5, <2>1, <2>2, Zenon DEF Recovering
  <2>3. ASSUME stage'[m] = "sweeping", NEW j \in Ids
        PROVE  row'[m][j].state \notin Transitional
    BY <1>4, <1>5, <2>1, <2>3, Zenon DEF Recovering
  <2> QED
    BY <2>2, <2>3, Zenon DEF Recovering, Transitional
<1>9. NoOrphanAfterSweep'
  <2> SUFFICES ASSUME NEW m \in Nodes, stage'[m] = "serving", swept'[m], NEW j \in Ids,
                      box'[<<m, j>>] # NoBox
               PROVE  row'[m][j].state \notin Terminal \cup {"none"}
    BY Zenon DEF NoOrphanAfterSweep, Named, container_name, NoBox, Terminal
  <2>1. stage[m] = "serving" /\ swept[m]
    BY Zenon DEF OneCell
  <2>2. CASE m = n /\ j = i
    BY <1>4, <2>1, <2>2, Zenon
  <2>3. CASE ~(m = n /\ j = i)
    BY <1>5, <2>1, <2>3, Zenon DEF DockerInv, NoOrphanAfterSweep, Named, container_name
  <2> QED
    BY <2>2, <2>3, Zenon
<1> QED
  BY <1>6, <1>7, <1>8, <1>9, Zenon DEF DockerInv, Good

\* Submitting an operation moves a row to a state whose demands its old state met.
LEMMA SubmitKeeps ==
    ASSUME DockerInv, NEW n \in Nodes, NEW i \in Ids, NEW to \in Transitional,
           submit(n, i, to)
    PROVE  DockerInv'
<1> DEFINE r == row[n][i]
           b == box[<<n, i>>]
           s == [r EXCEPT !.state = to]
<1>1. Good(n, r, b, "no") /\ <<n, i>> \in Names
  BY NamesApart DEF DockerInv, submit
<1>2. s = [state |-> to, code |-> r.code, made |-> r.made] /\ s \in Row
  BY <1>1 DEF Good, Row, States
<1>3. OneCell(n, i, s, b, "no")
  BY <1>1, Zenon DEF submit, OneCell, DockerInv, Shape
<1>4. to \in Entered(r.state)
  BY Zenon DEF submit
<1>5. Good(n, s, b, "no")
  <2> HIDE DEF r, b, s
  <2> QED
    BY <1>1, <1>2, <1>4, Zenon DEF Good, Entered, Transitional
<1>6. to \notin Terminal \cup {"none"}
  BY Zenon DEF Transitional, Terminal
<1> HIDE DEF r, b
<1> QED
  BY <1>2, <1>3, <1>5, <1>6, OneCellKeeps, Zenon DEF submit, DockerInv, Shape

\* What a call of the daemon does to a good instance whose row is in a transitional state,
\* and what it may be answered with afterwards.
LEMMA CallGood ==
    ASSUME NEW n \in Nodes, NEW i \in Ids, NEW r, MaxRuns \in Nat,
           Good(n, r, box[<<n, i>>], "no"), box \in [Names -> Box \cup {NoBox}],
           Call(n, i, r.state)
    PROVE  \E b : /\ box' = [box EXCEPT ![<<n, i>>] = b]
                  /\ Good(n, r, b, "ok")
                  /\ Good(n, r, b, "error")
<1> DEFINE c == box[<<n, i>>]
<1>1. <<n, i>> \in Names /\ Named(n, i) = c /\ c \in Box \cup {NoBox}
  BY NamesApart, Zenon DEF Named, container_name, Good
<1>2. r \in Row
  BY Zenon DEF Good
<1>3. CASE r.state = "creating"
  <2> DEFINE b == [status |-> "created", code |-> 0, runs |-> 0, node |-> n]
  <2>1. box' = [box EXCEPT ![<<n, i>>] = b]
    BY <1>3, Zenon DEF Call, create, SetBox, container_name
  <2>2. b \in Box /\ b # NoBox
    BY DEF Box, NoBox
  <2>3. Good(n, r, b, "ok") /\ Good(n, r, b, "error")
    BY <1>2, <1>3, <2>2, Zenon DEF Good, Transitional
  <2> HIDE DEF b
  <2> QED
    BY <2>1, <2>3, Zenon
<1>4. CASE r.state \in {"starting", "resuming"}
  <2> DEFINE b == IF c.status = "running" THEN c
                  ELSE [c EXCEPT !.status = "running", !.runs = @ + 1, !.code = 0]
  <2>1. box' = [box EXCEPT ![<<n, i>>] = b] /\ c # NoBox /\ c.runs < MaxRuns
    BY <1>1, <1>4, Zenon DEF Call, start, SetBox, container_name
  <2>2. c \in Box /\ c.node = n /\ (c.status = "exited" => c.code \in Codes \cup {Killed})
    BY <1>1, <2>1, Zenon DEF Good
  <2>3. CASE c.status = "running"
    <3>1. b = c
      BY <2>3, Zenon
    <3>2. Good(n, r, c, "ok") /\ Good(n, r, c, "error")
      BY <1>2, <1>4, <2>1, <2>2, Zenon DEF Good, Transitional
    <3> QED
      BY <2>1, <3>1, <3>2, Zenon
  <2>4. CASE c.status # "running"
    <3>1. b = [status |-> "running", code |-> 0, runs |-> c.runs + 1, node |-> c.node]
      BY <2>2, <2>4, Zenon DEF Box
    <3>2. b \in Box /\ b # NoBox /\ b.node = n /\ b.status = "running"
      BY <2>1, <2>2, <3>1 DEF Box, NoBox
    <3> HIDE DEF b
    <3>3. Good(n, r, b, "ok") /\ Good(n, r, b, "error")
      BY <1>2, <1>4, <3>2, Zenon DEF Good, Transitional
    <3> QED
      BY <2>1, <3>3, Zenon
  <2> QED
    BY <2>3, <2>4, Zenon
<1>5. CASE r.state \in {"pausing", "stopping"}
  <2> DEFINE b == IF c.status = "running" THEN [c EXCEPT !.status = "exited", !.code = Killed]
                  ELSE c
  <2>1. box' = [box EXCEPT ![<<n, i>>] = b] /\ c # NoBox
    BY <1>1, <1>5, Zenon DEF Call, pause, stop, SetBox, container_name
  <2>2. /\ c \in Box /\ c.node = n /\ c.runs = r.made
        /\ c.status = "exited" => c.code \in Codes \cup {Killed}
    BY <1>1, <1>5, <2>1, Zenon DEF Good
  <2>3. CASE c.status = "running"
    <3>1. b = [status |-> "exited", code |-> Killed, runs |-> c.runs, node |-> c.node]
      BY <2>2, <2>3, Zenon DEF Box
    <3>2. /\ b \in Box /\ b # NoBox /\ b.node = n /\ b.status = "exited"
          /\ b.code = Killed /\ b.runs = r.made
      BY <2>2, <3>1 DEF Box, NoBox
    <3> HIDE DEF b
    <3>3. Good(n, r, b, "ok") /\ Good(n, r, b, "error")
      BY <1>2, <1>5, <3>2, Zenon DEF Good, Transitional
    <3> QED
      BY <2>1, <3>3, Zenon
  <2>4. CASE c.status # "running"
    <3>1. b = c
      BY <2>4, Zenon
    <3>2. Good(n, r, c, "ok") /\ Good(n, r, c, "error")
      BY <1>2, <1>5, <2>1, <2>2, <2>4, Zenon DEF Good, Transitional
    <3> QED
      BY <2>1, <3>1, <3>2, Zenon
  <2> QED
    BY <2>3, <2>4, Zenon
<1>6. CASE r.state = "destroying"
  <2>1. box' = [box EXCEPT ![<<n, i>>] = NoBox]
    BY <1>6, Zenon DEF Call, destroy, SetBox, container_name
  <2>2. Good(n, r, NoBox, "ok") /\ Good(n, r, NoBox, "error")
    BY <1>2, <1>6, Zenon DEF Good, NoBox, Transitional
  <2> QED
    BY <2>1, <2>2, Zenon
<1> QED
  BY <1>3, <1>4, <1>5, <1>6, Zenon DEF Call

\* The runtime's turn: a call that was made, whatever the answer, or none at all.
LEMMA ExecuteKeeps ==
    ASSUME DockerInv, MaxRuns \in Nat, NEW n \in Nodes, NEW i \in Ids,
           NEW answer \in {"ok", "failed", "lost"}, execute(n, i, answer)
    PROVE  DockerInv'
<1> DEFINE r == row[n][i]
           a == IF answer = "ok" THEN "ok" ELSE "error"
<1>1. /\ Good(n, r, box[<<n, i>>], "no") /\ <<n, i>> \in Names
      /\ r \in Row /\ r.state \in Transitional
  BY NamesApart, Zenon DEF DockerInv, execute, Good
<1>2. r.state \notin Terminal \cup {"none"}
  BY <1>1, Zenon DEF Transitional, Terminal
<1>3. \E b : /\ box' = [box EXCEPT ![<<n, i>>] = b]
             /\ Good(n, r, b, a)
  <2>1. CASE answer = "failed"
    <3>1. box' = [box EXCEPT ![<<n, i>>] = box[<<n, i>>]]
      BY <1>1, <2>1, Zenon DEF execute, DockerInv, Shape
    <3>2. Good(n, r, box[<<n, i>>], "error")
      BY <1>1, Zenon DEF Good
    <3> QED
      BY <2>1, <3>1, <3>2, Zenon
  <2>2. CASE answer # "failed"
    <3>1. Call(n, i, r.state) /\ box \in [Names -> Box \cup {NoBox}]
      BY <2>2, Zenon DEF execute, DockerInv, Shape
    <3> HIDE DEF r
    <3> QED
      BY <1>1, <3>1, CallGood, Zenon
  <2> QED
    BY <2>1, <2>2, Zenon
<1>4. PICK b : box' = [box EXCEPT ![<<n, i>>] = b] /\ Good(n, r, b, a)
  BY <1>3, Zenon
<1>5. OneCell(n, i, r, b, a)
  BY <1>1, <1>4, Zenon DEF OneCell, execute, DockerInv, Shape
<1>6. swept' = swept /\ stage[n] = "serving" /\ swept \in [Nodes -> BOOLEAN]
  BY Zenon DEF execute, DockerInv, Shape
<1> HIDE DEF r, a
<1> QED
  BY <1>2, <1>4, <1>5, <1>6, OneCellKeeps, Zenon

\* The outcome is written: what the journal says next is what the runtime has done.
LEMMA FinalizeKeeps ==
    ASSUME DockerInv, NEW n \in Nodes, NEW i \in Ids, NEW reached \in BOOLEAN,
           finalize(n, i, reached)
    PROVE  DockerInv'
<1> DEFINE r == row[n][i]
           c == box[<<n, i>>]
           a == acted[n][i]
           to == IF a = "ok" THEN Success(r.state) ELSE "failed"
           runs == IF to \in Terminal \/ c = NoBox THEN 0
                   ELSE IF to = "running" THEN c.runs ELSE r.made
           exit == IF to = "stopped" THEN stop_reason(n, i, reached) ELSE Absent
           s == [state |-> to, code |-> exit, made |-> runs]
           b == IF to = "failed" /\ r.state = "creating" /\ reached THEN NoBox ELSE c
<1>1. /\ Good(n, r, c, a) /\ <<n, i>> \in Names /\ a \in {"ok", "error"}
      /\ r \in Row /\ r.state \in Transitional /\ c \in Box \cup {NoBox}
  <2>1. Good(n, r, c, a)
    BY Zenon DEF DockerInv
  <2>2. <<n, i>> \in Names
    BY NamesApart
  <2>3. a # "no"
    BY Zenon DEF finalize
  <2> HIDE DEF r, c, a
  <2> QED
    BY <2>1, <2>2, <2>3 DEF Good
<1>2. c # NoBox => c \in Box /\ c.runs \in Nat
  BY <1>1 DEF Box
<1>3. /\ to \in {"created", "running", "paused", "stopped", "destroyed", "failed"}
      /\ to \in States /\ to \notin Transitional \cup {"none"}
  BY Zenon DEF Success, States, Terminal, Transitional
<1>4. /\ exit \in Codes \cup {Absent, Killed}
      /\ exit # Absent => to = "stopped" /\ exit = c.code
  BY <1>1, Zenon DEF stop_reason, stop_status, Named, container_name, Good
<1>5. /\ to = "created" => r.state = "creating" /\ a = "ok"
      /\ to = "running" => r.state \in {"starting", "resuming"} /\ a = "ok"
      /\ to = "paused" => r.state = "pausing" /\ a = "ok"
      /\ to = "stopped" => r.state = "stopping" /\ a = "ok"
  BY <1>1, Zenon DEF Success
<1>6. s \in Row
  <2>1. runs \in Nat
    BY <1>1, <1>2, Zenon DEF Row
  <2> HIDE DEF to, runs, exit
  <2> QED
    BY <1>3, <1>4, <2>1, Zenon DEF Row
<1>7. row' = [row EXCEPT ![n] = [@ EXCEPT ![i] = s]]
  <2>1. r = [state |-> r.state, code |-> r.code, made |-> r.made]
    BY <1>1, Zenon DEF Row
  <2>2. row' = [row EXCEPT ![n][i].state = to, ![n][i].made = runs, ![n][i].code = exit]
    BY Zenon DEF finalize, Named, container_name
  <2>3. row \in [Nodes -> [Ids -> Row]] /\ row[n] \in [Ids -> Row]
    BY Zenon DEF DockerInv, Shape
  <2> HIDE DEF to, runs, exit, r
  <2> DEFINE q == [[[r EXCEPT !.state = to] EXCEPT !.made = runs] EXCEPT !.code = exit]
  <2>4. q = s
    <3>1. r \in Row /\ to \in States /\ runs \in Nat /\ exit \in Codes \cup {Absent, Killed}
      BY <1>1, <1>3, <1>4, <1>6, Zenon DEF Row
    <3>2. q \in Row /\ q.state = to /\ q.made = runs /\ q.code = exit
      BY <3>1, Zenon DEF Row
    <3> HIDE DEF q
    <3> QED
      BY <3>2, Zenon DEF Row
  <2> HIDE DEF q, s
  <2>5. row' = [row EXCEPT ![n] = [@ EXCEPT ![i] = q]]
    BY <2>2, <2>3, Zenon DEF q, r
  <2> QED
    BY <2>4, <2>5, Zenon
<1>8. box' = [box EXCEPT ![<<n, i>>] = b]
  <2>1. box = [box EXCEPT ![<<n, i>>] = c]
    BY <1>1, Zenon DEF DockerInv, Shape
  <2> QED
    BY <2>1, Zenon DEF finalize, destroy, SetBox, container_name
<1>9. OneCell(n, i, s, b, "no")
  BY <1>7, <1>8, Zenon DEF finalize, OneCell
<1>10. Good(n, s, b, "no")
  <2>1. s.state = to /\ s.code = exit /\ s.made = runs
    BY Zenon
  <2>2. b \in Box \cup {NoBox} /\ (to # "failed" => b = c) /\ (b # NoBox => b = c)
    BY <1>1, Zenon
  <2>3. to \in {"created", "paused", "stopped"} => c # NoBox /\ c.runs = r.made /\ runs = r.made
    BY <1>1, <1>5, Zenon DEF Good, Terminal, Row
  <2>4. to = "running" => c # NoBox /\ runs = c.runs
    BY <1>1, <1>5, Zenon DEF Good, Terminal
  <2>5. to \in {"paused", "stopped"} => c.status # "running"
    BY <1>1, <1>5, Zenon DEF Good
  <2>6. /\ b # NoBox => b.node = n
        /\ b.status = "exited" => b.code \in Codes \cup {Killed}
    BY <1>1, <2>2, Zenon DEF Good, NoBox
  <2> HIDE DEF to, runs, exit, s, b, c, r, a
  <2> QED
    BY <1>3, <1>4, <1>6, <2>1, <2>2, <2>3, <2>4, <2>5, <2>6, Zenon DEF Good, Transitional
<1>11. /\ stage[n] = "serving"
       /\ swept' = [swept EXCEPT ![n] = @ /\ ~(to \in Terminal)]
       /\ swept \in [Nodes -> BOOLEAN]
  BY Zenon DEF finalize, DockerInv, Shape
<1>12. /\ swept' \in [Nodes -> BOOLEAN]
       /\ \A m \in Nodes : swept'[m] => swept[m]
       /\ swept'[n] => to \notin Terminal
  <2> HIDE DEF to
  <2> QED
    BY <1>11, Zenon
<1>13. s.state = to
  BY Zenon
<1> HIDE DEF to, runs, exit, s, b, c, r, a
<1> QED
  BY <1>3, <1>9, <1>10, <1>11, <1>12, <1>13, OneCellKeeps, Zenon

\* A workload that ends by itself was running, so its row is not one that says otherwise.
LEMMA ExitKeeps ==
    ASSUME DockerInv, NEW n \in Nodes, NEW i \in Ids, NEW exit \in Codes,
           workload_exits(<<n, i>>, exit)
    PROVE  DockerInv'
<1> DEFINE r == row[n][i]
           c == box[<<n, i>>]
           a == acted[n][i]
           b == [c EXCEPT !.status = "exited", !.code = exit]
<1>1. /\ Good(n, r, c, a) /\ <<n, i>> \in Names /\ c.status = "running"
  BY NamesApart, Zenon DEF DockerInv, workload_exits
<1>2. c \in Box /\ c # NoBox
  BY <1>1 DEF Good, NoBox
<1>3. b = [status |-> "exited", code |-> exit, runs |-> c.runs, node |-> c.node]
  <2> HIDE DEF c
  <2>1. b \in Box
    BY <1>2, Zenon DEF Box
  <2>2. b.status = "exited" /\ b.code = exit /\ b.runs = c.runs /\ b.node = c.node
    BY <1>2, Zenon DEF Box
  <2> HIDE DEF b
  <2> QED
    BY <2>1, <2>2, Zenon DEF Box
<1>4. b \in Box /\ b # NoBox
  BY <1>2, <1>3, Zenon DEF Box, NoBox
<1>5. Good(n, r, b, a)
  <2>1. b.status = "exited" /\ b.code = exit /\ b.runs = c.runs /\ b.node = c.node
    BY <1>3, Zenon
  <2> HIDE DEF b, c, r, a
  <2> QED
    BY <1>1, <1>2, <1>4, <2>1, Zenon DEF Good
<1>6. OneCell(n, i, r, b, a)
  <2>1. box' = [box EXCEPT ![<<n, i>>] = b]
    BY <1>1, Zenon DEF workload_exits, DockerInv, Shape
  <2> HIDE DEF b
  <2>2. /\ row' = row /\ row \in [Nodes -> [Ids -> Row]] /\ row[n] \in [Ids -> Row]
        /\ acted' = acted /\ acted \in [Nodes -> [Ids -> {"no", "ok", "error"}]]
        /\ acted[n] \in [Ids -> {"no", "ok", "error"}] /\ stage' = stage
    BY Zenon DEF workload_exits, DockerInv, Shape
  <2>3. row = [row EXCEPT ![n] = [@ EXCEPT ![i] = r]]
    BY <2>2, Zenon
  <2>4. acted = [acted EXCEPT ![n] = [@ EXCEPT ![i] = a]]
    BY <2>2, Zenon
  <2> QED
    BY <2>1, <2>2, <2>3, <2>4, Zenon DEF OneCell
<1>7. /\ stage[n] # "serving" => a = "no"
      /\ stage[n] = "sweeping" => r.state \notin Transitional
      /\ swept' = swept /\ swept \in [Nodes -> BOOLEAN]
      /\ stage[n] = "serving" /\ swept[n] => r.state \notin Terminal \cup {"none"}
  BY <1>2, Zenon DEF DockerInv, Shape, Recovering, workload_exits, NoOrphanAfterSweep, Named,
              container_name
<1> HIDE DEF b, c, r, a
<1> QED
  BY <1>5, <1>6, <1>7, OneCellKeeps, Zenon

\* Recovery of one row: only a stop that is known to have been repeated leaves the row
\* with a container to answer for.
LEMMA ResolveKeeps ==
    ASSUME DockerInv, NEW n \in Nodes, NEW i \in Ids,
           NEW answer \in {"ok", "failed", "lost"}, resolve(n, i, answer)
    PROVE  DockerInv'
<1> DEFINE r == row[n][i]
           c == box[<<n, i>>]
           stops == r.state = "stopping" /\ c # NoBox
           to == IF stops /\ answer = "ok" THEN "stopped"
                 ELSE IF r.state = "destroying" THEN "destroyed" ELSE "failed"
           s == [code |-> Absent, state |-> to, made |-> IF to = "stopped" THEN r.made ELSE 0]
           halted == IF c.status = "running" THEN [c EXCEPT !.status = "exited", !.code = Killed]
                     ELSE c
<1>1. /\ Good(n, r, c, "no") /\ acted[n][i] = "no" /\ <<n, i>> \in Names
      /\ r \in Row /\ r.state \in Transitional /\ c \in Box \cup {NoBox}
      /\ stage[n] = "resolving" /\ Named(n, i) = c
  BY NamesApart, Zenon DEF DockerInv, resolve, Good, Recovering, Named, container_name
<1>2. s \in Row
  BY <1>1, Zenon DEF Row, States, Terminal
<1>3. row' = [row EXCEPT ![n] = [@ EXCEPT ![i] = s]]
  BY <1>1, Zenon DEF resolve, DockerInv, Shape
<1>4. s.state = to /\ s.code = Absent /\ (to = "stopped" => s.made = r.made)
  BY Zenon
<1>5. c # NoBox => /\ halted \in Box /\ halted # NoBox
                   /\ halted.node = n /\ halted.runs = c.runs /\ halted.status # "running"
                   /\ halted.status = "exited" => halted.code \in Codes \cup {Killed}
  <2> SUFFICES ASSUME c # NoBox
               PROVE  /\ halted \in Box /\ halted # NoBox
                      /\ halted.node = n /\ halted.runs = c.runs /\ halted.status # "running"
                      /\ halted.status = "exited" => halted.code \in Codes \cup {Killed}
    BY Zenon
  <2>1. c \in Box /\ c.node = n /\ (c.status = "exited" => c.code \in Codes \cup {Killed})
    BY <1>1, Zenon DEF Good
  <2> HIDE DEF c
  <2>2. CASE c.status = "running"
    <3>1. halted = [status |-> "exited", code |-> Killed, runs |-> c.runs, node |-> c.node]
      BY <2>1, <2>2, Zenon DEF Box
    <3> QED
      BY <2>1, <3>1, Zenon DEF Box, NoBox
  <2>3. CASE c.status # "running"
    BY <2>1, <2>3, Zenon
  <2> QED
    BY <2>2, <2>3, Zenon
<1>6. \E b \in {c, NoBox, halted} :
         /\ box' = [box EXCEPT ![<<n, i>>] = b]
         /\ to = "stopped" => b = halted /\ c # NoBox
         /\ b = halted => b = c \/ c # NoBox
  <2>1. box = [box EXCEPT ![<<n, i>>] = c]
    BY <1>1, Zenon DEF DockerInv, Shape
  <2>2. CASE answer = "failed"
    BY <2>1, <2>2, Zenon DEF resolve
  <2>3. CASE answer # "failed" /\ stops
    <3>1. stop(n, i)
      BY <1>1, <2>3, Zenon DEF resolve
    <3>2. box' = [box EXCEPT ![<<n, i>>] = halted] /\ c # NoBox
      BY <1>1, <3>1, Zenon DEF stop, SetBox, container_name
    <3> HIDE DEF halted, to, stops, c
    <3> QED
      BY <3>2, Zenon
  <2>4. CASE answer # "failed" /\ ~stops /\ r.state = "stopping"
    <3>1. UNCHANGED box
      BY <1>1, <2>4 DEF resolve
    <3>2. to # "stopped"
      BY <2>4, Zenon
    <3> HIDE DEF halted, to, stops, c
    <3> QED
      BY <2>1, <3>1, <3>2, Zenon
  <2>5. CASE answer # "failed" /\ r.state # "stopping"
    <3>1. destroy(n, i)
      BY <1>1, <2>5, Zenon DEF resolve
    <3>2. box' = [box EXCEPT ![<<n, i>>] = NoBox]
      BY <3>1, Zenon DEF destroy, SetBox, container_name
    <3>3. to # "stopped"
      BY <2>5, Zenon
    <3>4. NoBox = halted => NoBox = c \/ c # NoBox
      BY Zenon
    <3> HIDE DEF halted, to, stops, c
    <3> QED
      BY <3>2, <3>3, <3>4, Zenon
  <2> QED
    BY <2>2, <2>3, <2>4, <2>5, Zenon
<1>7. PICK b \in {c, NoBox, halted} :
         /\ box' = [box EXCEPT ![<<n, i>>] = b]
         /\ to = "stopped" => b = halted /\ c # NoBox
         /\ b = halted => b = c \/ c # NoBox
  BY <1>6, Zenon
<1>8. OneCell(n, i, s, b, "no")
  BY <1>1, <1>3, <1>7 DEF resolve, OneCell, DockerInv, Shape
<1>9. /\ to \in {"stopped", "destroyed", "failed"}
      /\ to = "stopped" => r.state = "stopping"
      /\ to \notin Transitional
  BY Zenon DEF Transitional
<1>10. Good(n, s, b, "no")
  <2>1. /\ b \in Box \cup {NoBox}
        /\ b # NoBox => b.node = n
        /\ b.status = "exited" => b.code \in Codes \cup {Killed}
    <3> HIDE DEF halted, c
    <3> QED
      BY <1>1, <1>5, <1>7 DEF Good, NoBox
  <2>2. to = "stopped" => b # NoBox /\ b.runs = s.made /\ b.status # "running"
    <3> HIDE DEF halted, c, to, s
    <3> QED
      BY <1>1, <1>4, <1>5, <1>7, <1>9, Zenon DEF Good
  <2> HIDE DEF halted, c, to, s, r, stops
  <2> QED
    BY <1>2, <1>4, <1>9, <2>1, <2>2, Zenon DEF Good
<1>11. swept' = swept /\ swept \in [Nodes -> BOOLEAN]
  BY Zenon DEF resolve, DockerInv, Shape
<1> HIDE DEF halted, c, to, s, r, stops
<1> QED
  BY <1>1, <1>4, <1>8, <1>9, <1>10, <1>11, OneCellKeeps, Zenon

\* A crash loses the answers that were not written yet; the rows stay as demanding as
\* they were, for no row demands an answer.
LEMMA CrashKeeps ==
    ASSUME DockerInv, NEW n \in Nodes, crash(n)
    PROVE  DockerInv'
<1>1. Shape'
  <2>1. /\ row' \in [Nodes -> [Ids -> Row]] /\ box' \in [Names -> Box \cup {NoBox}]
        /\ swept' \in [Nodes -> BOOLEAN]
    BY Zenon DEF DockerInv, Shape, crash
  <2>2. acted' \in [Nodes -> [Ids -> {"no", "ok", "error"}]]
    BY Zenon DEF DockerInv, Shape, crash
  <2>3. stage' \in [Nodes -> {"serving", "resolving", "sweeping"}]
    BY Zenon DEF DockerInv, Shape, crash
  <2> QED
    BY <2>1, <2>2, <2>3, SameShapes, Zenon DEF Shape
<1>2. ASSUME NEW m \in Nodes, NEW i \in Ids
      PROVE  Good(m, row'[m][i], box'[<<m, i>>], acted'[m][i])
  <2>1. /\ row'[m][i] = row[m][i] /\ box'[<<m, i>>] = box[<<m, i>>]
        /\ acted'[m][i] = acted[m][i] \/ acted'[m][i] = "no"
    BY Zenon DEF DockerInv, Shape, crash
  <2>2. Good(m, row[m][i], box[<<m, i>>], acted[m][i])
    BY Zenon DEF DockerInv
  <2>3. Good(m, row[m][i], box[<<m, i>>], "no")
    <3> DEFINE r == row[m][i]
               c == box[<<m, i>>]
               a == acted[m][i]
    <3>1. Good(m, r, c, a)
      BY <2>2, Zenon
    <3> HIDE DEF r, c, a
    <3>2. Good(m, r, c, "no")
      BY <3>1, Zenon DEF Good
    <3> QED
      BY <3>2, Zenon DEF r, c
  <2> QED
    BY <2>1, <2>2, <2>3, Zenon
<1>3. ASSUME NEW m \in Nodes
      PROVE  Recovering(m)'
  <2>1. CASE m = n
    BY <2>1, Zenon DEF DockerInv, Shape, Recovering, crash
  <2>2. CASE m # n
    BY <2>2, Zenon DEF DockerInv, Shape, Recovering, crash, Transitional
  <2> QED
    BY <2>1, <2>2, Zenon
<1>4. NoOrphanAfterSweep'
  <2> SUFFICES ASSUME NEW m \in Nodes, stage'[m] = "serving", swept'[m], NEW i \in Ids,
                      box'[<<m, i>>] # NoBox
               PROVE  row'[m][i].state \notin Terminal \cup {"none"}
    BY Zenon DEF NoOrphanAfterSweep, Named, container_name, NoBox, Terminal
  <2>1. m # n /\ stage[m] = "serving" /\ swept[m] /\ row' = row /\ box' = box
    BY Zenon DEF DockerInv, Shape, crash
  <2> QED
    BY <2>1, Zenon DEF DockerInv, NoOrphanAfterSweep, Named, container_name
<1> QED
  BY <1>1, <1>2, <1>3, <1>4, Zenon DEF DockerInv, Good

\* Every row is settled: the node goes on to its sweep.
LEMMA ResolvedKeeps ==
    ASSUME DockerInv, NEW n \in Nodes, resolved(n)
    PROVE  DockerInv'
<1>1. Shape'
  <2>1. /\ row' \in [Nodes -> [Ids -> Row]] /\ box' \in [Names -> Box \cup {NoBox}]
        /\ swept' \in [Nodes -> BOOLEAN]
    BY Zenon DEF DockerInv, Shape, resolved
  <2>2. acted' \in [Nodes -> [Ids -> {"no", "ok", "error"}]]
    BY Zenon DEF DockerInv, Shape, resolved
  <2>3. stage' \in [Nodes -> {"serving", "resolving", "sweeping"}]
    BY Zenon DEF DockerInv, Shape, resolved
  <2> QED
    BY <2>1, <2>2, <2>3, SameShapes, Zenon DEF Shape
<1>2. ASSUME NEW m \in Nodes
      PROVE  Recovering(m)'
  <2>1. CASE m = n
    BY <2>1, Zenon DEF DockerInv, Shape, Recovering, resolved, Transitional
  <2>2. CASE m # n
    BY <2>2, Zenon DEF DockerInv, Shape, Recovering, resolved, Transitional
  <2> QED
    BY <2>1, <2>2, Zenon
<1>3. NoOrphanAfterSweep'
  <2> SUFFICES ASSUME NEW m \in Nodes, stage'[m] = "serving", swept'[m], NEW i \in Ids,
                      box'[<<m, i>>] # NoBox
               PROVE  row'[m][i].state \notin Terminal \cup {"none"}
    BY Zenon DEF NoOrphanAfterSweep, Named, container_name, NoBox, Terminal
  <2>1. stage[m] = "serving" /\ swept[m] /\ row' = row /\ box' = box
    BY Zenon DEF DockerInv, Shape, resolved
  <2> QED
    BY <2>1, Zenon DEF DockerInv, NoOrphanAfterSweep, Named, container_name
<1>4. \A m \in Nodes, i \in Ids : Good(m, row'[m][i], box'[<<m, i>>], acted'[m][i])
  BY Zenon DEF DockerInv, resolved
<1> QED
  BY <1>1, <1>2, <1>3, <1>4, Zenon DEF DockerInv, Good

\* The sweep removes nothing of another node, whose label differs, and of its own node
\* only what no live row names; when all of that went away, nothing else is left.
LEMMA SweepKeeps ==
    ASSUME DockerInv, NEW n \in Nodes, NEW listed \in BOOLEAN, NEW gone,
           sweep(n, listed, gone)
    PROVE  DockerInv'
<1>1. /\ Names = Nodes \X Ids /\ DOMAIN box = Names
      /\ box \in [Names -> Box \cup {NoBox}] /\ swept \in [Nodes -> BOOLEAN]
      /\ stage \in [Nodes -> {"serving", "resolving", "sweeping"}]
  BY NamesApart, Zenon DEF DockerInv, Shape
<1>2. row' = row /\ acted' = acted /\ stage[n] = "sweeping" /\ stage' = [stage EXCEPT ![n] = "serving"]
  BY Zenon DEF sweep
<1>3. box' \in [Names -> Box \cup {NoBox}]
  BY <1>1, Zenon DEF sweep
<1>4. ASSUME NEW m \in Nodes, NEW i \in Ids
      PROVE  /\ \/ box'[<<m, i>>] = box[<<m, i>>]
                \/ box'[<<m, i>>] = NoBox /\ <<m, i>> \in list_labeled(n) \ known(n)
             /\ <<m, i>> \in (list_labeled(n) \ known(n)) /\ <<m, i>> \in gone /\ listed
                   => box'[<<m, i>>] = NoBox
  <2>1. <<m, i>> \in DOMAIN box
    BY <1>1, Zenon
  <2> QED
    BY <2>1, Zenon DEF sweep
<1>5. ASSUME NEW m \in Nodes, NEW i \in Ids
      PROVE  /\ <<m, i>> \in list_labeled(n) => m = n
             /\ box[<<n, i>>] # NoBox => <<n, i>> \in list_labeled(n)
             /\ <<n, i>> \in known(n) <=> row[n][i].state \notin Terminal \cup {"none"}
  <2>1. <<m, i>> \in DOMAIN box /\ <<n, i>> \in DOMAIN box
    BY <1>1, Zenon
  <2>2. /\ box[<<m, i>>] # NoBox => box[<<m, i>>].node = m
        /\ box[<<n, i>>] # NoBox => box[<<n, i>>].node = n
    BY Zenon DEF DockerInv, Good
  <2>3. <<n, i>> \in known(n) <=> row[n][i].state \notin Terminal \cup {"none"}
    BY Zenon DEF known, container_name
  <2> QED
    BY <2>1, <2>2, <2>3, Zenon DEF list_labeled
<1>6. Shape'
  <2>1. Names' = Names /\ Row' = Row /\ Box' = Box /\ NoBox' = NoBox
    BY SameShapes, Zenon
  <2>2. swept' \in [Nodes -> BOOLEAN]
    BY <1>1, Zenon DEF sweep
  <2>3. stage' \in [Nodes -> {"serving", "resolving", "sweeping"}]
    BY <1>1, <1>2, Zenon
  <2> QED
    BY <1>2, <1>3, <2>1, <2>2, <2>3, Zenon DEF DockerInv, Shape
<1>7. ASSUME NEW m \in Nodes, NEW i \in Ids
      PROVE  Good(m, row'[m][i], box'[<<m, i>>], acted'[m][i])
  <2>1. Good(m, row[m][i], box[<<m, i>>], acted[m][i])
    BY Zenon DEF DockerInv
  <2>2. CASE box'[<<m, i>>] = box[<<m, i>>]
    BY <1>2, <2>1, <2>2, Zenon
  <2>3. CASE box'[<<m, i>>] = NoBox /\ <<m, i>> \in list_labeled(n) \ known(n)
    <3>1. m = n /\ row[m][i].state \in Terminal \cup {"none"}
      BY <1>5, <2>3, Zenon
    <3>2. acted[m][i] = "no"
      BY <1>2, <3>1, Zenon DEF DockerInv, Recovering
    <3> QED
      <4>1. row'[m][i] = row[m][i] /\ acted'[m][i] = "no" /\ box'[<<m, i>>] = NoBox
        BY <1>2, <2>3, <3>2, Zenon
      <4>2. Good(m, row[m][i], NoBox, "no")
        <5> DEFINE r == row[m][i]
        <5>1. /\ r \in Row /\ (r.state \in {"none", "creating"} => r.made = 0)
              /\ r.state \in {"destroyed", "failed", "none"}
          BY <2>1, <3>1, Zenon DEF Good, Terminal
        <5> HIDE DEF r
        <5>2. Good(m, r, NoBox, "no")
          BY <5>1 DEF Good, NoBox
        <5> QED
          BY <5>2, Zenon DEF r
      <4> QED
        BY <4>1, <4>2, Zenon
  <2> QED
    BY <1>4, <2>2, <2>3, Zenon
<1>8. ASSUME NEW m \in Nodes
      PROVE  Recovering(m)'
  <2>1. CASE m = n
    BY <1>1, <1>2, <2>1, Zenon DEF Recovering
  <2>2. CASE m # n
    BY <1>1, <1>2, <2>2, Zenon DEF DockerInv, Recovering, Transitional
  <2> QED
    BY <2>1, <2>2, Zenon
<1>9. NoOrphanAfterSweep'
  <2> SUFFICES ASSUME NEW m \in Nodes, stage'[m] = "serving", swept'[m], NEW i \in Ids,
                      box'[<<m, i>>] # NoBox
               PROVE  row[m][i].state \notin Terminal \cup {"none"}
    BY <1>2, Zenon DEF NoOrphanAfterSweep, Named, container_name, NoBox, Terminal
  <2>1. box[<<m, i>>] # NoBox /\ box'[<<m, i>>] = box[<<m, i>>]
    BY <1>4, Zenon
  <2>2. CASE m = n
    <3>1. listed /\ list_labeled(n) \ known(n) \subseteq gone
      BY <1>1, <2>2, Zenon DEF sweep
    <3>2. <<m, i>> \notin list_labeled(n) \ known(n)
      BY <1>4, <3>1, Zenon
    <3> QED
      BY <1>5, <2>1, <2>2, <3>2, Zenon
  <2>3. CASE m # n
    <3>1. stage[m] = "serving" /\ swept[m]
      BY <1>1, <1>2, <2>3, Zenon DEF sweep
    <3> QED
      BY <2>1, <3>1, Zenon DEF DockerInv, NoOrphanAfterSweep, Named, container_name
  <2> QED
    BY <2>2, <2>3, Zenon
<1> QED
  BY <1>6, <1>7, <1>8, <1>9, Zenon DEF DockerInv, Good

-----------------------------------------------------------------------------
\* Every step of every node, of the daemon and of the workloads keeps the invariant.
LEMMA StepDocker ==
    ASSUME MaxRuns \in Nat, DockerInv, [DockerNext]_dockerVars
    PROVE  DockerInv'
<1>1. CASE UNCHANGED dockerVars
  <2>1. row' = row /\ box' = box /\ acted' = acted /\ stage' = stage /\ swept' = swept
    BY <1>1, Zenon DEF dockerVars
  <2>2. Shape'
    BY <2>1, SameShapes, Zenon DEF DockerInv, Shape
  <2>3. \A n \in Nodes, i \in Ids : Good(n, row'[n][i], box'[<<n, i>>], acted'[n][i])
    BY <2>1, Zenon DEF DockerInv
  <2>4. \A n \in Nodes : Recovering(n)'
    BY <2>1, Zenon DEF DockerInv, Recovering, Transitional
  <2>5. NoOrphanAfterSweep'
    BY <2>1, SameShapes, Zenon DEF DockerInv, NoOrphanAfterSweep, Named, container_name,
       Terminal
  <2> QED
    BY <2>2, <2>3, <2>4, <2>5, Zenon DEF DockerInv, Good
<1>2. ASSUME NEW n \in Nodes, NEW i \in Ids,
             \/ \E to \in Transitional : submit(n, i, to)
             \/ \E answer \in {"ok", "failed", "lost"} : execute(n, i, answer) \/ resolve(n, i, answer)
             \/ \E reached \in BOOLEAN : finalize(n, i, reached)
      PROVE  DockerInv'
  BY <1>2, SubmitKeeps, ExecuteKeeps, ResolveKeeps, FinalizeKeeps, Zenon
<1>3. ASSUME NEW n \in Nodes,
             \/ crash(n)
             \/ resolved(n)
             \/ \E listed \in BOOLEAN, gone \in SUBSET DOMAIN box : sweep(n, listed, gone)
      PROVE  DockerInv'
  BY <1>3, CrashKeeps, ResolvedKeeps, SweepKeeps, Zenon
<1>4. ASSUME NEW c \in DOMAIN box, NEW exit \in Codes, workload_exits(c, exit)
      PROVE  DockerInv'
  <2>1. DOMAIN box = Nodes \X Ids
    BY NamesApart, Zenon DEF DockerInv, Shape
  <2>2. PICK n \in Nodes, i \in Ids : c = <<n, i>>
    BY <2>1
  <2> QED
    BY <1>4, <2>2, ExitKeeps, Zenon
<1> QED
  BY <1>1, <1>2, <1>3, <1>4, Zenon DEF DockerNext

\* The invariant holds of every reachable state, whatever nodes share the daemon.
LEMMA AlwaysDocker ==
    ASSUME MaxRuns \in Nat
    PROVE  DockerSpec => []DockerInv
<1>1. DockerInv /\ [DockerNext]_dockerVars => DockerInv'
  BY StepDocker, Zenon
<1> QED
  BY InitDocker, <1>1, PTL DEF DockerSpec

\* The rows, containers and stages keep their types, and a container the label of the
\* node whose name it has.
THEOREM DockerTypeCorrect ==
    ASSUME MaxRuns \in Nat
    PROVE  DockerSpec => []DockerTypeOK
<1>1. DockerInv => DockerTypeOK
  BY DEF DockerInv, Shape, Good, Row, Box, States, DockerTypeOK, Named, container_name
<1> QED
  BY AlwaysDocker, <1>1, PTL

\* From CREATED until it is destroyed or fails, an instance has its container and the run
\* the journal knows of: no operation, crash, recovery or sweep of any node that shares
\* the daemon takes it away or starts it behind the journal's back.
THEOREM ContainersKept ==
    ASSUME MaxRuns \in Nat
    PROVE  DockerSpec => []ContainerKept
<1>1. DockerInv => ContainerKept
  <2> SUFFICES ASSUME DockerInv, NEW n \in Nodes, NEW i \in Ids
               PROVE  row[n][i].state \in {"created", "running", "paused", "stopped"}
                         => box[<<n, i>>] # NoBox /\ box[<<n, i>>].runs = row[n][i].made
    BY Zenon DEF ContainerKept, Named, container_name
  <2>1. Good(n, row[n][i], box[<<n, i>>], acted[n][i])
    BY Zenon DEF DockerInv
  <2> QED
    BY <2>1, Zenon DEF Good
<1> QED
  BY AlwaysDocker, <1>1, PTL

\* PAUSED and STOPPED hold no running workload, whatever was lost between the daemon and
\* the journal on the way there.
THEOREM PausedIsStill ==
    ASSUME MaxRuns \in Nat
    PROVE  DockerSpec => []PausedHoldsNothing
<1>1. DockerInv => PausedHoldsNothing
  <2> SUFFICES ASSUME DockerInv, NEW n \in Nodes, NEW i \in Ids
               PROVE  row[n][i].state \in {"paused", "stopped"} => box[<<n, i>>].status # "running"
    BY Zenon DEF PausedHoldsNothing, Named, container_name
  <2>1. Good(n, row[n][i], box[<<n, i>>], acted[n][i])
    BY Zenon DEF DockerInv
  <2> QED
    BY <2>1, Zenon DEF Good
<1> QED
  BY AlwaysDocker, <1>1, PTL

\* An exit code on record is the one the last run ended with.
THEOREM ExitsHonest ==
    ASSUME MaxRuns \in Nat
    PROVE  DockerSpec => []ExitHonest
<1>1. DockerInv => ExitHonest
  <2> SUFFICES ASSUME DockerInv, NEW n \in Nodes, NEW i \in Ids
               PROVE  row[n][i].state = "stopped" /\ row[n][i].code # Absent
                         => row[n][i].code = box[<<n, i>>].code
    BY Zenon DEF ExitHonest, Named, container_name
  <2>1. Good(n, row[n][i], box[<<n, i>>], acted[n][i])
    BY Zenon DEF DockerInv
  <2> QED
    BY <2>1, Zenon DEF Good
<1> QED
  BY AlwaysDocker, <1>1, PTL

\* After a restart whose sweep reached the daemon, the node has no container that its
\* journal does not hold as live, until an operation of its own ends one.
THEOREM SweepLeavesNoOrphan ==
    ASSUME MaxRuns \in Nat
    PROVE  DockerSpec => []NoOrphanAfterSweep
<1>1. DockerInv => NoOrphanAfterSweep
  BY Zenon DEF DockerInv
<1> QED
  BY AlwaysDocker, <1>1, PTL
=============================================================================
