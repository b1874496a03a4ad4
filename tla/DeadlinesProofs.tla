--------------------------- MODULE DeadlinesProofs ---------------------------
(***************************************************************************)
(* Proofs about Deadlines, for every TTL, action, capability and bound.    *)
(***************************************************************************)
EXTENDS Deadlines, TLAPS

\* No operation lands an instance in the midst of a snapshot.
TaskInv ==
    /\ task \in [kind : Verbs \cup {"none"}, lands : InstanceState]
    /\ task.lands # "CHECKPOINTING"

\* Every key was derived from a deadline that had come due, so a deadline set in
\* the future is new; and every lease is the renewal it was computed for.
DeadlineInv ==
    /\ TypeOK
    /\ TaskInv
    /\ row.state \in {"RUNNING", "CHECKPOINTING"} /\ Ttl > 0 => row.ttl # 0
    /\ row.ttl # 0 => Ttl > 0 /\ row.ttl = used + Ttl
    /\ \A at \in Time : ttl_key(at) \in keys \/ wake_key(at) \in keys => at <= now
    /\ FreshKeys
    /\ call.rpc = "activity" => Ttl > 0 /\ call.at = now + Ttl
    /\ call.rpc = "set_wake" => call.at = 0 \/ call.at > now

-------------------------------------------------------------------------------
\* The table of verbs (plan_transition): the states a submission records, which are
\* neither RUNNING nor an interrupted snapshot unless the verb takes one.
LEMMA PlanTyped ==
    ASSUME NEW kind \in Verbs, NEW from \in InstanceState,
           plan_transition(kind, from) # "REFUSED"
    PROVE  /\ plan_transition(kind, from) \in InstanceState
           /\ (IF plan_transition(kind, from) = transitional_state(kind)
               THEN final_state(kind) ELSE plan_transition(kind, from))
                 \in InstanceState \ {"CHECKPOINTING"}
           /\ plan_transition(kind, from) # "RUNNING"
           /\ plan_transition(kind, from) = "CHECKPOINTING" =>
                 kind = "CreateSnapshot" /\ from = "RUNNING"
BY DEF Verbs, InstanceState, plan_transition, can_transition, transitional_state,
       final_state, TRANSITIONS, is_transitional

\* The verbs the node's own deadlines submit (resolve_ttl_action).
LEMMA ResolvedVerbs ==
    ASSUME NEW action PROVE resolve_ttl_action(action) \in {"Stop", "Pause", "Destroy"}
BY Zenon DEF resolve_ttl_action

\* What a claim clears (take_deadline).
LEMMA ClearedRow ==
    ASSUME NEW r \in Row, NEW at \in Time,
           NEW claim \in {NoClaim, TtlExpiry(at), Wake(at)}
    PROVE  /\ cleared(claim, r) \in Row
           /\ cleared(claim, r).state = r.state
           /\ cleared(claim, r).ttl = IF claim = TtlExpiry(at) THEN 0 ELSE r.ttl
           /\ cleared(claim, r).wake = IF claim = Wake(at) THEN 0 ELSE r.wake
BY DEF Row, NoClaim, TtlExpiry, Wake, cleared, Time

\* A journaled submission leaves a typed row, out of RUNNING, that has lost the
\* deadline it claimed and nothing else (submit_atomically).
LEMMA JournaledRow ==
    ASSUME TypeOK, NEW kind \in Verbs, NEW at \in Time,
           NEW claim \in {NoClaim, TtlExpiry(at), Wake(at)},
           journals(kind, claim), journaled(kind, claim)
    PROVE  /\ row' \in Row
           /\ TaskInv'
           /\ row'.state # "RUNNING"
           /\ row'.state = "CHECKPOINTING" => kind = "CreateSnapshot" /\ row.state = "RUNNING"
           /\ row'.ttl = IF claim = TtlExpiry(at) THEN 0 ELSE row.ttl
           /\ row'.wake = IF claim = Wake(at) THEN 0 ELSE row.wake
<1> DEFINE recorded == plan_transition(kind, row.state)
<1>1. row \in Row /\ row.state \in InstanceState
  BY Zenon DEF TypeOK, Row
<1>2. /\ recorded \in InstanceState /\ recorded # "RUNNING"
      /\ (IF recorded = transitional_state(kind) THEN final_state(kind) ELSE recorded)
            \in InstanceState \ {"CHECKPOINTING"}
      /\ recorded = "CHECKPOINTING" => kind = "CreateSnapshot" /\ row.state = "RUNNING"
  BY <1>1, PlanTyped, Zenon DEF journals
<1>3. row' = [cleared(claim, row) EXCEPT !.state = recorded]
  BY Zenon DEF journaled
<1>4. task' = [kind |-> kind, lands |-> IF recorded = transitional_state(kind)
                                        THEN final_state(kind) ELSE recorded]
  BY Zenon DEF journaled
<1>5. /\ cleared(claim, row) \in Row
      /\ cleared(claim, row).ttl = IF claim = TtlExpiry(at) THEN 0 ELSE row.ttl
      /\ cleared(claim, row).wake = IF claim = Wake(at) THEN 0 ELSE row.wake
  BY <1>1, ClearedRow, Zenon
<1> HIDE DEF recorded
<1>6. row' \in Row /\ row'.state = recorded
      /\ row'.ttl = cleared(claim, row).ttl /\ row'.wake = cleared(claim, row).wake
  BY <1>2, <1>3, <1>5, Zenon DEF Row
<1>7. TaskInv'
  BY <1>2, <1>4, Zenon DEF TaskInv
<1> QED
  BY <1>2, <1>5, <1>6, <1>7, Zenon

\* The part of the invariant a submission, a renewal or an alarm can disturb: the
\* row and the keys.
JournalInv ==
    /\ row \in Row
    /\ keys \in SUBSET Key
    /\ row.state \in {"RUNNING", "CHECKPOINTING"} /\ Ttl > 0 => row.ttl # 0
    /\ row.ttl # 0 => Ttl > 0 /\ row.ttl = used + Ttl
    /\ \A at \in Time : ttl_key(at) \in keys \/ wake_key(at) \in keys => at <= now
    /\ FreshKeys

\* The inductive invariant, conjunct by conjunct, for the steps that need one of them.
LEMMA InvParts == DeadlineInv <=>
    /\ JournalInv
    /\ TypeOK
    /\ TaskInv
    /\ call.rpc = "activity" => Ttl > 0 /\ call.at = now + Ttl
    /\ call.rpc = "set_wake" => call.at = 0 \/ call.at > now
BY Zenon DEF DeadlineInv, JournalInv, TypeOK

\* A submission on a deadline that is due adds its key and takes the deadline with
\* it, or changes nothing (submit_claiming).
LEMMA SubmissionKeeps ==
    ASSUME DeadlineInv, NEW kind \in Verbs, kind # "CreateSnapshot", NEW at \in Time,
           UNCHANGED <<now, used>>,
           NEW key, NEW claim,
           \/ at <= now /\ key = ttl_key(at) /\ claim = TtlExpiry(at)
           \/ at <= now /\ key = wake_key(at) /\ claim = Wake(at)
           \/ key = <<"idle", at>> /\ claim = NoClaim,
           submit_claiming(kind, key, claim)
    PROVE  /\ JournalInv'
           /\ TaskInv'
<1> USE DEF DeadlineInv
<1>1. CASE UNCHANGED <<row, task, keys>>
  BY <1>1, Zenon DEF JournalInv, FreshKeys, TypeOK, TaskInv
<1>2. CASE /\ key \notin keys /\ journals(kind, claim)
           /\ journaled(kind, claim) /\ keys' = keys \cup {key}
  <2>1. claim \in {NoClaim, TtlExpiry(at), Wake(at)}
    BY Zenon
  <2>2. /\ row' \in Row
        /\ TaskInv'
        /\ row'.state \notin {"RUNNING", "CHECKPOINTING"}
        /\ row'.ttl = IF claim = TtlExpiry(at) THEN 0 ELSE row.ttl
        /\ row'.wake = IF claim = Wake(at) THEN 0 ELSE row.wake
    BY <1>2, <2>1, JournaledRow, Zenon
  <2>3. keys' \in SUBSET Key
    BY <1>2 DEF TypeOK, Key, ttl_key, wake_key
  <2>4. row'.ttl # 0 => Ttl > 0 /\ row'.ttl = used' + Ttl
    BY <2>2, Zenon
  <2>5. \A t \in Time : ttl_key(t) \in keys' \/ wake_key(t) \in keys' => t <= now'
    BY <1>2 DEF ttl_key, wake_key
  <2>6. /\ claim = TtlExpiry(at) => row.ttl = at
        /\ claim = Wake(at) => row.wake = at
    BY <1>2 DEF journals, claimable, TtlExpiry, Wake
  <2>7. FreshKeys'
    <3>1. CASE key = ttl_key(at) /\ claim = TtlExpiry(at)
      BY <1>2, <2>2, <3>1, Zenon DEF FreshKeys, ttl_key, wake_key, TtlExpiry, Wake
    <3>2. CASE key = wake_key(at) /\ claim = Wake(at)
      BY <1>2, <2>2, <3>2, Zenon DEF FreshKeys, ttl_key, wake_key, TtlExpiry, Wake
    <3>3. CASE key = <<"idle", at>> /\ claim = NoClaim
      BY <1>2, <2>2, <3>3, Zenon DEF FreshKeys, ttl_key, wake_key, TtlExpiry, Wake, NoClaim
    <3> QED
      BY <3>1, <3>2, <3>3, Zenon
  <2> QED
    BY <2>2, <2>3, <2>4, <2>5, <2>7, Zenon DEF JournalInv
<1> QED
  BY <1>1, <1>2, Zenon DEF submit_claiming

\* A step that leaves the journal, the clock and the call alone.
LEMMA FrameKeeps ==
    ASSUME DeadlineInv, TypeOK', UNCHANGED <<now, row, task, keys, call, used>>
    PROVE  DeadlineInv'
BY Zenon DEF DeadlineInv, TaskInv, FreshKeys

\* A reconciler between two ticks has a typed record (tick).
LEMMA NoTickTyped == NoTick \in Tick
<1>1. NewRow \in Row /\ NoHealth \in Health
  BY Zenon DEF NewRow, Row, NoHealth, Health, Time, InstanceState
<1> QED
  BY <1>1, Zenon DEF NoTick, Tick

-------------------------------------------------------------------------------
\* One lemma per actor.  The reconciler acts on any row it has read, and a claim that
\* no longer matches takes nothing (fire_due_wake, enforce_ttl, enforce_idle).
LEMMA ReconcileKeeps ==
    ASSUME DeadlineInv, reconcile PROVE DeadlineInv'
<1> USE DEF DeadlineInv
<1>0. /\ TypeOK
      /\ tick.row \in Row /\ tick.row.wake \in Time /\ tick.row.ttl \in Time
      /\ tick.health.idle \in Time
  BY Zenon DEF TypeOK, Tick, Row, Health
<1>1. CASE tick_read
  <2>1. tick' \in Tick
    BY <1>0, <1>1, NoTickTyped, Zenon DEF tick_read, Tick, TypeOK
  <2> QED
    BY <1>1, <2>1, FrameKeeps, Zenon DEF tick_read, TypeOK
<1>2. CASE fire_due_wake
  <2>1. /\ tick' = [tick EXCEPT !.at = "ttl"]
        /\ UNCHANGED <<now, call, guest, verbs, crashes, ready, used>>
    BY <1>2, Zenon DEF fire_due_wake, goes_to
  <2>2. tick' \in Tick
    BY <2>1, Zenon DEF TypeOK, Tick
  <2>3. JournalInv' /\ TaskInv'
    <3>1. CASE UNCHANGED <<row, task, keys>>
      BY <2>1, <3>1, Zenon DEF JournalInv, FreshKeys, TypeOK, TaskInv
    <3>2. ASSUME NEW kind \in {"Resume", "Start"}, now >= tick.row.wake,
                 submit_claiming(kind, wake_key(tick.row.wake), Wake(tick.row.wake))
          PROVE  JournalInv' /\ TaskInv'
      <4>1. tick.row.wake <= now /\ kind \in Verbs /\ kind # "CreateSnapshot"
        BY <1>0, <3>2, Zenon DEF TypeOK, Time, Verbs
      <4> QED
        BY <1>0, <2>1, <3>2, <4>1, SubmissionKeeps, Zenon
    <3>3. CASE claim_wake(tick.row.wake)
      <4>1. row' = row \/ row' = cleared(Wake(tick.row.wake), row)
        BY <3>3, Zenon DEF claim_wake
      <4>2. CASE row' = cleared(Wake(tick.row.wake), row)
        <5>1. Wake(tick.row.wake) # TtlExpiry(tick.row.wake)
          BY Zenon DEF Wake, TtlExpiry
        <5>2. /\ row' \in Row /\ row'.state = row.state /\ row'.ttl = row.ttl
              /\ row'.wake = 0
          BY <1>0, <4>2, <5>1, ClearedRow, Zenon DEF TypeOK
        <5> QED
          BY <2>1, <3>3, <5>2, Zenon DEF claim_wake, JournalInv, FreshKeys, TypeOK, TaskInv
      <4> QED
        BY <2>1, <3>3, <4>1, <4>2, Zenon DEF claim_wake, JournalInv, FreshKeys, TypeOK, TaskInv
    <3> QED
      BY <1>2, <3>1, <3>2, <3>3, Zenon DEF fire_due_wake
  <2> QED
    BY <2>1, <2>2, <2>3, InvParts, Zenon DEF TypeOK, JournalInv, TaskInv
<1>3. CASE enforce_ttl
  <2>1. UNCHANGED <<now, call, guest, verbs, crashes, ready, used>>
    BY <1>3, Zenon DEF enforce_ttl
  <2>2. tick' \in Tick
    BY <1>0, <1>3, NoTickTyped, Zenon DEF enforce_ttl, goes_to, tick_ends, TypeOK, Tick
  <2>3. JournalInv' /\ TaskInv'
    <3>1. CASE UNCHANGED <<row, task, keys>>
      BY <2>1, <3>1, Zenon DEF JournalInv, FreshKeys, TypeOK, TaskInv
    <3>2. CASE /\ now >= tick.row.ttl
               /\ submit_claiming(resolve_ttl_action(TtlAction), ttl_key(tick.row.ttl),
                                  TtlExpiry(tick.row.ttl))
      <4>1. tick.row.ttl <= now
        BY <1>0, <3>2, Zenon DEF TypeOK, Time
      <4>2. resolve_ttl_action(TtlAction) \in Verbs \ {"CreateSnapshot"}
        BY ResolvedVerbs, Zenon DEF Verbs
      <4> QED
        BY <1>0, <2>1, <3>2, <4>1, <4>2, SubmissionKeeps, Zenon
    <3> QED
      BY <1>3, <3>1, <3>2, Zenon DEF enforce_ttl
  <2> QED
    BY <2>1, <2>2, <2>3, InvParts, Zenon DEF TypeOK, JournalInv, TaskInv
<1>4. CASE enforce_idle
  <2>1. UNCHANGED <<now, call, guest, verbs, crashes, ready, used>> /\ tick' = NoTick
    BY <1>4, Zenon DEF enforce_idle, tick_ends
  <2>2. tick' \in Tick
    BY <2>1, NoTickTyped, Zenon
  <2>3. JournalInv' /\ TaskInv'
    <3>1. CASE UNCHANGED <<row, task, keys>>
      BY <2>1, <3>1, Zenon DEF JournalInv, FreshKeys, TypeOK, TaskInv
    <3>2. CASE submit_claiming(resolve_ttl_action(IdleAction),
                               <<"idle", tick.health.idle>>, NoClaim)
      <4>1. resolve_ttl_action(IdleAction) \in Verbs \ {"CreateSnapshot"}
        BY ResolvedVerbs, Zenon DEF Verbs
      <4> QED
        BY <1>0, <2>1, <3>2, <4>1, SubmissionKeeps, Zenon
    <3> QED
      BY <1>4, <3>1, <3>2, Zenon DEF enforce_idle
  <2> QED
    BY <2>1, <2>2, <2>3, InvParts, Zenon DEF TypeOK, JournalInv, TaskInv
<1>5. ASSUME NEW verdict \in BOOLEAN, probe_answered(verdict) PROVE DeadlineInv'
  <2>1. [idle |-> guest.idle, activity |-> guest.activity, ready |-> verdict] \in Health
    BY <1>0, Zenon DEF TypeOK, Guest, Health
  <2>2. tick' \in Tick
    BY <1>0, <1>5, <2>1, Zenon DEF probe_answered, Tick, TypeOK
  <2> QED
    BY <1>5, <2>2, FrameKeeps, Zenon DEF probe_answered, TypeOK
<1>6. CASE probe_ends
  BY <1>6, NoTickTyped, FrameKeeps, Zenon DEF probe_ends, tick_ends, TypeOK
<1>7. CASE set_instance_ready
  <2>1. tick' \in Tick /\ ready' \in BOOLEAN
    BY <1>0, <1>7, Zenon DEF set_instance_ready, goes_to, TypeOK, Tick, Health
  <2> QED
    BY <1>7, <2>1, FrameKeeps, Zenon DEF set_instance_ready, TypeOK
<1> QED
  BY <1>1, <1>2, <1>3, <1>4, <1>5, <1>6, <1>7, Zenon DEF reconcile

\* A finalize arms a lease that is in the future, or none (finish_operation).
LEMMA ExecuteKeeps ==
    ASSUME DeadlineInv, NEW ok \in BOOLEAN, settle(ok) PROVE DeadlineInv'
<1> USE DEF DeadlineInv
<1> DEFINE kind == task.kind
           state == IF ok \/ ~touches_instance_state(kind) THEN task.lands ELSE "FAILED"
<1>1. state \in InstanceState \ {"CHECKPOINTING"}
  BY Zenon DEF TaskInv, InstanceState
<1>2. /\ row' = [row EXCEPT !.state = state, !.ttl = settled_lease(kind, state),
                            !.began = IF kind \in {"Start", "Resume"} /\ state = "RUNNING"
                                      THEN now ELSE @]
      /\ ready' = (ready /\ state = "RUNNING")
      /\ guest' \in guest_after(kind, state)
      /\ task' = NoTask
      /\ used' = IF state = "RUNNING" THEN now ELSE used
      /\ UNCHANGED <<now, keys, tick, call, verbs, crashes>>
  BY Zenon DEF settle
<1> HIDE DEF state, kind
<1>3. guest' \in Guest
  <2>1. guest \in Guest /\ now \in Time /\ 0 \in Time
    BY Zenon DEF TypeOK, Time
  <2>2. /\ [guest EXCEPT !.up = FALSE] \in Guest /\ [guest EXCEPT !.up = TRUE] \in Guest
        /\ [up |-> TRUE, idle |-> 0, activity |-> now] \in Guest
    BY <2>1, Zenon DEF Guest
  <2> QED
    BY <1>2, <2>1, <2>2, Zenon DEF guest_after
<1>4. TaskInv'
  BY <1>2, Zenon DEF TaskInv, NoTask, InstanceState
<1>5. row' \in Row /\ row'.state = state /\ row'.ttl = settled_lease(kind, state)
      /\ row'.wake = row.wake
  <2>1. settled_lease(kind, state) \in Time /\ now \in Time /\ row \in Row
    BY SpecAssumption DEF settled_lease, ttl_deadline_ms, TypeOK, Time
  <2>2. PICK start \in Time : row' = [row EXCEPT !.state = state,
                                               !.ttl = settled_lease(kind, state),
                                               !.began = start]
    <3>1. row.began \in Time
      BY <2>1, Zenon DEF Row
    <3> QED
      BY <1>2, <2>1, <3>1, Zenon
  <2> QED
    BY <1>1, <2>1, <2>2, Zenon DEF Row
<1>6. row'.ttl = (IF state = "RUNNING" /\ Ttl > 0 THEN now + Ttl ELSE 0)
  BY <1>5, Zenon DEF settled_lease, ttl_deadline_ms
<1> QED
  BY <1>1, <1>2, <1>3, <1>4, <1>5, <1>6, SpecAssumption DEF TypeOK, TaskInv, FreshKeys, Time

\* The write that ends a call puts a deadline of the future in the row
\* (set_ttl_deadline, set_wake_at).
LEMMA ServeKeeps ==
    ASSUME DeadlineInv,
           serve \/ note_activity \/ (\E at \in 0..MaxTime : set_wake(at))
    PROVE  DeadlineInv'
<1> USE DEF DeadlineInv
<1>0. /\ row \in Row /\ now \in Nat /\ Ttl \in Nat /\ call.at \in Nat /\ guest \in Guest
      /\ call \in [rpc : {"none", "activity", "exec", "set_wake"}, at : Time]
  BY SpecAssumption, Zenon DEF TypeOK, Time
<1>1. CASE set_ttl_deadline
  <2>1. /\ row' \in Row /\ row'.ttl = now + Ttl /\ Ttl > 0
        /\ row'.state = row.state /\ row'.wake = row.wake
    BY <1>0, <1>1, Zenon DEF set_ttl_deadline, Row, Time
  <2>2. call' \in [rpc : {"none", "activity", "exec", "set_wake"}, at : Time] /\ call'.rpc = "exec"
    BY <1>1, Zenon DEF set_ttl_deadline, Time
  <2>3. ttl_key(row'.ttl) \notin keys
    BY <1>0, <2>1 DEF Time
  <2>4. UNCHANGED <<now, task, keys, tick, guest, verbs, crashes, ready>> /\ used' = now
    BY <1>1, Zenon DEF set_ttl_deadline
  <2> QED
    BY <1>0, <2>1, <2>2, <2>3, <2>4 DEF TypeOK, TaskInv, FreshKeys
<1>2. CASE mark_activity
  <2>1. guest' \in Guest
    BY <1>0, <1>2, Zenon DEF mark_activity, Guest, Time
  <2>2. call' = NoCall /\ UNCHANGED <<now, row, task, keys, tick, verbs, crashes, ready, used>>
    BY <1>2, Zenon DEF mark_activity
  <2>3. call' \in [rpc : {"none", "activity", "exec", "set_wake"}, at : Time] /\ call'.rpc = "none"
    BY <2>2, Zenon DEF NoCall, Time
  <2> QED
    BY <2>1, <2>2, <2>3, Zenon DEF TypeOK, TaskInv, FreshKeys
<1>3. CASE set_wake_at
  <2>1. /\ row' \in Row /\ row'.ttl = row.ttl /\ row'.state = row.state
        /\ row'.wake = call.at /\ (call.at = 0 \/ call.at > now)
    BY <1>0, <1>3, Zenon DEF set_wake_at, Row, Time
  <2>2. call' = NoCall /\ UNCHANGED <<now, task, keys, tick, guest, verbs, crashes, ready, used>>
    BY <1>3, Zenon DEF set_wake_at
  <2>3. call' \in [rpc : {"none", "activity", "exec", "set_wake"}, at : Time] /\ call'.rpc = "none"
    BY <2>2, Zenon DEF NoCall, Time
  <2>4. row'.wake # 0 => wake_key(row'.wake) \notin keys
    BY <1>0, <2>1 DEF Time
  <2> QED
    BY <2>1, <2>2, <2>3, <2>4, Zenon DEF TypeOK, TaskInv, FreshKeys
<1>4. CASE note_activity
  <2>1. UNCHANGED <<now, row, task, keys, tick, guest, verbs, crashes, ready, used>>
    BY <1>4, Zenon DEF note_activity
  <2>2. /\ call' \in [rpc : {"none", "activity", "exec", "set_wake"}, at : Time]
        /\ call'.rpc = "activity" => Ttl > 0 /\ call'.at = now + Ttl
        /\ call'.rpc # "set_wake"
    BY <1>0, <1>4 DEF note_activity, ttl_deadline_ms, Time
  <2> QED
    BY <2>1, <2>2, Zenon DEF TypeOK, TaskInv, FreshKeys
<1>5. ASSUME NEW at \in 0..MaxTime, set_wake(at) PROVE DeadlineInv'
  <2>1. UNCHANGED <<now, row, task, keys, tick, guest, verbs, crashes, ready, used>>
    BY <1>5, Zenon DEF set_wake
  <2>2. /\ call' \in [rpc : {"none", "activity", "exec", "set_wake"}, at : Time]
        /\ call'.rpc # "activity" /\ (call'.at = 0 \/ call'.at > now)
    BY <1>5, DeadlineBounds DEF set_wake, acceptable, Time
  <2> QED
    BY <2>1, <2>2, Zenon DEF TypeOK, TaskInv, FreshKeys
<1> QED
  BY <1>1, <1>2, <1>3, <1>4, <1>5, Zenon DEF serve

\* A verb of a client takes no deadline and adds no key of the node's (submit).
LEMMA VerbKeeps ==
    ASSUME DeadlineInv, NEW kind \in Verbs, submit(kind) PROVE DeadlineInv'
<1> USE DEF DeadlineInv
<1>1. /\ journals(kind, NoClaim) /\ journaled(kind, NoClaim) /\ verbs' = verbs + 1
      /\ UNCHANGED <<now, keys, tick, call, guest, crashes, ready, used>>
  BY Zenon DEF submit
<1>2. 0 \in Time /\ NoClaim \in {NoClaim, TtlExpiry(0), Wake(0)}
      /\ NoClaim # TtlExpiry(0) /\ NoClaim # Wake(0)
  BY Zenon DEF Time, NoClaim, TtlExpiry, Wake
<1>3. /\ row' \in Row /\ TaskInv' /\ row'.state # "RUNNING"
      /\ row'.state = "CHECKPOINTING" => row.state = "RUNNING"
      /\ row'.ttl = row.ttl /\ row'.wake = row.wake
  BY <1>1, <1>2, JournaledRow, Zenon
<1> QED
  BY <1>1, <1>3 DEF TypeOK, TaskInv, FreshKeys

\* A crash keeps the deadlines, and recovery makes an instance RUNNING only if a
\* snapshot was interrupted, whose lease is still there (recover).
LEMMA CrashKeeps ==
    ASSUME DeadlineInv, crash PROVE DeadlineInv'
<1> USE DEF DeadlineInv
<1>1. PICK state \in recovered(row.state) :
         /\ row' = [row EXCEPT !.state = state,
                               !.epoch = IF is_transitional(row.state) /\ state = "RUNNING"
                                         THEN now ELSE @]
         /\ guest' = [guest EXCEPT !.up = @ /\ state = "RUNNING"]
  BY Zenon DEF crash
<1>2. /\ state \in InstanceState
      /\ state = "RUNNING" => row.state \in {"RUNNING", "CHECKPOINTING"}
      /\ state # "CHECKPOINTING"
  <2>1. row.state \in InstanceState
    BY Zenon DEF TypeOK, Row
  <2> QED
    BY <2>1, Zenon DEF recovered, InstanceState, is_transitional
<1>3. row' \in Row /\ row'.state = state /\ row'.ttl = row.ttl /\ row'.wake = row.wake
  <2>1. row \in Row /\ now \in Time /\ row.epoch \in Time
    BY Zenon DEF TypeOK, Row
  <2>2. PICK epoch \in Time : row' = [row EXCEPT !.state = state, !.epoch = epoch]
    BY <1>1, <2>1, Zenon
  <2> QED
    BY <1>2, <2>1, <2>2, Zenon DEF Row
<1>4. guest' \in Guest
  BY <1>1, Zenon DEF TypeOK, Guest
<1>5. /\ task' = NoTask /\ tick' = NoTick /\ call' = NoCall /\ crashes' = crashes + 1
      /\ UNCHANGED <<now, keys, verbs, ready, used>>
  BY Zenon DEF crash
<1>6. TaskInv' /\ call' \in [rpc : {"none", "activity", "exec", "set_wake"}, at : Time]
      /\ call'.rpc = "none"
  BY <1>5, Zenon DEF TaskInv, NoTask, NoCall, InstanceState, Time
<1> QED
  BY <1>2, <1>3, <1>4, <1>5, <1>6, NoTickTyped DEF TypeOK, TaskInv, FreshKeys

\* Time moves on, and past no deadline that a call has yet to write (now_ms).
LEMMA ClockKeeps ==
    ASSUME DeadlineInv, CallsArePrompt, time_passes PROVE DeadlineInv'
<1>1. /\ now' = now + 1 /\ now \in Nat /\ call.rpc \notin {"activity", "set_wake"}
      /\ UNCHANGED <<row, task, keys, tick, call, guest, verbs, crashes, ready, used>>
  BY Zenon DEF time_passes, DeadlineInv, TypeOK, Time
<1> QED
  BY <1>1 DEF DeadlineInv, TypeOK, TaskInv, FreshKeys, Time

-------------------------------------------------------------------------------
\* The inductive invariant of the deadlines, where no time passes within a call.
THEOREM DeadlineInvariance ==
    ASSUME CallsArePrompt PROVE Spec => []DeadlineInv
<1>1. Init => DeadlineInv
  <2> SUFFICES ASSUME Init PROVE DeadlineInv
    BY Zenon
  <2>1. TypeOK /\ TaskInv
    <3>1. row \in Row /\ tick \in Tick
      BY NoTickTyped, Zenon DEF Init, NoTick, Tick
    <3>2. task \in [kind : Verbs \cup {"none"}, lands : InstanceState] /\ TaskInv
      BY Zenon DEF Init, TaskInv, NoTask, InstanceState
    <3>3. /\ call \in [rpc : {"none", "activity", "exec", "set_wake"}, at : Time]
          /\ guest \in Guest
      BY Zenon DEF Init, NoCall, NoGuest, Guest, Time
    <3> QED
      BY <3>1, <3>2, <3>3, Zenon DEF Init, TypeOK, Time
  <2> QED
    BY <2>1, Zenon DEF Init, DeadlineInv, FreshKeys, NewRow, NoCall
<1>2. DeadlineInv /\ [Next]_vars => DeadlineInv'
  <2> SUFFICES ASSUME DeadlineInv, [Next]_vars PROVE DeadlineInv'
    BY Zenon
  <2>1. CASE reconcile
    BY <2>1, ReconcileKeeps, Zenon
  <2>2. CASE execute
    BY <2>2, ExecuteKeeps, Zenon DEF execute
  <2>3. CASE serve \/ note_activity \/ (\E at \in 0..MaxTime : set_wake(at))
    BY <2>3, ServeKeeps, Zenon
  <2>4. CASE \E kind \in Verbs : submit(kind)
    BY <2>4, VerbKeeps, Zenon
  <2>5. CASE declare_idle
    <3>1. guest' \in Guest
      BY <2>5, Zenon DEF declare_idle, DeadlineInv, TypeOK, Guest
    <3> QED
      BY <2>5, <3>1, FrameKeeps, Zenon DEF declare_idle, DeadlineInv, TypeOK
  <2>6. CASE time_passes
    BY <2>6, ClockKeeps, Zenon
  <2>7. CASE crash
    BY <2>7, CrashKeeps, Zenon
  <2>8. CASE UNCHANGED vars
    BY <2>8, FrameKeeps, Zenon DEF vars, DeadlineInv, TypeOK
  <2> QED
    BY <2>1, <2>2, <2>3, <2>4, <2>5, <2>6, <2>7, <2>8, Zenon DEF Next, Busy
<1> QED
  BY <1>1, <1>2, PTL DEF Spec

\* The row, the keys, the reading of a tick and the call in flight keep their types: no
\* deadline is outside the bounds of the clock (set_ttl_deadline, mark_activity, set_wake_at).
THEOREM TypeCorrect ==
    ASSUME CallsArePrompt PROVE Spec => []TypeOK
<1>1. DeadlineInv => TypeOK
  BY Zenon DEF DeadlineInv
<1> QED
  BY <1>1, DeadlineInvariance, PTL

\* A RUNNING instance with a TTL always has a lease (execute: "Arm the lease on the
\* way into RUNNING").
THEOREM RunningAlwaysLeased ==
    ASSUME CallsArePrompt PROVE Spec => []RunningIsLeased
<1>1. DeadlineInv => RunningIsLeased
  BY Zenon DEF DeadlineInv, RunningIsLeased
<1> QED
  BY <1>1, DeadlineInvariance, PTL

\* An armed deadline never has a key the journal knows: no alarm and no lease is
\* answered by a replay (wake_key, enforce_ttl).
THEOREM DeadlinesAlwaysFresh ==
    ASSUME CallsArePrompt PROVE Spec => []FreshKeys
<1>1. DeadlineInv => FreshKeys
  BY Zenon DEF DeadlineInv
<1> QED
  BY <1>1, DeadlineInvariance, PTL

\* The TTL never acts before a whole TTL has passed since the last renewal, however
\* stale the row the reconciler acts on (enforce_ttl, take_deadline).
THEOREM LeaseAlwaysHonoured ==
    ASSUME CallsArePrompt PROVE Spec => LeaseHonoured
<1>1. ASSUME DeadlineInv, [Next]_vars, NEW at \in 1..(MaxTime + Ttl),
             ttl_key(at) \in keys' \ keys
      PROVE  now >= used + Ttl
  <2>1. at \in Nat /\ now \in Nat /\ used \in Nat /\ Ttl \in Nat
    BY <1>1, SpecAssumption, DeadlineBounds DEF DeadlineInv, TypeOK, Time
  <2>2. PICK kind, key, claim : /\ submit_claiming(kind, key, claim) /\ keys' # keys
                                /\ key = ttl_key(at) => claim = TtlExpiry(at)
    <3>1. enforce_ttl \/ fire_due_wake \/ enforce_idle
      BY <1>1, Zenon DEF Next, Busy, vars, reconcile, tick_read, probe_answered, probe_ends,
                  set_instance_ready, execute, settle, serve, set_ttl_deadline, mark_activity,
                  set_wake_at, submit, set_wake, note_activity, declare_idle, time_passes, crash
    <3>2. CASE enforce_ttl
      BY <1>1, <3>2 DEF enforce_ttl, ttl_key
    <3>3. CASE fire_due_wake
      BY <1>1, <3>3 DEF fire_due_wake, claim_wake, ttl_key, wake_key
    <3>4. CASE enforce_idle
      BY <1>1, <3>4 DEF enforce_idle, ttl_key
    <3> QED
      BY <3>1, <3>2, <3>3, <3>4, Zenon
  <2>3. journals(kind, claim) /\ keys' = keys \cup {key} /\ key = ttl_key(at)
    BY <1>1, <2>2, Zenon DEF submit_claiming
  <2>4. row.ttl = at /\ row.ttl <= now
    BY <2>2, <2>3 DEF journals, claimable, TtlExpiry
  <2>5. row.ttl = used + Ttl
    BY <1>1, <2>1, <2>4 DEF DeadlineInv
  <2> QED
    BY <2>1, <2>4, <2>5, Zenon
<1>2. DeadlineInv /\ [Next]_vars =>
         [\A at \in 1..(MaxTime + Ttl) :
             ttl_key(at) \in keys' \ keys => now >= used + Ttl]_vars
  BY <1>1, Zenon
<1> QED
  BY <1>2, DeadlineInvariance, PTL DEF Spec, LeaseHonoured

===============================================================================
