------------------------------- MODULE Events -------------------------------
(***************************************************************************)
(* The event stream of a node: the journal of events and its retention     *)
(* (db.rs, reconcile.rs), the bus that broadcasts them (events.rs), the    *)
(* WatchEvents streams that replay the journal and then tail the bus       *)
(* (service.rs), and the command line that waits for an operation on such  *)
(* a stream (follow.rs).                                                   *)
(*                                                                         *)
(* A cursor is the row id of an event: event c is ev[c] for ever, and      *)
(* `kept` says which rows the journal still has.  The wall clock of the    *)
(* node is taken to be monotone, so that "older than the cutoff" is a      *)
(* prefix of the cursors.                                                  *)
(***************************************************************************)
EXTENDS Integers, Sequences, FiniteSets

CONSTANTS Emitters,     \* tasks that record events
          Watchers,     \* WatchEvents calls
          Follower,     \* the one of them that a command line may wait on
          Instances,
          Cap,          \* the broadcast buffer (1024 in the code)
          Page,         \* EVENT_PAGE (256 in the code)
          Chunk,        \* RETENTION_CHUNK (1000 in the code)
          MaxEvents, MaxSweeps, MaxFaults

Nobody == "nobody"     \* the lock is free

ASSUME EventBounds ==
    /\ Cap \in Nat \ {0} /\ Page \in Nat \ {0} /\ Chunk \in Nat \ {0}
    /\ MaxEvents \in Nat /\ MaxSweeps \in Nat /\ MaxFaults \in Nat
    /\ Follower \in Watchers /\ Nobody \notin Emitters

VARIABLES
    ev,       \* every event ever journaled: ev[c] has cursor c
    kept,     \* the cursors the events table still has
    pruned,   \* journal_meta.last_pruned_cursor
    lock,     \* EventBus::emit_lock
    sending,  \* per emitter: the cursor inserted and not broadcast yet
    watch,    \* per watcher: the stream
    sweep,    \* the retention sweep
    op,       \* the operation the follower submitted
    wait,     \* the follower
    sweeps, faults

vars == <<ev, kept, pruned, lock, sending, watch, sweep, op, wait, sweeps,
          faults>>
journal == <<ev, kept, pruned>>

Cursors == 1 .. MaxEvents
Anyone == "any"        \* no filter; and the instance of a node-wide event
Event == [inst : Instances \cup {Anyone}, op : BOOLEAN]
Stream == [pc : {"off", "anchor", "replay", "live", "too_old", "closed"},
           filter : Instances \cup {Anyone},
           from : 0 .. MaxEvents, last : 0 .. MaxEvents,
           queue : Seq(Cursors), lagged : BOOLEAN,
           got : SUBSET Cursors, raced : SUBSET Cursors]

TypeOK ==
    /\ ev \in Seq(Event) /\ Len(ev) <= MaxEvents
    /\ kept \subseteq 1 .. Len(ev)
    /\ pruned \in 0 .. MaxEvents
    /\ lock \in Emitters \cup {Nobody}
    /\ sending \in [Emitters -> 0 .. MaxEvents]
    /\ watch \in [Watchers -> Stream]
    /\ \A w \in Watchers : Len(watch[w].queue) <= Cap
    /\ sweep \in [pc : {"idle", "prune", "announce"}, cut : 0 .. MaxEvents,
                  removed : Nat]
    /\ op \in {"none", "running", "finished", "announced"}
    /\ wait \in {"absent", "watch", "submit", "check", "wait", "outcome", "failed",
                 "timeout"}

Init ==
    /\ ev = <<>> /\ kept = {} /\ pruned = 0
    /\ lock = Nobody
    /\ sending = [e \in Emitters |-> 0]
    /\ watch \in [Watchers ->
          [pc : {"off"}, filter : Instances \cup {Anyone}, from : {0},
           last : {0}, queue : {<<>>}, lagged : {FALSE}, got : {{}},
           raced : {{}}]]
    /\ sweep = [pc |-> "idle", cut |-> 0, removed |-> 0]
    /\ op = "none"
    /\ wait \in {"absent", "watch"}
    /\ wait = "watch" => watch[Follower].filter # Anyone
    /\ sweeps = 0 /\ faults = 0

Wants(w, c) == watch[w].filter \in {Anyone, ev[c].inst}
MaxOf(S) == CHOOSE x \in S : \A y \in S : y <= x
MinOf(S) == CHOOSE x \in S : \A y \in S : x <= y
-----------------------------------------------------------------------------
(* Mutant: the lock is let go between the insert and the broadcast.        *)
insert_unlocked(e, event) ==
    /\ lock = Nobody /\ sending[e] = 0
    /\ Len(ev) < MaxEvents
    /\ ev' = Append(ev, event)
    /\ kept' = kept \cup {Len(ev')}
    /\ sending' = [sending EXCEPT ![e] = Len(ev')]
    /\ UNCHANGED <<pruned, lock>>

(* emit: take the lock, insert the row.                                    *)
insert_event(e, event) ==
    /\ lock = Nobody /\ sending[e] = 0
    /\ Len(ev) < MaxEvents
    /\ lock' = e
    /\ ev' = Append(ev, event)
    /\ kept' = kept \cup {Len(ev')}
    /\ sending' = [sending EXCEPT ![e] = Len(ev')]
    /\ UNCHANGED pruned

(* Mutant: the buffer grows.                                               *)
Offer_unbounded(s, c) ==
    IF s.pc \in {"off", "too_old", "closed"} THEN s
    ELSE [s EXCEPT !.queue = Append(@, c)]

(* The broadcast buffer of one receiver: at the limit the oldest message   *)
(* goes and the receiver is told that it lags.                             *)
Offer(s, c) ==
    IF s.pc \in {"off", "too_old", "closed"} THEN s
    ELSE IF Len(s.queue) < Cap THEN [s EXCEPT !.queue = Append(@, c)]
    ELSE [s EXCEPT !.queue = Append(Tail(@), c), !.lagged = TRUE]

(* emit: broadcast and let the lock go.                                    *)
send(e) ==
    /\ sending[e] # 0
    /\ watch' = [w \in Watchers |-> Offer(watch[w], sending[e])]
    /\ sending' = [sending EXCEPT ![e] = 0]
    /\ lock' = Nobody
    /\ UNCHANGED <<journal, sweep, op, wait, sweeps, faults>>

(* Every helper that reports something: a transition, progress, readiness, *)
(* an alarm, a fence, a capsule, an epoch.                                 *)
record(e) ==
    /\ \E i \in Instances : insert_event(e, [inst |-> i, op |-> FALSE])
    /\ UNCHANGED <<watch, sweep, op, wait, sweeps, faults>>

(* The executor finishes the operation in the journal ...                  *)
finish_operation ==
    /\ op = "running"
    /\ op' = "finished"
    /\ UNCHANGED <<journal, lock, sending, watch, sweep, wait, sweeps, faults>>

(* ... and only then reports it.  A report the journal cannot take is lost *)
(* with a line in the log.                                                 *)
op_event(e) ==
    /\ op = "finished"
    /\ op' = "announced"
    /\ \/ /\ insert_event(e, [inst |-> watch[Follower].filter, op |-> TRUE])
          /\ UNCHANGED faults
       \/ /\ faults < MaxFaults /\ faults' = faults + 1
          /\ UNCHANGED <<journal, lock, sending>>
    /\ UNCHANGED <<watch, sweep, wait, sweeps>>

-----------------------------------------------------------------------------
(* Mutant: without rows there is no floor.                                 *)
floor_of_rows == IF kept = {} THEN 0 ELSE MinOf(kept) - 1

journal_floor == IF kept = {} THEN pruned ELSE MinOf(kept) - 1

head_cursor == IF kept = {} THEN 0 ELSE MaxOf(kept)

sweep_retention ==
    /\ sweep.pc = "idle" /\ sweeps < MaxSweeps
    /\ sweeps' = sweeps + 1
    /\ \E cut \in 0 .. Len(ev) :
          sweep' = [pc |-> "prune", cut |-> cut, removed |-> 0]
    /\ UNCHANGED <<journal, lock, sending, watch, op, wait, faults>>

(* The oldest n of the rows up to the cutoff.                              *)
Oldest(S, n) == {c \in S : Cardinality({d \in S : d <= c}) <= n}

(* One chunk, and the floor in the same transaction.  A watcher whose      *)
(* floor check is behind it and whose replay is not is overtaken (raced).  *)
prune_events ==
    LET old == {c \in kept : c <= sweep.cut}
        gone == Oldest(old, Chunk)
        removed == sweep.removed + Cardinality(gone)
    IN  /\ sweep.pc = "prune"
        /\ kept' = kept \ gone
        /\ pruned' = IF gone = {} \/ MaxOf(gone) < pruned THEN pruned
                     ELSE MaxOf(gone)
        /\ sweep' = [sweep EXCEPT !.removed = removed,
              !.pc = IF Cardinality(gone) = Chunk THEN "prune"
                     ELSE IF removed > 0 THEN "announce" ELSE "idle"]
        /\ watch' = [w \in Watchers |->
              IF watch[w].pc = "replay"
              THEN [watch[w] EXCEPT !.raced = @ \cup gone] ELSE watch[w]]
        /\ UNCHANGED <<ev, lock, sending, op, wait, sweeps, faults>>

(* The journal fails: the sweep stops, without a word of what it removed.  *)
prune_fails ==
    /\ sweep.pc = "prune" /\ faults < MaxFaults
    /\ faults' = faults + 1
    /\ sweep' = [sweep EXCEPT !.pc = "idle"]
    /\ UNCHANGED <<journal, lock, sending, watch, op, wait, sweeps>>

(* The degradation event of the sweep, for the whole node.                 *)
degradation(e) ==
    /\ sweep.pc = "announce"
    /\ insert_event(e, [inst |-> Anyone, op |-> FALSE])
    /\ sweep' = [sweep EXCEPT !.pc = "idle"]
    /\ UNCHANGED <<watch, op, wait, sweeps, faults>>

-----------------------------------------------------------------------------
Moves(w, s) ==
    /\ watch' = [watch EXCEPT ![w] = s]
    /\ UNCHANGED <<journal, lock, sending, sweep, op, sweeps, faults>>

(* WatchEvents, first half: the receiver exists from here on.  A caller    *)
(* resumes from a cursor it has seen, or from now.                         *)
subscribe(w, from) ==
    /\ watch[w].pc = "off"
    /\ Moves(w, [watch[w] EXCEPT !.pc = "anchor", !.from = from])
    /\ UNCHANGED wait

(* WatchEvents, second half: where the stream starts, or that it cannot.   *)
(* `from` then says what the caller is owed: everything after its cursor,  *)
(* or everything from now on.                                              *)
anchor(w) ==
    /\ watch[w].pc = "anchor"
    /\ LET s == watch[w]
       IN  Moves(w, IF s.from = 0
                    THEN [s EXCEPT !.pc = "live", !.from = Len(ev),
                                   !.last = head_cursor]
                    ELSE IF s.from < journal_floor
                    THEN [s EXCEPT !.pc = "too_old"]
                    ELSE [s EXCEPT !.pc = "replay", !.last = s.from])
    /\ UNCHANGED wait

events_after(w) ==
    Oldest({c \in kept : c > watch[w].last /\ Wants(w, c)}, Page)

(* One page; a short one is the end of the journal.                        *)
replay_journal(w) ==
    LET s == watch[w]
        page == events_after(w)
    IN  /\ s.pc = "replay"
        /\ Moves(w, [s EXCEPT
              !.got = @ \cup page,
              !.last = IF page = {} THEN @ ELSE MaxOf(page),
              !.pc = IF Cardinality(page) < Page THEN "live" ELSE "replay"])
        /\ UNCHANGED wait

(* Mutant: what the replay has delivered is delivered again.               *)
recv_no_dedupe(w) ==
    LET s == watch[w]
        c == Head(s.queue)
        rest == [s EXCEPT !.queue = Tail(@)]
    IN  /\ s.pc = "live" /\ ~s.lagged /\ s.queue # <<>>
        /\ Moves(w, IF ~Wants(w, c) THEN rest
                    ELSE [rest EXCEPT !.last = c, !.got = @ \cup {c}])
        /\ UNCHANGED wait

recv(w) ==
    LET s == watch[w]
        c == Head(s.queue)
        rest == [s EXCEPT !.queue = Tail(@)]
    IN  /\ s.pc = "live" /\ ~s.lagged /\ s.queue # <<>>
        /\ Moves(w, IF c <= s.last \/ ~Wants(w, c) THEN rest
                    ELSE [rest EXCEPT !.last = c, !.got = @ \cup {c}])
        /\ UNCHANGED wait

(* Mutant: a receiver that lagged carries on with what is left.            *)
lagged_ignored(w) ==
    /\ watch[w].pc = "live" /\ watch[w].lagged
    /\ Moves(w, [watch[w] EXCEPT !.lagged = FALSE])
    /\ UNCHANGED wait

(* The receiver lagged: repair from the journal, if it still has the gap.  *)
lagged(w) ==
    LET s == watch[w]
    IN  /\ s.pc = "live" /\ s.lagged
        /\ Moves(w, [s EXCEPT !.lagged = FALSE,
              !.pc = IF s.last < journal_floor THEN "too_old" ELSE "replay"])
        /\ UNCHANGED wait

(* The caller hangs up.                                                    *)
close(w) ==
    /\ w = Follower => wait = "absent"
    /\ watch[w].pc \in {"replay", "live"}
    /\ Moves(w, [watch[w] EXCEPT !.pc = "closed"])
    /\ UNCHANGED wait

-----------------------------------------------------------------------------
Waits(pc) ==
    /\ wait' = pc
    /\ UNCHANGED <<journal, lock, sending, watch, sweep, sweeps, faults>>

(* follow.rs: the subscription is open before anything is submitted.       *)
watched ==
    /\ wait = "watch" /\ watch[Follower].pc \notin {"off", "anchor"}
    /\ Waits("submit") /\ UNCHANGED op

(* The key may be one whose operation has run already.                     *)
submit ==
    /\ wait = "submit"
    /\ Waits("check")
    /\ op' \in IF op = "none" THEN {"running"} ELSE {op}

submit_earlier ==
    /\ wait = "watch" /\ op = "none"
    /\ Waits("watch")
    /\ op' = "running"

settled == op \in {"finished", "announced"}

(* Mutant: the events will tell.                                           *)
check_nothing ==
    /\ wait = "check"
    /\ Waits("wait") /\ UNCHANGED op

check_settled ==
    /\ wait = "check"
    /\ Waits(IF settled THEN "outcome" ELSE "wait") /\ UNCHANGED op

OpEvents == {c \in 1 .. Len(ev) : ev[c].op}

(* An event of the operation makes the follower ask; the end of the stream *)
(* makes it ask once more; an error on the stream is its error.            *)
next_event ==
    /\ wait = "wait"
    /\ \/ /\ watch[Follower].got \cap OpEvents # {} /\ settled
          /\ Waits("outcome")
       \/ watch[Follower].pc = "too_old" /\ Waits("failed")
    /\ UNCHANGED op

deadline ==
    /\ wait = "wait"
    /\ Waits("timeout") /\ UNCHANGED op

-----------------------------------------------------------------------------
Serve(w) == anchor(w) \/ replay_journal(w) \/ recv(w) \/ lagged(w)
Follow == watched \/ submit \/ check_settled \/ next_event

Next ==
    \/ \E e \in Emitters : send(e) \/ record(e) \/ op_event(e) \/ degradation(e)
    \/ finish_operation
    \/ sweep_retention \/ prune_events \/ prune_fails
    \/ \E w \in Watchers, from \in 0 .. Len(ev) :
          /\ w = Follower /\ wait = "watch" => from = 0
          /\ subscribe(w, from)
    \/ \E w \in Watchers : Serve(w) \/ close(w)
    \/ Follow \/ submit_earlier \/ deadline

Spec == Init /\ [][Next]_vars
FairSpec == /\ Spec
            /\ \A e \in Emitters : WF_vars(send(e))
            /\ \A w \in Watchers : WF_vars(Serve(w))
            /\ WF_vars(Follow)

-----------------------------------------------------------------------------
(* Every cursor above the journal's floor is still there to be served,     *)
(* however sweeps, their failures and new events interleave, and also when *)
(* the journal is empty (journal_floor, prune_events).                     *)
FloorHonest == \A c \in 1 .. Len(ev) : c > journal_floor => c \in kept

(* A stream never goes back: nothing is delivered twice or out of order,   *)
(* although replay and bus overlap (recv, replay_journal).                 *)
InOrder ==
    [][\A w \in Watchers : watch[w].pc \in {"replay", "live"} =>
          /\ watch'[w].last >= watch[w].last
          /\ \A c \in watch'[w].got \ watch[w].got : c > watch[w].last]_vars

(* What a stream has passed over it has delivered: between its start and   *)
(* its last event no event it wants is missing, but for those a sweep took *)
(* while the replay was under way (emit's lock, recv, lagged).             *)
NoHole ==
    \A w \in Watchers : watch[w].pc \in {"replay", "live"} =>
       \A c \in watch[w].from + 1 .. watch[w].last :
          Wants(w, c) => c \in watch[w].got \cup watch[w].raced

(* An event a live stream wants reaches it, or the stream is told that it  *)
(* cannot (lag, retention) or is hung up on.                               *)
Delivered ==
    \A w \in Watchers, c \in Cursors :
       (/\ watch[w].pc \in {"replay", "live"}
        /\ c \in kept /\ c > watch[w].from /\ Wants(w, c))
       ~> \/ c \in watch[w].got \cup watch[w].raced
          \/ watch[w].pc \in {"too_old", "closed"}

(* A follower whose operation has ended, and has been reported, does not   *)
(* wait on: whether the operation ended before the subscription, between   *)
(* the two or during a lag (follow.rs, the order of finish and report);    *)
(* unless a sweep took the report while it was being replayed.             *)
FollowerReturns ==
    (wait \in {"check", "wait"} /\ op = "announced" /\ faults = 0)
    ~> wait \in {"outcome", "failed", "timeout"} \/ watch[Follower].raced # {}
=============================================================================
