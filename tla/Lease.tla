-------------------------------- MODULE Lease --------------------------------
(***************************************************************************)
(* The fleet lease of one session name (lease.rs): the bucket object       *)
(* sessions/<name>, and the conditional writes a node makes to it.         *)
(*                                                                         *)
(* The client here is the most general one.  A node may acquire at any     *)
(* time, with any reading of its clock, and may write with any Held it     *)
(* was ever given and has not dropped, in any order: what holds, holds     *)
(* whatever discipline the callers keep.                                   *)
(*                                                                         *)
(* An absent object is a lease of epoch 0 that nobody owns and that has    *)
(* expired, so that creating the object and updating it are one write,     *)
(* conditional on what was read.  A version is the ETag: a digest of the   *)
(* body (UniqueTags = FALSE), or an identity of the write (TRUE).          *)
(***************************************************************************)
EXTENDS Naturals, FiniteSets

CONSTANTS
    Nodes,        \* node ids
    InstanceIds,  \* instance ids a lease may name
    Clocks,       \* the readings of now_ms(), any node, any time
    Ttl,          \* Timing::ttl
    RunStates,    \* the run states a node stamps
    UniqueTags,   \* whether equal bodies have different ETags
    LostAnswers,  \* whether a write may be applied and answered by an error
    MaxEpoch,     \* bound on epochs
    MaxVersion,   \* bound on versions, where they are unique
    MaxHeld       \* bound on the Helds a node keeps

ASSUME NodesAssumption == "" \notin Nodes
ASSUME InstanceIdsAssumption == "" \notin InstanceIds
ASSUME TimingAssumption ==
    /\ Clocks \subseteq Nat \ {0}
    /\ Ttl \in Nat \ {0}
ASSUME TagsAssumption == UniqueTags \in BOOLEAN /\ LostAnswers \in BOOLEAN
ASSUME BoundsAssumption ==
    MaxEpoch \in Nat /\ MaxVersion \in Nat /\ MaxHeld \in Nat

VARIABLES
    store,   \* the object, with its version
    held,    \* the Helds each node keeps: a lease with the version of it
    seen     \* the read of an acquisition in progress, at most one a node

leaseVars == <<store, held, seen>>

LeaseRecord ==
    [owner : Nodes \cup {""}, epoch : Nat, expires_ms : Nat,
     instance_id : InstanceIds \cup {""}, state : RunStates \cup {"unset"}, version : Nat]

NoLease == [owner |-> "", epoch |-> 0, expires_ms |-> 0, instance_id |-> "",
            state |-> "unset", version |-> 0]

LeaseTypeOK ==
    /\ store \in LeaseRecord
    /\ held \in [Nodes -> SUBSET LeaseRecord]
    /\ seen \in [Nodes -> SUBSET [lease : LeaseRecord, now : Clocks]]

LeaseInit ==
    /\ store = NoLease
    /\ held = [n \in Nodes |-> {}]
    /\ seen = [n \in Nodes |-> {}]

-------------------------------------------------------------------------------
\* Mutation: the write is not conditional.
put_unconditional(expected, lease, answer) ==
    LET written == [lease EXCEPT !.version =
                       IF UniqueTags THEN store.version + 1 ELSE 0]
    IN  \/ answer = "ok" /\ store' = written
        \/ answer = "error" /\ UNCHANGED store

\* One conditional write.  An error says nothing: the write may not have
\* arrived, or may have been applied.
put(expected, lease, answer) ==
    LET written == [lease EXCEPT !.version =
                       IF UniqueTags THEN store.version + 1 ELSE 0]
    IN  \/ answer = "ok" /\ store = expected /\ store' = written
        \/ answer = "refused" /\ store # expected /\ UNCHANGED store
        \/ answer = "error" /\ UNCHANGED store
        \/ answer = "error" /\ LostAnswers /\ store = expected /\ store' = written

\* Lease::is_expired_at
is_expired_at(lease, now) == lease.expires_ms <= now

\* acquire, the read: a live lease of another node ends the attempt.
takeable(lease, n, now) == is_expired_at(lease, now) \/ lease.owner = n

\* Mutation: any lease found expired is a takeover that keeps its epoch.
acquired_keeps_epoch(prev, n, now) ==
    [prev EXCEPT !.owner = n, !.expires_ms = now + Ttl, !.state = "unset",
                 !.epoch = IF prev.epoch = 0 THEN 1 ELSE @]

\* acquire, the lease to write: a live lease of one's own is renewed, anything
\* else is a takeover; the instance is carried over.
acquired(prev, n, now) ==
    [prev EXCEPT !.owner = n, !.expires_ms = now + Ttl, !.state = "unset",
                 !.epoch = IF prev.owner = n /\ ~is_expired_at(prev, now)
                           THEN @ ELSE @ + 1]

renewed(h, now, state) == [h EXCEPT !.expires_ms = now + Ttl, !.state = state]
stamped(h, state) == [h EXCEPT !.state = state]

naming(h, i) == [h EXCEPT !.instance_id = i]

released(h) == [h EXCEPT !.expires_ms = 0]

-------------------------------------------------------------------------------
acquire_read(n, now) ==
    /\ seen[n] = {}
    /\ takeable(store, n, now)
    /\ seen' = [seen EXCEPT ![n] = {[lease |-> store, now |-> now]}]
    /\ UNCHANGED <<store, held>>

acquire_write(n, answer) ==
    /\ \E a \in seen[n] : put(a.lease, acquired(a.lease, n, a.now), answer)
    /\ seen' = [seen EXCEPT ![n] = {}]
    /\ held' = [held EXCEPT ![n] = IF answer = "ok" THEN @ \cup {store'} ELSE @]

\* A write on the strength of a Held, which gives a new Held when it is accepted;
\* the caller may drop with it any that it has.
fenced_write(n, h, lease, answer) ==
    /\ h \in held[n]
    /\ put(h, lease, answer)
    /\ \E kept \in SUBSET held[n] :
          held' = [held EXCEPT ![n] = IF answer = "ok" THEN kept \cup {store'} ELSE kept]
    /\ UNCHANGED seen

renew(n, h, now, state, answer) == fenced_write(n, h, renewed(h, now, state), answer)
stamp_state(n, h, state, answer) == fenced_write(n, h, stamped(h, state), answer)
set_instance(n, h, i, answer) == fenced_write(n, h, naming(h, i), answer)

\* A release gives no Held back.
release(n, h, answer) ==
    /\ h \in held[n]
    /\ put(h, released(h), answer)
    /\ \E kept \in SUBSET held[n] : held' = [held EXCEPT ![n] = kept]
    /\ UNCHANGED seen

\* The node drops Helds, or an attempt: fenced, crashed, or done with them.
forget(n, kept) ==
    /\ kept \subseteq held[n]
    /\ held' = [held EXCEPT ![n] = kept]
    /\ seen' \in {seen, [seen EXCEPT ![n] = {}]}
    /\ UNCHANGED store

Answers == {"ok", "refused", "error"}

fenced(n, h, answer) ==
    \/ \E now \in Clocks, state \in RunStates : renew(n, h, now, state, answer)
    \/ \E state \in RunStates : stamp_state(n, h, state, answer)
    \/ \E i \in InstanceIds : set_instance(n, h, i, answer)
    \/ release(n, h, answer)

node(n) ==
    \/ \E now \in Clocks : acquire_read(n, now)
    \/ \E answer \in Answers : acquire_write(n, answer)
    \/ \E h \in held[n], answer \in Answers : fenced(n, h, answer)
    \/ \E kept \in SUBSET held[n] : forget(n, kept)

LeaseNext ==
    /\ \E n \in Nodes : node(n)
    /\ store'.epoch <= MaxEpoch
    /\ store'.version <= MaxVersion
    /\ \A n \in Nodes : Cardinality(held'[n]) <= MaxHeld

LeaseSpec == LeaseInit /\ [][LeaseNext]_leaseVars

-------------------------------------------------------------------------------
(***************************************************************************)
(* Properties.                                                             *)
(***************************************************************************)
\* No two nodes were ever given the name in the same epoch, however their
\* clocks disagree and whatever answers were lost: two Helds of one epoch are
\* of one node, and nobody holds an epoch the object has not reached
\* (lease.rs: "zero epochs with two owners").
OneOwnerPerEpoch ==
    \A m, n \in Nodes : \A h \in held[m], k \in held[n] :
        /\ h.owner = m
        /\ h.epoch <= store.epoch
        /\ h.epoch = k.epoch => m = n
        /\ h.epoch = store.epoch => store.owner = m

\* A superseded Held changes nothing, be it of a former owner or one the owner
\* itself has replaced: the name changes hands only by a takeover, which advances
\* the epoch by one; no write takes the epoch back; and once a lease names an
\* instance no renewal, stamp or takeover made from an older copy un-names it
\* (lease.rs: "a superseded owner's write is refused by the backend").
NothingOverwritten ==
    [][/\ store'.epoch \in {store.epoch, store.epoch + 1}
       /\ store'.owner # store.owner => store'.epoch = store.epoch + 1
       /\ store.instance_id # "" => store'.instance_id # ""]_leaseVars

\* The lease, with all its clocks and versions, is a register with one owner:
\* reading and writing an object conditionally makes a takeover atomic.
Register == INSTANCE Ownership WITH
    owner <- store.owner,
    epoch <- store.epoch,
    tokens <- [n \in Nodes |-> {h.epoch : h \in held[n]}]

IsRegister == Register!Spec
===============================================================================
