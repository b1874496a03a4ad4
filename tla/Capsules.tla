------------------------------ MODULE Capsules ------------------------------
(***************************************************************************)
(* Capsules and the immutable-object store (capsule_ops.rs, objects.rs,    *)
(* the capsule tables of db.rs, the capsule verbs of service.rs).          *)
(*                                                                         *)
(* A capsule is a manifest, identified by its content, and the objects the *)
(* manifest names by digest.  The node keeps object files (local), files   *)
(* of uploads under way (staging) and, if one is configured, a bucket      *)
(* other nodes write too.  The journal keeps the registered capsules, a    *)
(* reference count per object, and one row per idempotency key.  Every     *)
(* verb runs as a task of its own; there is no lock across its steps.      *)
(***************************************************************************)
EXTENDS Integers, Sequences, FiniteSets, Functions, SequencesExt

CONSTANTS Digests,     \* object digests
          CapsuleIds,  \* canonical manifests, which is what an id stands for
          Manifest,    \* CapsuleIds -> Seq(Digests): a digest may occur twice
          Exportable,  \* the capsules this node has the snapshot of
          Keys,        \* idempotency keys of the capsule verbs
          Held,        \* the capsules it may hold when it starts
          HasRemote,   \* is a bucket configured?
          Foreign,     \* what the bucket may hold under a digest at first
          PutOutcomes, \* what the bucket may hold after a PUT it accepted
          MaxCrashes

Restorer == "restorer"          \* the executor of a capsule restore
Workers == Keys \cup {Restorer}
Bytes == {"none", "good", "bad"}    \* nothing, the digest's bytes, other bytes
Tiers == {"LocalDir", "ObjectStore"}
Verbs == {"export", "import", "delete"}

VARIABLES local,     \* [Digests -> Bytes]: objects/
          staging,   \* the workers whose staging file exists
          bucket,    \* [Digests -> Bytes]
          capsules,  \* [CapsuleIds -> {"none"} \cup Tiers]: table capsules
          refs,      \* [Digests -> -1 .. n]: refcount, -1 without a row
          pending,   \* the digests whose row has gc_pending
          imported,  \* the capsules with a snapshot row capsule:<id>
          ops,       \* [Keys -> {"none", "Running", "Done", "Failed"}]
          work,      \* [Workers -> Task]
          boot,      \* "up", "down" or the step of bootstrap
          crashes

vars == <<local, staging, bucket, capsules, refs, pending, imported, ops,
          work, boot, crashes>>
journal == <<capsules, refs, pending, imported, ops>>
store == <<local, staging, bucket>>

(* A task: where it is, what it was asked, the position in the manifest,   *)
(* the objects it read good from the bucket, the objects its GC pass has   *)
(* listed, and whether the work succeeded.                                 *)
Idle == [pc |-> "idle", verb |-> "none", cap |-> "none", tier |-> "none",
         at |-> 0, seen |-> {}, gc |-> {}, ok |-> FALSE]

Task == [pc : STRING, verb : STRING, cap : CapsuleIds \cup {"none"},
         tier : Tiers \cup {"none"}, at : Nat, seen : SUBSET Digests,
         gc : SUBSET Digests, ok : BOOLEAN]

Uses(c, d) == Cardinality({i \in DOMAIN Manifest[c] : Manifest[c][i] = d})
Total(S, d) == SumFunction([c \in S |-> Uses(c, d)])

(* The agent starts with the capsules earlier calls left: some of Held,    *)
(* whole on disk, each exported here or imported.                          *)
Init == /\ \E h \in SUBSET Held :
              LET named == UNION {ToSet(Manifest[c]) : c \in h}
              IN  /\ local = [d \in Digests |->
                                IF d \in named THEN "good" ELSE "none"]
                  /\ capsules = [c \in CapsuleIds |->
                                   IF c \in h THEN "LocalDir" ELSE "none"]
                  /\ refs = [d \in Digests |->
                               IF d \in named THEN Total(h, d) ELSE -1]
                  /\ imported \in SUBSET h
        /\ staging = {}
        /\ bucket \in [Digests -> IF HasRemote THEN Foreign ELSE {"none"}]
        /\ pending = {}
        /\ ops = [k \in Keys |-> "none"]
        /\ work = [w \in Workers |-> Idle]
        /\ boot = "up"
        /\ crashes = 0

At(w, pc) == boot = "up" /\ work[w].pc = pc
Objects(w) == Manifest[work[w].cap]
Digest(w) == Objects(w)[work[w].at]
Goto(w, pc) == work' = [work EXCEPT ![w].pc = pc]
Fail(w) == Goto(w, "finish")

-----------------------------------------------------------------------------
(* The reservation of a key, before any side effect.  A key that has a row *)
(* is answered from the row (or refused) and starts nothing.               *)
Started(k) == ops[k] = "none"

begin_capsule_op(k, verb, c, t) ==
    /\ boot = "up"
    /\ Started(k)
    /\ verb = "delete" => t = "LocalDir"      \* a delete names no tier
    /\ ops' = [ops EXCEPT ![k] = "Running"]
    /\ work' = [work EXCEPT ![k] =
          [Idle EXCEPT !.pc = verb, !.verb = verb, !.cap = c, !.tier = t,
                       !.at = 1]]
    /\ UNCHANGED <<store, capsules, refs, pending, imported, boot,
                   crashes>>

(* The row a verb settles: only a RUNNING one.                             *)
settled(row, ok) ==
    IF row # "Running" THEN row ELSE IF ok THEN "Done" ELSE "Failed"

finish_capsule_op(k) ==
    /\ At(k, "finish")
    /\ k \in Keys
    /\ ops' = [ops EXCEPT ![k] = settled(@, work[k].ok)]
    /\ work' = [work EXCEPT ![k] = Idle]
    /\ UNCHANGED <<store, capsules, refs, pending, imported, boot,
                   crashes>>

-----------------------------------------------------------------------------
(* export: tier, snapshot row, capability, then the bytes of the runtime.  *)
export_capsule(k) ==
    /\ At(k, "export")
    /\ \/ /\ work[k].tier = "ObjectStore" => HasRemote
          /\ work[k].cap \in Exportable
          /\ Goto(k, "stage")
       \/ Fail(k)
    /\ UNCHANGED <<store, journal, boot, crashes>>

(* The next object, written to a staging file and measured there.          *)
stage(k) ==
    /\ At(k, "stage")
    /\ IF work[k].at > Len(Objects(k))
       THEN Goto(k, "register") /\ UNCHANGED staging
       ELSE /\ Goto(k, IF work[k].tier = "ObjectStore" THEN "head"
                       ELSE "commit")
            /\ staging' = staging \cup {k}
    /\ UNCHANGED <<local, bucket, journal, boot, crashes>>

Next_object(w, pc, read) ==
    work' = [work EXCEPT ![w].pc = pc, ![w].at = @ + 1,
                         ![w].seen = @ \cup read]

(* commit: a digest already there is success and the upload is dropped;    *)
(* otherwise the staging file is renamed, which fails if it is gone.       *)
commit(w, from, pc, read) ==
    /\ At(w, from)
    /\ \/ /\ local[Digest(w)] # "none"
          /\ Next_object(w, pc, read)
          /\ UNCHANGED local
       \/ /\ local[Digest(w)] = "none" /\ w \in staging
          /\ local' = [local EXCEPT ![Digest(w)] = "good"]
          /\ Next_object(w, pc, read)
       \/ /\ local[Digest(w)] = "none" /\ w \notin staging
          /\ Fail(w)
          /\ UNCHANGED local
    /\ staging' = staging \ {w}
    /\ UNCHANGED <<bucket, journal, boot, crashes>>

commit_local(k) == commit(k, "commit", "stage", {})

(* Mutant: a key the bucket has counts as verified.                        *)
trusts_head(k) ==
    /\ At(k, "head")
    /\ \/ bucket[Digest(k)] = "none" /\ Goto(k, "put")
       \/ bucket[Digest(k)] # "none" /\ Next_object(k, "stage", {})
       \/ Fail(k)
    /\ UNCHANGED <<store, journal, boot, crashes>>

(* commit_remote: HEAD, PUT unless the key exists, then read back and hash *)
(* what the bucket holds.  Any request may fail; the staging file of a     *)
(* failed request stays.                                                   *)
remote_contains(k) ==
    /\ At(k, "head")
    /\ \/ Goto(k, IF bucket[Digest(k)] = "none" THEN "put" ELSE "readback")
       \/ Fail(k)
    /\ UNCHANGED <<store, journal, boot, crashes>>

put(k) ==
    /\ At(k, "put")
    /\ \/ /\ k \in staging
          /\ \E b \in PutOutcomes : bucket' = [bucket EXCEPT ![Digest(k)] = b]
          /\ Goto(k, "readback")
       \/ Fail(k) /\ UNCHANGED bucket
    /\ UNCHANGED <<local, staging, journal, boot, crashes>>

read_back(k) ==
    /\ At(k, "readback")
    /\ \/ /\ bucket[Digest(k)] = "good"
          /\ Next_object(k, "stage", {Digest(k)})
          /\ staging' = staging \ {k}
       \/ bucket[Digest(k)] = "bad" /\ Goto(k, "discard") /\ UNCHANGED staging
       \/ Fail(k) /\ UNCHANGED staging
    /\ UNCHANGED <<local, bucket, journal, boot, crashes>>

(* Bytes that did not verify are deleted from the bucket, if it lets us.   *)
discard(k) ==
    /\ At(k, "discard")
    /\ \E b \in {"none", bucket[Digest(k)]} :
          bucket' = [bucket EXCEPT ![Digest(k)] = b]
    /\ staging' = staging \ {k}
    /\ Fail(k)
    /\ UNCHANGED <<local, journal, boot, crashes>>

-----------------------------------------------------------------------------
(* import: the preflight of tier, capabilities, schema, architecture and   *)
(* CPU class (module Portable has it in full) comes before any byte.      *)
import_capsule(k) ==
    /\ At(k, "import")
    /\ \/ /\ work[k].tier = "ObjectStore" => HasRemote
          /\ Goto(k, "fetch")
       \/ Fail(k)
    /\ UNCHANGED <<store, journal, boot, crashes>>

(* fetch: the local object, verified as it is read and never repaired from *)
(* the bucket; without one, or always for an import that claims the bucket,*)
(* the bucket's bytes, hashed before they are cached through a staging     *)
(* file.  What the manifest says of the length is part of "good".          *)
fetch(w, done) ==
    /\ At(w, "fetch")
    /\ IF work[w].at > Len(Objects(w))
       THEN Goto(w, done) /\ UNCHANGED staging
       ELSE \/ /\ work[w].tier = "LocalDir" /\ local[Digest(w)] = "good"
               /\ Next_object(w, "fetch", {})
               /\ UNCHANGED staging
            \/ /\ work[w].tier = "ObjectStore" \/ local[Digest(w)] = "none"
               /\ bucket[Digest(w)] = "good"
               /\ Goto(w, "cache")
               /\ staging' = staging \cup {w}
            \/ Fail(w) /\ UNCHANGED staging
    /\ UNCHANGED <<local, bucket, journal, boot, crashes>>

fetch_import(k) == k \in Keys /\ fetch(k, "register")

cache(w) == commit(w, "cache", "fetch", {Digest(w)})

-----------------------------------------------------------------------------
Rank(s) == CASE s = "none" -> 0 [] s = "LocalDir" -> 1 [] s = "ObjectStore" -> 2

(* The references a new row of c takes; they clear any intent to collect.  *)
take(c) ==
    LET tk == ToSet(Manifest[c])
    IN  /\ refs' = [d \in Digests |->
              IF d \in tk THEN (IF refs[d] < 0 THEN 0 ELSE refs[d]) + Uses(c, d)
              ELSE refs[d]]
        /\ pending' = pending \ tk

(* Mutants: the row is written again, whatever tier it has; a second       *)
(* registration takes its references again.                                *)

\* Mutation: registering again takes the references again.
row_takes_twice(c, t) ==
    /\ capsules' = [capsules EXCEPT ![c] = IF Rank(t) > Rank(@) THEN t ELSE @]
    /\ take(c)

(* One transaction: a capsule that has a row takes no second reference and *)
(* its tier only rises; a new one takes a reference per manifest entry.    *)
register_row(c, t) ==
    /\ capsules' = [capsules EXCEPT ![c] = IF Rank(t) > Rank(@) THEN t ELSE @]
    /\ IF capsules[c] = "none" THEN take(c) ELSE UNCHANGED <<refs, pending>>

register_capsule(k) ==
    /\ At(k, "register")
    /\ register_row(work[k].cap, work[k].tier)
    /\ work' = [work EXCEPT ![k].ok = TRUE, ![k].pc =
          IF work[k].verb = "import" THEN "snapshot" ELSE "finish"]
    /\ UNCHANGED <<store, imported, ops, boot, crashes>>

(* The restorable snapshot row of an imported capsule: a write of its own. *)
insert_snapshot(k) ==
    /\ At(k, "snapshot")
    /\ imported' = imported \cup {work[k].cap}
    /\ Goto(k, "finish")
    /\ UNCHANGED <<store, capsules, refs, pending, ops, boot,
                   crashes>>

-----------------------------------------------------------------------------
(* One transaction: the row, its snapshot row, and the references; an      *)
(* object left with none gets the intent to collect it.                    *)
delete_row(c) ==
    LET left(d) == IF refs[d] > Uses(c, d) THEN refs[d] - Uses(c, d) ELSE 0
        tk == ToSet(Manifest[c])
    IN  IF capsules[c] = "none"
        THEN UNCHANGED <<capsules, refs, pending, imported>>
        ELSE /\ capsules' = [capsules EXCEPT ![c] = "none"]
             /\ imported' = imported \ {c}
             /\ refs' = [d \in Digests |->
                   IF d \in tk /\ refs[d] >= 0 THEN left(d) ELSE refs[d]]
             /\ pending' = pending \cup
                           {d \in tk : refs[d] >= 0 /\ left(d) = 0}

delete_capsule(k) ==
    /\ At(k, "delete")
    /\ delete_row(work[k].cap)
    /\ work' = [work EXCEPT ![k].pc = "sweep", ![k].ok = TRUE]
    /\ UNCHANGED <<store, ops, boot, crashes>>

(* run_gc, by the task of a delete: every staging file goes, whoever is    *)
(* writing it; then the objects the journal lists, bytes before row.  A    *)
(* failure of the pass is a warning.                                       *)
sweep_staging(k) ==
    /\ At(k, "sweep")
    /\ \/ staging' = {} /\ Goto(k, "list")
       \/ Goto(k, "finish") /\ UNCHANGED staging
    /\ UNCHANGED <<local, bucket, journal, boot, crashes>>

Collectable == {d \in pending : refs[d] = 0}

collectable_objects(k) ==
    /\ At(k, "list")
    /\ work' = [work EXCEPT ![k].gc = Collectable,
                 ![k].pc = IF Collectable = {} THEN "finish" ELSE "remove"]
    /\ UNCHANGED <<store, journal, boot, crashes>>

remove(k) ==
    /\ At(k, "remove")
    /\ LET d == CHOOSE x \in work[k].gc : TRUE
       IN  local' = [local EXCEPT ![d] = "none"]
    /\ Goto(k, "finalize")
    /\ UNCHANGED <<staging, bucket, journal, boot, crashes>>

Dropped(d) == refs[d] = 0 /\ d \in pending    \* what finalize may delete

(* Mutant: the row is counted down without looking at it again.            *)
finalize_unguarded(k) ==
    /\ At(k, "finalize")
    /\ LET d == CHOOSE x \in work[k].gc : TRUE
           rest == work[k].gc \ {d}
       IN  /\ refs' = [refs EXCEPT ![d] = @ - 1]
           /\ pending' = pending \ {d}
           /\ work' = [work EXCEPT ![k].gc = rest,
                        ![k].pc = IF rest = {} THEN "finish" ELSE "remove"]
    /\ UNCHANGED <<store, capsules, imported, ops, boot, crashes>>

finalize_object_gc(k) ==
    /\ At(k, "finalize")
    /\ LET d == CHOOSE x \in work[k].gc : TRUE
           rest == work[k].gc \ {d}
       IN  /\ refs' = IF Dropped(d) THEN [refs EXCEPT ![d] = -1] ELSE refs
           /\ pending' = IF Dropped(d) THEN pending \ {d} ELSE pending
           /\ work' = [work EXCEPT ![k].gc = rest,
                        ![k].pc = IF rest = {} THEN "finish" ELSE "remove"]
    /\ UNCHANGED <<store, capsules, imported, ops, boot, crashes>>

-----------------------------------------------------------------------------
(* ForkInstance of a capsule's snapshot: the row import wrote and the      *)
(* capsule must be there at submission.                                    *)
restore_imported_capsule(c) ==
    /\ boot = "up"
    /\ work[Restorer] = Idle
    /\ c \in imported
    /\ capsules[c] # "none"
    /\ work' = [work EXCEPT ![Restorer] =
          [Idle EXCEPT !.pc = "load", !.verb = "restore", !.cap = c,
                       !.tier = "LocalDir", !.at = 1]]
    /\ UNCHANGED <<store, journal, boot, crashes>>

(* load_capsule_objects reads the manifest again, then every object.       *)
load_capsule_objects ==
    /\ At(Restorer, "load")
    /\ Goto(Restorer, IF capsules[work[Restorer].cap] = "none" THEN "finish"
                      ELSE "fetch")
    /\ UNCHANGED <<store, journal, boot, crashes>>

fetch_restore == fetch(Restorer, "restore")

restore_from_objects ==
    /\ At(Restorer, "restore") \/ At(Restorer, "finish")
    /\ work' = [work EXCEPT ![Restorer] = Idle]
    /\ UNCHANGED <<store, journal, boot, crashes>>

-----------------------------------------------------------------------------
(* The process dies: the tasks are gone, files, bucket and journal stay.   *)
Crash ==
    /\ boot # "down"
    /\ crashes < MaxCrashes
    /\ crashes' = crashes + 1
    /\ boot' = "down"
    /\ work' = [w \in Workers |-> Idle]
    /\ UNCHANGED <<store, journal>>

(* Mutant: the rows of the lost tasks stay RUNNING.                        *)
recovers_nothing ==
    /\ boot = "down"
    /\ boot' = "untracked"
    /\ UNCHANGED <<store, journal, work, crashes>>

(* Bootstrap: the rows of the lost tasks fail, ...                         *)
recover_capsule_ops ==
    /\ boot = "down"
    /\ boot' = "untracked"
    /\ ops' = [k \in Keys |-> IF ops[k] = "Running" THEN "Failed" ELSE ops[k]]
    /\ UNCHANGED <<store, capsules, refs, pending, imported, work,
                   crashes>>

object_ref(d) == refs[d] >= 0

(* Mutants: the scan is left out; it does not ask the journal.             *)
sweeps_no_object ==
    /\ boot = "untracked"
    /\ boot' = "collect"
    /\ UNCHANGED <<store, journal, work, crashes>>

(* ... objects without a journal row go, ...                               *)
sweep_untracked_local ==
    /\ boot = "untracked"
    /\ boot' = "collect"
    /\ local' = [d \in Digests |-> IF object_ref(d) THEN local[d] ELSE "none"]
    /\ UNCHANGED <<staging, bucket, journal, work, crashes>>

(* ... and run_gc runs, with no other task about.                          *)
run_startup_gc ==
    /\ boot = "collect"
    /\ boot' = "up"
    /\ staging' = {}
    /\ local' = [d \in Digests |->
          IF d \in Collectable THEN "none" ELSE local[d]]
    /\ refs' = [d \in Digests |-> IF d \in Collectable THEN -1 ELSE refs[d]]
    /\ pending' = pending \ Collectable
    /\ UNCHANGED <<bucket, capsules, imported, ops, work, crashes>>

Step(k) ==
    \/ export_capsule(k) \/ stage(k) \/ commit_local(k)
    \/ remote_contains(k) \/ put(k) \/ read_back(k) \/ discard(k)
    \/ import_capsule(k) \/ fetch_import(k) \/ cache(k)
    \/ register_capsule(k) \/ insert_snapshot(k)
    \/ delete_capsule(k) \/ sweep_staging(k) \/ collectable_objects(k)
    \/ remove(k) \/ finalize_object_gc(k)
    \/ finish_capsule_op(k)

Restore == load_capsule_objects \/ fetch_restore \/ cache(Restorer)
           \/ restore_from_objects

Bootstrap == recover_capsule_ops \/ sweep_untracked_local \/ run_startup_gc

Next ==
    \/ \E k \in Keys, verb \in Verbs, c \in CapsuleIds, t \in Tiers :
          begin_capsule_op(k, verb, c, t)
    \/ \E k \in Keys : Step(k)
    \/ \E c \in CapsuleIds : restore_imported_capsule(c)
    \/ Restore
    \/ Crash
    \/ Bootstrap

Spec == Init /\ [][Next]_vars

(* A spawned task runs on and a supervisor starts the agent again; and what *)
(* is owed is the end of every key that was reserved.                      *)
Progress == (\E k \in Keys : Step(k)) \/ Bootstrap
Owed == \E k \in Keys : ops[k] = "Running"

-----------------------------------------------------------------------------
TypeOK ==
    /\ local \in [Digests -> Bytes] /\ bucket \in [Digests -> Bytes]
    /\ staging \subseteq Workers
    /\ capsules \in [CapsuleIds -> {"none"} \cup Tiers]
    /\ refs \in [Digests -> Int] /\ \A d \in Digests : refs[d] >= -1
    /\ pending \subseteq Digests
    /\ imported \subseteq CapsuleIds
    /\ ops \in [Keys -> {"none", "Running", "Done", "Failed"}]
    /\ work \in [Workers -> Task]
    /\ boot \in {"up", "down", "untracked", "collect"}
    /\ crashes \in Nat

(* What the counts stand for.  A reference count is the number of entries  *)
(* of registered manifests that name the object, whatever was exported,    *)
(* imported, deleted and lost in crashes; and an object carries the intent *)
(* to collect it exactly when nothing names it (register_capsule,          *)
(* delete_capsule, finalize_object_gc).                                    *)
Named(d) == Total({c \in CapsuleIds : capsules[c] # "none"}, d)
RefsHonest ==
    \A d \in Digests : /\ IF refs[d] < 0 THEN Named(d) = 0
                          ELSE refs[d] = Named(d)
                       /\ d \in pending <=> refs[d] = 0

(* A capsule is recorded in the bucket tier only by a task that itself     *)
(* read every object of it out of the bucket and found the right bytes     *)
(* (commit_remote's read-back, fetch_remote_verified), even while other    *)
(* tasks put, corrupt and discard the same keys.                           *)
RemoteEvidence ==
    \A c \in CapsuleIds :
       capsules'[c] = "ObjectStore" /\ capsules[c] # "ObjectStore" =>
          \E k \in Keys : /\ work[k].cap = c
                          /\ ToSet(Manifest[c]) \subseteq work[k].seen

(* While a capsule stays registered its tier never falls, whichever export *)
(* or import of the same content registers last (register_capsule).        *)
TierRises ==
    \A c \in CapsuleIds :
       capsules'[c] # "none" => Rank(capsules'[c]) >= Rank(capsules[c])

(* The bytes of an object some registered capsule names leave the disk     *)
(* only by a GC pass that listed the object while nothing named it: the    *)
(* startup sweeps never take one (sweep_untracked_local, run_gc).          *)
LiveBytesKept ==
    \A d \in Digests :
       /\ refs[d] > 0 /\ local[d] # "none" /\ local'[d] = "none"
       => \E k \in Keys : d \in work[k].gc

(* Once bootstrap is through, the store holds nothing a crash left over:   *)
(* no staging file, and no object that no registered capsule names.        *)
BootLeavesNoOrphan ==
    boot = "collect" /\ boot' = "up" =>
       /\ staging' = {}
       /\ \A d \in Digests : local'[d] # "none" =>
             \E c \in CapsuleIds : capsules'[c] # "none" /\ Uses(c, d) > 0
=============================================================================
