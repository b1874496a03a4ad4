------------------------------ MODULE Portable ------------------------------
(***************************************************************************)
(* Where a memory image may be restored (restore.rs, snapshot_key.rs,      *)
(* capsule.rs, admission.rs, node_info.rs and their callers in ops.rs,     *)
(* service.rs and capsule_ops.rs).                                         *)
(*                                                                         *)
(* Instances are created, paused, resumed and forked on several nodes;     *)
(* their snapshots are exported as capsules, imported elsewhere and        *)
(* restored into a machine the caller describes.  Nodes restart with       *)
(* another runtime bundle or another CPU class.  Modules Capsules and      *)
(* Snapshots have the bytes, the crashes and the interleavings of one      *)
(* node; here a verb is one step, and the subject is what the              *)
(* compatibility keys let through over a long history on several nodes.    *)
(***************************************************************************)
EXTENDS Naturals, Sequences, FiniteSets, TLC

CONSTANTS Nodes, Ids,
          Specs,       \* the specs callers send, see Spec_
          Cpus, Bundles,
          Hosts,       \* the [cpu, bundle] of every node when they start
          Arch,        \* [Nodes -> architectures]
          Caps,        \* [Nodes -> the capabilities of its runtime]
          MaxRows, MaxSnaps, MaxExports, MaxUpgrades

Kinds == {"MemoryAndDisk", "DiskOnly"}
None == ""

VARIABLES node,      \* [Nodes -> [cpu, bundle]]: cpu_class, runtime.version()
          inst,      \* [Nodes -> [Ids -> a row or NoRow]]: table instances
          snaps,     \* the snapshot rows, all nodes, in the order taken
          wire,      \* the manifests exported so far
          imported,  \* [Nodes -> SUBSET wire]: registered by an import
          restored,  \* the memory image the last step gave to a sandbox
          upgrades

vars == <<node, inst, snaps, wire, imported, restored, upgrades>>

NoRow == [state |-> "none"]
Nothing == [kind |-> "none"]

Init == /\ node \in Hosts
        /\ inst = [n \in Nodes |-> [i \in Ids |-> NoRow]]
        /\ snaps = <<>>
        /\ wire = {}
        /\ imported = [n \in Nodes |-> {}]
        /\ restored = Nothing
        /\ upgrades = 0

-----------------------------------------------------------------------------
(* admit: a well-formed id, a pinned digest, and no demand the runtime     *)
(* cannot honour.                                                          *)
admit(spec, hardware, caps) ==
    /\ spec.ulid
    /\ spec.digest # None
    /\ hardware => caps.hardware_isolation
    /\ spec.mediated => caps.egress_control

\* Mutation: the disk is not part of the machine.
hash_without_disk(spec) ==
    <<spec.digest, spec.ref, spec.arch, spec.vcpu, spec.mem>>

(* template_hash: the named fields, in this order; the tag is not one.     *)
template_hash(spec) ==
    <<spec.digest, spec.ref, spec.arch, spec.vcpu, spec.mem, spec.disk>>

(* The two machines are one as far as a memory image can tell.             *)
SameMachine(a, b) ==
    /\ a.digest = b.digest /\ a.ref = b.ref /\ a.arch = b.arch
    /\ a.vcpu = b.vcpu /\ a.mem = b.mem /\ a.disk = b.disk

fallback(strict) == IF strict THEN "Refuse" ELSE "ColdBoot"

(* decide, for a resume; has says that there is a row at all.              *)
decide(has, row, spec, n, strict) ==
    CASE ~has                                    -> fallback(strict)
      [] row.kind # "MemoryAndDisk"              -> fallback(strict)
      [] row.template # template_hash(spec)      -> fallback(strict)
      [] row.bundle # node[n].bundle             -> fallback(strict)
      [] row.tier = "ObjectStore" /\ row.cpu # node[n].cpu
                                                 -> fallback(strict)
      [] OTHER                                   -> "FromMemory"

(* decide_capsule: every key must match; there is no cold boot.            *)
decide_capsule(m, spec, n) ==
    /\ m.kind = "MemoryAndDisk"
    /\ m.arch = spec.arch
    /\ m.cpu = node[n].cpu
    /\ m.template = template_hash(spec)
    /\ m.bundle = node[n].bundle

-----------------------------------------------------------------------------
SetRow(n, i, row) == inst' = [inst EXCEPT ![n][i] = row]

(* A row that is not there yet, within the bound on rows.                  *)
Vacant(n, i) ==
    /\ inst[n][i] = NoRow
    /\ Cardinality({p \in Nodes \X Ids : inst[p[1]][p[2]] # NoRow}) < MaxRows

create_instance(n, i, spec, hardware) ==
    /\ Vacant(n, i)
    /\ admit(spec, hardware, Caps[n])
    /\ SetRow(n, i, [state |-> "running", spec |-> spec, lineage |-> None,
                     latest |-> 0, root |-> i])
    /\ restored' = Nothing
    /\ UNCHANGED <<node, snaps, wire, imported, upgrades>>

(* record_snapshot, of a pause: the keys are the node's at that moment and *)
(* the hash of the journaled spec.  image and root are history.            *)
record_snapshot(n, i, kind) ==
    LET row == inst[n][i] IN
    /\ row.state = "running"
    /\ Len(snaps) < MaxSnaps
    /\ kind = "MemoryAndDisk" => Caps[n].memory_snapshot
    /\ snaps' = Append(snaps,
         [node |-> n, instance |-> i, kind |-> kind, cpu |-> node[n].cpu,
          template |-> template_hash(row.spec), bundle |-> node[n].bundle,
          tier |-> "Local", created |-> Len(snaps) + 1,
          image |-> [cpu |-> node[n].cpu, bundle |-> node[n].bundle,
                     spec |-> row.spec],
          root |-> row.root])
    /\ SetRow(n, i, [row EXCEPT !.state = "paused",
                                !.latest = Len(snaps) + 1])
    /\ restored' = Nothing
    /\ UNCHANGED <<node, wire, imported, upgrades>>

Restored(how, image, n, spec, kind) ==
    restored' = [how |-> how, kind |-> kind, image |-> image,
                 cpu |-> node[n].cpu, bundle |-> node[n].bundle,
                 spec |-> spec]

(* Resume of the latest snapshot.  A refusal changes nothing.              *)
resume_instance(n, i, strict) ==
    LET row == inst[n][i]
        latest == snaps[row.latest]
        d == decide(TRUE, latest, row.spec, n, strict)
    IN  /\ row.state = "paused"
        /\ d # "Refuse"
        /\ SetRow(n, i, [row EXCEPT !.state = "running"])
        /\ IF d = "FromMemory"
           THEN Restored("resume", latest.image, n, row.spec, latest.kind)
           ELSE restored' = Nothing
        /\ UNCHANGED <<node, snaps, wire, imported, upgrades>>

(* The lineage of a branch: its source's, or the source as a root.         *)
lineage_of(lineage, source) == IF lineage = None THEN source ELSE lineage

(* What the substrate's fork leaves: a copy where copy-on-write was         *)
(* required is removed again and the operation fails.                      *)
fork(require_cow, mode) ==
    IF require_cow /\ mode # "Cow" THEN "failed" ELSE "running"

(* fork_instance: the child's spec is the source's, and so is its lineage. *)
fork_instance(n, s, i, require_cow, mode) ==
    LET row == snaps[s]
        source == inst[n][row.instance]
    IN  /\ row.node = n
        /\ require_cow => Caps[n].cow_fork
        /\ Caps[n].cow_fork \/ Caps[n].full_copy_fork
        /\ Vacant(n, i)
        /\ SetRow(n, i,
             [state |-> fork(require_cow, mode), spec |-> source.spec,
              lineage |-> lineage_of(source.lineage, row.instance),
              latest |-> 0, root |-> row.root])
        /\ IF fork(require_cow, mode) = "running"
              /\ row.kind = "MemoryAndDisk"
           THEN Restored("fork", row.image, n, source.spec, row.kind)
           ELSE restored' = Nothing
        /\ UNCHANGED <<node, snaps, wire, imported, upgrades>>

-----------------------------------------------------------------------------
(* The objects of a capture, in the order the runtime lists them.          *)
ObjectsOf(s) == IF snaps[s].kind = "MemoryAndDisk"
                THEN {<<2 * s, 2 * s + 1>>, <<2 * s + 1, 2 * s>>}
                ELSE {<<2 * s>>}

required_capabilities(kind) ==
    {"capsule_import"} \cup
    (IF kind = "MemoryAndDisk" THEN {"memory_restore"} ELSE {})

(* The manifest of an export: the keys of the row, the lineage of the      *)
(* instance, the node's architecture.  of is history.                      *)
manifest_of(n, s, objects) ==
    LET row == snaps[s] IN
    [cpu |-> row.cpu, template |-> row.template, bundle |-> row.bundle,
     kind |-> row.kind, objects |-> objects,
     lineage |-> lineage_of(inst[n][row.instance].lineage, row.instance),
     arch |-> Arch[n], created |-> row.created,
     needs |-> required_capabilities(row.kind), of |-> s]

(* canonical_bytes: the named fields, the objects sorted.                  *)
canonical_bytes(m) ==
    <<m.cpu, m.template, m.bundle, m.kind, m.lineage, m.arch, m.created,
      m.needs, SortSeq(m.objects, LAMBDA a, b : a < b)>>

capsule_id(m) == canonical_bytes(m)

export_capsule(n, s) ==
    /\ snaps[s].node = n
    /\ Caps[n].capsule_export
    /\ Cardinality(wire) < MaxExports
    /\ \E objects \in ObjectsOf(s) :
          wire' = wire \cup {manifest_of(n, s, objects)}
    /\ restored' = Nothing
    /\ UNCHANGED <<node, inst, snaps, imported, upgrades>>

(* The capabilities a manifest names, as this runtime answers them.        *)
Available(n) ==
    {c \in {"capsule_import", "memory_restore"} :
        \/ c = "capsule_import" /\ Caps[n].capsule_import
        \/ c = "memory_restore" /\ Caps[n].memory_snapshot}

(* The preflight of an import.                                             *)
preflight(n, m) ==
    /\ Caps[n].capsule_import
    /\ m.arch = Arch[n]
    /\ required_capabilities(m.kind) \subseteq m.needs
    /\ m.needs \subseteq Available(n)
    /\ m.cpu = node[n].cpu

(* A re-import replaces the row that has the same id.                      *)
import_capsule(n, m) ==
    /\ preflight(n, m)
    /\ imported' = [imported EXCEPT ![n] =
          {x \in @ : capsule_id(x) # capsule_id(m)} \cup {m}]
    /\ restored' = Nothing
    /\ UNCHANGED <<node, inst, snaps, wire, upgrades>>

(* restore_imported_capsule, into a machine the caller describes.          *)
restore_imported_capsule(n, i, m, spec) ==
    /\ Vacant(n, i)
    /\ Caps[n].capsule_import /\ Caps[n].memory_snapshot
    /\ decide_capsule(m, spec, n)
    /\ SetRow(n, i, [state |-> "running", spec |-> spec,
                     lineage |-> lineage_of(m.lineage, i), latest |-> 0,
                     root |-> snaps[m.of].root])
    /\ Restored("capsule", snaps[m.of].image, n, spec, m.kind)
    /\ UNCHANGED <<node, snaps, wire, imported, upgrades>>

(* The node agent restarts on another bundle or with another CPU class     *)
(* (one at a time: a change of both is two of them).                       *)
upgrade(n, c, b) ==
    /\ upgrades < MaxUpgrades
    /\ upgrades' = upgrades + 1
    /\ node[n].cpu = c \/ node[n].bundle = b
    /\ node' = [node EXCEPT ![n] = [cpu |-> c, bundle |-> b]]
    /\ restored' = Nothing
    /\ UNCHANGED <<inst, snaps, wire, imported>>

Next ==
    \E n \in Nodes :
       \/ \E i \in Ids :
            \/ \E spec \in Specs, hardware \in BOOLEAN :
                  create_instance(n, i, spec, hardware)
            \/ \E kind \in Kinds : record_snapshot(n, i, kind)
            \/ \E strict \in BOOLEAN : resume_instance(n, i, strict)
            \/ \E s \in DOMAIN snaps, cow \in BOOLEAN,
                  mode \in {"Cow", "FullCopy"} :
                  fork_instance(n, s, i, cow, mode)
            \/ \E m \in imported[n], spec \in Specs :
                  restore_imported_capsule(n, i, m, spec)
       \/ \E s \in DOMAIN snaps : export_capsule(n, s)
       \/ \E m \in wire : import_capsule(n, m)
       \/ \E c \in Cpus, b \in Bundles : upgrade(n, c, b)

Spec == Init /\ [][Next]_vars

-----------------------------------------------------------------------------
Rows == {r \in UNION {{inst[n][i] : i \in Ids} : n \in Nodes} : r # NoRow}

(* The state stays typed: a row points at a snapshot taken, a manifest     *)
(* names a snapshot taken, and only exported manifests are imported.       *)
TypeOK ==
    /\ node \in [Nodes -> [cpu : Cpus, bundle : Bundles]]
    /\ \A r \in Rows : /\ r.state \in {"running", "paused", "failed"}
                       /\ r.spec \in Specs /\ r.latest \in 0 .. Len(snaps)
                       /\ r.state = "paused" => r.latest # 0
    /\ \A s \in DOMAIN snaps : inst[snaps[s].node][snaps[s].instance] # NoRow
    /\ \A m \in wire : m.of \in DOMAIN snaps
    /\ \A n \in Nodes : imported[n] \subseteq wire

(* A resume or a capsule restore gives a memory image only to the machine  *)
(* it was taken on: same image digest, architecture and resources, same    *)
(* bundle, and, when it came from a capsule, same CPU class -- whatever    *)
(* was exported, imported and upgraded in between.                         *)
ExactMachine ==
    restored.kind # "none" /\ restored.how # "fork" =>
        /\ restored.kind = "MemoryAndDisk"
        /\ SameMachine(restored.image.spec, restored.spec)
        /\ restored.image.bundle = restored.bundle
        /\ restored.how = "capsule" => restored.image.cpu = restored.cpu

(* Every instance that descends from another, by forks, exports, imports   *)
(* and restores in any number and on any nodes, carries the lineage of the *)
(* one the chain began with, and so does every capsule on the way.         *)
LineageKept ==
    /\ \A n \in Nodes, i \in Ids : inst[n][i] # NoRow =>
          lineage_of(inst[n][i].lineage, i) = inst[n][i].root
    /\ \A m \in wire : m.lineage = snaps[m.of].root

(* A capsule a node took in stays restorable on it: while the node has the *)
(* CPU class and the bundle of the capture, the spec it was taken from is  *)
(* accepted, also when its tag has been moved.                             *)
GoodStaysGood ==
    \A n \in Nodes : \A m \in imported[n] : \A spec \in Specs :
        LET image == snaps[m.of].image IN
        /\ m.kind = "MemoryAndDisk"
        /\ SameMachine(image.spec, spec)
        /\ spec.arch = Arch[n]
        /\ node[n] = [cpu |-> image.cpu, bundle |-> image.bundle]
        => decide_capsule(m, spec, n)

(* An export repeated is the same capsule, in whatever order the runtime   *)
(* lists the objects and whatever the node runs by then.                   *)
OneCapsule ==
    \A m \in wire : \A objects \in ObjectsOf(m.of) :
        capsule_id(manifest_of(snaps[m.of].node, m.of, objects))
            = capsule_id(m)
=============================================================================
