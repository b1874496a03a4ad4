------------------------------ MODULE MCStore ------------------------------
(***************************************************************************)
(* What a node keeps of an instance, for TLC: its snapshots and restores   *)
(* (Snapshots), the object store and its capsules (Capsules), the          *)
(* snapshots that travel between nodes (Portable), the sandbox behind the  *)
(* substrate's API (Hypeman) and two nodes on one Docker daemon (Docker).  *)
(* The parts share no state, so one behaviour is of one of them, chosen at *)
(* the start. Snapshots is extended, the others instantiated.              *)
(***************************************************************************)
EXTENDS Snapshots, Sequences, TLC

CONSTANTS a, b,    \* nodes of module Docker
          p1, p2   \* instances of module Portable

Renaming == Permutations({a, b}) \cup Permutations({p1, p2})

\* Two capsules that share an object; the second names one object twice.
MCManifest == [c1 |-> <<"mem">>, c2 |-> <<"mem", "disk", "mem">>]

\* The first two specs are one machine to a memory image: the second has another tag and
\* an egress demand only n1 can meet; the third has another disk.
Machine(tag, disk, mediated) ==
    [ulid |-> TRUE, tag |-> tag, digest |-> "d", ref |-> "r", arch |-> "x",
     vcpu |-> 1, mem |-> 1, disk |-> disk, mediated |-> mediated]
MCSpecs == {Machine("t", 1, FALSE), Machine("u", 1, TRUE), Machine("t", 2, FALSE)}

\* Two nodes of one architecture, with two CPU classes and two bundles to be had.
AllCaps == [capsule_import |-> TRUE, capsule_export |-> TRUE,
            memory_snapshot |-> TRUE, cow_fork |-> TRUE,
            full_copy_fork |-> TRUE, hardware_isolation |-> TRUE,
            egress_control |-> TRUE]
MCCaps == [n1 |-> AllCaps, n2 |-> [AllCaps EXCEPT !.egress_control = FALSE]]
MCHosts == {[m \in {"n1", "n2"} |-> [cpu |-> "c1", bundle |-> "b1"]]}
MCArch == [n1 |-> "x", n2 |-> "x"]

VARIABLES
    of,  \* the part of the system this behaviour is of
    x1, x2, x3, x4, x5, x6, x7, x8, x9, x10, x11  \* the variables of a part that is instantiated here

C == INSTANCE Capsules WITH
        Digests <- {"mem", "disk"}, CapsuleIds <- {"c1", "c2"}, Manifest <- MCManifest,
        Exportable <- {"c1", "c2"}, Held <- {"c1"}, Keys <- {"k1", "k2"},
        HasRemote <- TRUE, Foreign <- {"none"}, PutOutcomes <- {"good", "bad"},
        MaxCrashes <- 1, local <- x1, staging <- x2, bucket <- x3, capsules <- x4,
        refs <- x5, pending <- x6, imported <- x7, ops <- x8, work <- x9, boot <- x10,
        crashes <- x11
P == INSTANCE Portable WITH
        Nodes <- {"n1", "n2"}, Ids <- {p1, p2}, Cpus <- {"c1", "c2"},
        Bundles <- {"b1", "b2"}, Specs <- MCSpecs, Caps <- MCCaps, Arch <- MCArch,
        Hosts <- MCHosts, MaxRows <- 2, MaxExports <- 1, MaxSnaps <- 2, MaxUpgrades <- 0,
        node <- x1, inst <- x2, snaps <- x3, wire <- x4, imported <- x5, restored <- x6,
        upgrades <- x7
U == INSTANCE Portable WITH
        Nodes <- {"n1", "n2"}, Ids <- {p1, p2}, Cpus <- {"c1", "c2"},
        Bundles <- {"b1", "b2"}, Specs <- MCSpecs, Caps <- MCCaps, Arch <- MCArch,
        Hosts <- MCHosts, MaxRows <- 2, MaxExports <- 1, MaxSnaps <- 1, MaxUpgrades <- 1,
        node <- x1, inst <- x2, snaps <- x3, wire <- x4, imported <- x5, restored <- x6,
        upgrades <- x7
H == INSTANCE Hypeman WITH
        Inst <- {"a", "b"}, MaxPort <- 2, Attempts <- 2, Foreigners <- TRUE,
        MaxBoxes <- 6, MaxVerbs <- 3, MaxFaults <- 1, phase <- x1, op <- x2, box <- x3,
        vol <- x4, ing <- x5, foreign <- x6, held <- x7, verbs <- x8, faults <- x9
D == INSTANCE Docker WITH
        Nodes <- {a, b}, Ids <- {1}, Codes <- {0, 3}, MaxRuns <- 2, MaxCrashes <- 1,
        row <- x1, box <- x2, acted <- x3, stage <- x4, swept <- x5, crashes <- x6

all == <<of, vars, x1, x2, x3, x4, x5, x6, x7, x8, x9, x10, x11>>

\* The variables a part has no use for.
Spare0 == <<x1, x2, x3, x4, x5, x6, x7, x8, x9, x10, x11>>
Spare6 == <<x7, x8, x9, x10, x11>>
Spare7 == <<x8, x9, x10, x11>>
Spare9 == <<x10, x11>>
Unused9 == x10 = 0 /\ x11 = 0
Unused7 == x8 = 0 /\ x9 = 0 /\ Unused9
Unused6 == x7 = 0 /\ Unused7
Unused0 == x1 = 0 /\ x2 = 0 /\ x3 = 0 /\ x4 = 0 /\ x5 = 0 /\ x6 = 0 /\ Unused6

\* A behaviour of another part leaves the instance of Snapshots as it was created.
NoSnapshots == Init /\ bundle = "b1"

SuiteInit ==
    \/ of = "snapshots" /\ Init /\ Unused0
    \/ of = "capsules" /\ C!Init /\ NoSnapshots
    \/ of = "portable" /\ P!Init /\ Unused7 /\ NoSnapshots
    \/ of = "upgrades" /\ U!Init /\ Unused7 /\ NoSnapshots
    \/ of = "hypeman" /\ H!Init /\ Unused9 /\ NoSnapshots
    \/ of = "docker" /\ D!DockerInit /\ Unused6 /\ NoSnapshots

SuiteNext ==
    \/ of = "snapshots" /\ Next /\ UNCHANGED <<of, Spare0>>
    \/ of = "capsules" /\ C!Next /\ UNCHANGED <<of, vars>>
    \/ of = "portable" /\ P!Next /\ UNCHANGED <<of, vars, Spare7>>
    \/ of = "upgrades" /\ U!Next /\ UNCHANGED <<of, vars, Spare7>>
    \/ of = "hypeman" /\ H!Next /\ UNCHANGED <<of, vars, Spare9>>
    \/ of = "docker" /\ D!DockerNext /\ UNCHANGED <<of, vars, Spare6>>

SuiteSpec == SuiteInit /\ [][SuiteNext]_all

-----------------------------------------------------------------------------
\* The object store keeps what a capsule stands on (Capsules). The reference counts are
\* the entries of registered manifests, and an object is marked for collection exactly
\* when nothing names it; a capsule is recorded in the bucket only by a task that read
\* all of it back, and its tier never falls; bytes a registered capsule names leave the
\* disk only by a GC pass that listed them while nothing named them; after bootstrap
\* the store holds nothing a crash left over.
CapsulesHonest ==
    /\ [](of = "capsules" => C!TypeOK /\ C!RefsHonest)
    /\ [][of = "capsules" => /\ C!RemoteEvidence /\ C!TierRises
                             /\ C!LiveBytesKept /\ C!BootLeavesNoOrphan]_all

\* A memory image is given only to the machine it was taken on, what descends from an
\* instance carries its lineage, a capsule a node took in stays restorable on it, and
\* an export repeated is the same capsule (Portable), while nodes exchange capsules and
\* while a bundle changes under them.
Portability ==
    /\ of = "portable" => P!TypeOK /\ P!ExactMachine /\ P!LineageKept /\ P!GoodStaysGood /\ P!OneCapsule
    /\ of = "upgrades" => U!TypeOK /\ U!ExactMachine /\ U!LineageKept /\ U!GoodStaysGood /\ U!OneCapsule

\* A boot that reports RUNNING has one sandbox, told the port that is published; the
\* address of an instance stays until it is destroyed; a destroy that reports success
\* removed the route and the credential; and a port is reserved exactly while an
\* attempt holds it (Hypeman).
SandboxHonest ==
    /\ [](of = "hypeman" => H!TypeOK /\ H!DestroyedIsClean /\ H!ReservationsHeld)
    /\ [][of = "hypeman" => H!RunningIsReal /\ H!AddressSticky]_all

\* From CREATED on an instance has its container and the run its journal knows of;
\* PAUSED and STOPPED hold no running workload; an exit code on record is the one the
\* last run ended with; and after a restart whose sweep reached the daemon no container
\* is left over (Docker), two nodes sharing the daemon.
ContainersHonest ==
    of = "docker" => /\ D!DockerTypeOK /\ D!ContainerKept /\ D!PausedHoldsNothing
                     /\ D!ExitHonest /\ D!NoOrphanAfterSweep

\* Nobody waits for a step that cannot come: a capsule key that is reserved, an
\* operation of a snapshot that executes and leftovers on the substrate each have a
\* step of the code itself ahead (Owed and Progress of each module), after every crash.
NeverStuck ==
    /\ of = "snapshots" /\ Owed => ENABLED Progress
    /\ of = "capsules" /\ C!Owed => ENABLED C!Progress
    /\ of = "hypeman" /\ H!Owed => ENABLED H!Progress
=============================================================================
