------------------------------ MODULE MCNode -------------------------------
(***************************************************************************)
(* What a node decides, for TLC: the operations on one instance (Ops), the *)
(* lease under the most general client (Lease) and the fleet phase on two  *)
(* nodes (Fleet). The parts share no state here, so one behaviour is of    *)
(* one of them, chosen at the start. Ops and Lease are extended, Fleet is  *)
(* instantiated for its second node.                                       *)
(***************************************************************************)
EXTENDS Ops, Lease, TLC

CONSTANTS a, b,       \* nodes
          i1,         \* an instance
          o1, o2, o3  \* operations

Renaming == Permutations({a, b})
AllKinds == OpKind

VARIABLES
    of,  \* the part of the system this behaviour is of
    x1, x2, x3, x4, x5, x6, x7, x8, x9, x10, x11, x12, x13, x14, x15  \* the variables of a part that is instantiated here

F == INSTANCE Fleet WITH
        Nodes <- {a, b}, InstanceIds <- {i1}, RecordIds <- {i1}, ClientKinds <- {},
        OpsFail <- TRUE, Unreachable <- TRUE, MaxCrashes <- 1, MaxWrites <- 1,
        RunStates <- {"running", "paused"}, Clocks <- {1, 2}, Ttl <- 1,
        UniqueTags <- FALSE, LostAnswers <- FALSE, MaxEpoch <- 2, MaxVersion <- 0,
        MaxHeld <- 2, Policies <- {"coldboot"}, store <- x1, held <- x2, seen <- x3,
        desired <- x4, row <- x5, inst <- x6, task <- x7, stamps <- x8, keys <- x9,
        pc <- x10, want <- x11, mine <- x12, target <- x13, crashes <- x14, writes <- x15

all == <<of, vars, leaseVars, x1, x2, x3, x4, x5, x6, x7, x8, x9, x10, x11, x12, x13,
         x14, x15>>

\* The variables a part has no use for.
Spare0 == <<x1, x2, x3, x4, x5, x6, x7, x8, x9, x10, x11, x12, x13, x14, x15>>
Unused0 ==
    /\ x1 = 0 /\ x2 = 0 /\ x3 = 0 /\ x4 = 0 /\ x5 = 0 /\ x6 = 0 /\ x7 = 0 /\ x8 = 0 /\ x9 = 0
    /\ x10 = 0 /\ x11 = 0 /\ x12 = 0 /\ x13 = 0 /\ x14 = 0 /\ x15 = 0

\* The ids of operations are interchangeable, so it is enough to let clients take them in
\* one order.
TakenInOrder ==
    /\ opState[o2] # "NONE" => opState[o1] # "NONE"
    /\ opState[o3] # "NONE" => opState[o2] # "NONE"

SuiteInit ==
    \/ of = "ops" /\ Init /\ Unused0 /\ LeaseInit
    \/ of = "lease" /\ LeaseInit /\ Unused0 /\ Init
    \/ of = "fleet" /\ F!FleetInit /\ Init /\ LeaseInit

SuiteNext ==
    \/ of = "ops" /\ Next /\ TakenInOrder' /\ UNCHANGED <<of, leaseVars, Spare0>>
    \/ of = "lease" /\ LeaseNext /\ UNCHANGED <<of, vars, Spare0>>
    \/ of = "fleet" /\ F!FleetNext /\ UNCHANGED <<of, vars, leaseVars>>

SuiteSpec == SuiteInit /\ [][SuiteNext]_all

-----------------------------------------------------------------------------
\* A workload that may be up on one of two nodes is one its node's journal can name
\* (Fleet); and the journals of the two never claim one epoch, though either may crash
\* and the bucket may be out of reach.
FleetHonest == of = "fleet" => F!NoSharedClaim /\ F!FenceRemembered
=============================================================================
