-------------------------------- MODULE MCOps --------------------------------
(***************************************************************************)
(* Model-checking instances of Ops.                                        *)
(***************************************************************************)
EXTENDS Ops, TLC

CONSTANTS o1, o2, o3  \* operations

AllKinds == OpKind
TableKinds == OpKind \ {"Fork"}

\* The ids of operations are interchangeable, so it is enough to let clients take them in
\* one order.
TakenInOrder ==
    /\ opState[o2] # "NONE" => opState[o1] # "NONE"
    /\ opState[o3] # "NONE" => opState[o2] # "NONE"

OrderedSpec == Init /\ [][Steps /\ TakenInOrder']_vars /\ Fairness
===============================================================================
