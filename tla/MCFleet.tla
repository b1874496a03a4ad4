------------------------------ MODULE MCFleet ------------------------------
(* The instances of Fleet that TLC checks. *)
EXTENDS Fleet, TLC

CONSTANT a  \* a node

\* Two nodes that take the name from each other and stay up; or one that may crash,
\* while the other has not joined the fleet, and joins it only if it is the one that
\* crashes.
TakeoverOrCrash ==
    /\ Unasked
    /\ \/ pc = [n \in Nodes |-> "idle"] /\ crashes = MaxCrashes
       \/ pc = [n \in Nodes |-> IF n = a THEN "idle" ELSE "alone"] /\ crashes = 0

FairSuiteSpec == TakeoverOrCrash /\ [][FleetNext]_fleetVars /\ FleetFairness
===========================================================================
