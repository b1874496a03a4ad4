------------------------------- MODULE Ownership -------------------------------
(***************************************************************************)
(* What the fleet lease promises: a register that says who owns a session  *)
(* name and since which epoch, and tokens that prove ownership in the      *)
(* epoch they were given in.  No clock, no version and no lost answer.     *)
(***************************************************************************)
EXTENDS Naturals

CONSTANT Nodes

VARIABLES
    owner,   \* who owns the name, "" if nobody ever did
    epoch,   \* how often it was taken
    tokens   \* the epochs each node may speak for

vars == <<owner, epoch, tokens>>

Init ==
    /\ owner = ""
    /\ epoch = 0
    /\ tokens = [n \in Nodes |-> {}]

\* The name is taken; the taker may fail to learn of it.
Take(n) ==
    /\ owner' = n
    /\ epoch' = epoch + 1
    /\ tokens' \in {tokens, [tokens EXCEPT ![n] = @ \cup {epoch + 1}]}

\* The owner learns that it still owns the name.
Grant(n) ==
    /\ owner = n
    /\ tokens' = [tokens EXCEPT ![n] = @ \cup {epoch}]
    /\ UNCHANGED <<owner, epoch>>

Drop(n) ==
    /\ \E kept \in SUBSET tokens[n] : tokens' = [tokens EXCEPT ![n] = kept]
    /\ UNCHANGED <<owner, epoch>>

Next == \E n \in Nodes : Take(n) \/ Grant(n) \/ Drop(n)

Spec == Init /\ [][Next]_vars
===============================================================================
