------------------------------- MODULE Sweeps --------------------------------
(***************************************************************************)
(* The three sweeps of the reconcile loop against the verbs they race      *)
(* (reconcile.rs: sweep_instances, reconcile_vanished_sandboxes,           *)
(* sweep_credentials; db.rs: fork_source_instances_in_flight).             *)
(*                                                                         *)
(* The loop is one task and every pass of it is a chain of reads, of the   *)
(* substrate and of the journal, followed by deletions that are decided on *)
(* what was read.  Verbs run in between.  A fork is the hard one: its      *)
(* clone carries the source's tag until the substrate re-identifies it.    *)
(***************************************************************************)
EXTENDS Naturals, FiniteSets

CONSTANTS Source, Target,   \* the fork's two instances
          THRESHOLD,        \* VANISHED_SANDBOX_THRESHOLD (3 in the code)
          MaxBoxes, MaxVerbs,
          MaxMishaps        \* calls that fail, sandboxes that come and go

ASSUME SweepsBounds ==
    /\ Source # Target
    /\ THRESHOLD \in Nat \ {0} /\ MaxBoxes \in Nat \ {0}
    /\ MaxVerbs \in Nat /\ MaxMishaps \in Nat

VARIABLES
    phase,    \* the journal's state of each instance
    forking,  \* is the fork's operation executing?
    box,      \* the sandboxes
    vol,      \* the token volumes
    pc,       \* the loop's next step
    listed,   \* the sandboxes as this pass listed them
    live,     \* the instances it read as live
    doomed,   \* the sandboxes it decided to delete
    suspect,  \* the instances it is to fail, or to take the credential of
    counts,   \* vanished_sandbox_counts
    absent,   \* listings in a row without the instance  (history)
    verbs, mishaps

vars == <<phase, forking, box, vol, pc, listed, live, doomed, suspect,
          counts, absent, verbs, mishaps>>
loop == <<pc, listed, live, doomed, suspect, counts, absent>>
bounds == <<verbs, mishaps>>

Inst == {Source, Target}
Ids == 1 .. MaxBoxes
Phase == {"ABSENT", "CREATING", "STARTING", "RUNNING", "STOPPED",
          "DESTROYING", "DESTROYED", "FAILED"}
Box == [name : Inst, tag : Inst, running : BOOLEAN]
Pcs == {"sandboxes", "rows", "forks", "reap", "present", "judge", "fail",
        "volumes", "owners", "remove"}

TypeOK ==
    /\ phase \in [Inst -> Phase] /\ forking \in BOOLEAN
    /\ DOMAIN box \subseteq Ids /\ \A b \in DOMAIN box : box[b] \in Box
    /\ vol \subseteq Inst
    /\ pc \in Pcs
    /\ DOMAIN listed \subseteq Ids /\ \A b \in DOMAIN listed : listed[b] \in Box
    /\ live \subseteq Inst /\ doomed \subseteq Ids /\ suspect \subseteq Inst
    /\ counts \in [Inst -> 0 .. THRESHOLD - 1]

Init ==
    /\ \E up \in BOOLEAN :
          /\ phase = [i \in Inst |-> IF i = Target THEN "ABSENT"
                      ELSE IF up THEN "RUNNING" ELSE "STOPPED"]
          /\ box = [b \in {1} |-> [name |-> Source, tag |-> Source, running |-> up]]
    /\ vol = {Source} /\ forking = FALSE
    /\ pc = "sandboxes" /\ listed = <<>> /\ live = {} /\ doomed = {} /\ suspect = {}
    /\ counts = [i \in Inst |-> 0] /\ absent = [i \in Inst |-> 0]
    /\ verbs = 0 /\ mishaps = 0

-----------------------------------------------------------------------------
is_terminal(s) == s \in {"DESTROYED", "FAILED"}
IsLive(i) == phase[i] # "ABSENT" /\ ~is_terminal(phase[i])

Named(i) == LET S == {b \in DOMAIN box : box[b].name = i}
            IN  IF Cardinality(S) = 1 THEN S ELSE {}
Tagged(i) == {b \in DOMAIN box : box[b].tag = i}

Without(S) == [b \in DOMAIN box \ S |-> box[b]]
Fresh == Ids \ (DOMAIN box \cup DOMAIN listed \cup doomed)
Unused == CHOOSE b \in Fresh : \A c \in Fresh : b <= c
With(r) == [b \in DOMAIN box \cup {Unused} |-> IF b \in DOMAIN box THEN box[b] ELSE r]
Set(i, s) == phase' = [phase EXCEPT ![i] = s]

(* The verbs, as the sweeps meet them.  Submitting one is a row, and the   *)
(* row is there before the substrate is touched.                           *)
Submit(i, from, s) ==
    /\ verbs < MaxVerbs /\ verbs' = verbs + 1
    /\ phase[i] \in from /\ Set(i, s)
    /\ UNCHANGED <<box, vol, loop, mishaps>>

Start(i) == Submit(i, {"ABSENT", "STOPPED"}, "STARTING") /\ UNCHANGED forking
Destroy(i) == Submit(i, {"RUNNING", "STOPPED", "FAILED"}, "DESTROYING") /\ UNCHANGED forking

(* The credential is written before the sandbox that mounts it.            *)
WriteToken(i) ==
    /\ phase[i] = "STARTING" /\ i \notin vol
    /\ vol' = vol \cup {i}
    /\ UNCHANGED <<phase, forking, box, loop, bounds>>

(* One sandbox is kept, a running one before the others; one that stopped  *)
(* is started, and where there is none one is created.                     *)
Boot(i) ==
    /\ phase[i] = "STARTING" /\ i \in vol
    /\ \A b \in Tagged(i) : ~box[b].running
    /\ IF Tagged(i) = {}
       THEN box' = With([name |-> i, tag |-> i, running |-> TRUE])
       ELSE \E kept \in Tagged(i) :
               box' = [b \in DOMAIN Without(Tagged(i) \ {kept}) |->
                          [box[b] EXCEPT !.running = @ \/ b = kept]]
    /\ UNCHANGED <<phase, forking, vol, loop, bounds>>

Booted(i) ==
    /\ phase[i] = "STARTING"
    /\ \/ \E b \in Named(i) : box[b].running /\ Set(i, "RUNNING")
       \/ Set(i, "FAILED")
    /\ UNCHANGED <<forking, box, vol, loop, bounds>>

(* By name, so nothing when two carry it; the volume stays while mounted.  *)
Unmake(i) ==
    /\ phase[i] = "DESTROYING"
    /\ box' = Without(Named(i))
    /\ IF \E b \in DOMAIN box' : box[b].name = i
       THEN Set(i, "FAILED") /\ UNCHANGED vol
       ELSE Set(i, "DESTROYED") /\ vol' = vol \ {i}
    /\ UNCHANGED <<forking, loop, bounds>>

(* fork: the operation, the clone under the source's tag, the clone under  *)
(* its own, and the end.                                                   *)
Fork ==
    /\ Submit(Target, {"ABSENT"}, "CREATING")
    /\ phase[Source] # "DESTROYED" /\ forking' = TRUE

Cloning == forking /\ phase[Target] = "CREATING"

Clone ==
    /\ Cloning /\ \A b \in DOMAIN box : box[b].name # Target
    /\ box' = With([name |-> Target, tag |-> Source, running |-> FALSE])
    /\ UNCHANGED <<phase, forking, vol, loop, bounds>>

Reidentify(b) ==
    /\ Cloning /\ box[b].name = Target
    /\ \/ box[b].tag = Source /\ box' = [box EXCEPT ![b].tag = Target]
       \/ ~box[b].running /\ box' = [box EXCEPT ![b].running = TRUE]
    /\ UNCHANGED <<phase, forking, vol, loop, bounds>>

ForkEnds ==
    /\ Cloning
    /\ \/ \E b \in Named(Target) : box[b].running /\ Set(Target, "RUNNING")
       \/ Set(Target, "FAILED")
    /\ forking' = FALSE
    /\ UNCHANGED <<box, vol, loop, bounds>>

Mishap == mishaps < MaxMishaps /\ mishaps' = mishaps + 1

(* A sandbox dies, or one appears that nobody remembers having asked for.  *)
Stray ==
    /\ Mishap
    /\ \/ \E b \in DOMAIN box : box' = Without({b})
       \/ \E i \in Inst, up \in BOOLEAN :
             /\ phase[i] # "ABSENT"
             /\ box' = With([name |-> i, tag |-> i, running |-> up])
    /\ UNCHANGED <<phase, forking, vol, loop, verbs>>

-----------------------------------------------------------------------------
Fine == UNCHANGED mishaps
Goto(p) == pc' = p
world == <<phase, forking, box, vol, verbs>>

(* sweep_instances: the listing.  A failed one, or an empty one, ends it.  *)
list_sandboxes ==
    /\ pc = "sandboxes"
    /\ \/ Fine /\ listed' = box /\ Goto(IF box = <<>> THEN "present" ELSE "rows")
       \/ Mishap /\ Goto("present") /\ UNCHANGED listed
    /\ UNCHANGED <<world, live, doomed, suspect, counts, absent>>

(* Mutant: an instance with a row is live, whatever the row says.          *)
has_row(i) == phase[i] # "ABSENT"

(* Mutant: only what runs is live.                                         *)
running_row(i) == phase[i] = "RUNNING"

live_row(i) == IsLive(i)

list_rows ==
    /\ pc = "rows"
    /\ \/ /\ Fine /\ live' = {i \in Inst : live_row(i)} /\ Goto("forks")
          /\ UNCHANGED listed
       \/ Mishap /\ Goto("present") /\ listed' = <<>> /\ UNCHANGED live
    /\ UNCHANGED <<world, doomed, suspect, counts, absent>>

fork_source_instances_in_flight == IF forking THEN {Source} ELSE {}

Group(i) == {b \in DOMAIN listed : listed[b].tag = i}
Up(i) == {b \in Group(i) : listed[b].running}

(* The survivor: the one that runs, or else whichever is listed last.      *)
Keep(i, k) == IF Up(i) # {} THEN k \in Up(i) ELSE k \in Group(i)

(* Mutant: of two that run one is kept as well.                            *)
verdict_guess(i, exempt, k) ==
    IF i \notin live THEN Group(i)
    ELSE IF Cardinality(Group(i)) <= 1 \/ i \in exempt THEN {}
    ELSE Group(i) \ {k}

(* The verdicts: orphans all go; a fork's source, and an instance with two *)
(* that run, is left alone; of other duplicates one is kept.               *)
verdict(i, exempt, k) ==
    IF i \notin live THEN Group(i)
    ELSE IF Cardinality(Group(i)) <= 1 \/ i \in exempt \/ Cardinality(Up(i)) > 1
    THEN {}
    ELSE Group(i) \ {k}

decide ==
    /\ pc = "forks"
    /\ \E exempt \in {fork_source_instances_in_flight, Inst} :
          /\ IF exempt = Inst THEN Mishap ELSE Fine
          /\ \E k \in [Inst -> Ids] :
                /\ \A i \in Inst : IF Group(i) = {} THEN k[i] = 1 ELSE Keep(i, k[i])
                /\ doomed' = UNION {verdict(i, exempt, k[i]) : i \in Inst}
    /\ listed' = [b \in doomed' |-> listed[b]] /\ live' = {}
    /\ Goto("reap")
    /\ UNCHANGED <<world, suspect, counts, absent>>

(* One by one, by id; one that will not go is left for the next pass.      *)
reap_sandbox ==
    /\ pc = "reap"
    /\ IF doomed = {}
       THEN Goto("present") /\ UNCHANGED <<box, doomed, listed, mishaps>>
       ELSE \E b \in doomed :
               /\ doomed' = doomed \ {b} /\ listed' = [c \in doomed' |-> listed[c]]
               /\ \/ Fine /\ box' = Without({b})
                  \/ Mishap /\ UNCHANGED box
               /\ UNCHANGED pc
    /\ UNCHANGED <<phase, forking, vol, live, suspect, counts, absent, verbs>>

(* reconcile_vanished_sandboxes.                                           *)
Present == {box[b].tag : b \in DOMAIN box}
Missed(i) == IF i \in live \/ phase[i] \notin {"STARTING", "RUNNING"} THEN 0
             ELSE IF absent[i] = THRESHOLD THEN THRESHOLD ELSE absent[i] + 1

list_present ==
    /\ pc = "present"
    /\ \/ Fine /\ live' = Present /\ Goto("judge")
       \/ Mishap /\ Goto("volumes") /\ UNCHANGED live
    /\ UNCHANGED <<world, listed, doomed, suspect, counts, absent>>

(* Mutant: the count starts again with every pass.                         *)
forgetful(i) == IF phase[i] = "RUNNING" /\ i \notin live THEN 1 ELSE 0

(* Mutant: a sandbox that is back does not clear the count.                *)
never_reset(i) == IF phase[i] = "RUNNING" /\ i \notin live THEN counts[i] + 1 ELSE counts[i]

counted(i) == IF phase[i] = "RUNNING" /\ i \notin live THEN counts[i] + 1 ELSE 0

(* Mutant: the count of an instance that was failed stays.                 *)
judge_keeps ==
    /\ pc = "judge" /\ Fine
    /\ suspect' = {i \in Inst : counted(i) >= THRESHOLD}
    /\ counts' = [i \in Inst |-> counted(i)]
    /\ absent' = [i \in Inst |-> Missed(i)]
    /\ live' = {} /\ Goto("fail")
    /\ UNCHANGED <<world, listed, doomed>>

judge ==
    /\ pc = "judge"
    /\ \/ /\ Fine
          /\ suspect' = {i \in Inst : counted(i) >= THRESHOLD}
          /\ counts' = [i \in Inst |-> IF counted(i) >= THRESHOLD THEN 0 ELSE counted(i)]
          /\ absent' = [i \in Inst |-> Missed(i)]
          /\ Goto("fail")
       \/ Mishap /\ Goto("volumes") /\ UNCHANGED <<suspect, counts, absent>>
    /\ live' = {}
    /\ UNCHANGED <<world, listed, doomed>>

(* set_instance_state is unconditional.                                    *)
fail_vanished ==
    /\ pc = "fail"
    /\ IF suspect = {} THEN Goto("volumes") /\ UNCHANGED <<phase, suspect, mishaps>>
       ELSE \E i \in suspect :
               /\ suspect' = suspect \ {i}
               /\ \/ Fine /\ Set(i, "FAILED")
                  \/ Mishap /\ UNCHANGED phase
               /\ UNCHANGED pc
    /\ UNCHANGED <<forking, box, vol, listed, doomed, live, counts, absent, verbs>>

(* sweep_credentials: once per interval, and the listing comes first.      *)
not_due == pc = "volumes" /\ Goto("sandboxes")
           /\ UNCHANGED <<world, listed, doomed, live, suspect, counts, absent, mishaps>>

list_credentials ==
    /\ pc = "volumes"
    /\ \/ Fine /\ suspect' = vol /\ Goto(IF vol = {} THEN "sandboxes" ELSE "owners")
       \/ Mishap /\ Goto("sandboxes") /\ UNCHANGED suspect
    /\ UNCHANGED <<world, listed, doomed, live, counts, absent>>

owners ==
    /\ pc = "owners"
    /\ \/ Fine /\ suspect' = suspect \ {i \in Inst : live_row(i)} /\ Goto("remove")
       \/ Mishap /\ Goto("sandboxes") /\ suspect' = {}
    /\ UNCHANGED <<world, listed, doomed, live, counts, absent>>

(* One by one; a volume in use is refused, and left for the next pass.     *)
remove_credential ==
    /\ pc = "remove"
    /\ IF suspect = {} THEN Goto("sandboxes") /\ UNCHANGED <<vol, suspect, mishaps>>
       ELSE \E i \in suspect :
               /\ suspect' = suspect \ {i}
               /\ \/ /\ Fine /\ \A b \in DOMAIN box : box[b].name # i
                     /\ vol' = vol \ {i}
                  \/ /\ Fine /\ \E b \in DOMAIN box : box[b].name = i
                     /\ UNCHANGED vol
                  \/ Mishap /\ UNCHANGED vol
               /\ UNCHANGED pc
    /\ UNCHANGED <<phase, forking, box, listed, doomed, live, counts, absent, verbs>>

-----------------------------------------------------------------------------
Verbs(i) == WriteToken(i) \/ Boot(i) \/ Booted(i) \/ Unmake(i)
Forks == Clone \/ ForkEnds \/ \E b \in DOMAIN box : Reidentify(b)
Tick == \/ list_sandboxes \/ list_rows \/ decide \/ reap_sandbox
        \/ list_present \/ judge \/ fail_vanished
        \/ not_due \/ list_credentials \/ owners \/ remove_credential

Next ==
    \/ \E i \in Inst : Start(i) \/ Destroy(i) \/ Verbs(i)
    \/ Fork \/ Forks \/ Stray \/ Tick

Spec == Init /\ [][Next]_vars
FairSpec == /\ Spec
            /\ WF_vars(Tick) /\ SF_vars(list_credentials)
            /\ WF_vars(ForkEnds) /\ \A i \in Inst : WF_vars(Booted(i) \/ Unmake(i))

-----------------------------------------------------------------------------
(* A sandbox that was listed as the running one of its instance is not     *)
(* deleted while the instance is live, whatever duplicates it was listed   *)
(* with and whatever became of them since (sweep_instances).               *)
SparesWorkload ==
    [][\A b \in doomed : pc = "reap" /\ b \in DOMAIN box /\ b \notin DOMAIN box'
          /\ listed[b].running /\ listed[b].tag = box[b].name
          => ~IsLive(box[b].name) \/ phase[box[b].name] = "DESTROYING"]_vars

(* No sweep deletes the credential of a live instance, one that is being   *)
(* made during the pass included (reap_credentials).                       *)
SparesCredential ==
    [][\A i \in suspect \ suspect' : pc = "remove" /\ i \in vol /\ i \notin vol'
          => ~IsLive(i) \/ phase[i] = "DESTROYING"]_vars

(* An instance is failed as vanished after THRESHOLD listings in a row     *)
(* that succeeded and did not have it (reconcile_vanished_sandboxes).      *)
VanishedThrice ==
    [][\A i \in suspect : pc = "fail" /\ i \notin suspect'
          => absent[i] = THRESHOLD]_vars

(* A row that says RUNNING without a sandbox does not stay.                *)
Healed ==
    \A i \in Inst : phase[i] = "RUNNING" /\ Tagged(i) = {}
       ~> phase[i] # "RUNNING" \/ Tagged(i) # {}

(* What outlives its instance, sandbox or credential, is removed.          *)
ZeroOrphans ==
    \A i \in Inst : is_terminal(phase[i])
       ~> ~is_terminal(phase[i]) \/ (Tagged(i) = {} /\ i \notin vol)
=============================================================================
