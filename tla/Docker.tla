------------------------------- MODULE Docker -------------------------------
(***************************************************************************)
(* The `fake` runtime (runtime/fake.rs): sandboxes are containers of a     *)
(* Docker daemon that several node agents share, a pause is a stop that    *)
(* says so, and a resume is a cold boot of the same container.  The verbs  *)
(* are driven by the executor of ops.rs, node agents crash and recover,    *)
(* workloads exit by themselves, and any call to the daemon may fail       *)
(* before or after it took effect.                                         *)
(*                                                                         *)
(* Module Ops has the executor and its journal in full; here a verb is     *)
(* submitted, acts, and is finalized, and the subject is what the          *)
(* journal's words mean for the containers.                                *)
(***************************************************************************)
EXTENDS Integers, FiniteSets

CONSTANTS Nodes, Ids,
          Codes,      \* the codes a workload may exit with by itself
          MaxRuns,    \* bound: starts of one container
          MaxCrashes  \* bound: crashes of all nodes together

Absent == -1          \* no exit code
Killed == 143         \* the code of a workload that was stopped

VARIABLES row,      \* [Nodes -> [Ids -> [state, code, made]]]: table instances
          box,      \* [the daemon's names -> a container or NoBox]
          acted,    \* [Nodes -> [Ids -> what the runtime answered the operation]]
          stage,    \* [Nodes -> "serving", "resolving", "sweeping"]
          swept,    \* [Nodes -> nothing has gone wrong since the last crash]
          crashes

dockerVars == <<row, box, acted, stage, swept, crashes>>

NoBox == [status |-> "none"]

\* Mutation: the name of a container is the instance's alone.
unscoped_name(n, i) == <<i>>

\* Node and instance ids are ULIDs, without the separator, so the name tells
\* both apart.
container_name(n, i) == <<n, i>>

Named(n, i) == box[container_name(n, i)]
SetBox(n, i, b) == box' = [box EXCEPT ![container_name(n, i)] = b]

DockerInit ==
    /\ row = [n \in Nodes |-> [i \in Ids |-> [state |-> "none", code |-> Absent, made |-> 0]]]
    /\ box = [c \in {container_name(n, i) : n \in Nodes, i \in Ids} |-> NoBox]
    /\ acted = [n \in Nodes |-> [i \in Ids |-> "no"]]
    /\ stage = [n \in Nodes |-> "serving"]
    /\ swept = [n \in Nodes |-> FALSE]
    /\ crashes = 0

Transitional == {"creating", "starting", "pausing", "resuming", "stopping", "destroying"}
Terminal == {"failed", "destroyed"}

-----------------------------------------------------------------------------
(***************************************************************************)
(* The daemon.  A call that fails may have taken effect.                   *)
(***************************************************************************)
\* create: the image, then a container under a name that must be free.
create(n, i) ==
    /\ Named(n, i) = NoBox
    /\ SetBox(n, i, [status |-> "created", code |-> 0, runs |-> 0, node |-> n])

start(n, i) ==
    /\ Named(n, i) # NoBox
    /\ Named(n, i).runs < MaxRuns
    /\ SetBox(n, i, IF Named(n, i).status = "running" THEN Named(n, i)
                    ELSE [Named(n, i) EXCEPT !.status = "running", !.runs = @ + 1, !.code = 0])

stop(n, i) ==
    /\ Named(n, i) # NoBox
    /\ SetBox(n, i, IF Named(n, i).status = "running"
                    THEN [Named(n, i) EXCEPT !.status = "exited", !.code = Killed]
                    ELSE Named(n, i))

\* pause: a stop, reported as what it is.
pause(n, i) == stop(n, i)

\* destroy: a container that is not there is destroyed.
destroy(n, i) == SetBox(n, i, NoBox)

\* What inspect says of a container that has finished; of any other, nothing.
stop_status(n, i) ==
    IF Named(n, i) # NoBox /\ Named(n, i).status = "exited" THEN Named(n, i).code ELSE Absent

\* The workload ends by itself.
workload_exits(c, code) ==
    /\ box[c].status = "running"
    /\ box' = [box EXCEPT ![c].status = "exited", ![c].code = code]
    /\ UNCHANGED <<row, acted, stage, swept, crashes>>

-----------------------------------------------------------------------------
(***************************************************************************)
(* The executor.                                                           *)
(***************************************************************************)
Entered(state) ==
    CASE state = "none" -> {"creating"}
      [] state = "created" -> {"starting", "destroying"}
      [] state = "running" -> {"pausing", "stopping", "destroying"}
      [] state = "paused" -> {"resuming", "destroying"}
      [] state = "stopped" -> {"starting", "destroying"}
      [] state = "failed" -> {"destroying"}
      [] OTHER -> {}

submit(n, i, to) ==
    /\ stage[n] = "serving"
    /\ acted[n][i] = "no"
    /\ to \in Entered(row[n][i].state)
    /\ row' = [row EXCEPT ![n][i].state = to]
    /\ UNCHANGED <<box, acted, stage, swept, crashes>>

Call(n, i, state) ==
    \/ state = "creating" /\ create(n, i)
    \/ state = "starting" /\ start(n, i)
    \/ state = "resuming" /\ start(n, i)
    \/ state = "pausing" /\ pause(n, i)
    \/ state = "stopping" /\ stop(n, i)
    \/ state = "destroying" /\ destroy(n, i)

\* The runtime acts: it succeeds, fails, or does it and answers with an error.
\* A pause that was to keep memory answers so, once it has stopped the workload.
execute(n, i, answer) ==
    /\ stage[n] = "serving"
    /\ row[n][i].state \in Transitional
    /\ acted[n][i] = "no"
    /\ IF answer = "failed" THEN UNCHANGED box ELSE Call(n, i, row[n][i].state)
    /\ acted' = [acted EXCEPT ![n][i] = IF answer = "ok" THEN "ok" ELSE "error"]
    /\ UNCHANGED <<row, stage, swept, crashes>>

Success(state) ==
    CASE state = "creating" -> "created"
      [] state \in {"starting", "resuming"} -> "running"
      [] state = "pausing" -> "paused"
      [] state = "stopping" -> "stopped"
      [] OTHER -> "destroyed"

\* Why it is stopped: what the substrate says of the workload, and absent when
\* it cannot be asked.
stop_reason(n, i, asked) == IF asked THEN stop_status(n, i) ELSE Absent

\* The outcome is written in one transaction; a create that failed is
\* compensated for first, and the compensation may fail too.
finalize(n, i, reached) ==
    LET state == row[n][i].state
        to == IF acted[n][i] = "ok" THEN Success(state) ELSE "failed" IN
    /\ stage[n] = "serving"
    /\ acted[n][i] # "no"
    /\ row' = [row EXCEPT ![n][i].state = to,
                          ![n][i].made = IF to \in Terminal \/ Named(n, i) = NoBox THEN 0
                                         ELSE IF to = "running" THEN Named(n, i).runs ELSE @,
                          ![n][i].code = IF to = "stopped" THEN stop_reason(n, i, reached)
                                         ELSE Absent]
    /\ IF to = "failed" /\ state = "creating" /\ reached THEN destroy(n, i) ELSE UNCHANGED box
    /\ acted' = [acted EXCEPT ![n][i] = "no"]
    /\ swept' = [swept EXCEPT ![n] = @ /\ ~(to \in Terminal)]
    /\ UNCHANGED <<stage, crashes>>

-----------------------------------------------------------------------------
(***************************************************************************)
(* Crash recovery.                                                         *)
(***************************************************************************)
crash(n) ==
    /\ crashes < MaxCrashes
    /\ crashes' = crashes + 1
    /\ stage' = [stage EXCEPT ![n] = "resolving"]
    /\ acted' = [acted EXCEPT ![n] = [i \in Ids |-> "no"]]
    /\ swept' = [swept EXCEPT ![n] = TRUE]
    /\ UNCHANGED <<row, box>>

\* A row left in a transitional state: a stop is repeated, everything else is
\* removed, and what could not be done is FAILED unless it was a destroy.
resolve(n, i, answer) ==
    LET state == row[n][i].state
        stops == state = "stopping" /\ Named(n, i) # NoBox
        to == IF stops /\ answer = "ok" THEN "stopped"
              ELSE IF state = "destroying" THEN "destroyed" ELSE "failed" IN
    /\ stage[n] = "resolving"
    /\ state \in Transitional
    /\ row' = [row EXCEPT ![n][i] = [code |-> Absent, state |-> to,
                                     made |-> IF to = "stopped" THEN @.made ELSE 0]]
    /\ CASE answer = "failed" -> UNCHANGED box
         [] answer # "failed" /\ stops -> stop(n, i)
         [] answer # "failed" /\ state = "stopping" /\ ~stops -> UNCHANGED box
         [] OTHER -> destroy(n, i)
    /\ UNCHANGED <<acted, stage, swept, crashes>>

resolved(n) ==
    /\ stage[n] = "resolving"
    /\ \A i \in Ids : row[n][i].state \notin Transitional
    /\ stage' = [stage EXCEPT ![n] = "sweeping"]
    /\ UNCHANGED <<row, box, acted, swept, crashes>>

\* Every container with this node's label, running or not.
list_labeled(n) == {c \in DOMAIN box : box[c] # NoBox /\ box[c].node = n}

known(n) == {container_name(n, i) : i \in {x \in Ids : row[n][x].state \notin Terminal \union {"none"}}}

\* The zero-orphan sweep: a list that cannot be had removes nothing, and a
\* removal that fails is left for the next start.
sweep(n, listed, gone) ==
    /\ stage[n] = "sweeping"
    /\ stage' = [stage EXCEPT ![n] = "serving"]
    /\ IF listed
       THEN box' = [c \in DOMAIN box |-> IF c \in (list_labeled(n) \ known(n)) /\ c \in gone
                                         THEN NoBox ELSE box[c]]
       ELSE UNCHANGED box
    /\ swept' = [swept EXCEPT ![n] = @ /\ listed /\ list_labeled(n) \ known(n) \subseteq gone]
    /\ UNCHANGED <<row, acted, crashes>>

DockerNext ==
    \/ \E n \in Nodes, i \in Ids :
          \/ \E to \in Transitional : submit(n, i, to)
          \/ \E answer \in {"ok", "failed", "lost"} : execute(n, i, answer) \/ resolve(n, i, answer)
          \/ \E reached \in BOOLEAN : finalize(n, i, reached)
    \/ \E n \in Nodes :
          \/ crash(n)
          \/ resolved(n)
          \/ \E listed \in BOOLEAN, gone \in SUBSET DOMAIN box : sweep(n, listed, gone)
    \/ \E c \in DOMAIN box, code \in Codes : workload_exits(c, code)

DockerSpec == DockerInit /\ [][DockerNext]_dockerVars

-----------------------------------------------------------------------------
(* The state stays typed: a container carries the label of the node whose  *)
(* name it has, and no more runs than were started.                        *)
DockerTypeOK ==
    /\ \A n \in Nodes, i \in Ids :
          /\ row[n][i].state \in Transitional \union Terminal
                                 \union {"none", "created", "running", "paused", "stopped"}
          /\ row[n][i].code \in Codes \union {Absent, Killed}
          /\ Named(n, i) # NoBox => Named(n, i).node = n /\ Named(n, i).runs \in 0 .. MaxRuns
    /\ \A n \in Nodes : stage[n] \in {"serving", "resolving", "sweeping"}

(* From CREATED until it is destroyed or fails, an instance has its        *)
(* container and the run the journal knows of: no stop, pause, cold boot,  *)
(* crash, recovery or sweep of any node that shares the daemon takes it    *)
(* away or starts it behind the journal's back.                            *)
ContainerKept ==
    \A n \in Nodes, i \in Ids :
        row[n][i].state \in {"created", "running", "paused", "stopped"} =>
            Named(n, i) # NoBox /\ Named(n, i).runs = row[n][i].made

(* PAUSED and STOPPED hold no running workload, whatever was lost between  *)
(* the daemon and the journal on the way there.                            *)
PausedHoldsNothing ==
    \A n \in Nodes, i \in Ids :
        row[n][i].state \in {"paused", "stopped"} => Named(n, i).status # "running"

(* An exit code on record is the one the last run ended with: a workload   *)
(* that had exited before anyone asked keeps its own.                      *)
ExitHonest ==
    \A n \in Nodes, i \in Ids :
        row[n][i].state = "stopped" /\ row[n][i].code # Absent =>
            row[n][i].code = Named(n, i).code

(* After a restart whose sweep reached the daemon, the node has no         *)
(* container, running or not, that its journal does not hold as live.      *)
NoOrphanAfterSweep ==
    \A n \in Nodes : stage[n] = "serving" /\ swept[n] =>
        \A i \in Ids : Named(n, i) # NoBox => row[n][i].state \notin Terminal \union {"none"}
=============================================================================
