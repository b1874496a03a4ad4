------------------------------ MODULE MCGuest ------------------------------
(***************************************************************************)
(* The guest side for TLC: the duties around a snapshot (Restore), the     *)
(* agent that serves them (Serve), the exec stream (Exec), the file copies *)
(* (Files) and the deadlines of a session whose workload declares itself   *)
(* idle (Deadlines). The parts share no state, so one behaviour is of one  *)
(* of them, chosen at the start. Restore and Serve are extended, the       *)
(* others instantiated.                                                    *)
(***************************************************************************)
EXTENDS Restore, Serve, Sequences

VARIABLES
    of,  \* the part of the system this behaviour is of
    x1, x2, x3, x4, x5, x6, x7, x8, x9, x10, x11, x12, x13, x14, x15, x16, x17, x18,
    x19, x20, x21, x22, x23  \* the variables of a part that is instantiated here

X == INSTANCE Exec WITH
        Cap <- 1, MaxIn <- 1, MaxOut <- 1, MaxFaults <- 1, mode <- x1, kind <- x2,
        cli <- x3, up <- x4, nin <- x5, report <- x6, nresp <- x7, gup <- x8, input <- x9,
        broke <- x10, stdin <- x11, proc <- x12, holder <- x13, pipe <- x14, pump <- x15,
        main <- x16, capped <- x17, gdown <- x18, gopen <- x19, down <- x20, copen <- x21,
        blame <- x22, faults <- x23
F == INSTANCE Files WITH
        Cap <- 2, Size <- 3, MaxFaults <- 2, dir <- x1, limit <- x2, cli <- x3, up <- x4,
        nst <- x5, failure <- x6, gup <- x7, gst <- x8, answer <- x9, down <- x10,
        file <- x11, faults <- x12
D == INSTANCE Deadlines WITH
        Ttl <- 1, TtlAction <- "PAUSE", IdleAction <- "STOP", MemorySnapshot <- TRUE,
        CallsArePrompt <- TRUE, MaxTime <- 2, MaxVerbs <- 1, MaxCrashes <- 1, now <- x1,
        row <- x2, task <- x3, keys <- x4, tick <- x5, call <- x6, guest <- x7,
        verbs <- x8, crashes <- x9, ready <- x10, used <- x11

all == <<of, vars, serveVars, x1, x2, x3, x4, x5, x6, x7, x8, x9, x10, x11, x12, x13,
         x14, x15, x16, x17, x18, x19, x20, x21, x22, x23>>

\* The variables a part has no use for.
Spare0 == <<x1, x2, x3, x4, x5, x6, x7, x8, x9, x10, x11, x12, x13, x14, x15, x16, x17,
            x18, x19, x20, x21, x22, x23>>
Spare11 == <<x12, x13, x14, x15, x16, x17, x18, x19, x20, x21, x22, x23>>
Spare12 == <<x13, x14, x15, x16, x17, x18, x19, x20, x21, x22, x23>>
Unused12 ==
    /\ x13 = 0 /\ x14 = 0 /\ x15 = 0 /\ x16 = 0 /\ x17 = 0 /\ x18 = 0 /\ x19 = 0 /\ x20 = 0 /\ x21 = 0
    /\ x22 = 0 /\ x23 = 0
Unused11 == x12 = 0 /\ Unused12
Unused0 ==
    /\ x1 = 0 /\ x2 = 0 /\ x3 = 0 /\ x4 = 0 /\ x5 = 0 /\ x6 = 0 /\ x7 = 0 /\ x8 = 0 /\ x9 = 0
    /\ x10 = 0 /\ x11 = 0 /\ Unused11

\* A behaviour of another part leaves the instance of Restore as it was created.
NoRestore == Init /\ hooks = [cmd |-> FALSE, timeout_ms |-> 0]

\* A behaviour of another part leaves the agent of Serve before its boot.
NoServe == ServeInit /\ env = CHOOSE e \in Envs : e.ids = "none" /\ ~e.cmd /\ e.ready = "none"

\* On a pty the end of the caller's input is no EOF, which only a filter would read; the
\* other workloads are the same on pipes.
TerminalMatters == x1 = "pty" => x2 = "filter"

SuiteInit ==
    \/ of = "restore" /\ Init /\ Unused0 /\ NoServe
    \/ of = "serve" /\ ServeInit /\ Unused0 /\ NoRestore
    \/ of = "exec" /\ X!Init /\ TerminalMatters /\ NoRestore /\ NoServe
    \/ of = "files" /\ F!Init /\ Unused12 /\ NoRestore /\ NoServe
    \/ of = "session" /\ D!Init /\ Unused11 /\ NoRestore /\ NoServe

SuiteNext ==
    \/ of = "restore" /\ Next /\ UNCHANGED <<of, serveVars, Spare0>>
    \/ of = "serve" /\ ServeNext /\ UNCHANGED <<of, vars, Spare0>>
    \/ of = "exec" /\ X!Next /\ UNCHANGED <<of, vars, serveVars>>
    \/ of = "files" /\ F!Next /\ UNCHANGED <<of, vars, serveVars, Spare12>>
    \/ of = "session" /\ D!Next /\ UNCHANGED <<of, vars, serveVars, Spare11>>

SuiteSpec == SuiteInit /\ [][SuiteNext]_all

\* The steps the code takes by itself, and what it owes (Progress and Owed of each).
Progressing ==
    \/ of = "restore" /\ Progress /\ UNCHANGED <<of, serveVars, Spare0>>
    \/ of = "serve" /\ ServeProgress /\ UNCHANGED <<of, vars, Spare0>>
    \/ of = "exec" /\ X!Progress /\ UNCHANGED <<of, vars, serveVars>>
    \/ of = "files" /\ F!Progress /\ UNCHANGED <<of, vars, serveVars, Spare12>>
Owing ==
    \/ of = "restore" /\ Owed
    \/ of = "serve" /\ ServeOwed
    \/ of = "exec" /\ X!Owed
    \/ of = "files" /\ F!Owed

\* Those steps go on; which of them comes first is left open.
FairSpec == SuiteSpec /\ WF_all(Progressing)

-----------------------------------------------------------------------------
\* What is said of the guest is what happened in it. An exit code a caller reads is the
\* process's own, after all of its output unless the drain was cut short, and a process
\* that ended because its input was cut off is never reported to the caller as having
\* exited; nor by the exec task, unless the break fell between two polls (Exec). An upload
\* answered with success wrote the whole file, and a copy out that succeeds left all
\* that was asked for (Files). A session whose workload may declare itself idle has its
\* lease whenever it runs, and no armed deadline has been acted on before (Deadlines).
GuestHonest ==
    /\ of = "exec" => X!TypeOK /\ X!CliHonest /\ X!BrokenNeverExit
    /\ of = "files" => F!TypeOK /\ F!WriteWhole /\ F!ReadWhole
    /\ of = "session" => D!TypeOK /\ D!RunningIsLeased /\ D!FreshKeys

\* Whoever is owed something by the guest side gets it: the exit code of a process that
\* ended, and the call's return once nobody holds its pipes; the end of one whose stream
\* broke, and of the node's task when the caller's did; the handler of a quiet upload, the
\* end of a hook, of a dial and of an agent whose workload is gone (Owed of each module).
EveryoneAnswered == Owing ~> ~Owing
=============================================================================
