-------------------------------- MODULE Exec --------------------------------
(***************************************************************************)
(* One `barista exec`, from the terminal to the process and back: the      *)
(* command line's stdin pump and read loop, the node's translation of the  *)
(* two halves of the stream (passthrough.rs), and the guest agent's exec   *)
(* task with its input task, its output pumps and the child (exec.rs).     *)
(*                                                                         *)
(* A frame's bytes are left out: a frame is its kind, and an exit frame    *)
(* its code.  Every channel is bounded by Cap.  A transport breaks in two  *)
(* places: between the caller and the node (`hang_up`) and between the     *)
(* node and the guest (`lost`).                                            *)
(***************************************************************************)
EXTENDS Integers, Sequences, FiniteSets

CONSTANTS
    Cap,        \* frames a channel holds (64, 16 and 8 in the code)
    MaxIn,      \* bound: chunks of stdin the caller sends
    MaxOut,     \* bound: chunks of output the workload writes
    MaxFaults   \* bound: transport failures

VARIABLES
    mode,       \* ExecStart.pty: "pipe" or "pty"
    kind,       \* the workload: a filter of stdin, a server, or a short command
    cli,        \* the caller: [pump, sent, seen, code, result]
    up,         \* caller -> node frames
    nin,        \* whether exec_frames still reads the caller's half
    report,     \* the one-slot break report of passthrough.rs
    nresp,      \* the node's response task
    gup,        \* node -> guest frames
    input,      \* the guest's input task
    broke,      \* the guest's oneshot: a break was sent, and whether between two polls
    stdin,      \* the child's stdin: [n, eof]
    proc,       \* the child: [st, code, held, wrote]
    holder,     \* a grandchild holds the output pipes open
    pipe,       \* chunks of output the child wrote and nobody read yet
    pump,       \* the output pump (two of them on pipes, awaited as one)
    main,       \* the exec task
    capped,     \* DRAIN_GRACE ran out before the pumps did
    gdown,      \* guest -> node frames
    gopen,      \* the node still holds the guest's response stream
    down,       \* node -> caller frames
    copen,      \* the caller still holds the node's response stream
    blame,      \* ghost: the child ended on an EOF that a break, on either side, gave it
    faults

ends  == <<cli, up, down, copen>>
node  == <<nin, report, nresp, gup, gdown, gopen>>
guest == <<input, broke, stdin, proc, holder, pipe, pump, main, capped, blame>>
vars  == <<mode, kind, ends, node, guest, faults>>

NONE == 99   \* no exit code yet

Out     == <<"out", 0>>
Err     == <<"err", 0>>
Exit(c) == <<"exit", c>>
Frame   == {Out, Err} \cup {Exit(c) : c \in {-1, 0, 1}}

\* The bounded channels of the call: a send waits for room.
Room(q) == Len(q) < Cap

TypeOK ==
    /\ mode \in {"pipe", "pty"} /\ kind \in {"filter", "server", "short"}
    /\ cli \in [pump : {"run", "done"}, sent : 0..MaxIn, seen : 0..MaxOut,
                code : {NONE, -1, 0, 1}, result : {"none", "code", "err"}]
    /\ up \in Seq({"in", "eof", "brk"}) /\ gup \in Seq({"in", "eof", "rst"})
    /\ nin \in {"open", "ended", "broken"} /\ report \in BOOLEAN
    /\ nresp \in {"open", "run", "done"}
    /\ input \in {"run", "breaking", "broken", "finished", "aborted"}
    /\ broke \in {"none", "sent", "missed"} /\ stdin \in [n : 0..Cap, eof : BOOLEAN]
    /\ proc \in [st : {"none", "run", "exited", "killed"}, code : {NONE, -1, 0, 1},
                 held : 0..1, wrote : 0..MaxOut]
    /\ holder \in BOOLEAN
    /\ pipe \in 0..Cap /\ pump \in {"run", "done"}
    /\ main \in {"idle", "spawn", "look", "wait", "parked", "drain", "exit", "err", "done"}
    /\ capped \in BOOLEAN /\ gopen \in BOOLEAN /\ copen \in BOOLEAN
    /\ blame \in BOOLEAN /\ faults \in 0..MaxFaults
    /\ gdown \in Seq(Frame) /\ Len(gdown) <= Cap + 1
    /\ down \in Seq(Frame) /\ Len(down) <= Cap

Init ==
    /\ mode \in {"pipe", "pty"} /\ kind \in {"filter", "server", "short"}
    /\ cli = [pump |-> "run", sent |-> 0, seen |-> 0, code |-> NONE, result |-> "none"]
    /\ up = <<>> /\ nin = "open" /\ report = FALSE /\ nresp = "open" /\ gup = <<>>
    /\ input = "run" /\ broke = "none" /\ stdin = [n |-> 0, eof |-> FALSE]
    /\ proc = [st |-> "none", code |-> NONE, held |-> 0, wrote |-> 0]
    /\ holder = FALSE
    /\ pipe = 0 /\ pump = "run"
    /\ main = "idle" /\ capped = FALSE /\ gdown = <<>> /\ gopen = TRUE
    /\ down = <<>> /\ copen = TRUE /\ blame = FALSE /\ faults = 0

-----------------------------------------------------------------------------
(* The caller: barista-cli exec.rs                                         *)

\* The stdin pump reads a chunk and sends it, from a task of its own.
stdin_chunk ==
    /\ cli.pump = "run" /\ cli.result = "none" /\ cli.sent < MaxIn /\ Room(up)
    /\ cli' = [cli EXCEPT !.sent = @ + 1]
    /\ up' = Append(up, "in")
    /\ UNCHANGED <<mode, kind, down, copen, node, guest, faults>>

\* stdin ended: the pump drops its sender, which closes the request stream.
stdin_ends ==
    /\ cli.pump = "run" /\ cli.result = "none" /\ Room(up)
    /\ cli' = [cli EXCEPT !.pump = "done"]
    /\ up' = Append(up, "eof")
    /\ UNCHANGED <<mode, kind, down, copen, node, guest, faults>>

\* The read loop: an exit frame is remembered, an error ends the call.
read_frame ==
    /\ cli.result = "none" /\ down /= <<>>
    /\ LET f == Head(down) IN
       cli' = CASE f = Out -> [cli EXCEPT !.seen = @ + 1]
                [] f = Err -> [cli EXCEPT !.result = "err", !.pump = "done"]
                [] OTHER   -> [cli EXCEPT !.code = f[2]]
    /\ down' = Tail(down)
    /\ UNCHANGED <<mode, kind, up, copen, node, guest, faults>>

\* What the call answers once the stream has ended: the exit code, or an error.
exit_code == IF cli.code = NONE THEN "err" ELSE "code"

stream_ended ==
    /\ cli.result = "none" /\ down = <<>> /\ nresp = "done"
    /\ cli' = [cli EXCEPT !.result = exit_code, !.pump = "done"]
    /\ UNCHANGED <<mode, kind, up, down, copen, node, guest, faults>>

\* The caller or its connection goes away: both halves of its stream break.
hang_up ==
    /\ cli.result = "none" /\ faults < MaxFaults
    /\ cli' = [cli EXCEPT !.result = "err", !.pump = "done"]
    /\ up' \in {<<"brk">>, Append(up, "brk")}
    /\ down' = <<>> /\ copen' = FALSE /\ faults' = faults + 1
    /\ UNCHANGED <<mode, kind, node, guest>>

-----------------------------------------------------------------------------
(* The node: passthrough.rs                                                *)

\* Leaving the response task drops the client: the guest's stream is reset, and
\* what was queued for it is delivered first or thrown away.
drop_client ==
    /\ nresp' = "done" /\ gopen' = FALSE /\ gdown' = <<>>
    /\ gup' \in {Append(gup, "rst"), <<"rst">>}

\* exec up to the guest's stream: the instance is not there, is not RUNNING, has no
\* channel or does not answer, and the call is refused; or the stream opens.
open_guest_refused ==
    /\ nresp = "open"
    /\ nresp' = "done" /\ nin' = "ended"
    /\ down' = IF copen THEN Append(down, Err) ELSE down
    /\ UNCHANGED <<mode, kind, cli, up, copen, report, gup, gdown, gopen, guest, faults>>

open_guest ==
    /\ nresp = "open"
    /\ nresp' = "run" /\ main' = "spawn"
    /\ UNCHANGED <<mode, kind, ends, nin, report, gup, gdown, gopen, input, broke, stdin,
                   proc, holder, pipe, pump, capped, blame, faults>>

\* exec_frames: a broken half is reported beside the stream, then the stream ends
\* exactly as a finished one does.
exec_frames ==
    /\ nresp = "run" /\ nin = "open" /\ up /= <<>> /\ Room(gup)
    /\ up' = Tail(up)
    /\ IF Head(up) = "in"
       THEN gup' = Append(gup, "in") /\ UNCHANGED <<nin, report>>
       ELSE /\ gup' = Append(gup, "eof")
            /\ nin' = IF Head(up) = "brk" THEN "broken" ELSE "ended"
            /\ report' = (Head(up) = "brk")
    /\ UNCHANGED <<mode, kind, cli, down, copen, nresp, gdown, gopen, guest, faults>>

\* The response task's `select!`, which has no order: the report ...
respond_broken ==
    /\ nresp = "run" /\ report
    /\ report' = FALSE
    /\ copen => Room(down)
    /\ down' = IF copen THEN Append(down, Err) ELSE down
    /\ drop_client
    /\ UNCHANGED <<mode, kind, cli, up, copen, nin, guest, faults>>

\* ... or the guest's next frame, translated and forwarded in order ...
respond_frame ==
    /\ nresp = "run" /\ gdown /= <<>>
    /\ \/ /\ copen /\ Room(down)
          /\ down' = Append(down, Head(gdown)) /\ gdown' = Tail(gdown)
          /\ UNCHANGED <<nresp, gup, gopen>>
       \/ ~copen /\ drop_client /\ UNCHANGED down
    /\ UNCHANGED <<mode, kind, cli, up, copen, nin, report, guest, faults>>

\* The guest's stream is over once every sender of it is: the exec task's and the pumps'.
stream_over == main = "done" /\ pump = "done"

\* ... or its end.
respond_end ==
    /\ nresp = "run" /\ gdown = <<>> /\ (stream_over \/ ~gopen)
    /\ drop_client
    /\ UNCHANGED <<mode, kind, ends, nin, report, guest, faults>>

\* The channel between node and guest is lost, in both directions.
lost ==
    /\ nresp = "run" /\ gopen /\ ~stream_over /\ faults < MaxFaults
    /\ gopen' = FALSE
    /\ gdown' \in {<<Err>>, Append(gdown, Err)}
    /\ gup' \in {<<"rst">>, Append(gup, "rst")}
    /\ faults' = faults + 1
    /\ UNCHANGED <<mode, kind, ends, nin, report, nresp, guest>>

-----------------------------------------------------------------------------
(* The guest: exec.rs                                                      *)

\* run: the command is empty or does not start, and the exec ends with the error;
\* or it starts, with the pumps and the input task beside it.
spawn_fails ==
    /\ main = "spawn"
    /\ main' = "err" /\ input' = "aborted"
    /\ pump' = "done"
    /\ UNCHANGED <<mode, kind, ends, node, broke, stdin, proc, holder, pipe, capped, blame, faults>>

spawn ==
    /\ main = "spawn"
    /\ main' = "look" /\ proc' = [proc EXCEPT !.st = "run"]
    /\ UNCHANGED <<mode, kind, ends, node, input, broke, stdin, holder, pipe, pump, capped,
                   blame, faults>>

\* What a finished peer means for the child: EOF on a pipe, nothing on a pty.
finished_stdin == [stdin EXCEPT !.eof = @ \/ mode = "pipe"]

\* The input task takes a frame.  A child that no longer reads is not a break.
take_frame ==
    /\ main \notin {"idle", "spawn"} /\ input = "run" /\ gup /= <<>>
    /\ CASE Head(gup) = "in" /\ proc.st = "run" ->
                stdin.n < Cap /\ stdin' = [stdin EXCEPT !.n = @ + 1] /\ UNCHANGED input
         [] Head(gup) = "in" /\ proc.st /= "run" ->
                input' = "finished" /\ stdin' = finished_stdin
         [] Head(gup) = "eof" ->
                input' = "finished" /\ stdin' = finished_stdin
         [] Head(gup) = "rst" ->
                input' = "breaking" /\ UNCHANGED stdin
    /\ gup' = Tail(gup)
    /\ UNCHANGED <<mode, kind, ends, nin, report, nresp, gdown, gopen, broke, proc, holder, pipe,
                   pump, main, capped, blame, faults>>

\* With the task gone the rest of the caller's half is thrown away.
discard ==
    /\ main /= "spawn" /\ input \in {"finished", "broken", "aborted"} /\ gup /= <<>>
    /\ gup' = <<>>
    /\ UNCHANGED <<mode, kind, ends, nin, report, nresp, gdown, gopen, guest, faults>>

\* A broken half: the break is sent first, and only then does the task end and the
\* child's stdin close with it.
input_broken ==
    /\ input = "breaking"
    /\ \/ /\ broke = "none" /\ broke' = IF main = "wait" THEN "missed" ELSE "sent"
          /\ UNCHANGED <<stdin, input>>
       \/ broke # "none" /\ input' = "broken" /\ stdin' = finished_stdin /\ UNCHANGED broke
    /\ UNCHANGED <<mode, kind, ends, node, proc, holder, pipe, pump, main, capped, blame, faults>>

\* The output pump forwards what the pipe holds, and ends at the pipe's end or when
\* nobody takes its frames any more.
pump_output ==
    /\ pump = "run"
    /\ \/ /\ pipe > 0 /\ gopen /\ Room(gdown)
          /\ gdown' = Append(gdown, Out) /\ pipe' = pipe - 1 /\ UNCHANGED pump
       \/ /\ IF pipe > 0 THEN ~gopen ELSE proc.st \in {"exited", "killed"} /\ ~holder
          /\ pump' = "done" /\ UNCHANGED <<gdown, pipe>>
    /\ UNCHANGED <<mode, kind, ends, nin, report, nresp, gup, gopen, input, broke, stdin, proc,
                   holder, main, capped, blame, faults>>

\* The exec task's `select!`, biased: each time it is polled it looks for a break first.
\* It is polled when it is entered, and again when one of the two has happened.
break_seen == broke # "none"

select_broken ==
    /\ main \in {"look", "parked"} /\ break_seen
    /\ main' = "err" /\ input' = "aborted"
    /\ proc' = IF proc.st = "run" THEN [proc EXCEPT !.st = "killed"] ELSE proc
    /\ UNCHANGED <<mode, kind, ends, node, broke, stdin, holder, pipe, pump, capped, blame, faults>>

break_first == ~break_seen

no_break ==
    /\ main = "look" \/ (main = "parked" /\ proc.st = "exited")
    /\ break_first
    /\ main' = "wait"
    /\ UNCHANGED <<mode, kind, ends, node, input, broke, stdin, proc, holder, pipe, pump, capped,
                   blame, faults>>

\* Then, in a poll of its own, at the child.  A break sent between the two is missed.
select_exited ==
    /\ main = "wait" /\ proc.st = "exited"
    /\ main' = "drain" /\ input' = "aborted"
    /\ UNCHANGED <<mode, kind, ends, node, broke, stdin, proc, holder, pipe, pump, capped, blame,
                   faults>>

select_pending ==
    /\ main = "wait" /\ proc.st = "run"
    /\ main' = "parked"
    /\ UNCHANGED <<mode, kind, ends, node, input, broke, stdin, proc, holder, pipe, pump, capped,
                   blame, faults>>

\* Mutation: the exit does not wait for the output.
does_not_drain == TRUE

\* The pumps get DRAIN_GRACE: they end, or the time is up while one of them waits for
\* a pipe somebody holds open or for a caller that does not read.
pumps_ended == pump = "done"

drained ==
    /\ main = "drain" /\ pumps_ended
    /\ main' = "exit"
    /\ UNCHANGED <<mode, kind, ends, node, input, broke, stdin, proc, holder, pipe, pump, capped,
                   blame, faults>>

\* Mutation: the drain has no bound.
waits_for_ever == FALSE

grace_over == pump = "run" /\ (IF pipe = 0 THEN holder ELSE ~Room(gdown))

drain_capped ==
    /\ main = "drain" /\ grace_over
    /\ main' = "exit" /\ capped' = TRUE
    /\ UNCHANGED <<mode, kind, ends, node, input, broke, stdin, proc, holder, pipe, pump, blame,
                   faults>>

\* The last frame of the exec task: the exit code, -1 for a signal, or the error.
last_frame ==
    /\ main \in {"exit", "err"} /\ (gopen => Room(gdown))
    /\ main' = "done"
    /\ gdown' = IF gopen THEN Append(gdown, IF main = "exit" THEN Exit(proc.code) ELSE Err)
                ELSE gdown
    /\ UNCHANGED <<mode, kind, ends, nin, report, nresp, gup, gopen, input, broke, stdin, proc,
                   holder, pipe, pump, capped, blame, faults>>

-----------------------------------------------------------------------------
(* The workload                                                            *)

child_read ==
    /\ proc.st = "run" /\ kind = "filter" /\ stdin.n > 0 /\ proc.held = 0
    /\ stdin' = [stdin EXCEPT !.n = @ - 1] /\ proc' = [proc EXCEPT !.held = 1]
    /\ UNCHANGED <<mode, kind, ends, node, input, broke, holder, pipe, pump, main, capped, blame,
                   faults>>

\* A filter writes what it read; a write to a pipe nobody reads ends the child.
child_write ==
    /\ proc.st = "run" /\ (kind = "filter" => proc.held = 1)
    /\ \/ /\ pump = "run" /\ pipe < Cap /\ proc.wrote < MaxOut
          /\ pipe' = pipe + 1 /\ proc' = [proc EXCEPT !.wrote = @ + 1, !.held = 0]
       \/ /\ pump = "done"
          /\ proc' = [proc EXCEPT !.st = "exited", !.code = -1] /\ UNCHANGED pipe
    /\ UNCHANGED <<mode, kind, ends, node, input, broke, stdin, holder, pump, main, capped, blame,
                   faults>>

\* A filter ends at the end of its input; a short command when it is done, perhaps
\* leaving a grandchild with its pipes; a server never does.  A code tells which of
\* the two it was, nothing here asks more of it.
child_exit ==
    /\ proc.st = "run"
    /\ \/ /\ kind = "filter" /\ stdin = [n |-> 0, eof |-> TRUE] /\ proc.held = 0
          /\ proc' = [proc EXCEPT !.st = "exited", !.code = 0]
          /\ blame' = (nin = "broken" \/ input \in {"breaking", "broken"}) /\ UNCHANGED holder
       \/ /\ kind = "short"
          /\ proc' = [proc EXCEPT !.st = "exited", !.code = 1]
          /\ holder' \in BOOLEAN /\ UNCHANGED blame
    /\ UNCHANGED <<mode, kind, ends, node, input, broke, stdin, pipe, pump, main, capped, faults>>

grandchild ==
    /\ holder
    /\ \/ /\ pump = "run" /\ pipe < Cap /\ proc.wrote < MaxOut
          /\ pipe' = pipe + 1 /\ proc' = [proc EXCEPT !.wrote = @ + 1]
          /\ UNCHANGED holder
       \/ holder' = FALSE /\ UNCHANGED <<pipe, proc>>
    /\ UNCHANGED <<mode, kind, ends, node, input, broke, stdin, pump, main, capped, blame, faults>>

-----------------------------------------------------------------------------
Caller   == stdin_chunk \/ stdin_ends \/ read_frame \/ stream_ended \/ hang_up
Node     == \/ open_guest_refused \/ open_guest \/ exec_frames
            \/ respond_broken \/ respond_frame \/ respond_end \/ lost
Guest    == \/ spawn_fails \/ spawn \/ take_frame \/ discard \/ input_broken
            \/ pump_output \/ select_broken \/ no_break \/ select_exited \/ select_pending
            \/ drained \/ drain_capped \/ last_frame
Workload == child_read \/ child_write \/ child_exit \/ grandchild

Next == Caller \/ Node \/ Guest \/ Workload
Spec == Init /\ [][Next]_vars

-----------------------------------------------------------------------------
\* A caller that has read the exit frame has the code the process ended with and,
\* unless the drain was cut short, has read every chunk it and its children wrote; and
\* `barista exec` answers with a code only if it read one (exec.rs's "has seen all
\* output", the CLI's exit_code).
CliHonest ==
    /\ cli.code /= NONE => /\ proc.st = "exited" /\ cli.code = proc.code
                           /\ ~capped => cli.seen = proc.wrote
    /\ cli.result = "code" => cli.code /= NONE

\* A process that ended because its input was cut off, between caller and node or between
\* node and guest, is never reported to the caller as having exited.  The exec task itself
\* reports no exit for a break its stream told it of, unless the break came between the two
\* polls of one `select!` (exec.rs's biased select).  A break on the caller's side the
\* node turns into a clean end (exec_frames), so that one the exec task cannot tell.
BrokenNeverExit ==
    blame => /\ cli.code = NONE /\ cli.result /= "code"
             /\ main \in {"drain", "exit"} => nin = "broken" \/ broke = "missed"

\* The tasks run and the timer fires; a filter reads, writes and ends.  Nothing is
\* assumed of the caller's stdin, of a server, of a short command or of a grandchild.
Progress ==
    \/ read_frame \/ stream_ended
    \/ open_guest \/ open_guest_refused \/ exec_frames
    \/ respond_broken \/ respond_frame \/ respond_end
    \/ spawn \/ spawn_fails \/ take_frame \/ discard \/ input_broken \/ pump_output
    \/ select_broken \/ no_break \/ select_exited \/ select_pending
    \/ drained \/ drain_capped \/ last_frame
    \/ kind = "filter" /\ (child_read \/ child_write \/ child_exit)

\* What is owed.  Once the process has exited, the caller reads its code or an error, even
\* when a grandchild never lets go of the pipes (DRAIN_GRACE); and the call returns, though
\* only when nobody holds them any more: the pump that is left behind keeps the stream
\* open.  A guest that sees its stream break reaps the process, whatever the process does
\* (kill_on_drop).  A node that has read of the caller's break lets go of the guest, though
\* the guest may never say another word (passthrough.rs's report).
Owed ==
    \/ proc.st = "exited" /\ cli.result = "none" /\ (cli.code = NONE \/ ~holder)
    \/ main \in {"look", "wait", "parked"} /\ input \in {"breaking", "broken"} /\ proc.st = "run"
    \/ ~copen /\ nin = "broken" /\ nresp = "run"
=============================================================================
