-------------------------------- MODULE Files -------------------------------
(***************************************************************************)
(* One file copied into or out of an instance: the caller's stream, the    *)
(* node's translation of it with its failure slot (passthrough.rs), the    *)
(* guest's bounded write and its chunked read (service.rs), and `barista   *)
(* cp` at the near end (exec.rs of the CLI).  A file is the number of its  *)
(* chunks; the chunks themselves travel in order.                          *)
(***************************************************************************)
EXTENDS Integers, Sequences

CONSTANTS
    Cap,        \* frames a channel holds
    Size,       \* chunks of the file being copied
    MaxFaults   \* bound: transport and disk failures

VARIABLES
    dir,        \* "in": WriteFile, "out": ReadFile
    limit,      \* ReadFileRequest.limit, 0 for none
    cli,        \* the caller: [st, sent, result, count]
    up,         \* caller -> node frames
    nst,        \* the node's handler
    failure,    \* write_file's failure slot: the caller's half did not end cleanly
    gup,        \* node -> guest frames
    gst,        \* the guest's handler
    answer,     \* the guest's answer to WriteFile: [st, count]
    down,       \* guest -> caller chunks of ReadFile
    file,       \* chunks in the destination file, -1 while it is the old one
    faults

near  == <<cli, up>>
far   == <<gst, answer, file>>
vars  == <<dir, limit, near, nst, failure, gup, far, down, faults>>

Room(q) == Len(q) < Cap

\* What a read of the whole request returns.
wanted == IF limit = 0 \/ limit > Size THEN Size ELSE limit

TypeOK ==
    /\ dir \in {"in", "out"} /\ limit \in 0..Size
    /\ cli \in [st : {"sending", "quiet", "finished", "gone"}, sent : 0..Size,
                result : {"none", "ok", "err"}, count : 0..Size]
    /\ up \in Seq({"chunk", "open", "end", "brk"}) /\ Len(up) <= Cap + 1
    /\ gup \in Seq({"chunk", "end", "rst"}) /\ Len(gup) <= Cap + 1
    /\ nst \in {"open", "run", "done"} /\ failure \in BOOLEAN
    /\ gst \in {"idle", "open", "run", "eof", "done"}
    /\ answer \in [st : {"none", "ok", "err"}, count : 0..Size]
    /\ down \in Seq({"chunk", "eof", "err"}) /\ Len(down) <= Cap + 1
    /\ file \in -1..Size /\ faults \in 0..MaxFaults

Init ==
    /\ dir \in {"in", "out"} /\ limit \in (IF dir = "in" THEN {0} ELSE 0..Size)
    /\ cli = [st |-> IF dir = "in" THEN "sending" ELSE "finished", sent |-> 0,
              result |-> "none", count |-> 0]
    /\ up = <<>> /\ gup = <<>> /\ down = <<>> /\ nst = "open" /\ failure = FALSE
    /\ gst = "idle" /\ answer = [st |-> "none", count |-> 0] /\ file = -1 /\ faults = 0

-----------------------------------------------------------------------------
(* The caller                                                              *)

send_chunk ==
    /\ cli.st \in {"sending", "quiet"} /\ cli.result = "none" /\ cli.sent < Size /\ Room(up)
    /\ cli' = [cli EXCEPT !.st = "sending", !.sent = @ + 1]
    /\ up' = Append(up, "chunk")
    /\ UNCHANGED <<dir, limit, nst, failure, gup, far, down, faults>>

\* The end of the file closes the caller's half.
send_end ==
    /\ cli.st \in {"sending", "quiet"} /\ cli.result = "none" /\ cli.sent = Size /\ Room(up)
    /\ cli' = [cli EXCEPT !.st = "finished"]
    /\ up' = Append(up, "end")
    /\ UNCHANGED <<dir, limit, nst, failure, gup, far, down, faults>>

\* The caller keeps its stream open and sends nothing for longer than the idle bound.
goes_quiet ==
    /\ cli.st = "sending" /\ cli.result = "none" /\ faults < MaxFaults
    /\ cli' = [cli EXCEPT !.st = "quiet"] /\ faults' = faults + 1
    /\ UNCHANGED <<dir, limit, up, nst, failure, gup, far, down>>

\* The caller sends a second `open`.
reopens ==
    /\ cli.st = "sending" /\ cli.result = "none" /\ faults < MaxFaults /\ Room(up)
    /\ up' = Append(up, "open") /\ faults' = faults + 1
    /\ UNCHANGED <<dir, limit, cli, nst, failure, gup, far, down>>

\* The caller's connection breaks.
breaks ==
    /\ dir = "in" /\ cli.st /= "gone" /\ cli.result = "none" /\ faults < MaxFaults
    /\ cli' = [cli EXCEPT !.st = "gone"]
    /\ up' \in {<<"brk">>, Append(up, "brk")} /\ faults' = faults + 1
    /\ UNCHANGED <<dir, limit, nst, failure, gup, far, down>>

\* `barista cp` out of the instance: every chunk is written to the local file, which
\* was truncated when the stream opened; an error ends the copy where it is.
read_chunk ==
    /\ dir = "out" /\ cli.result = "none" /\ down /= <<>>
    /\ cli' = [cli EXCEPT !.result = IF Head(down) = "err" THEN "err" ELSE "none"]
    /\ file' = IF Head(down) = "chunk" THEN file + 1 ELSE file
    /\ down' = Tail(down)
    /\ UNCHANGED <<dir, limit, up, nst, failure, gup, gst, answer, faults>>

read_ended ==
    /\ dir = "out" /\ cli.result = "none" /\ down = <<>> /\ nst = "run" /\ gst = "done"
    /\ cli' = [cli EXCEPT !.result = "ok", !.count = file] /\ nst' = "done"
    /\ UNCHANGED <<dir, limit, up, failure, gup, far, down, faults>>

-----------------------------------------------------------------------------
(* The node                                                                *)

open_guest_refused ==
    /\ nst = "open"
    /\ nst' = "done" /\ cli' = [cli EXCEPT !.result = "err"]
    /\ UNCHANGED <<dir, limit, up, failure, gup, far, down, faults>>

open_guest ==
    /\ nst = "open"
    /\ nst' = "run" /\ gst' = "open"
    /\ UNCHANGED <<dir, limit, near, failure, gup, answer, file, down, faults>>

\* write_chunks: only a clean end leaves the failure slot empty; all three ends look the
\* same to the guest.
record(f) == f \in {"brk", "open"}

write_chunks ==
    /\ nst = "run" /\ up /= <<>> /\ Room(gup) /\ "end" \notin {gup[i] : i \in DOMAIN gup}
    /\ gup' = Append(gup, IF Head(up) = "chunk" THEN "chunk" ELSE "end")
    /\ failure' = (failure \/ record(Head(up)))
    /\ up' = IF Head(up) = "chunk" THEN Tail(up) ELSE <<>>
    /\ UNCHANGED <<dir, limit, cli, nst, far, down, faults>>

\* The guest has answered: the caller's half is asked first, then the answer.
write_answered ==
    /\ dir = "in" /\ nst = "run" /\ answer.st /= "none"
    /\ nst' = "done"
    /\ cli' = IF failure \/ answer.st = "err" THEN [cli EXCEPT !.result = "err"]
              ELSE [cli EXCEPT !.result = "ok", !.count = answer.count]
    /\ UNCHANGED <<dir, limit, up, failure, gup, far, down, faults>>

\* The channel to the guest is lost: a pending read ends with the error, a pending write
\* is answered with it, and the guest sees its half reset.
lost ==
    /\ nst = "run" /\ gst \in {"open", "run", "eof"} /\ faults < MaxFaults
    /\ faults' = faults + 1
    /\ IF dir = "in"
       THEN /\ gup' \in {<<"rst">>, Append(gup, "rst")} /\ nst' = "done"
            /\ cli' = [cli EXCEPT !.result = "err"] /\ UNCHANGED <<down, gst>>
       ELSE /\ down' \in {<<"err">>, Append(down, "err")} /\ gst' = "done"
            /\ UNCHANGED <<gup, nst, cli>>
    /\ UNCHANGED <<dir, limit, up, failure, answer, file>>

-----------------------------------------------------------------------------
(* The guest                                                               *)

fails == answer' = [answer EXCEPT !.st = "err"] /\ gst' = "done"

\* write_file_bounded opens and truncates; read_file opens, or the path is not there.
open_file ==
    /\ gst = "open"
    /\ \/ file' = 0 /\ gst' = "run" /\ UNCHANGED <<answer, down, faults>>
       \/ /\ faults < MaxFaults /\ faults' = faults + 1
          /\ fails /\ UNCHANGED file
          /\ down' = IF dir = "out" THEN Append(down, "err") ELSE down
    /\ UNCHANGED <<dir, limit, near, nst, failure, gup>>

\* A frame of the upload: written and counted; a reset or a failed write ends it with an
\* error, the stream's end flushes and answers with the count.
write_frame ==
    /\ dir = "in" /\ gst = "run" /\ gup /= <<>>
    /\ gup' = Tail(gup)
    /\ \/ /\ Head(gup) = "chunk"
          /\ file' = file + 1 /\ answer' = [answer EXCEPT !.count = @ + 1]
          /\ UNCHANGED <<gst, faults>>
       \/ /\ Head(gup) = "chunk" /\ faults < MaxFaults
          /\ faults' = faults + 1 /\ fails /\ UNCHANGED file
       \/ Head(gup) = "rst" /\ fails /\ UNCHANGED <<file, faults>>
       \/ /\ Head(gup) = "end"
          /\ answer' = [answer EXCEPT !.st = "ok"] /\ gst' = "done" /\ UNCHANGED <<file, faults>>
    /\ UNCHANGED <<dir, limit, near, nst, failure, down>>

\* WRITE_FILE_IDLE_TIMEOUT: no frame for the whole bound.
idle_over == cli.st = "quiet" /\ up = <<>> /\ gup = <<>>

next_write_frame_quiet ==
    /\ dir = "in" /\ gst = "run" /\ idle_over
    /\ fails
    /\ UNCHANGED <<dir, limit, near, nst, failure, gup, file, down, faults>>

\* The read loop: a chunk at a time up to the limit, then the empty chunk that marks the
\* end; an error ends the stream without it.
read_error == "err"

read_loop ==
    /\ dir = "out" /\ Room(down)
    /\ \/ /\ gst = "run" /\ answer.count < wanted
          /\ \/ /\ answer' = [answer EXCEPT !.count = @ + 1]
                /\ down' = Append(down, "chunk") /\ UNCHANGED <<gst, faults>>
             \/ /\ faults < MaxFaults /\ faults' = faults + 1
                /\ gst' = "done" /\ down' = Append(down, read_error) /\ UNCHANGED answer
       \/ /\ gst = "run" /\ answer.count = wanted
          /\ gst' = "done" /\ down' = Append(down, "eof") /\ UNCHANGED <<answer, faults>>
    /\ UNCHANGED <<dir, limit, near, nst, failure, gup, file>>

-----------------------------------------------------------------------------
Next ==
    \/ send_chunk \/ send_end \/ goes_quiet \/ reopens \/ breaks \/ read_chunk \/ read_ended
    \/ open_guest_refused \/ open_guest \/ write_chunks \/ write_answered \/ lost
    \/ open_file \/ write_frame \/ next_write_frame_quiet \/ read_loop

Spec == Init /\ [][Next]_vars

\* The handlers run and the idle timer fires; the caller need not send.  An upload that
\* goes quiet and stays quiet owes its handler and its file back (barista-042's bound on
\* the gap between two frames).
Progress ==
    \/ open_guest \/ open_guest_refused \/ write_chunks \/ write_answered \/ open_file
    \/ write_frame \/ next_write_frame_quiet \/ read_loop \/ read_chunk \/ read_ended
Owed == cli.st = "quiet" /\ gst \notin {"idle", "done"}

-----------------------------------------------------------------------------
\* A write that is answered with success wrote the whole file, in the count it claims: a
\* broken, repeated or silent stream is never a successful upload (write_file's failure
\* slot, which is asked before the guest's answer).
WriteWhole == dir = "in" /\ cli.result = "ok" => file = Size /\ cli.count = Size /\ cli.sent = Size

\* A copy out that succeeds left the whole of what was asked for in the local file
\* (read_file, cp).
ReadWhole == dir = "out" /\ cli.result = "ok" => file = wanted
=============================================================================
