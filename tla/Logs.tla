-------------------------------- MODULE Logs --------------------------------
(***************************************************************************)
(* An application log on its way to a caller of WatchLogs: the substrate's *)
(* event stream arrives in pieces cut anywhere (runtime/hypeman/client.rs  *)
(* stream_application_logs), a task puts the frames together again,        *)
(* decodes each and passes its line through a bounded channel to the       *)
(* caller's stream (service.rs watch_logs), who may hang up at any time.   *)
(*                                                                         *)
(* A byte of the stream is "n" (line feed), "r" (carriage return), or one  *)
(* token for the text of a whole line: a log line ("d1", "d2": a data      *)
(* field that holds one JSON string), "bad" (a data field that does not),  *)
(* or "other" (a comment, or a field that is not data).  Lengths count     *)
(* these.                                                                  *)
(***************************************************************************)
EXTENDS Naturals, Sequences, SequencesExt, FiniteSets

CONSTANTS
    Contents,      \* what a frame may hold between two separators
    Tails,         \* what may follow the last separator
    MaxFrames,     \* bound: frames in a stream
    MaxFrame,      \* MAX_LOG_FRAME_BYTES
    Capacity       \* LOG_CHANNEL_CAPACITY

VARIABLES
    ask,       \* the request: its tail, whether it follows, whether the instance is known
    frames,    \* what the substrate will write: contents and separators
    tail,      \* and the unfinished part after them
    rest,      \* the bytes of it the task has not been given yet
    pending,   \* the task's buffer
    task,      \* "none", "running", "done"
    channel,   \* lines and errors between the task and the caller
    got,       \* the lines the caller has
    caller     \* "waiting", "refused", "reading", "ended", "gone", or why it failed

vars == <<ask, frames, tail, rest, pending, task, channel, got, caller>>

Data == {"d1", "d2"}
LF == <<"n", "n">>
CRLF == <<"r", "n", "r", "n">>
Failures == {"unreachable", "invalid", "oversized", "incomplete"}

Frame == [content: Contents, separator: {LF, CRLF}]
Body == FlattenSeq([k \in 1 .. Len(frames) |-> frames[k].content \o frames[k].separator]) \o tail

Init ==
    /\ ask \in [tail: {0, 1, 1000, 1001}, follow: BOOLEAN, known: BOOLEAN]
    /\ ask.follow \/ ask.tail = 0 => ask.known
    /\ frames \in UNION {[1 .. n -> Frame] : n \in 0 .. MaxFrames}
    /\ tail \in Tails
    /\ ask.tail # 0 => frames = <<>> /\ tail = <<>>
    /\ rest = Body
    /\ pending = <<>>
    /\ task = "none"
    /\ channel = <<>>
    /\ got = <<>>
    /\ caller = "waiting"

-----------------------------------------------------------------------------
(***************************************************************************)
(* Opening the stream.                                                     *)
(***************************************************************************)
lines_asked == IF ask.tail = 0 THEN 100 ELSE ask.tail

\* The substrate may refuse the request or not be there.
watch_logs ==
    /\ caller = "waiting"
    /\ \/ /\ lines_asked <= 1000 /\ ask.known
          /\ task' = "running"
          /\ caller' = "reading"
       \/ /\ task' = task
          /\ caller' = "refused"
    /\ UNCHANGED <<ask, frames, tail, rest, pending, channel, got>>

-----------------------------------------------------------------------------
(***************************************************************************)
(* The task.                                                               *)
(***************************************************************************)
Positions(b, separator) ==
    {p \in 1 .. Len(b) : p + Len(separator) - 1 <= Len(b)
                         /\ SubSeq(b, p, p + Len(separator) - 1) = separator}

\* Where the first frame of the buffer ends and how long its separator is;
\* <<0, 0>> when the buffer holds no whole frame.
sse_frame_end(b) ==
    LET lf == Positions(b, LF)
        crlf == Positions(b, CRLF) IN
    IF lf = {} /\ crlf = {} THEN <<0, 0>>
    ELSE LET first == Min(lf \union crlf) IN
         <<first - 1, IF first \in lf THEN 2 ELSE 4>>

NoFrame == sse_frame_end(pending)[2] = 0

\* The line a frame holds, "nothing", or the error it is.  Two data fields
\* are joined by a line feed, which no JSON string contains.
decode_log_sse_frame(frame) ==
    LET data == SelectSeq(frame, LAMBDA t : t \in Data \union {"bad"}) IN
    IF Len(frame) > MaxFrame THEN "oversized"
    ELSE IF data = <<>> THEN "nothing"
    ELSE IF Len(data) = 1 /\ data[1] \in Data THEN data[1]
    ELSE "invalid"

\* The task's send waits for room; with the caller gone it fails at once.
send(item) ==
    \/ /\ caller # "gone" /\ Len(channel) < Capacity
       /\ channel' = Append(channel, item)
       /\ task' = IF item \in Failures THEN "done" ELSE "running"
    \/ /\ caller = "gone"
       /\ channel' = channel
       /\ task' = "done"

\* A piece of the body, cut anywhere.
next_chunk(k) ==
    /\ task = "running" /\ NoFrame
    /\ Len(pending) <= MaxFrame
    /\ pending' = pending \o SubSeq(rest, 1, k)
    /\ rest' = SubSeq(rest, k + 1, Len(rest))
    /\ UNCHANGED <<ask, frames, tail, task, channel, got, caller>>

\* The first whole frame of the buffer is taken out, decoded and passed on.
take_frame ==
    /\ task = "running" /\ ~NoFrame
    /\ LET e == sse_frame_end(pending)
           line == decode_log_sse_frame(SubSeq(pending, 1, e[1])) IN
       /\ pending' = SubSeq(pending, e[1] + e[2] + 1, Len(pending))
       /\ IF line = "nothing" THEN UNCHANGED <<task, channel>> ELSE send(line)
    /\ UNCHANGED <<ask, frames, tail, rest, got, caller>>

too_long ==
    /\ task = "running" /\ NoFrame
    /\ Len(pending) > MaxFrame
    /\ send("oversized")
    /\ UNCHANGED <<ask, frames, tail, rest, pending, got, caller>>

chunk_fails ==
    /\ task = "running" /\ NoFrame /\ Len(pending) <= MaxFrame
    /\ send("unreachable")
    /\ UNCHANGED <<ask, frames, tail, rest, pending, got, caller>>

nothing_left == \A k \in 1 .. Len(pending) : pending[k] \in {"n", "r"}

\* The body is over.
body_ends ==
    /\ task = "running" /\ NoFrame /\ Len(pending) <= MaxFrame
    /\ rest = <<>>
    /\ IF nothing_left THEN task' = "done" /\ UNCHANGED channel ELSE send("incomplete")
    /\ UNCHANGED <<ask, frames, tail, rest, pending, got, caller>>

-----------------------------------------------------------------------------
(***************************************************************************)
(* The caller's stream.                                                    *)
(***************************************************************************)
\* An error ends the caller's stream; no line is longer than its frame, so
\* the entry's own limit is never met.
receive ==
    /\ caller = "reading"
    /\ \/ /\ channel # <<>>
          /\ channel' = Tail(channel)
          /\ IF Head(channel) \in Failures
             THEN caller' = Head(channel) /\ UNCHANGED got
             ELSE got' = Append(got, Head(channel)) /\ UNCHANGED caller
       \/ /\ channel = <<>> /\ task = "done"
          /\ caller' = "ended"
          /\ UNCHANGED <<channel, got>>
    /\ UNCHANGED <<ask, frames, tail, rest, pending, task>>

hang_up ==
    /\ caller = "reading"
    /\ caller' = "gone"
    /\ channel' = <<>>
    /\ UNCHANGED <<ask, frames, tail, rest, pending, task, got>>

Next ==
    \/ watch_logs
    \/ \E k \in 1 .. Len(rest) : next_chunk(k)
    \/ take_frame
    \/ too_long
    \/ chunk_fails
    \/ body_ends
    \/ receive
    \/ hang_up

Spec == Init /\ [][Next]_vars

-----------------------------------------------------------------------------
(***************************************************************************)
(* What the stream holds, known from how it was written.                   *)
(***************************************************************************)
Holds(content) == {t \in Range(content) : t \in Data \union {"bad"}}

Bad(content) == Holds(content) # {} /\ ~(Cardinality(Holds(content)) = 1 /\ Holds(content) \subseteq Data)

Written ==
    LET good == SelectSeq([k \in 1 .. Len(frames) |-> frames[k].content],
                          LAMBDA c : Holds(c) # {} /\ ~Bad(c)) IN
    [k \in 1 .. Len(good) |-> CHOOSE t \in Holds(good[k]) : TRUE]

\* The lines before the first frame that is no log line.
UpToBad ==
    LET bad == {k \in 1 .. Len(frames) : Bad(frames[k].content)}
        upto == IF bad = {} THEN Len(frames) ELSE Min(bad) - 1
        before == {k \in 1 .. upto : Holds(frames[k].content) # {}} IN
    SubSeq(Written, 1, Cardinality(before))

-----------------------------------------------------------------------------
\* The channel stays within its capacity, and only the caller's stream has an
\* outcome.
TypeOK ==
    /\ task \in {"none", "running", "done"}
    /\ caller \in {"waiting", "refused", "reading", "ended", "gone"} \union Failures
    /\ channel \in Seq(Data \union Failures) /\ Len(channel) <= Capacity
    /\ got \in Seq(Data)
    /\ pending \in Seq(Data \union {"bad", "other", "n", "r"})

\* However the body is cut, the caller has the lines that were written, in
\* order, none twice, none missing, and none from behind a frame that could
\* not be decoded.
LinesInOrder == IsPrefix(got, UpToBad)

\* A log that was cut short, or that holds a frame nobody could decode, never
\* passes for a complete one: the stream ends without an error only when every
\* line written is with the caller.
EndHonest ==
    caller = "ended" =>
        /\ got = Written
        /\ \A k \in 1 .. Len(frames) : ~Bad(frames[k].content)
        /\ Range(tail) \subseteq {"n", "r"}

\* An error says what happened: a frame is called oversized only when it is
\* within a separator of the limit or past it, invalid only when one is.
RefusalHonest ==
    /\ caller = "oversized" => \E c \in {frames[k].content : k \in 1 .. Len(frames)} \union {tail} :
                                  Len(c) + 3 > MaxFrame
    /\ caller = "invalid" => \E k \in 1 .. Len(frames) : Bad(frames[k].content)
    /\ caller = "incomplete" => tail # <<>>

\* The task and the caller keep running, and the substrate writes the rest of
\* what it has; a stream that follows need not end.
Progress == \/ \E k \in 1 .. Len(rest) : next_chunk(k)
            \/ take_frame \/ too_long \/ receive
            \/ ~ask.follow /\ body_ends

\* What is owed: a stream that does not follow ends, for the caller and for
\* the task that feeds it, whoever hangs up and however full the channel is;
\* and a whole line the substrate has written reaches a caller that keeps
\* reading, although the stream follows and never ends.
Owed == \/ ~ask.follow /\ task # "none" /\ ~(task = "done" /\ caller # "reading")
        \/ task = "running" /\ UpToBad # <<>> /\ got = <<>> /\ caller = "reading"
=============================================================================
