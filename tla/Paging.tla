------------------------------- MODULE Paging -------------------------------
(***************************************************************************)
(* A walk over the pages of ListInstances (service.rs, list_instances and  *)
(* its cursor; the CLI's list_all), while instances are created and change *)
(* state.  A call reads the journal once and then asks the substrate for   *)
(* the address of every running instance of the page, so the page is cut   *)
(* by bytes against answers that come after the read.                      *)
(***************************************************************************)
EXTENDS Integers, Sequences, FiniteSets, SequencesExt

CONSTANTS Ids,        \* instance ids, numbers in their byte order
          Lower,      \* the ids spelt in lower case
          Size,       \* [Ids -> bytes of the row as a message]
          AddressSize,\* the bytes an address adds
          PageSize,   \* the requested size, already defaulted and bounded
          MaxBytes,   \* MAX_INSTANCE_PAGE_BYTES
          Filters,    \* the sets of states a caller may ask for
          Clocks,     \* the readings of now_ms(): it may be set back
          MaxMoves

States == {"Running", "Paused", "Destroyed"}

VARIABLES rows,    \* [Ids -> [created, state] or NoRow]: table instances
          filter,  \* the states of the request
          token,   \* the page token of the next request: <<>> or <<c, id>>
          pc,      \* "asks", "enriches", "done" or "failed": list_all
          page,    \* the rows the journal returned, cut to the page size
          asked,   \* those of them that were running when they were read
          more,    \* more_by_count
          got,     \* the ids the caller was given, in order
          sizes,   \* of the last response: <<rows, bytes>>
          steady,  \* the ids that have matched ever since the walk began
          why,     \* why it failed: "none", "token", "exhausted"
          moves

vars == <<rows, filter, token, pc, page, asked, more, got, sizes, steady, why,
          moves>>

NoRow == [created |-> 0, state |-> "none"]
Key(i) == <<rows[i].created, i>>
Less(a, b) == a[1] < b[1] \/ (a[1] = b[1] /\ a[2] < b[2])
Matches(row, f) == row.state # "none" /\ (f = {} \/ row.state \in f)

Init == /\ rows \in [Ids -> {NoRow} \cup [created : Clocks, state : States]]
        /\ filter \in Filters
        /\ token = <<>> /\ pc = "asks" /\ page = <<>> /\ asked = {}
        /\ more = FALSE
        /\ got = <<>> /\ sizes = <<0, 0>> /\ why = "none" /\ moves = 0
        /\ steady = {i \in Ids : Matches(rows[i], filter)}

-----------------------------------------------------------------------------
(* What happens to the table meanwhile.  A row is never removed.           *)
Touch(i, row) ==
    /\ moves < MaxMoves
    /\ moves' = moves + 1
    /\ rows' = [rows EXCEPT ![i] = row]
    /\ steady' = IF Matches(row, filter) THEN steady ELSE steady \ {i}
    /\ UNCHANGED <<filter, token, pc, page, asked, more, got, sizes, why>>

insert_instance(i, now) ==
    /\ rows[i] = NoRow
    /\ Touch(i, [created |-> now, state |-> "Running"])

set_instance_state(i, s) ==
    /\ rows[i].state \in States \ {"Destroyed"}
    /\ Touch(i, [rows[i] EXCEPT !.state = s])

-----------------------------------------------------------------------------
(* A token is the key of the last row returned; the request that carries   *)
(* one is refused unless its id is twenty-six capitals and digits.         *)
encode_instance_cursor(i) == Key(i)
legal_id(i) == i \notin Lower
decode_instance_cursor(t) == t # <<>> => legal_id(t[2])

(* The rows a page may hold: those strictly behind the cursor.             *)
behind_cursor(i, t) == t # <<>> => Less(t, Key(i))

(* The order of a page: by time of creation, then by id.                   *)
precedes(a, b) == Less(Key(a), Key(b))

(* The call up to the substrate: filter, cursor, sort, count.              *)
list_instances ==
    LET found == SetToSortSeq({i \in Ids : /\ Matches(rows[i], filter)
                                           /\ behind_cursor(i, token)},
                              precedes)
    IN  /\ pc = "asks"
        /\ decode_instance_cursor(token)
        /\ more' = (Len(found) > PageSize)
        /\ page' = SubSeq(found, 1, IF Len(found) > PageSize THEN PageSize
                                    ELSE Len(found))
        /\ asked' = {i \in ToSet(page') : rows[i].state = "Running"}
        /\ pc' = "enriches"
        /\ UNCHANGED <<rows, filter, token, got, sizes, steady, why, moves>>

refused ==
    /\ pc = "asks"
    /\ ~decode_instance_cursor(token)
    /\ pc' = "failed" /\ why' = "token"
    /\ UNCHANGED <<rows, filter, token, page, asked, more, got, sizes, steady,
                   moves>>

(* The bytes of a row in the response.  The address is asked for only when *)
(* the row that was read was running, and may be absent then too.          *)
encoded_bytes(i, addressed) ==
    Size[i] + (IF i \in addressed THEN AddressSize ELSE 0)

Total(n, addressed) ==
    FoldLeft(LAMBDA sum, i : sum + encoded_bytes(i, addressed), 0,
             SubSeq(page, 1, n))

(* The longest prefix of the page within the budget.                       *)
fit(addressed) ==
    CHOOSE n \in 0 .. Len(page) :
        /\ Total(n, addressed) <= MaxBytes
        /\ n = Len(page) \/ Total(n + 1, addressed) > MaxBytes

selected(addressed) == fit(addressed)

\* Mutation: a page cut by bytes is the last.
forgets_the_cut(n) == more

(* more_by_count or more_by_bytes.                                         *)
more_follows(n) == more \/ n < Len(page)

(* The key of the last row returned; without one the token stands.         *)
next_page_token(n) == IF n = 0 THEN token ELSE encode_instance_cursor(page[n])

(* One instance that does not fit a page of its own.                       *)
exhausted(n) == Len(page) > 0 /\ n = 0

(* The rest of the call and the caller's loop: the rows are kept, and an   *)
(* empty token ends the walk.  A first row above the budget is an error.   *)
answer(addressed) ==
    LET n == selected(addressed) IN
    /\ pc = "enriches"
    /\ IF exhausted(n)
       THEN /\ pc' = "failed" /\ why' = "exhausted"
            /\ UNCHANGED <<token, got, sizes>>
       ELSE /\ got' = got \o SubSeq(page, 1, n)
            /\ sizes' = <<n, Total(n, addressed)>>
            /\ IF more_follows(n)
               THEN /\ token' = next_page_token(n)
                    /\ pc' = "asks"
               ELSE token' = <<>> /\ pc' = "done"
            /\ UNCHANGED why
    /\ page' = <<>> /\ asked' = {}
    /\ UNCHANGED <<rows, filter, more, steady, moves>>

Next ==
    \/ list_instances
    \/ refused
    \/ \E addressed \in SUBSET asked : answer(addressed)
    \/ \E i \in Ids : \/ \E now \in Clocks : insert_instance(i, now)
                      \/ \E s \in States : set_instance_state(i, s)

Spec == Init /\ [][Next]_vars

(* The server answers and the caller asks again; the walk is owed its end. *)
Progress == \/ list_instances \/ refused
            \/ \E addressed \in SUBSET asked : answer(addressed)
Owed == pc \notin {"done", "failed"}

-----------------------------------------------------------------------------
(* The state stays typed: a page holds rows of the table.                  *)
TypeOK ==
    /\ \A i \in Ids : rows[i] = NoRow \/ rows[i].state \in States
    /\ token = <<>> \/ token \in Clocks \X Ids
    /\ ToSet(page) \cup ToSet(got) \subseteq {i \in Ids : rows[i] # NoRow}
    /\ Len(page) <= PageSize

(* Following the tokens returns no instance twice, and in the order of     *)
(* creation, whatever is created or changes state between two pages.       *)
OnceAndInOrder ==
    \A a, b \in DOMAIN got : a < b => precedes(got[a], got[b])

(* A walk that reaches its end has returned every instance that matched    *)
(* the filter from its first request to its last.                          *)
NothingMissed == pc = "done" => steady \subseteq ToSet(got)

(* No response holds more rows than were asked for or more bytes than the  *)
(* transport is sure to take.                                              *)
WithinBounds == sizes[1] <= PageSize /\ sizes[2] <= MaxBytes

(* A walk that does not reach its end was given up for an instance that is *)
(* too large by itself, or refused on the token the node gave out: one     *)
(* that ends at an id the node takes and its cursor does not.              *)
GivenUpHonestly ==
    pc = "failed" =>
        \/ /\ why = "exhausted"
           /\ \E i \in Ids : rows[i] # NoRow /\ Size[i] + AddressSize > MaxBytes
        \/ why = "token" /\ got # <<>> /\ token[2] = Last(got) /\ Last(got) \in Lower
=============================================================================
