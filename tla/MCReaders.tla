----------------------------- MODULE MCReaders -----------------------------
(***************************************************************************)
(* What those who read a node are told, for TLC: the event stream and the  *)
(* command line that waits on it (Events), the inventory by pages          *)
(* (Paging), the application log (Logs) and the calendar of the wake       *)
(* command (Wake). The parts share no state here, so one behaviour is of   *)
(* one of them, chosen at the start. Events is extended, the others        *)
(* instantiated.                                                           *)
(***************************************************************************)
EXTENDS Events

\* One row is above the budget as soon as it has an address; two others fit a page
\* together only without one.
MCSize == <<1, 2, 4>>
MCFilters == {{}, {"Running", "Paused"}}

\* A line; a comment before a line; a comment alone; a data field that is no line; and a
\* frame past the limit.
MCContents ==
    {<<"d1">>, <<"other", "n", "d2">>, <<"other">>, <<"bad">>,
     <<"other", "n", "other", "n", "other", "n", "d2">>}
MCTails == {<<>>, <<"n">>, <<"d1">>}

VARIABLES
    of,  \* the part of the system this behaviour is of
    x1, x2, x3, x4, x5, x6, x7, x8, x9, x10, x11, x12  \* the variables of a part that is instantiated here

P == INSTANCE Paging WITH
        Ids <- 1 .. 3, Lower <- {2}, Size <- MCSize, AddressSize <- 1, PageSize <- 2,
        MaxBytes <- 4, Filters <- MCFilters, Clocks <- {1, 2}, MaxMoves <- 2, rows <- x1,
        filter <- x2, token <- x3, pc <- x4, page <- x5, asked <- x6, more <- x7,
        got <- x8, sizes <- x9, steady <- x10, why <- x11, moves <- x12
L == INSTANCE Logs WITH
        Contents <- MCContents, Tails <- MCTails, MaxFrames <- 2, MaxFrame <- 6,
        Capacity <- 1, ask <- x1, frames <- x2, tail <- x3, rest <- x4, pending <- x5,
        task <- x6, channel <- x7, got <- x8, caller <- x9
W == INSTANCE Wake WITH
        LastYear <- 2101, Hours <- {0, 21}, Offsets <- {-7, 3}, MaxSecs <- 500000000,
        date <- x1, day <- x2

all == <<of, vars, x1, x2, x3, x4, x5, x6, x7, x8, x9, x10, x11, x12>>

\* The variables a part has no use for.
Spare0 == <<x1, x2, x3, x4, x5, x6, x7, x8, x9, x10, x11, x12>>
Spare2 == <<x3, x4, x5, x6, x7, x8, x9, x10, x11, x12>>
Spare9 == <<x10, x11, x12>>
Unused9 == x10 = 0 /\ x11 = 0 /\ x12 = 0
Unused2 ==
    /\ x3 = 0 /\ x4 = 0 /\ x5 = 0 /\ x6 = 0 /\ x7 = 0 /\ x8 = 0 /\ x9 = 0 /\ Unused9
Unused0 == x1 = 0 /\ x2 = 0 /\ Unused2

\* A behaviour of another part has no event, no stream and no follower.
NoEvents == Init /\ wait = "absent" /\ \A w \in Watchers : watch[w].filter = Anyone

SuiteInit ==
    \/ of = "events" /\ Init /\ Unused0
    \/ of = "paging" /\ P!Init /\ NoEvents
    \/ of = "logs" /\ L!Init /\ Unused9 /\ NoEvents
    \/ of = "wake" /\ W!Init /\ Unused2 /\ NoEvents

SuiteNext ==
    \/ of = "events" /\ Next /\ UNCHANGED <<of, Spare0>>
    \/ of = "paging" /\ P!Next /\ UNCHANGED <<of, vars>>
    \/ of = "logs" /\ L!Next /\ UNCHANGED <<of, vars, Spare9>>
    \/ of = "wake" /\ W!Next /\ UNCHANGED <<of, vars, Spare2>>

SuiteSpec == SuiteInit /\ [][SuiteNext]_all

\* Emitters, streams and the follower of the event stream go on (FairSpec of Events).
FairSuiteSpec == /\ SuiteSpec
                 /\ \A e \in Emitters : WF_vars(of = "events" /\ send(e))
                 /\ \A w \in Watchers : WF_vars(of = "events" /\ Serve(w))
                 /\ WF_vars(of = "events" /\ Follow)

-----------------------------------------------------------------------------
\* Who reads a node is not told less than there is. Following the page tokens returns
\* no instance twice and in order, a complete walk has every instance that matched all
\* along, no response is above its bounds, and a walk is given up only for an instance
\* that is too large by itself or whose id the node's own cursor refuses (Paging).
\* The caller of a log has its lines in order, each once, a stream that ends well
\* delivered everything, and one is refused only for what is wrong with it (Logs). Both
\* always have their next step.
ReadersHonest ==
    /\ of = "paging" => /\ P!TypeOK /\ P!OnceAndInOrder /\ P!NothingMissed
                        /\ P!WithinBounds /\ P!GivenUpHonestly
                        /\ P!Owed => ENABLED P!Progress
    /\ of = "logs" => /\ L!TypeOK /\ L!LinesInOrder /\ L!EndHonest /\ L!RefusalHonest
                      /\ L!Owed => ENABLED L!Progress

\* A date is the days since the epoch and one that does not exist is refused, one
\* moment has one time in every zone, a countdown is neither late nor a unit early, and
\* a duration is exactly that far from now or is refused (Wake).
CalendarRight ==
    of = "wake" => W!DaysCounted /\ W!ZonesAgree /\ W!CountdownHonest /\ W!DurationExact
=============================================================================
