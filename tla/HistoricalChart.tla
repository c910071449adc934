--------------------------- MODULE HistoricalChart ---------------------------
(***************************************************************************)
(* The historical chart of the web page: every draw requests a file of     *)
(* each meter, waits for all of them in a queue of d3, takes what is       *)
(* produced off the consumption if the meters are wired so, and draws.     *)
(* The server makes a file of what the time series database has, and       *)
(* answers from its cache for a minute.                                    *)
(*                                                                         *)
(* A file is the set of the minutes it has a value of; the value of a      *)
(* minute is there from its beginning on.  A server thread serves each     *)
(* request in steps, while the page runs one callback at a time: a merge   *)
(* occupies it until it is done.  All minutes here are less than a day     *)
(* ago, and the meters requested exist.                                    *)
(***************************************************************************)
EXTENDS SortedSets, Sequences, SequencesExt, FiniteSetsExt

CONSTANTS
    Consumption,   \* consumptionMeter
    Productions,   \* productionMeters
    meterConfiguration,  \* 1 if the consumption meter measures the production too
    Before,        \* the minutes until the page is opened
    LastMinute,    \* bound on the time
    MaxDraws,      \* bound on the draws
    MaxFaults,     \* bound on the values missing in the database and, counted twice, on the
                   \* requests and queries that fail and the minutes passing while one is served
    MaxQuery,      \* how many minutes serving a request takes at most
    Failed,        \* the error of a request
    None           \* undefined

ASSUME HistoricalChartAssumption ==
    /\ IsFiniteSet(Productions) /\ Consumption \notin Productions
    /\ Before \in Nat \ {0} /\ LastMinute \in Nat /\ Before <= LastMinute
    /\ meterConfiguration \in {0, 1}
    /\ MaxDraws \in Nat /\ MaxFaults \in Nat /\ MaxQuery \in Nat

Meters == {Consumption} \cup Productions
Minutes == 1..LastMinute
Draws == 1..MaxDraws
CacheTime == 1

\* A file: the minutes it has a value of, and when it was made.
File == [minutes : SUBSET Minutes, made : Minutes]

VARIABLES
    clock,               \* the minute
    database,            \* of each meter the minutes whose value can be queried
    cache,               \* DataTsvServlet.cache: a file and its timestamp
    threads,             \* the threads of the server, by what they serve
    draws,               \* how often drawHistoricalChart was called
    answers,             \* the answers to the requests of a draw, until they are loaded
    timeSeries,          \* of a draw: the minutes of each file loaded
    merge,               \* the merge that occupies the page
    drawn,               \* the draws that have drawn their chart
    failures             \* counts the failures and delays

server == <<cache, threads>>
page == <<draws, timeSeries, merge, drawn>>
historyVars == <<clock, database, server, answers, page, failures>>

Thread == [pc : {"check", "query", "store"}, since : Minutes, file : File \cup {None}]

Missing == {mt \in Meters \X Minutes : mt[2] \notin database[mt[1]]}

HistoryInit ==
    /\ clock = Before
    /\ database \in [Meters -> SUBSET Minutes]
    /\ Cardinality(Missing) <= MaxFaults
    /\ cache = [m \in Meters |-> None] /\ draws = 0 /\ merge = None
    /\ threads = [d \in Draws |-> [m \in Meters |-> None]]
    /\ answers = [d \in Draws |-> [m \in Meters |-> None]]
    /\ timeSeries = [d \in Draws |-> [m \in Meters |-> None]]
    /\ drawn = {} /\ failures = 0

---------------------------------------------------------------------------
(* Time passes. *)

Fails == Cardinality(Missing) + 2 * (failures + 1) <= MaxFaults /\ failures' = failures + 1

MinutePasses ==
    /\ clock < LastMinute /\ clock' = clock + 1
    /\ LET serving == {dm \in Draws \X Meters : threads[dm[1]][dm[2]] # None}
       IN  /\ \A dm \in serving : clock - threads[dm[1]][dm[2]].since < MaxQuery
           /\ IF serving = {} THEN UNCHANGED failures ELSE Fails
    /\ UNCHANGED <<database, server, answers, page>>

---------------------------------------------------------------------------
(* DataTsvServlet.doGet. *)

Answer(d, m, answer) == answers' = [answers EXCEPT ![d][m] = answer]
Ends(d, m) == threads' = [threads EXCEPT ![d][m] = None]
Serve(d, m, pc) ==
    /\ threads[d][m] # None /\ threads[d][m].pc = pc
    /\ UNCHANGED <<clock, database, page>>

AnyEntry(m) == cache[m] # None  \* mutant: an entry never gets too old
Cached(m) == cache[m] # None /\ cache[m].timestamp >= clock - CacheTime

HitUnanswered(d, m) == Ends(d, m) /\ UNCHANGED answers  \* mutant
Hit(d, m) == Answer(d, m, cache[m].file) /\ Ends(d, m)

CheckCache(d, m) ==
    /\ Serve(d, m, "check")
    /\ IF Cached(m) THEN Hit(d, m)
       ELSE threads' = [threads EXCEPT ![d][m].pc = "query"] /\ UNCHANGED answers
    /\ UNCHANGED <<cache, failures>>

Content(m) == {t \in database[m] : t <= clock}

\* When the query fails the file is empty.
Query(d, m) ==
    /\ Serve(d, m, "query")
    /\ \E minutes \in {Content(m), {}} :
           LET file == [minutes |-> minutes, made |-> clock]
           IN  /\ IF minutes = Content(m) THEN UNCHANGED failures ELSE Fails
               /\ Answer(d, m, file)
               /\ threads' = [threads EXCEPT ![d][m].pc = "store", ![d][m].file = file]
    /\ UNCHANGED cache

Store(d, m) ==
    /\ Serve(d, m, "store")
    /\ cache' = [cache EXCEPT ![m] = [timestamp |-> clock, file |-> threads[d][m].file]]
    /\ Ends(d, m)
    /\ UNCHANGED <<answers, failures>>

\* The request does not reach the server, or its answer not the page.
Fail(d, m) ==
    /\ Serve(d, m, "check") /\ Fails
    /\ Answer(d, m, Failed) /\ Ends(d, m)
    /\ UNCHANGED cache

---------------------------------------------------------------------------
(* The page. *)

\* drawHistoricalChart: removes the chart there is and requests a file of each meter.
DrawHistoricalChart ==
    /\ merge = None /\ draws < MaxDraws
    /\ draws' = draws + 1
    /\ threads' = [threads EXCEPT ![draws'] =
                      [m \in Meters |-> [pc |-> "check", since |-> clock, file |-> None]]]
    /\ UNCHANGED <<clock, database, cache, answers, timeSeries, merge, drawn, failures>>

\* The minutes in the order of a file.
Sorted(minutes) == Ascending(minutes)

\* queue.await: the last callback of a draw goes on with the merge.  No production is
\* taken off when the meters do not measure it twice.
Load(d, m) ==
    /\ merge = None /\ answers[d][m] \notin {None, Failed}
    /\ timeSeries' = [timeSeries EXCEPT ![d][m] = answers[d][m].minutes]
    /\ Answer(d, m, None)
    /\ merge' = IF \E n \in Meters : timeSeries'[d][n] = None THEN None
                ELSE [draw |-> d, i |-> 1, j |-> 1,
                      todo |-> IF meterConfiguration = 1 THEN SetToSeq(Productions) ELSE <<>>,
                      taken |-> [p \in Productions |-> <<>>]]
    /\ UNCHANGED <<clock, database, server, draws, drawn, failures>>

\* A callback that throws the error of its request tells the queue nothing: the draw
\* stays where it is.

\* The value taken off when the production lacks one: the last known, or the first.
NextKnown(j) == j  \* mutant
LastKnown(j) == Max({1, j - 1})

\* The position in the production stays at the last value.
Anywhere(j, n) == j  \* mutant
Within(j, n) == IF j > n THEN j - 1 ELSE j

\* One round of the loop over the consumption: i and j are the positions in the values
\* of the consumption and of a production meter, taken the minutes taken off so far.
MergeStep ==
    /\ merge # None /\ merge.todo # <<>>
    /\ LET p == Head(merge.todo)
           consumption == Sorted(timeSeries[merge.draw][Consumption])
           production == Sorted(timeSeries[merge.draw][p])
           i == merge.i
           j == merge.j
           Round(nextI, nextJ, taken) ==
               [merge EXCEPT !.i = nextI, !.j = Within(nextJ, Len(production)), !.taken[p] = @ \o taken]
       IN  merge' =
             IF production = <<>> \/ i > Len(consumption)
             THEN [merge EXCEPT !.todo = Tail(@), !.i = 1, !.j = 1]
             ELSE CASE consumption[i] = production[j] -> Round(i + 1, j + 1, <<production[j]>>)
                    [] consumption[i] > production[j] -> Round(i, j + 1, <<>>)
                    [] consumption[i] < production[j] -> Round(i + 1, j, <<production[LastKnown(j)]>>)
    /\ UNCHANGED <<clock, database, server, answers, draws, timeSeries, drawn, failures>>

\* The rest of the callback draws, for an earlier draw into an element that was removed;
\* then the values are not needed any more.
Draw ==
    /\ merge # None /\ merge.todo = <<>>
    /\ drawn' = drawn \cup {merge.draw}
    /\ timeSeries' = [timeSeries EXCEPT ![merge.draw] = [m \in Meters |-> None]]
    /\ merge' = None
    /\ UNCHANGED <<clock, database, server, answers, draws, failures>>

\* The threads of the server and the callbacks of the page.
Runs ==
    \/ MergeStep \/ Draw
    \/ \E d \in Draws, m \in Meters : CheckCache(d, m) \/ Query(d, m) \/ Store(d, m) \/ Load(d, m)

HistoryNext ==
    \/ MinutePasses \/ DrawHistoricalChart \/ Runs
    \/ \E d \in Draws, m \in Meters : Fail(d, m)

HistorySpec == HistoryInit /\ [][HistoryNext]_historyVars

\* Requests are served and callbacks called as long as there are any.
FairHistorySpec == HistorySpec /\ WF_historyVars(Runs)

---------------------------------------------------------------------------
(* Properties. *)

HistoryTypeOK ==
    /\ clock \in Minutes /\ database \in [Meters -> SUBSET Minutes]
    /\ cache \in [Meters -> [timestamp : Minutes, file : File] \cup {None}]
    /\ threads \in [Draws -> [Meters -> Thread \cup {None}]]
    /\ draws \in 0..MaxDraws
    /\ answers \in [Draws -> [Meters -> File \cup {None, Failed}]]
    /\ timeSeries \in [Draws -> [Meters -> (SUBSET Minutes) \cup {None}]]
    /\ drawn \subseteq 1..draws /\ failures \in Nat
    /\ merge # None => /\ merge.i \in 1..(Cardinality(timeSeries[merge.draw][Consumption]) + 1)
                       /\ merge.todo # <<>> => merge.j \in 1..Max({1, Cardinality(timeSeries[merge.draw][Head(merge.todo)])})

\* What belongs to a minute of consumption: what is produced in that minute; if that
\* is missing, in the last minute before it; if there is none, in the first minute.
Belongs(minute, produced) ==
    IF {t \in produced : t <= minute} # {} THEN Max({t \in produced : t <= minute}) ELSE Min(produced)

\* The loop takes off each minute of consumption, once for each production meter, the
\* value that belongs to it, however the two files have come to lack minutes.
TakesWhatBelongs ==
    merge # None /\ merge.todo = <<>> /\ meterConfiguration = 1 =>
        LET consumption == Sorted(timeSeries[merge.draw][Consumption])
            produced(p) == timeSeries[merge.draw][p]
        IN  \A p \in Productions : produced(p) # {} =>
                merge.taken[p] = [i \in DOMAIN consumption |-> Belongs(consumption[i], produced(p))]

\* No answer is older than the time for which an entry is served from the cache and the
\* time a request takes: the timestamp is that of storing the file, not of making it.
BoundedStaleness ==
    [][\A d \in Draws, m \in Meters :
           answers'[d][m] \notin {answers[d][m], None, Failed} =>
               answers'[d][m].made >= clock - CacheTime - MaxQuery]_historyVars

\* The consumption goes on after the last value of a production meter.
Overhangs(d) ==
    /\ \A m \in Meters : timeSeries[d][m] # None
    /\ \E p \in Productions : /\ timeSeries[d][p] # {}
                              /\ \E t \in timeSeries[d][Consumption] : t > Max(timeSeries[d][p])

\* Every draw is drawn in the end, unless a request of it failed or the page hangs in a
\* merge of a consumption that overhangs: the only case in which the loop does not end.
EveryDrawIsDrawn ==
    <>[] \A d \in 1..draws :
        \/ d \in drawn
        \/ \E m \in Meters : answers[d][m] = Failed
        \/ \E e \in Draws : meterConfiguration = 1 /\ Overhangs(e)
=============================================================================
