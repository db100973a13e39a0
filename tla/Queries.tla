-------------------------------- MODULE Queries --------------------------------
(***************************************************************************)
(* QueryJobStatuses and QueryJobHistory of scheduler.go, and two clients   *)
(* of them: one that pages through the statuses while jobs are scheduled   *)
(* and change state, and one that polls the history of a job while its     *)
(* runs are recorded.                                                      *)
(*                                                                         *)
(* Every query reads one snapshot of the storage.  Data abstraction: a     *)
(* status is an id and a state, a run of the history its sequence number.  *)
(***************************************************************************)
EXTENDS MachineInts, Sequences, SequencesExt, FiniteSets

CONSTANTS Ids,              \* job ids, in the order of the storage
          States,           \* job states
          Limits,           \* the limits clients ask for
          HistoryLimit,     \* of the scheduler
          MaxRuns           \* bound: the runs of the job that is polled

ASSUME QueriesAssumption ==
    /\ Ids \subseteq Nat /\ IsFiniteSet(Ids)
    /\ Limits \subseteq MinInt .. MaxInt
    /\ HistoryLimit \in Nat \ {0} /\ MaxRuns \in Nat

VARIABLES client,       \* what the client does: "page" or "poll"
          state,        \* state[i], the state of the job i, for the jobs known so far
          limit,        \* the Limit of the client's queries
          had,          \* the jobs that were known when the client began
          offset,       \* its next Offset
          got,          \* the ids it got
          history,      \* the runs retained
          recorded,     \* the runs recorded
          from,         \* its next FromSequence
          polled        \* the runs it got

pageVars == <<state, had, offset, got>>
pollVars == <<history, recorded, from, polled>>
queriesVars == <<client, limit, pageVars, pollVars>>

--------------------------------------------------------------------------------
\* The numbers of S in increasing order.
Sorted(S) ==
    CHOOSE s \in [1 .. Cardinality(S) -> S] : \A i, j \in DOMAIN s : i < j => s[i] < s[j]

\* storage.Statuses: sorted by id.
Statuses == Sorted(DOMAIN state)

\* The loop of a filter: it appends what is wanted.
Filter(s, wanted) ==
    LET kept[i \in 0 .. Len(s)] ==
            IF i = 0 THEN <<>>
            ELSE IF s[i] \in wanted THEN Append(kept[i - 1], s[i]) ELSE kept[i - 1]
    IN  kept[Len(s)]

\* Mutant: the limit counts from the start.
PageEndFromStart(n, off, lim) == IF lim > 0 /\ lim < n THEN lim ELSE n

\* The end of the page, of n statuses; the sum may overflow.
PageEnd(n, off, lim) ==
    IF lim > 0 /\ Wrap(off + lim) < n THEN Wrap(off + lim) ELSE n

\* An empty filter lets everything through.
Wanted(i, ids, states) ==
    /\ ids = {} \/ i \in ids
    /\ states = {} \/ state[i] \in states

Matching(ids, states) == Filter(Statuses, {i \in DOMAIN state : Wanted(i, ids, states)})

Offset(off) == IF off > 0 THEN off ELSE 0

\* The slice expression filtered[offset:end] panics when end is before offset.
QueryPanics(ids, states, off, lim) ==
    LET n == Len(Matching(ids, states))
    IN  Offset(off) < n /\ PageEnd(n, Offset(off), lim) < Offset(off)

QueryJobStatuses(ids, states, off, lim) ==
    LET filtered == Matching(ids, states)
        start    == Offset(off)
    IN  IF start >= Len(filtered) THEN <<>>
        ELSE SubSeq(filtered, start + 1, PageEnd(Len(filtered), start, lim))

\* Limit keeps the newest runs.
Limited(runs, lim) ==
    IF lim > 0 /\ Len(runs) > lim THEN SubSeq(runs, Len(runs) - lim + 1, Len(runs)) ELSE runs

\* Mutant: the runs after fromSequence.
QueryJobHistoryAfter(runs, fromSequence, lim) ==
    Limited(IF fromSequence > 0 THEN Filter(runs, {s \in ToSet(runs) : s > fromSequence}) ELSE runs, lim)

\* The runs from fromSequence on.
QueryJobHistory(runs, fromSequence, lim) ==
    Limited(IF fromSequence > 0 THEN Filter(runs, {s \in ToSet(runs) : s >= fromSequence}) ELSE runs, lim)

--------------------------------------------------------------------------------
QueriesInit ==
    /\ client = "none" /\ limit = 0
    /\ state \in UNION {[known -> States] : known \in SUBSET Ids}
    /\ had = {} /\ offset = 0 /\ got = <<>>
    /\ history = <<>> /\ recorded = 0
    /\ from = 0 /\ polled = <<>>

\* A client begins to page, or to poll.
Start(what, lim) ==
    /\ client = "none"
    /\ client' = what
    /\ limit' = lim
    /\ had' = DOMAIN state
    /\ UNCHANGED <<state, offset, got, pollVars>>

\* The next page, without filters; the last one is empty.
Page ==
    /\ client = "page"
    /\ IF QueryPanics({}, {}, offset, limit)
       THEN client' = "panic" /\ UNCHANGED <<offset, got>>
       ELSE LET page == QueryJobStatuses({}, {}, offset, limit)
            IN  /\ client' = IF page = <<>> THEN "end" ELSE client
                /\ offset' = offset + Len(page)
                /\ got' = got \o page
    /\ UNCHANGED <<limit, state, had, pollVars>>

\* A job is scheduled or changes state: storage.UpsertStatus and MarkTerminal.  No
\* status is ever deleted.
Change(i, s) ==
    /\ client = "page"
    /\ state' = [j \in DOMAIN state \cup {i} |-> IF j = i THEN s ELSE state[j]]
    /\ UNCHANGED <<client, limit, had, offset, got, pollVars>>

\* The new runs, if any.
Poll ==
    /\ client = "poll"
    /\ LET runs == QueryJobHistory(history, from, limit)
       IN  /\ runs # <<>>
           /\ polled' = polled \o runs
           /\ from' = Last(runs) + 1
    /\ UNCHANGED <<client, limit, pageVars, history, recorded>>

\* storage.RecordExecutionResult: the run gets the next sequence and the history is
\* cut to the last HistoryLimit runs.  This is the storage in memory: the retention of
\* SQLite by age and rows, which may cut more, is in SQLiteStorage.
Record ==
    /\ client = "poll" /\ recorded < MaxRuns
    /\ recorded' = recorded + 1
    /\ history' = Limited(Append(history, recorded'), HistoryLimit)
    /\ UNCHANGED <<client, limit, pageVars, from, polled>>

QueriesNext ==
    \/ \E what \in {"page", "poll"}, lim \in Limits : Start(what, lim)
    \/ Page
    \/ \E i \in Ids, s \in States : Change(i, s)
    \/ Poll
    \/ Record

QueriesSpec == QueriesInit /\ [][QueriesNext]_queriesVars

--------------------------------------------------------------------------------
\* Paging with Offset and Limit finds every job that was known when it began, although
\* jobs are added in the middle of the order meanwhile; it may find a job twice.
PagingComplete == client = "end" => had \subseteq ToSet(got)

\* As long as Offset + Limit does not overflow, the page is the statuses that match, by
\* their rank among those that do, and the history is the newest of the runs asked for.
QueriesExact ==
    /\ client = "none" =>
          \A ids \in SUBSET Ids, states \in SUBSET States, off, lim \in Limits :
             LET match   == {i \in DOMAIN state : Wanted(i, ids, states)}
                 rank(i) == Cardinality({j \in match : j < i})
                 page    == {i \in match : rank(i) >= off /\ (lim > 0 => rank(i) - Offset(off) < lim)}
             IN  off + lim <= MaxInt =>
                    /\ ~QueryPanics(ids, states, off, lim)
                    /\ QueryJobStatuses(ids, states, off, lim) = Sorted(page)
    /\ \A seq, lim \in Limits :
          LET newer(s) == Cardinality({t \in ToSet(history) : t > s})
          IN  QueryJobHistory(history, seq, lim) =
                 Sorted({s \in ToSet(history) : s >= seq /\ (lim > 0 => newer(s) < lim)})

\* A client that polls from the last sequence it saw gets every run at most once, in
\* order, and misses runs only where a poll was full: as many runs as the history, or
\* the client's limit, holds.
PollsInOrder ==
    LET full == IF limit > 0 /\ limit < HistoryLimit THEN limit ELSE HistoryLimit
    IN  \A i \in DOMAIN polled :
           LET before == IF i = 1 THEN 0 ELSE polled[i - 1]
           IN  \/ polled[i] = before + 1
               \/ /\ polled[i] > before
                  /\ polled[i] .. polled[i] + full - 1 \subseteq ToSet(polled)
================================================================================
