----------------------------- MODULE AuditViews ------------------------------
(* What operators see of the audit trail (audit.py): the pages of          *)
(* query_audit_events, the chart of compute_audit_stats and the counters   *)
(* of compute_overview_stats, while queries record their events and the    *)
(* retention of each kind takes old ones out.                              *)
(*                                                                         *)
(* `trail` is every event that was recorded; Live is what a read finds of  *)
(* it, since a read applies the retention first.  How the ring buffer and  *)
(* the file hold it is the subject of AuditLog.                            *)
(***************************************************************************)
EXTENDS Naturals, SequencesExt, FiniteSetsExt

CONSTANTS
    Causes,         \* kinds that name why a query was refused
    Completed,      \* the kind query_completed
    Other,          \* any kind that no counter is about
    Ttl,            \* ticks that events of a kind are kept
    Tenants,
    Bucket,         \* ticks of a bar of the chart
    PageSize,
    ScanCap,        \* the 10000 newest events are looked at
    AnyKind,        \* no filter
    MaxQueries, MaxTime         \* bounds

EventKinds == Causes \cup {Completed, Other}

ASSUME KindAssumption ==
    /\ Completed \notin Causes /\ Other \notin Causes /\ Other # Completed
    /\ AnyKind \notin EventKinds
ASSUME WindowAssumption ==
    /\ Ttl \in [EventKinds -> Nat]
    /\ {Bucket, PageSize, ScanCap} \subseteq Nat \ {0}
    /\ {MaxQueries, MaxTime} \subseteq Nat

VARIABLES
    trail,      \* oldest first: [query, kind, blocked, tenant, at]
    refused,    \* query -> its tenant, between its cause and its query_completed
    queries,    \* queries so far
    now,
    pager       \* a client that walks GET /admin/audit/events page by page

viewsVars == <<trail, refused, queries, now, pager>>

Event(query, kind, blocked, tenant) ==
    [query |-> query, kind |-> kind, blocked |-> blocked, tenant |-> tenant, at |-> now]
-----------------------------------------------------------------------------
(* Recording: run_query and the query route.                               *)

Answer(tenant) ==
    /\ queries < MaxQueries
    /\ queries' = queries + 1
    /\ trail' = Append(trail, Event(queries + 1, Completed, FALSE, tenant))
    /\ UNCHANGED <<refused, now, pager>>

\* A refused query first records its cause ...
Refuse(cause, tenant) ==
    /\ queries < MaxQueries
    /\ queries' = queries + 1
    /\ trail' = Append(trail, Event(queries + 1, cause, TRUE, tenant))
    /\ refused' = refused \cup {[query |-> queries + 1, tenant |-> tenant]}
    /\ UNCHANGED <<now, pager>>

\* ... and then that it ended, maybe later.
Complete(q) ==
    /\ trail' = Append(trail, Event(q.query, Completed, TRUE, q.tenant))
    /\ refused' = refused \ {q}
    /\ UNCHANGED <<queries, now, pager>>

\* An event of another route.
RecordOther(tenant) ==
    /\ queries < MaxQueries
    /\ queries' = queries + 1
    /\ trail' = Append(trail, Event(queries + 1, Other, FALSE, tenant))
    /\ UNCHANGED <<refused, now, pager>>

Tick ==
    /\ now < MaxTime
    /\ now' = now + 1
    /\ UNCHANGED <<trail, refused, queries, pager>>
-----------------------------------------------------------------------------
(* Reading: iter_event_dicts.  Events are named by their place in `trail`. *)

LiveAt(time) == {i \in DOMAIN trail : trail[i].at + Ttl[trail[i].kind] >= time}
Live == LiveAt(now)

\* The newest n members of a set of places.
Newest(S, n) == {i \in S : Cardinality({j \in S : j > i}) < n}

\* Filtered by time and tenant, then capped.
Scan(from, to, tenant) ==
    Newest({i \in Live : trail[i].at \in from..to /\ trail[i].tenant = tenant}, ScanCap)

\* _event_matches_filters, after the cap
Matching(S, kind) == {i \in S : kind = AnyKind \/ trail[i].kind = kind}

Listed(tenant, kind) == Matching(Scan(0, now, tenant), kind)

\* Mutant: the page is cut out before the rows are turned newest first.
Page_OldestFirst(rows, offset) ==
    {i \in rows : Cardinality({j \in rows : j < i}) \in offset..(offset + PageSize - 1)}

\* filtered[page_offset : page_offset + page_limit] of the rows, newest first: no two
\* carry the same time, a tick stands for an hour or a day.
Page(rows, offset) == Newest(rows, offset + PageSize) \ Newest(rows, offset)

NoPager == [open |-> FALSE]

OpenPages(tenant, kind) ==
    /\ ~pager.open
    /\ Listed(tenant, kind) # {}
    /\ pager' = [open |-> TRUE, tenant |-> tenant, kind |-> kind, offset |-> 0, since |-> now,
                 target |-> Listed(tenant, kind), seen |-> {}]
    /\ UNCHANGED <<trail, refused, queries, now>>

ReadPage ==
    LET rows == Listed(pager.tenant, pager.kind)
    IN /\ pager.open
       /\ pager.offset < Cardinality(rows)
       /\ pager' = [pager EXCEPT !.offset = @ + PageSize,
                                 !.seen = @ \cup Page(rows, pager.offset)]
       /\ UNCHANGED <<trail, refused, queries, now>>

\* The client stops when the offset has reached `total`.
Walked == pager.open /\ pager.offset >= Cardinality(Listed(pager.tenant, pager.kind))

ClosePages ==
    /\ Walked
    /\ pager' = NoPager
    /\ UNCHANGED <<trail, refused, queries, now>>
-----------------------------------------------------------------------------
(* Charts and counters.                                                    *)

BucketStart(t) == (t \div Bucket) * Bucket

\* Mutant: the bar that the window ends in is left out.
Bars_HalfOpen(from, to) ==
    {b \in 0..MaxTime : b % Bucket = 0 /\ BucketStart(from) <= b /\ b < BucketStart(to)}

Bars(from, to) ==
    {b \in 0..MaxTime : b % Bucket = 0 /\ BucketStart(from) <= b /\ b <= BucketStart(to)}

BarTotal(S, b) == Cardinality({i \in S : BucketStart(trail[i].at) = b})

\* compute_audit_stats: the bars without the empty ones at either end.
Series(from, to, tenant) ==
    LET S == Scan(from, to, tenant)
        filled == {b \in Bars(from, to) : BarTotal(S, b) > 0}
    IN {b \in Bars(from, to) : \E x, y \in filled : x <= b /\ b <= y}

CompletedIn(S) == {i \in S : trail[i].kind = Completed}

\* Mutant: causes are counted next to the completed queries.
QueriesBlocked_Twice(S) == {i \in S : trail[i].blocked}

\* compute_overview_stats; causes stand in for queries in a window without any
\* query_completed, as older releases wrote it.
QueriesBlocked(S) ==
    IF CompletedIn(S) # {} THEN {i \in CompletedIn(S) : trail[i].blocked}
    ELSE {i \in S : trail[i].kind \in Causes}
-----------------------------------------------------------------------------
ViewsInit ==
    /\ trail = << >>
    /\ refused = {}
    /\ queries = 0
    /\ now = 0
    /\ pager = NoPager

ViewsNext ==
    \/ \E tenant \in Tenants :
         \/ Answer(tenant)
         \/ RecordOther(tenant)
         \/ \E cause \in Causes : Refuse(cause, tenant)
         \/ \E kind \in EventKinds \cup {AnyKind} : OpenPages(tenant, kind)
    \/ \E q \in refused : Complete(q)
    \/ Tick
    \/ ReadPage
    \/ ClosePages

ViewsSpec == ViewsInit /\ [][ViewsNext]_viewsVars
-----------------------------------------------------------------------------
(* Properties.                                                             *)

\* Events of the tenant that retention has taken out since the walk began.  They
\* count whatever their kind: the cap comes before the filter.
ExpiredSince ==
    {i \in LiveAt(pager.since) \ Live : trail[i].tenant = pager.tenant}

Missed == (pager.target \cap Listed(pager.tenant, pager.kind)) \ pager.seen

\* A client that walks all the pages misses an event that was there when it began and
\* still is only where retention took one out ahead of it meanwhile, and no more than
\* were taken out: whatever is recorded during the walk costs it nothing
\* (query_audit_events slices a list that is built anew for each page).
PagesMissNothing ==
    Walked =>
      /\ Cardinality(Missed) <= Cardinality(ExpiredSince)
      /\ \A i \in Missed : \E j \in ExpiredSince : j > i

Windows == {w \in (0..MaxTime) \X (0..MaxTime) : w[1] <= w[2]}

\* The bars of the chart add up to its total, for every window and at every edge
\* of a bar (compute_audit_stats, _trim_series_edges).
SeriesAddsUp ==
    \A w \in Windows, tenant \in Tenants :
      MapThenSumSet(LAMBDA b : BarTotal(Scan(w[1], w[2], tenant), b), Series(w[1], w[2], tenant))
        = Cardinality(Scan(w[1], w[2], tenant))

\* No refused query is counted twice, although it records two events that retention
\* keeps for different times and a window can part (compute_overview_stats).
BlockedOnce ==
    \A w \in Windows, tenant \in Tenants :
      \A i, j \in QueriesBlocked(Scan(w[1], w[2], tenant)) :
        trail[i].query = trail[j].query => i = j

\* The two together: what the dashboard shows is what the trail holds.
ChartsAddUp == SeriesAddsUp /\ BlockedOnce
==============================================================================
