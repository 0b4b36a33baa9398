----------------------------- MODULE Dashboard -----------------------------
(***************************************************************************)
(* The dashboard read model.  DashboardService::load holds the lock of its *)
(* own process but no transaction: it asks for the revision, whether a     *)
(* scan completed, the top metrics and the observed months, and then reads *)
(* the sessions newest first, a batch at a time, adding each of them to an *)
(* accumulator that never looks back.  Between two of these statements a   *)
(* second process may promote a scan.                                      *)
(*                                                                         *)
(* Data abstracted: an instant is a tick; months have equal length; of the *)
(* top metrics only the top instance is kept; names are numbers; display   *)
(* texts are left out.                                                     *)
(***************************************************************************)
EXTENDS Integers, Sequences, SequencesExt

CONSTANTS
    Pool,                 \* the sessions a scan may promote
    InitialArchives,      \* what the archive may hold when a dashboard is first asked for
    TicksPerSecond, SecondsPerMinute, TicksPerDay, DaysPerMonth,
    MaxSessionDays,       \* MAX_PLAUSIBLE_SESSION_SECONDS, in days
    BatchSize,            \* DASHBOARD_BATCH_SIZE
    RecentLimit, CalendarDays, CalendarMonths,
    MaxPromotions         \* bound: promotions by another process

None == -1

SessionShape ==
    [id : Nat, start : Nat, end : Nat \cup {None}, duration : Nat \cup {None},
     confidence : 1..4, instance : Nat, offset : Int]

ASSUME UnitsAssumption ==
    /\ {TicksPerSecond, SecondsPerMinute, TicksPerDay, DaysPerMonth,
        MaxSessionDays, BatchSize, RecentLimit, CalendarDays, CalendarMonths} \subseteq Nat \ {0}
    /\ TicksPerDay % TicksPerSecond = 0
    /\ MaxPromotions \in Nat
ASSUME PoolAssumption ==
    /\ Pool \subseteq SessionShape
    /\ \A s, t \in Pool : s.id = t.id => s = t
    /\ InitialArchives \subseteq SUBSET Pool
    /\ \A A \in InitialArchives : IsFiniteSet(A)

\* Ranks of weaker_confidence.
Verified == 4
Partial == 2

VARIABLES
    sessions,          \* the visible sessions of the archive
    revision,          \* dataset_state.revision
    completed,         \* some scan run is completed
    promotions,
    phase,             \* the next statement of load
    unrevised, scanned, \* what archive_metadata read: revision 0; some scan completed
    top, months,       \* what query_top_metrics and query_observed_month_count returned
    cursor,            \* the last session of the last batch, in a singleton
    dashboard,         \* DashboardAccumulator
    answer,            \* what load returned, in a singleton
    added,             \* history: the sessions added, in order
    stable,            \* history: sessions stored from the first batch to the last
    undisturbed        \* history: nothing was promoted during the load

archive == <<sessions, revision, completed, promotions>>
metadata == <<unrevised, scanned>>
queries == <<top, months>>
vars == <<archive, phase, metadata, queries, cursor, dashboard, answer, added, stable, undisturbed>>

Abs(n) == IF n < 0 THEN -n ELSE n
\* The sum of the values of a function.
SumOver(w) == MapThenSumSet(LAMBDA x : w[x], DOMAIN w)
DayOf(local) == local \div TicksPerDay
MonthIndex(day) == day \div DaysPerMonth
MaxSessionSeconds == (MaxSessionDays * TicksPerDay) \div TicksPerSecond

-----------------------------------------------------------------------------
(***************************************************************************)
(* One session, as the Rust side reads it.                                 *)
(***************************************************************************)
\* A missing offset, or one chrono refuses, counts as zero.
Offset(s) == IF Abs(s.offset) < TicksPerDay THEN s.offset ELSE 0
Local(s, t) == DayOf(t + Offset(s))

Implausible(s) ==
    \/ s.duration > MaxSessionSeconds
    \/ s.end # None /\ s.end < s.start
    \/ s.end # None /\ s.end - s.start > MaxSessionSeconds * TicksPerSecond
    \/ /\ s.end # None /\ s.end >= s.start /\ s.duration # None
       /\ Abs((s.end - s.start) - s.duration * TicksPerSecond) >= TicksPerSecond

Bounds(s) == IF Implausible(s) THEN [s EXCEPT !.end = None, !.duration = None] ELSE s
Seconds(s) == Max({0, Bounds(s).duration})
Weaker(c, d) == Min({c, d})
Confidence(s) == IF Implausible(s) THEN Weaker(s.confidence, Partial) ELSE s.confidence

IntervalEnd(s) ==
    CASE Bounds(s).end # None -> s.end
      [] Bounds(s).end = None /\ Bounds(s).duration # None -> s.start + s.duration * TicksPerSecond
      [] OTHER -> None
ObservedEnd(s) == IF IntervalEnd(s) = None THEN s.start ELSE IntervalEnd(s)

\* The seconds of a session on each local day, cut at midnight.
DayAllocations(s) ==
    LET from == s.start + Offset(s)
        to == from + Seconds(s) * TicksPerSecond
        last == IF to > from THEN DayOf(to - 1) ELSE DayOf(from)
        Slice(d) == Min({to, (d + 1) * TicksPerDay}) - Max({from, d * TicksPerDay})
    IN  [d \in DayOf(from)..last |-> Slice(d) \div TicksPerSecond]

-----------------------------------------------------------------------------
(***************************************************************************)
(* What the accumulator keeps of the sessions it has seen.                 *)
(***************************************************************************)
NoUnion == [current |-> {}, millis |-> 0]
CurrentLength(u) == SumOver([c \in u.current |-> c[2] - c[1]])

\* Sessions come newest first: one that reaches the current interval joins it.
UnionAddForgetful(u, start, end) ==
    IF \A c \in u.current : end >= c[1]
    THEN [u EXCEPT !.current = {<<start, end>>}]
    ELSE [current |-> {<<start, end>>}, millis |-> u.millis + CurrentLength(u)]
UnionAdd(u, start, end) ==
    IF \A c \in u.current : end >= c[1]
    THEN LET joined == u.current \cup {<<start, end>>}
         IN  [u EXCEPT !.current = {<<Min({c[1] : c \in joined}), Max({c[2] : c \in joined})>>}]
    ELSE [current |-> {<<start, end>>}, millis |-> u.millis + CurrentLength(u)]
UnionSeconds(u) == (u.millis + CurrentLength(u)) \div TicksPerSecond

Plus(f, g) ==
    [d \in DOMAIN f \cup DOMAIN g |->
        (IF d \in DOMAIN f THEN f[d] ELSE 0) + (IF d \in DOMAIN g THEN g[d] ELSE 0)]
ShownDays(pending) == {d \in DOMAIN pending : pending[d] \div SecondsPerMinute > 0}

CutoffTight(day) == day + MaxSessionDays + 1
\* No later session, which starts earlier, reaches a day after this one.
Cutoff(day) == day + MaxSessionDays + 2

NoActiveDays == [pending |-> <<>>, completed |-> 0]
ActiveDaysAdd(a, day, slices) ==
    LET final == {d \in DOMAIN a.pending : d > Cutoff(day)}
    IN  [pending |-> Plus(Restrict(a.pending, DOMAIN a.pending \ final), slices),
         completed |-> a.completed + Cardinality(ShownDays(a.pending) \cap final)]
ActiveDays(a) == a.completed + Cardinality(ShownDays(a.pending))

Window(last, length) == (last - length + 1)..last
CalendarWindow(end) == UNION {Window(e, CalendarDays) : e \in end}
MonthWindow(end) == UNION {Window(MonthIndex(e), CalendarMonths) : e \in end}

\* The calendar ends on the latest day reached; earlier cells fall out of it.
UpdateCalendarEndUnguarded(a, day) ==
    [a EXCEPT !.calendarEnd = {day},
              !.daily = Restrict(@, DOMAIN @ \cap CalendarWindow({day})),
              !.monthly = Restrict(@, DOMAIN @ \cap MonthWindow({day}))]
UpdateCalendarEnd(a, day) ==
    IF \E e \in a.calendarEnd : day <= e
    THEN a
    ELSE [a EXCEPT !.calendarEnd = {day},
                   !.daily = Restrict(@, DOMAIN @ \cap CalendarWindow({day})),
                   !.monthly = Restrict(@, DOMAIN @ \cap MonthWindow({day}))]

EmptyCell == [seconds |-> 0, sessions |-> 0, estimated |-> 0, confidence |-> Verified]
CellPlus(cell, seconds, confidence) ==
    [seconds |-> cell.seconds + seconds, sessions |-> cell.sessions + 1,
     estimated |-> cell.estimated + (IF confidence = Verified THEN 0 ELSE seconds),
     confidence |-> Weaker(cell.confidence, confidence)]
CellsPlus(cells, values, confidence) ==
    [k \in DOMAIN cells \cup DOMAIN values |->
        IF k \notin DOMAIN values THEN cells[k]
        ELSE CellPlus(IF k \in DOMAIN cells THEN cells[k] ELSE EmptyCell, values[k], confidence)]

Monthly(slices) ==
    [m \in {MonthIndex(d) : d \in DOMAIN slices} |->
        SumOver(Restrict(slices, {d \in DOMAIN slices : MonthIndex(d) = m}))]

EmptyDashboard ==
    [total |-> 0, longest |-> 0, known |-> 0, count |-> 0, verified |-> 0, bounded |-> 0,
     union |-> NoUnion, active |-> NoActiveDays, monthly |-> <<>>, daily |-> <<>>,
     calendarEnd |-> {}, first |-> {}, last |-> {}, recent |-> <<>>]

\* first and last hold the instant and the local day it was observed on.
Earlier(old, t, day) == IF \A o \in old : t < o[1] THEN {<<t, day>>} ELSE old
Later(old, t, day) == IF \A o \in old : t > o[1] THEN {<<t, day>>} ELSE old

Add(a, s) ==
    LET slices == DayAllocations(s)
        end == ObservedEnd(s)
        b == UpdateCalendarEnd(a, Local(s, end))
        Inside(f, window) == Restrict(f, DOMAIN f \cap window)
    IN  [b EXCEPT
            !.total = @ + Seconds(s),
            !.longest = Max({@, Seconds(s)}),
            !.known = @ + (IF Bounds(s).duration # None THEN 1 ELSE 0),
            !.count = @ + 1,
            !.verified = @ + (IF Confidence(s) = Verified THEN 1 ELSE 0),
            !.bounded = @ + (IF Bounds(s).end # None /\ Bounds(s).duration # None THEN 1 ELSE 0),
            !.recent = IF Len(@) < RecentLimit THEN Append(@, s.id) ELSE @,
            !.first = Earlier(@, s.start, Local(s, s.start)),
            !.last = Later(@, end, Local(s, end)),
            !.union = IF end > s.start THEN UnionAdd(@, s.start, end) ELSE @,
            !.active = ActiveDaysAdd(@, Local(s, s.start), slices),
            !.daily = CellsPlus(@, Inside(slices, CalendarWindow(b.calendarEnd)), Confidence(s)),
            !.monthly = CellsPlus(@, Inside(Monthly(slices), MonthWindow(b.calendarEnd)), Confidence(s))]

\* The sessions of a batch are added one after another.
Accumulated(a, batch) ==
    LET sum[n \in 0..Len(batch)] == IF n = 0 THEN a ELSE Add(sum[n - 1], batch[n])
    IN  sum[Len(batch)]

\* A day or month without a cell is shown as missing.
Shown(cells, window) ==
    [k \in DOMAIN cells \cap window |->
        [minutes |-> cells[k].seconds \div SecondsPerMinute, sessions |-> cells[k].sessions,
         confidence |-> cells[k].confidence]]

CoverageScore(a) == Min({79, (124 * a.verified + 76 * a.bounded + a.count) \div (2 * a.count)})

\* The months shown end with that of the last day.
ShownMonths(firstDay, lastDay) ==
    Max({MonthIndex(firstDay), MonthIndex(lastDay) - CalendarMonths + 1})..MonthIndex(lastDay)

EmptyAnswer == [state |-> IF scanned THEN "scannedNoEvidence" ELSE "unscanned"]
Finish(a) ==
    LET firstDay == (CHOOSE o \in a.first : TRUE)[2]
        lastDay == (CHOOSE o \in a.last : TRUE)[2]
        span == Max({0, MonthIndex(lastDay) - MonthIndex(firstDay) + 1})
    IN  [state |-> "ready", firstDay |-> firstDay, lastDay |-> lastDay,
         total |-> a.total, unique |-> UnionSeconds(a.union), activeDays |-> ActiveDays(a.active),
         longest |-> IF a.known > 0 THEN a.longest ELSE None,
         average |-> IF a.known > 0 THEN a.total \div a.known ELSE None,
         score |-> CoverageScore(a), gapMonths |-> Max({0, span - months}),
         monthly |-> Shown(a.monthly, ShownMonths(firstDay, lastDay)),
         daily |-> Shown(a.daily, Window(lastDay, CalendarDays))]

-----------------------------------------------------------------------------
(***************************************************************************)
(* One session, as the queries read it.                                    *)
(***************************************************************************)
SqlDisagrees(s) ==
    \/ s.end < s.start \/ s.end - s.start > MaxSessionSeconds * TicksPerSecond
    \/ s.duration # None /\ Abs((s.end - s.start) - s.duration * TicksPerSecond) >= TicksPerSecond
RuntimeSeconds(s) ==
    IF s.duration > MaxSessionSeconds \/ (s.end # None /\ SqlDisagrees(s)) \/ s.duration = None
    THEN 0 ELSE s.duration

EndDateClosed(s) == Local(s, s.start + RuntimeSeconds(s) * TicksPerSecond)
EndDate(s) == Local(s, s.start + Max({0, RuntimeSeconds(s) * TicksPerSecond - 1}))
ObservedMonths(S) ==
    LET Dates(s) == {d \in {Local(s, s.start) + k : k \in 0..MaxSessionDays} : d <= EndDate(s)}
    IN  {MonthIndex(d) : d \in UNION {Dates(s) : s \in S}}

InstanceSeconds(S, i) == SumOver([s \in {t \in S : t.instance = i} |-> RuntimeSeconds(s)])
NoInstance == [instance |-> None, seconds |-> 0]
TopInstance(S) ==
    LET names == {s.instance : s \in S}
        best == {i \in names : \A j \in names : InstanceSeconds(S, j) <= InstanceSeconds(S, i)}
    IN  IF S = {} THEN NoInstance
        ELSE [instance |-> Min(best), seconds |-> InstanceSeconds(S, Min(best))]

\* ORDER BY started_at_utc_ms DESC, id
Precedes(s, t) == s.start > t.start \/ (s.start = t.start /\ s.id < t.id)
AfterByStart(c, s) == s.start < c.start
After(c, s) == s.start < c.start \/ (s.start = c.start /\ s.id > c.id)
Batch(S) ==
    LET rest == {s \in S : \A c \in cursor : After(c, s)}
        Rank(s) == Cardinality({t \in rest : Precedes(t, s)}) + 1
    IN  [n \in 1..Min({BatchSize, Cardinality(rest)}) |-> CHOOSE s \in rest : Rank(s) = n]

-----------------------------------------------------------------------------
Init ==
    /\ sessions \in InitialArchives
    /\ revision = IF sessions = {} THEN 0 ELSE 1
    /\ completed = (sessions # {})
    /\ promotions = 0
    /\ phase = "revision"
    /\ unrevised = TRUE /\ scanned = FALSE
    /\ top = NoInstance /\ months = 0
    /\ cursor = {} /\ dashboard = EmptyDashboard /\ answer = {}
    /\ added = <<>> /\ stable = {} /\ undisturbed = TRUE

\* promote_scan of another process; its revision moves when anything changed.
Promote ==
    /\ promotions < MaxPromotions /\ phase # "done"
    /\ \E next \in {sessions} \cup {sessions \cup {s} : s \in Pool} \cup {sessions \ {s} : s \in Pool} :
        /\ sessions' = next
        /\ revision' \in IF next = sessions THEN {revision, revision + 1} ELSE {revision + 1}
        /\ stable' = stable \cap next
    /\ completed' = TRUE
    /\ promotions' = promotions + 1
    /\ undisturbed' = (phase = "revision")
    /\ UNCHANGED <<phase, metadata, queries, cursor, dashboard, answer, added>>

ReadRevision ==
    /\ phase = "revision"
    /\ unrevised' = (revision = 0)
    /\ phase' = "scanned"
    /\ UNCHANGED <<archive, scanned, queries, cursor, dashboard, answer, added, stable, undisturbed>>

\* has_completed_scan only tells the two empty dashboards apart.
ReadScanned ==
    /\ phase = "scanned"
    /\ scanned' = completed
    /\ phase' = IF unrevised THEN "empty" ELSE "top"
    /\ UNCHANGED <<archive, unrevised, queries, cursor, dashboard, answer, added, stable, undisturbed>>

AnswerEmpty ==
    /\ phase = "empty"
    /\ answer' = {EmptyAnswer}
    /\ phase' = "done"
    /\ UNCHANGED <<archive, metadata, queries, cursor, dashboard, added, stable, undisturbed>>

ReadTop ==
    /\ phase = "top"
    /\ top' = TopInstance(sessions)
    /\ phase' = "months"
    /\ UNCHANGED <<archive, metadata, months, cursor, dashboard, answer, added, stable, undisturbed>>

ReadMonths ==
    /\ phase = "months"
    /\ months' = Cardinality(ObservedMonths(sessions))
    /\ phase' = "batches"
    /\ UNCHANGED <<archive, metadata, top, cursor, dashboard, answer, added, stable, undisturbed>>

ReadBatch ==
    /\ phase = "batches"
    /\ LET batch == Batch(sessions)
           accumulated == Accumulated(dashboard, batch)
       IN  /\ dashboard' = accumulated
           /\ added' = added \o batch
           /\ stable' = IF cursor = {} THEN sessions ELSE stable
           /\ IF Len(batch) = BatchSize
              THEN /\ cursor' = {Last(batch)}
                   /\ UNCHANGED <<phase, answer>>
              ELSE /\ phase' = IF accumulated.count = 0 THEN "empty" ELSE "done"
                   /\ answer' = IF accumulated.count = 0 THEN {} ELSE {Finish(accumulated)}
                   /\ UNCHANGED cursor
    /\ UNCHANGED <<archive, metadata, queries, undisturbed>>

Next == Promote \/ ReadRevision \/ ReadScanned \/ AnswerEmpty \/ ReadTop \/ ReadMonths \/ ReadBatch

Spec == Init /\ [][Next]_vars

-----------------------------------------------------------------------------
(***************************************************************************)
(* Properties of a dashboard that is ready.                                *)
(***************************************************************************)
Ready(a) == phase = "done" /\ a.state = "ready"
Counted == ToSet(added)
Times(s) == Cardinality({n \in DOMAIN added : added[n] = s})

\* However the archive changes between two batches, no session is counted
\* twice, and one that was stored from the first batch to the last is counted.
EverySessionCountedOnce ==
    \A a \in answer : Ready(a) =>
        /\ \A s \in Counted : Times(s) = 1
        /\ stable \subseteq Counted

Covered == UNION {s.start..(ObservedEnd(s) - 1) : s \in Counted}
\* Overlapping sessions count once: the unique playtime is the time covered by
\* any of the sessions added.
UniqueTimeIsTheUnion ==
    \A a \in answer : Ready(a) => a.unique = Cardinality(Covered) \div TicksPerSecond

\* The one interval the accumulator keeps never loses covered time, and never
\* counts a session more than once.
UniqueTimeIsBracketed ==
    \A a \in answer : Ready(a) =>
        /\ a.unique >= Cardinality(Covered) \div TicksPerSecond
        /\ a.unique * TicksPerSecond <= SumOver([s \in Counted |-> ObservedEnd(s) - s.start])

SecondsOn(S, d) ==
    SumOver([s \in {t \in S : d \in DOMAIN DayAllocations(t)} |-> DayAllocations(s)[d]])
DaysOf(S) == UNION {DOMAIN DayAllocations(s) : s \in S}

\* A day is closed while older sessions still arrive, whose local clocks may be
\* two days apart; none of them reaches it any more, so the active days are the
\* days with a minute of playtime.
ActiveDaysAreExact ==
    \A a \in answer : Ready(a) =>
        a.activeDays = Cardinality({d \in DaysOf(Counted) : SecondsOn(Counted, d) >= SecondsPerMinute})

CellOf(S, Key(_)) ==
    [k \in {Key(d) : d \in DaysOf(S)} |->
        LET days == {d \in DaysOf(S) : Key(d) = k}
            touching == {s \in S : DOMAIN DayAllocations(s) \cap days # {}}
        IN  [minutes |-> SumOver([d \in days |-> SecondsOn(S, d)]) \div SecondsPerMinute,
             sessions |-> Cardinality(touching),
             confidence |-> Min({Confidence(s) : s \in touching})]]
AgreeOn(f, g, K) == \A k \in K : (k \in DOMAIN f <=> k \in DOMAIN g) /\ (k \in DOMAIN f => f[k] = g[k])

\* The calendar moves forward while sessions arrive, for one that started
\* earlier may end later.  Every day and month that is shown and in the
\* calendar of the latest local day tells all that the sessions spent on it,
\* and none that they touched is missing.
CalendarIsExact ==
    \A a \in answer : Ready(a) =>
        LET latest == {Max({Local(s, ObservedEnd(s)) : s \in Counted})}
            Day(d) == d
        IN  /\ AgreeOn(a.daily, CellOf(Counted, Day),
                       CalendarWindow(latest) \cap Window(a.lastDay, CalendarDays))
            /\ AgreeOn(a.monthly, CellOf(Counted, MonthIndex),
                       MonthWindow(latest) \cap ShownMonths(a.firstDay, a.lastDay))

\* When nothing is promoted meanwhile, what the queries compute in SQL agrees
\* with what the accumulator computes in Rust: as many months are observed, and
\* the top instance has the most of the same total.
ReadingsAgree ==
    \A a \in answer : Ready(a) /\ undisturbed =>
        LET names == {s.instance : s \in Counted}
            played == [i \in names |-> SumOver([s \in {t \in Counted : t.instance = i} |-> Seconds(s)])]
        IN  /\ months = Cardinality({MonthIndex(d) : d \in DaysOf(Counted)})
            /\ top.seconds = Max({played[i] : i \in names})
            /\ SumOver(played) = a.total
=============================================================================
