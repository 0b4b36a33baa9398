----------------------------- MODULE LogParser -----------------------------
(***************************************************************************)
(* The streaming parser of one Minecraft log: it reads bounded chunks,     *)
(* completes lines, turns clocks without a date into instants and phrases  *)
(* into typed evidence, under four resource limits and with cooperative    *)
(* cancellation.                                                           *)
(*                                                                         *)
(* Data abstracted: a line is the local instant it was written at, the     *)
(* form of its bracketed prefix, the phrases found in it and its bytes.    *)
(* One unit of time stands for a second, a day has Day of them.  Encoding  *)
(* errors and NULs change no decision and are left out.                    *)
(***************************************************************************)
EXTENDS Integers, Sequences, FiniteSets

CONSTANTS
    Day,          \* units of time in a day (even)
    Chunk,        \* CANCELLATION_CHECK_BYTES
    MaxBytes, MaxLineBytes, MaxLines, MaxEvidence, \* LogParseLimits
    Sources,      \* [log, ctx] pairs: the logs of a run and their contexts
    None          \* the absent value of an Option

ASSUME DayAssumption == Day \in Nat \ {0} /\ Day % 2 = 0
ASSUME LimitsAssumption ==
    /\ Chunk \in Nat \ {0}
    /\ MaxBytes \in Nat /\ MaxLineBytes \in Nat /\ MaxLines \in Nat /\ MaxEvidence \in Nat
ASSUME NoneAssumption == None \notin Int

\* MIDNIGHT_ROLLOVER_THRESHOLD_SECONDS
HalfADay == Day \div 2

DateOf(t) == t \div Day
TimeOf(t) == t % Day

-----------------------------------------------------------------------------
(***************************************************************************)
(* What a line says.  A rule is a phrase and the events it yields; of the  *)
(* rules of one if-else chain the first that matches counts.               *)
(***************************************************************************)

Tags == {"start", "version", "server", "integrated", "world", "disconnect",
         "stopping", "shutdown", "crash"}

LaunchRules == << <<"loading minecraft", <<"start", "version">> >>,
                  <<"starting client version", <<"start", "version">> >>,
                  <<"forge for minecraft", <<"start", "version">> >>,
                  <<"minecraft version", <<"version">> >> >>
BootstrapRules == << <<"setting user", <<"start">> >>, <<"lwjgl version", <<"start">> >> >>
ServerRules == << <<"connecting to", <<"server">> >> >>
IntegratedRules == << <<"starting integrated server", <<"integrated">> >> >>
WorldRules == << <<"preparing level", <<"world">> >>, <<"preparing start region", <<"world">> >> >>
DisconnectRules == << <<"stopping integrated server", <<"disconnect">> >>,
                      <<"disconnected from server", <<"disconnect">> >>,
                      <<"network disconnect", <<"disconnect">> >> >>
StoppingRules == << <<"stopping!", <<"stopping">> >> >>
ShutdownRules == << <<"shutdown complete", <<"shutdown">> >> >>
CrashRules == << <<"crash report header", <<"crash">> >>, <<"crash report saved", <<"crash">> >>,
                 <<"unreported exception", <<"crash">> >>, <<"fatal level", <<"crash">> >>,
                 <<"game crashed", <<"crash">> >> >>

\* The events of the first rule whose phrase is among marks.
FirstMatch(rules, marks) ==
    LET hits == {i \in DOMAIN rules : rules[i][1] \in marks}
    IN  IF hits = {} THEN <<>> ELSE rules[CHOOSE i \in hits : \A j \in hits : i <= j][2]

\* A bootstrap marker counts only when no launch rule has told of a start.
RecognizeEvents(marks) ==
    LET launch == FirstMatch(LaunchRules, marks)
        bootstrap == IF "start" \in {launch[i] : i \in DOMAIN launch}
                     THEN <<>> ELSE FirstMatch(BootstrapRules, marks)
    IN  launch \o bootstrap
          \o FirstMatch(ServerRules, marks) \o FirstMatch(IntegratedRules, marks)
          \o FirstMatch(WorldRules, marks) \o FirstMatch(DisconnectRules, marks)
          \o FirstMatch(StoppingRules, marks) \o FirstMatch(ShutdownRules, marks)
          \o FirstMatch(CrashRules, marks)

-----------------------------------------------------------------------------
(***************************************************************************)
(* Contexts and timestamps.                                                *)
(***************************************************************************)

\* The context of a log: a dated file name gives the first day, the
\* modification time of any other file its final day.
LogContext(nameDate, modified, offset) ==
    [hint |-> IF nameDate # None THEN nameDate ELSE DateOf(modified),
     basis |-> IF nameDate # None THEN "first" ELSE "final",
     end |-> modified, offset |-> offset]

InitialDate(ctx) == IF ctx.basis = "first" THEN ctx.hint ELSE None

\* EvidenceTimestamp: seq orders evidence and measures durations.
Missing == [origin |-> "missing", time |-> 0, seq |-> 0]
Local(ctx, date, time, origin) ==
    [origin |-> origin, time |-> time, seq |-> date * Day + time - ctx.offset]

VARIABLES
    source,     \* the log and its context
    next,       \* the line being read
    held,       \* bytes of it already read
    decoded,    \* byte_offset: bytes of the lines completed
    clock,      \* TimestampState: [date, last, day]
    evidence,   \* evidence so far: [line, tag, stamp]
    backwards,  \* diagnostics.non_monotonic_timestamps
    verdict     \* "reading", "parsed", "cancelled" or the limit exceeded

parserVars == <<source, next, held, decoded, clock, evidence, backwards, verdict>>

log == source.log
ctx == source.ctx

\* A clock that falls back by more than half a day has passed midnight.
PassesMidnight(time) ==
    clock.last # None /\ clock.last - time > HalfADay

\* A mutant: midnight moves the date of a dated log and nothing else.
ClockAfterWithoutDayIndex(line) ==
    LET time == TimeOf(line.at) IN
    CASE line.form = "datetime" -> [date |-> DateOf(line.at), last |-> time, day |-> 0]
      [] line.form = "time" ->
            [clock EXCEPT !.last = time,
                !.date = IF @ # None /\ PassesMidnight(time) THEN @ + 1 ELSE @]
      [] OTHER -> clock

\* The clock after a line, and whether the line counts as running backwards.
ClockAfter(line) ==
    LET time == TimeOf(line.at) IN
    CASE line.form = "datetime" -> [date |-> DateOf(line.at), last |-> time, day |-> 0]
      [] line.form = "time" /\ PassesMidnight(time) ->
            [date |-> IF clock.date = None THEN None ELSE clock.date + 1,
             last |-> time, day |-> clock.day + 1]
      [] line.form = "time" /\ ~PassesMidnight(time) -> [clock EXCEPT !.last = time]
      [] OTHER -> clock

RunsBackwards(line) ==
    /\ clock.last # None /\ TimeOf(line.at) < clock.last
    /\ \/ line.form = "datetime" /\ clock.date \in {None, DateOf(line.at)}
       \/ line.form = "time" /\ ~PassesMidnight(TimeOf(line.at))

Stamp(line) ==
    LET after == ClockAfter(line)
        time == TimeOf(line.at)
    IN  CASE line.form = "datetime" -> Local(ctx, after.date, time, "datetime")
          [] line.form = "time" /\ after.date # None ->
                Local(ctx, after.date, time, "hinted")
          [] line.form = "time" /\ after.date = None ->
                [origin |-> "time", time |-> time, seq |-> after.day * Day + time]
          [] OTHER -> Missing

\* A mutant: the day of the modification time is that of the last line.
FinalDateOfModification == DateOf(ctx.end)

\* The date of the last line of an undated log: the day of its modification
\* time, or the day before when the last clock is far ahead of that time.
FinalDate ==
    LET ahead == IF clock.last = None THEN 0 ELSE clock.last - TimeOf(ctx.end)
    IN  IF ahead > HalfADay THEN DateOf(ctx.end) - 1 ELSE DateOf(ctx.end)

\* Evidence known by its time only is dated back from the final date.
Anchored(e) ==
    LET before == clock.day - (e.stamp.seq \div Day) IN
    IF ctx.basis = "final" /\ e.stamp.origin = "time" /\ before >= 0
    THEN [e EXCEPT !.stamp = Local(ctx, FinalDate - before, e.stamp.time, "hinted")]
    ELSE e

-----------------------------------------------------------------------------
ParserInit ==
    /\ source \in Sources
    /\ next = 1 /\ held = 0 /\ decoded = 0
    /\ clock = [date |-> InitialDate(source.ctx), last |-> None, day |-> 0]
    /\ evidence = <<>> /\ backwards = 0
    /\ verdict = "reading"

\* A chunk ends with its line.
ChunkLength == LET rest == log[next].size - held IN IF rest < Chunk THEN rest ELSE Chunk

\* A mutant: the line limit is tested against the chunk.
ReadChunkUnsummed ==
    /\ verdict = "reading" /\ next <= Len(log) /\ held < log[next].size
    /\ LET length == held + ChunkLength
       IN  IF ChunkLength > MaxLineBytes THEN verdict' = "line bytes" /\ held' = held
           ELSE IF decoded + length > MaxBytes THEN verdict' = "decoded bytes" /\ held' = held
           ELSE held' = length /\ verdict' = verdict
    /\ UNCHANGED <<source, next, decoded, clock, evidence, backwards>>

\* read_bounded_line: one chunk of the current line, refused when it would
\* exceed a limit.
ReadChunk ==
    /\ verdict = "reading" /\ next <= Len(log) /\ held < log[next].size
    /\ LET length == held + ChunkLength
       IN  IF length > MaxLineBytes THEN verdict' = "line bytes" /\ held' = held
           ELSE IF decoded + length > MaxBytes THEN verdict' = "decoded bytes" /\ held' = held
           ELSE held' = length /\ verdict' = verdict
    /\ UNCHANGED <<source, next, decoded, clock, evidence, backwards>>

\* A complete line: count it, date it, and keep what it says.
ParseLine ==
    /\ verdict = "reading" /\ next <= Len(log) /\ held = log[next].size
    /\ LET line == log[next]
           events == RecognizeEvents(line.marks)
           stamp == Stamp(line)
       IN  \/ /\ next > MaxLines
              /\ verdict' = "line count"
              /\ UNCHANGED <<next, held, decoded, clock, evidence, backwards>>
           \/ /\ next <= MaxLines
              /\ Len(evidence) + Len(events) > MaxEvidence
              /\ verdict' = "evidence event count"
              /\ UNCHANGED <<next, held, decoded, clock, evidence, backwards>>
           \/ /\ next <= MaxLines
              /\ Len(evidence) + Len(events) <= MaxEvidence
              /\ next' = next + 1 /\ held' = 0
              /\ decoded' = decoded + held
              /\ clock' = ClockAfter(line)
              /\ backwards' = backwards + (IF RunsBackwards(line) THEN 1 ELSE 0)
              /\ evidence' = evidence \o [i \in 1..Len(events) |->
                                 [line |-> next, tag |-> events[i], stamp |-> stamp]]
              /\ verdict' = verdict
    /\ UNCHANGED source

\* The end of the stream.
Finish ==
    /\ verdict = "reading" /\ next > Len(log)
    /\ evidence' = [i \in DOMAIN evidence |-> Anchored(evidence[i])]
    /\ verdict' = "parsed"
    /\ UNCHANGED <<source, next, held, decoded, clock, backwards>>

\* check_parse_cancelled, before chunks, lines and evidence: the caller gets
\* an error and no evidence.
CancelParse ==
    /\ verdict = "reading" /\ next <= Len(log)
    /\ verdict' = "cancelled"
    /\ UNCHANGED <<source, next, held, decoded, clock, evidence, backwards>>

ParserNext == ReadChunk \/ ParseLine \/ Finish \/ CancelParse

ParserSpec == ParserInit /\ [][ParserNext]_parserVars

-----------------------------------------------------------------------------
(***************************************************************************)
(* Properties.                                                             *)
(***************************************************************************)

\* How a line is dated: by the bracketed prefix of its first field.
Forms == {"datetime", "time", "none"}
\* A phrase that needs a version, address or quoted name after it is a mark of
\* the line only when one follows (message_body and the extract_ functions).
Line == [at : Int, form : Forms, marks : SUBSET STRING, size : Nat \ {0}]
Context == [hint : Int, basis : {"first", "final"}, end : Int, offset : Int]
ASSUME SourcesAssumption ==
    \A s \in Sources : s.log \in Seq(Line) /\ s.ctx \in Context

StampType == [origin : {"datetime", "hinted", "time", "missing"}, time : Int, seq : Int]
LimitErrors == {"line bytes", "decoded bytes", "line count", "evidence event count"}

\* Every variable has its type, and a line is never held past its bytes.
TypeOK ==
    /\ log \in Seq(Line) /\ ctx \in Context
    /\ next \in 1..(Len(log) + 1) /\ decoded \in Nat
    /\ held \in IF next <= Len(log) THEN 0..log[next].size ELSE {0}
    /\ clock \in [date : Int \cup {None}, last : Int \cup {None}, day : Nat]
    /\ evidence \in Seq([line : Nat, tag : Tags, stamp : StampType])
    /\ backwards \in Nat
    /\ verdict \in {"reading", "parsed", "cancelled"} \cup LimitErrors

Clocked == {i \in DOMAIN log : log[i].form # "none"}
FirstClocked == CHOOSE i \in Clocked : \A j \in Clocked : i <= j
LastClocked == CHOOSE i \in Clocked : \A j \in Clocked : j <= i
TimeOnly == \A i \in Clocked : log[i].form = "time"

\* Less than half a day passes between a clocked line and the next one.
Steady ==
    \A i, j \in Clocked :
        (i < j /\ \A k \in Clocked : k <= i \/ j <= k)
            => log[j].at - log[i].at \in 0..(HalfADay - 1)

\* The context tells the truth: the name of a dated log is the day of its
\* first clock, and an undated one was modified within half a day of its
\* last clock, which no date contradicts.
Placed ==
    \/ Clocked = {}
    \/ log[FirstClocked].form = "datetime"
    \/ ctx.basis = "first" /\ DateOf(log[FirstClocked].at) = ctx.hint
    \/ ctx.basis = "final" /\ TimeOnly
         /\ ctx.end - log[LastClocked].at \in 0..(HalfADay - 1)

\* "Filename dates, line timestamps, midnight rollover, and undated-log
\* final-day anchoring" (docs/backend-architecture.md:406): however many
\* midnights a log crosses, whichever end its date is known from, and although
\* a log may be closed the day after its last line, the evidence of a steady
\* log carries the very instants its lines were written at.
ObservedTimesAreExact ==
    verdict = "parsed" /\ Steady /\ Placed =>
        \A i \in DOMAIN evidence :
            evidence[i].stamp.origin # "missing" =>
                evidence[i].stamp.seq = log[evidence[i].line].at - ctx.offset

\* A log whose clocks carry no date and of which the diagnostics report no
\* step back has evidence that never runs back, before and after it is
\* anchored: parser_has_warnings needs no other sign of disorder.
QuietLogsRunForward ==
    TimeOnly /\ backwards = 0 =>
        \A i, j \in DOMAIN evidence :
            /\ i < j
            /\ evidence[i].stamp.origin # "missing"
            /\ evidence[j].stamp.origin # "missing"
            => evidence[i].stamp.seq <= evidence[j].stamp.seq

SumOf(f) == LET upto[n \in 0..Len(f)] == IF n = 0 THEN 0 ELSE upto[n - 1] + f[n] IN upto[Len(f)]
EventsIn(l) == [i \in DOMAIN l |-> Len(RecognizeEvents(l[i].marks))]
WithinLimits(l) ==
    /\ Len(l) <= MaxLines
    /\ \A i \in DOMAIN l : l[i].size <= MaxLineBytes
    /\ SumOf([i \in DOMAIN l |-> l[i].size]) <= MaxBytes
    /\ SumOf(EventsIn(l)) <= MaxEvidence

\* The limits are those of the whole log although they are tested chunk by
\* chunk and line by line: a log is refused exactly when it exceeds one, and
\* one that is accepted has lost no event.
RefusedExactlyOverLimits ==
    /\ verdict \in LimitErrors => ~WithinLimits(log)
    /\ verdict = "parsed" => WithinLimits(log) /\ Len(evidence) = SumOf(EventsIn(log))

=============================================================================
