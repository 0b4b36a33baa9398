---------------------------- MODULE MCLogParser ----------------------------
(***************************************************************************)
(* Instances of LogParser for TLC.  ClockLogs vary when lines are written  *)
(* and how they are dated, PhraseLogs what a line says, SizeLogs how long  *)
(* lines are and how much they say.                                        *)
(***************************************************************************)
EXTENDS LogParser

CONSTANTS FirstInstants, \* when the first line of a clock log is written
          Steps,         \* units of time between a line and the next, when the clock is not set back
          MaxLag         \* bound: how long after its last line a log is modified

MCLine(at, form, marks, size) == [at |-> at, form |-> form, marks |-> marks, size |-> size]

ClockLogs ==
    {<<MCLine(t, f[1], {"loading minecraft"}, 1),
       MCLine(t + d[1], f[2], {"setting user"}, 1),
       MCLine(t + d[1] + d[2], f[3], {"connecting to"}, 1),
       MCLine(t + d[1] + d[2] + d[3], f[4], {"stopping!"}, 1)>> :
        t \in FirstInstants, d \in [1..3 -> {-1} \cup Steps],
        f \in {f \in [1..4 -> {"datetime", "time", "none"}] :
                  Cardinality({i \in 1..4 : f[i] # "time"}) <= 1 \/ \A i \in 1..4 : f[i] = "datetime"}}
\* Each of them under a dated name, or undated and modified up to MaxLag later.
ClockSources ==
    {[log |-> l, ctx |-> IF lag = None THEN LogContext(0, l[4].at, 0)
                         ELSE LogContext(None, l[4].at + lag, 1)] :
        l \in ClockLogs, lag \in {None} \cup 0..MaxLag}

Phrases == UNION {{r[i][1] : i \in DOMAIN r} :
    r \in {LaunchRules, BootstrapRules, ServerRules, IntegratedRules, WorldRules,
           DisconnectRules, StoppingRules, ShutdownRules, CrashRules}}
PhraseSources ==
    {[log |-> <<MCLine(0, "time", m, 1)>>, ctx |-> LogContext(0, 0, 0)] :
        m \in {{a, b, c} : a, b, c \in Phrases}}

SizeSources ==
    {[log |-> [i \in 1..n |-> MCLine(0, "time", m, s[i])], ctx |-> LogContext(0, 0, 0)] :
        n \in 3..5, s \in [1..5 -> {1, 2, 4}], m \in {{}, {"loading minecraft"}}}

MCSources == ClockSources \cup PhraseSources \cup SizeSources
=============================================================================
