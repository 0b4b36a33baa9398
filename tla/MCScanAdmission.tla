-------------------------- MODULE MCScanAdmission --------------------------
(***************************************************************************)
(* Two instances of up to three logs, whose sizes reach every limit.       *)
(***************************************************************************)
EXTENDS ScanAdmission, TLC

MCSessionsOf == <<{11, 12, 13}, {21, 22, 23}>>
MCContexts == 11 :> 1 @@ 12 :> 0 @@ 13 :> 2 @@ 21 :> 1 @@ 22 :> 1 @@ 23 :> 0
MCArchives == {{}, {11, 12}, {11, 13}, {12, 13, 21}, {11, 12, 21, 22}}

MCParseResults ==
    {[kind |-> "parsed", bytes |-> 1, events |-> 1], [kind |-> "warned", bytes |-> 2, events |-> 0],
     [kind |-> "oversized", bytes |-> 1, events |-> 1], [kind |-> "changed", bytes |-> 0, events |-> 0],
     [kind |-> "limited", bytes |-> 0, events |-> 0]}
MCInstanceLimits == [logs |-> 2, bytes |-> 3, events |-> 2, sessions |-> 2]
MCScanLimits == [logs |-> 4, bytes |-> 5, events |-> 3, sessions |-> 3, contexts |-> 4]
MCArchiveLimits == [sessions |-> 3, contexts |-> 3]
MCFailedParse == [bytes |-> 2, events |-> 2]

Standard(logs, replace) ==
    [logs |-> logs, replace |-> replace, reconstruct |-> \E f \in DOMAIN logs : logs[f] = "changed"]
Deep(logs) == [logs |-> logs, replace |-> TRUE, reconstruct |-> logs # <<>>]
MCPlans ==
    {<<a, b>> : a \in {Standard(<<"unchanged", "changed">>, FALSE), Standard(<<"changed", "changed">>, TRUE)},
                b \in {Standard(<<"changed">>, FALSE), Deep(<<"unchanged">>)}}
        \cup {<<Standard(<<"unchanged">>, FALSE), Deep(<<"unchanged">>)>>,
              <<Standard(<<"changed", "changed", "changed">>, TRUE), Standard(<<"changed">>, FALSE)>>}
=============================================================================
