------------------------ MODULE MCLocationDiscovery ------------------------
(***************************************************************************)
(* The two places of the launchers and one custom folder, each with a few  *)
(* layouts: a game, a game that becomes a folder of instances, instances   *)
(* of every kind (one called "logs"), links, closed and deep folders.      *)
(***************************************************************************)
EXTENDS LocationDiscovery

MCCandidateOf == [a \in Adapters |-> a]

Above(paths) == UNION {Prefixes(p) : p \in paths}
Tree(dirs, files) ==
    [Missing EXCEPT !.dirs = Above(dirs \cup {Front(f) : f \in files}), !.files = files]

Game == Tree({<<"versions">>}, {<<"logs", "latest.log">>, <<"logs", "old.log.gz">>, <<"options">>})
GameAndPack == [Game EXCEPT !.dirs = @ \cup Above({<<"instances", "a", "logs">>, <<"instances", "a", "mods">>}),
                            !.files = @ \cup {<<"instances", "a", "logs", "latest.log">>}]
TwoPacks == Tree({<<"instances", "a", ".minecraft">>},
    {<<"prismlauncher.cfg">>, <<"logs", "latest.log">>,
     <<"instances", "a", ".minecraft", "logs", "latest.log">>,
     <<"instances", "a", ".minecraft", "logs", "logs", "old.log.gz">>,
     <<"instances", "logs", ".minecraft", "logs", "latest.log">>,
     <<"instances", "logs", "logs", "old.log.gz">>})
NoPack == Tree({<<"instances">>}, {<<"prismlauncher.cfg">>})
Odd == [Tree({<<"instances", "closed", "logs">>, <<"instances", "b", ".minecraft", "logs", "d", "e">>},
            {<<"multimc.cfg">>, <<"instances", "b", "minecraft", "logs", "latest.log">>,
             <<"instances", "b", ".minecraft", "logs", "d", "e", "old.log.gz">>,
             <<"instances", "b", ".minecraft", "logs", "latest.log">>,
             <<"instances", "closed", "logs", "latest.log">>})
          EXCEPT !.links = {<<"logs">>}, !.closed = {<<"instances", "closed", "logs">>},
                 !.big = {<<"instances", "b", ".minecraft", "logs", "latest.log">>}]
OneInstance == Tree({}, {<<"instance.cfg">>, <<".minecraft", "options">>, <<".minecraft", "logs", "latest.log">>})

MCLayouts == [official |-> {NoPack, Game, GameAndPack},
              prism |-> {Missing, TwoPacks},
              custom |-> {OneInstance, Odd, [Game EXCEPT !.linked = TRUE]}]
=============================================================================
