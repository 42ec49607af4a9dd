----------------------------- MODULE MCStartup ------------------------------
(* Two maps, one of which cannot be read, a seed, two settings of the rules  *)
(* and different bench values for local and network games.                   *)
EXTENDS Startup

CONSTANTS map1, map2, noFile, seed, rules1, rules2, Maps, Seeds, Rules

MCBench == {10, 20}
MCUnreadable == {r \in LdrRequest : r.map = noFile}
=============================================================================
