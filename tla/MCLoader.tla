------------------------------ MODULE MCLoader ------------------------------
(* A map that loads with either of two parameters, one that cannot be read, *)
(* one no game can be built on, and a seed.                                 *)
EXTENDS Loader, TLC

CONSTANTS map1, noFile, noGame, seed, rules1, rules2

MCMap == {map1, noFile, noGame}
MCSeed == {seed}
MCParam == {rules1, rules2}
MCBench == {10, 20}
MCUnreadable == {r \in LdrRequest : r.map = noFile}
MCUnbuildable == {r \in LdrRequest : r.map = noGame}
=============================================================================
