----------------------------- MODULE MCGameState ----------------------------
(***************************************************************************)
(* Two nodes and three cursors that ask for the first two colours, under   *)
(* four sets of rules.  Armies are of a few fighters: a single army is     *)
(* three, and the map holds five.                                          *)
(***************************************************************************)
EXTENDS GameState

CONSTANTS n1, n2, c1, c2, c3

Commands == {<<n1, c1, 0>>, <<n1, c2, 0>>, <<n2, c3, 0>>, <<n2, c3, 1>>}

\* Deathmatch: each cursor gets a colour of its own.
Deathmatch ==
    [respawn_team |-> TRUE, respawn_delay |-> 1, total_rounds |-> 1,
     color_conflict_mode |-> 2,
     frags_mode |-> BALANCED, frags_to_distribute |-> 3, frags_fade_out |-> 100,
     single_army_size |-> 18, total_armies_size |-> 23,
     max_nb_teams |-> 3, handicap |-> [t \in Team |-> 100]]

\* Classical: a node may share a team with itself.
Classical == [Deathmatch EXCEPT !.respawn_team = FALSE, !.total_rounds = 2,
                                !.color_conflict_mode = 1, !.frags_mode = ONE_NEGATIVE_POINT]

\* The mode of the score that may hang, no delay, and colours that are shared.
OnePoint == [Deathmatch EXCEPT !.respawn_delay = 0, !.color_conflict_mode = 0,
                               !.frags_mode = ONE_FOR_WINNERS_ALL_FOR_LOSER]

\* A team larger than the map.
Giant == [Classical EXCEPT !.handicap[0] = 600]

FourRules == {Deathmatch, Classical, OnePoint, Giant}
JustClassical == {Classical}
=============================================================================
