------------------------------ MODULE GameState -----------------------------
(***************************************************************************)
(* A game that is being played (libker, ker-gamestate.c): the commands     *)
(* that register nodes and move cursors in and out of it, and the round,   *)
(* which lets the fighters fight, removes the teams nobody leads, buries   *)
(* or revives the dead ones, and decides when the game is over.            *)
(*                                                                         *)
(* One process owns a game state, so that each function is one step.  What *)
(* the fighters do to each other in a round is left open: they change      *)
(* sides, and nothing else (ker-move.c never adds nor removes any).        *)
(***************************************************************************)
EXTENDS MapState

CONSTANTS
    Rules,        \* the sets of rules a game may be played with
    MAX_NB_NODES, \* LW6MAP_MAX_NB_NODES: 15
    Ask,          \* what may be asked for: a node, a cursor of its, a colour
    MaxExtra,     \* bound: rounds of extra time, while a team is alone
    AfterTheEnd   \* bound: the rules of the games followed after their end

IsRules(r) ==
    /\ {r.respawn_team} \subseteq BOOLEAN
    /\ {r.respawn_delay, r.total_rounds} \subseteq Nat
    /\ r.color_conflict_mode \in 0 .. 2
    /\ r.frags_mode \in 0 .. 3
    /\ r.frags_to_distribute \in Nat
    /\ r.frags_fade_out \in 10 .. 100
    /\ {r.single_army_size, r.total_armies_size} \subseteq 1 .. 95
    /\ r.max_nb_teams \in 2 .. MAX_NB_TEAMS
    /\ r.handicap \in [Team -> 10 .. 1000]

ASSUME GameStateAssumption ==
    /\ \A r \in Rules : IsRules(r) /\ r.total_rounds > 0
    /\ {MAX_NB_NODES, MaxExtra} \subseteq Nat
    /\ AfterTheEnd \subseteq Rules
    /\ Ask \subseteq Node \X Cursor \X Team

VARIABLES
    rules,             \* game_struct->rules, the same all along
    ms,                \* map_state
    nodes,             \* node_array
    rounds,
    total_rounds,
    over,
    max_reached_teams

vars == <<rules, ms, nodes, rounds, total_rounds, over, max_reached_teams>>
clock == <<rounds, total_rounds, over, max_reached_teams>>

TypeOK ==
    /\ rules \in Rules
    /\ ms \in MapStates
    /\ nodes \subseteq Node
    /\ total_rounds \in rules.total_rounds .. rules.total_rounds + MaxExtra
    /\ rounds \in 0 .. total_rounds
    /\ over \in BOOLEAN
    /\ max_reached_teams \in 0 .. MAX_NB_TEAMS

Init ==
    /\ rules \in Rules
    /\ ms = MapStateInit
    /\ nodes = {}
    /\ rounds = 0
    /\ total_rounds = rules.total_rounds
    /\ over = FALSE
    /\ max_reached_teams = 0

-----------------------------------------------------------------------------
\* The commands.  They are carried out whether the game is over or not.

\* The colour a cursor gets when it asks for t.
RealColor(n, t) ==
    IF /\ ms.active[t]
       /\ \/ rules.color_conflict_mode = 1 /\ ~is_color_owned_by(ms, n, t)
          \/ rules.color_conflict_mode = 2
    THEN IF FreeColors(ms) = {} THEN NO_TEAM ELSE Min(FreeColors(ms))
    ELSE t

add_team(t) ==
    IF ms.active[t] THEN ms
    ELSE [add_team_internal(ms, rules, t) EXCEPT !.frags[t] = 0]

\* A team is removed with its last cursor.
Left(m, n, c) ==
    LET t == m.cursors[c].team_color
        without == cursor_disable(m, n, c)
    IN  IF m.cursors[c] = Free THEN m
        ELSE IF without.active[t] /\ CursorsOf(without, t) = {}
        THEN remove_team_internal(without, rules, t)
        ELSE without

register_node(n) ==
    /\ Cardinality(nodes) < MAX_NB_NODES
    /\ nodes' = nodes \cup {n}
    /\ UNCHANGED <<rules, ms, clock>>

\* The cursors of the node go first, in the order of the slots they happen to
\* have in the array.
AllLeft(m, n, slots) ==
    LET after[i \in 0 .. Len(slots)] ==
            IF i = 0 THEN m ELSE Left(after[i - 1], n, slots[i])
    IN  after[Len(slots)]

unregister_node(n) ==
    /\ n \in nodes
    /\ nodes' = nodes \ {n}
    /\ \E slots \in SetToSeqs({c \in Cursor : ms.cursors[c].node_id = n}) :
         ms' = AllLeft(ms, n, slots)
    /\ UNCHANGED <<rules, clock>>

add_cursor(n, c, t) ==
    /\ n \in nodes
    /\ ms.cursors[c] = Free
    /\ RealColor(n, t) # NO_TEAM
    /\ ms' = cursor_enable(add_team(RealColor(n, t)), n, c, RealColor(n, t))
    /\ UNCHANGED <<rules, nodes, clock>>

remove_cursor(n, c) ==
    /\ n \in nodes
    /\ ms' = Left(ms, n, c)
    /\ UNCHANGED <<rules, nodes, clock>>

-----------------------------------------------------------------------------
\* The round.

\* What do_move may make of the fighters: there are as many, and only a team
\* that has some can win more.
Moved(f) ==
    IF over THEN {f}
    ELSE {g \in [Team -> 0 .. Total(f)] :
            Total(g) = Total(f) /\ \A t \in Team : f[t] = 0 => g[t] = 0}

\* A dead team comes back among teams that make some room for it.
Respawned(m, t) ==
    LET gone == [remove_team_internal(m, rules, t) EXCEPT !.respawn_round[t] = 0]
        room == remove_fighters(gone,
                    IMin(single_army(rules), active_fighters(gone) \div 2))
    IN  add_team_internal(room, rules, t)

\* Mutant: dated again and again.
SlipDied(m, t) ==
    [frag(m, rules, t) EXCEPT !.respawn_round[t] = rounds + rules.respawn_delay]

\* Its death is counted once, and dated.
Died(m, t) ==
    IF m.respawn_round[t] = 0
    THEN [frag(m, rules, t) EXCEPT
            !.respawn_round[t] = rounds + rules.respawn_delay]
    ELSE m

\* Mutant: a team without a cursor is only removed when it has fighters left.
SlipFinishTeam(m, t) ==
    LET dead == m.active[t] /\ CursorsOf(m, t) # {} /\ ~Alive(m, t)
        buried == Died(m, t)
    IN  IF m.active[t] /\ CursorsOf(m, t) = {} /\ Alive(m, t)
        THEN remove_team_internal(m, rules, t)
        ELSE IF ~dead THEN m
        ELSE IF ~rules.respawn_team
        THEN cursors_disable(remove_team_internal(m, rules, t), t)
        ELSE IF buried.respawn_round[t] <= rounds
        THEN Respawned(buried, t)
        ELSE buried

FinishTeam(m, t) ==
    LET dead == m.active[t] /\ CursorsOf(m, t) # {} /\ ~Alive(m, t)
        buried == Died(m, t)
    IN  IF m.active[t] /\ CursorsOf(m, t) = {}
        THEN remove_team_internal(m, rules, t)
        ELSE IF ~dead THEN m
        ELSE IF ~rules.respawn_team
        THEN cursors_disable(remove_team_internal(m, rules, t), t)
        ELSE IF buried.respawn_round[t] <= rounds
        THEN Respawned(buried, t)
        ELSE buried

\* Team after team.
Finished(m) ==
    LET upto[n \in 0 .. MAX_NB_TEAMS] ==
            IF n = 0 THEN m ELSE FinishTeam(upto[n - 1], n - 1)
    IN  upto[MAX_NB_TEAMS]

do_round ==
    LET nb == nb_teams(ms) \* read before teams come and go
        most == IMax(max_reached_teams, nb)
    IN  /\ \E f \in Moved(ms.fighters_per_team) :
             ms' = Finished([ms EXCEPT !.fighters_per_team = f])
        /\ max_reached_teams' = most
        /\ over' = \/ over
                   \/ rounds >= total_rounds
                   \/ ~rules.respawn_team /\ nb <= 1 /\ most >= 2
        /\ rounds' = IF over' THEN rounds ELSE rounds + 1
        /\ total_rounds' = IF ~over' /\ nb <= 1 THEN total_rounds + 1
                           ELSE total_rounds \* alone, the clock stands still
        /\ total_rounds' <= rules.total_rounds + MaxExtra
        /\ UNCHANGED <<rules, nodes>>

\* A fault is the end of the program.
Next ==
    /\ ms.fault = "none"
    /\ over => rules \in AfterTheEnd
    /\ \/ \E n \in Node : register_node(n)
       \/ \E n \in Node : unregister_node(n)
       \/ \E a \in Ask : add_cursor(a[1], a[2], a[3])
       \/ \E a \in Ask : remove_cursor(a[1], a[2])
       \/ do_round

Spec == Init /\ [][Next]_vars

-----------------------------------------------------------------------------
\* What the game owes its players.

Led(m, t) == CursorsOf(m, t) # {}

\* A team that has fighters is playing, there are never more fighters than the
\* map can hold (what _lw6ker_map_state_sanity_check looks for), and a cursor
\* belongs to a registered node and leads a team that is playing: after any
\* sequence of arrivals, departures, fights, deaths and returns.
SanityCheck == ms.fault = "none" =>
    /\ \A t \in Team : Alive(ms, t) => ms.active[t]
    /\ active_fighters(ms) <= max_fighters(rules)
    /\ \A c \in Enabled(ms) :
        /\ ms.cursors[c].node_id \in nodes
        /\ ms.active[ms.cursors[c].team_color]

\* Rules that ask for nothing excessive: a team that comes gets fighters, and
\* whatever comes and goes there is room to take some from each of the others.
\* With less, nine teams of one fighter each cannot give the four that a tenth
\* one coming back is made room for, and the loop that looks for them does not
\* end.  Mode 1 of the score does not have that promise.
Reasonable(r) ==
    /\ r.frags_mode # ONE_FOR_WINNERS_ALL_FOR_LOSER
    /\ \A t \in Team :
        /\ r.handicap[t] <= 100
        /\ percent(single_army(r), r.handicap[t]) >= 2 * MAX_NB_TEAMS - 3
    /\ max_fighters(r) - single_army(r) >= 2 * MAX_NB_TEAMS - 4

\* Under such rules no loop is endless and nothing is divided by zero, whoever
\* comes, goes and dies.
NoFault == Reasonable(rules) => ms.fault = "none"

\* Modes 1 and 2 of the score hand out as many points as they take ("a total
\* of 0 kept constant"), even when several teams die in one round and come back
\* in it, and when shares are rounded.
FragsConserved ==
    [][(rounds' # rounds \/ over' # over) /\ rules.frags_fade_out = 100
       /\ rules.frags_mode \in {ONE_FOR_WINNERS_ALL_FOR_LOSER, BALANCED}
        => Total(ms'.frags) = Total(ms.frags)]_vars

\* Commands kill nobody: while fighters are removed to make room for a team
\* that comes, or inherited from one that goes, a team that had fighters and
\* still has a cursor keeps some.  And whoever leaves, by its cursor or with its
\* node, those who stay lose nothing by it.
CommandsKillNobody ==
    [][UNCHANGED clock =>
        /\ Reasonable(rules) =>
            \A t \in Team : Alive(ms, t) /\ Led(ms', t) => Alive(ms', t)
        /\ Cardinality(Enabled(ms')) < Cardinality(Enabled(ms)) /\ ms'.fault = "none" =>
            \A t \in Team : Led(ms', t) =>
                ms'.fighters_per_team[t] >= ms.fighters_per_team[t]]_vars

\* When a round ends, the teams that play have a cursor, or only one is left.
RoundLeavesLed ==
    [][rounds' # rounds /\ ms'.fault = "none" =>
        nb_teams(ms') = 1 \/ \A t \in Playing(ms') : Led(ms', t)]_vars

\* A dead team that has a cursor is back with fighters once the round it was
\* dated for has been played, if some other team has any.
Due(t) == Led(ms, t) /\ ~Alive(ms, t) /\ ms.respawn_round[t] \in 1 .. rounds
ComesBack ==
    [][rounds' # rounds \/ over' # over => \A t \in Team :
        Due(t) /\ active_fighters(ms) > 0 /\ ms'.fault = "none" => Alive(ms', t)]_vars
=============================================================================
