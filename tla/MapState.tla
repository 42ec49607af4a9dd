------------------------------ MODULE MapState ------------------------------
(***************************************************************************)
(* The armies of a level, team by team (libker, ker-mapstate.c and         *)
(* ker-armies.c, ker-cursorarray.c): how many fighters each team has, who  *)
(* is playing, the score and the cursors, and the functions that add,      *)
(* remove and share out fighters.                                          *)
(*                                                                         *)
(* A map state is a record; each function of the code that changes one is  *)
(* an operator that returns the changed record.  Where the code divides by *)
(* zero, or enters a loop it never leaves, the operator says so in the     *)
(* field "fault", and what it returns besides has no meaning.  Fighters    *)
(* are counted, not placed: maps are flat and a place is always found      *)
(* while max_fighters is not reached.                                      *)
(***************************************************************************)
EXTENDS Integers, SequencesExt

CONSTANTS
    Node, Cursor,    \* ids
    NoNode,          \* 0, the id that is none
    MAX_NB_TEAMS,    \* LW6MAP_MAX_NB_TEAMS: 10
    MAX_NB_CURSORS,  \* LW6MAP_MAX_NB_CURSORS: 26
    room_for_armies  \* places of the map where a fighter can stand

ASSUME MapStateAssumption ==
    /\ NoNode \notin Node /\ IsFiniteSet(Cursor)
    /\ MAX_NB_TEAMS \in Nat \ {0, 1}
    /\ {MAX_NB_CURSORS, room_for_armies} \subseteq Nat

Team == 0 .. MAX_NB_TEAMS - 1

IMin(a, b) == IF a < b THEN a ELSE b
IMax(a, b) == IF a > b THEN a ELSE b
percent(n, p) == \* the division of C truncates towards zero
    IF n >= 0 THEN (n * p) \div 100 ELSE -((-n * p) \div 100)
per100_2(n, p) == (n * p * p) \div 10000

\* The sum over the teams.
Total(f) ==
    LET upto[n \in 0 .. MAX_NB_TEAMS] ==
            IF n = 0 THEN 0 ELSE upto[n - 1] + f[n - 1]
    IN  upto[MAX_NB_TEAMS]

NO_TEAM == -1 \* LW6MAP_TEAM_COLOR_INVALID
Free == [node_id |-> NoNode, team_color |-> NO_TEAM]

NoFighters == [t \in Team |-> 0]
Nobody == [t \in Team |-> FALSE]

MapStateInit ==
    [fighters_per_team |-> NoFighters,
     frags |-> NoFighters,
     active |-> Nobody,
     offline |-> Nobody,
     respawn_round |-> NoFighters,
     cursors |-> [c \in Cursor |-> Free],
     fault |-> "none"]

MapStates ==
    [fighters_per_team : [Team -> Nat],
     frags : [Team -> Int],
     active : [Team -> BOOLEAN],
     offline : [Team -> BOOLEAN],
     respawn_round : [Team -> Nat],
     cursors : [Cursor -> {Free} \cup [node_id : Node, team_color : Team]],
     fault : {"none", "division by zero", "endless loop"}]

max_fighters(rules) == per100_2(room_for_armies, rules.total_armies_size)
single_army(rules) == per100_2(room_for_armies, rules.single_army_size)

active_fighters(ms) == Total(ms.fighters_per_team)
Playing(ms) == {t \in Team : ms.active[t]}
nb_teams(ms) == Cardinality(Playing(ms))
FreeColors(ms) == Team \ Playing(ms)

Faulty(ms, what) ==
    IF ms.fault = "none" THEN [ms EXCEPT !.fault = what] ELSE ms

-----------------------------------------------------------------------------
\* The cursors.

Enabled(ms) == {c \in Cursor : ms.cursors[c] # Free}
CursorsOf(ms, t) == {c \in Cursor : ms.cursors[c].team_color = t}

is_color_owned_by(ms, node, t) ==
    \A c \in CursorsOf(ms, t) : ms.cursors[c].node_id = node

cursor_enable(ms, node, c, t) ==
    IF ms.cursors[c] # Free \/ Cardinality(Enabled(ms)) >= MAX_NB_CURSORS THEN ms
    ELSE [ms EXCEPT !.cursors[c] = [node_id |-> node, team_color |-> t]]

\* Only the node that owns the cursor disables it.
cursor_disable(ms, node, c) ==
    IF ms.cursors[c].node_id # node THEN ms
    ELSE [ms EXCEPT !.cursors[c] = Free]

\* Every cursor of a team that is dead for good.
cursors_disable(ms, t) ==
    [ms EXCEPT !.cursors =
        [c \in Cursor |-> IF c \in CursorsOf(ms, t) THEN Free ELSE @[c]]]

-----------------------------------------------------------------------------
\* Removing fighters.

remove_team_fighters(ms, t, nb_fighters) ==
    [ms EXCEPT !.fighters_per_team[t] = @ - IMin(nb_fighters, @)]

\* The share of nb_fighters that each team has to give, rounded down.
Shares(ms, nb_fighters) ==
    [t \in Team |-> IF active_fighters(ms) = 0 THEN 0
                    ELSE (nb_fighters * ms.fighters_per_team[t])
                           \div active_fighters(ms)]

\* Mutant: a team may give its last fighter.
SlipWealthy(ms, share, t) == ms.fighters_per_team[t] > share[t]

\* Mutant: a team keeps two fighters.
GreedyWealthy(ms, share, t) == ms.fighters_per_team[t] > share[t] + 2

\* A team that may still give one more.
Wealthy(ms, share, t) == ms.fighters_per_team[t] > share[t] + 1

\* The loop that makes up what the rounding left, going round the teams from
\* nb_fighters on.  It has gone round for nothing when no team is wealthy.
ToppedUp(ms, nb_fighters) ==
    LET start == Shares(ms, nb_fighters)
        laps  == MAX_NB_TEAMS * (nb_fighters - Total(start) + 1)
        more(share, t) ==
            IF Total(share) < nb_fighters /\ Wealthy(ms, share, t)
            THEN [share EXCEPT ![t] = @ + 1]
            ELSE share
        after[i \in Nat] ==
            IF i = 0 THEN start
            ELSE more(after[i - 1], (nb_fighters + i - 1) % MAX_NB_TEAMS)
    IN  after[laps]

remove_fighters(ms, nb_fighters) ==
    LET share == ToppedUp(ms, nb_fighters)
    IN  IF Total(share) < nb_fighters
        THEN Faulty(ms, "endless loop")
        ELSE IF nb_fighters > active_fighters(ms) THEN ms
        ELSE [ms EXCEPT !.fighters_per_team = [t \in Team |-> @[t] - share[t]]]

-----------------------------------------------------------------------------
\* Sharing out the fighters of a team that goes away.

\* First in proportion of what the others have ...
Inherited(ms, t, i) ==
    (ms.fighters_per_team[i] * ms.fighters_per_team[t]) \div active_fighters(ms)

\* Mutant: every other colour inherits, active or not.
SlipDealt(ms, t, left, i) ==
    LET heirs == Team \ {t}
        rank  == Cardinality({h \in heirs : h < i})
    IN  IF i \notin heirs THEN 0
        ELSE left \div Cardinality(heirs)
               + (IF rank < left % Cardinality(heirs) THEN 1 ELSE 0)

\* ... then one by one, going round the other active teams.
Dealt(ms, t, left, i) ==
    LET heirs == Playing(ms) \ {t}
        rank  == Cardinality({h \in heirs : h < i})
    IN  IF i \notin heirs THEN 0
        ELSE left \div Cardinality(heirs)
               + (IF rank < left % Cardinality(heirs) THEN 1 ELSE 0)

Redistributed(ms, t) ==
    LET inherited == [i \in Team |-> IF i = t THEN 0 ELSE Inherited(ms, t, i)]
        left == ms.fighters_per_team[t] - Total(inherited)
    IN  [ms EXCEPT !.fighters_per_team =
            [i \in Team |-> IF i = t THEN 0
                            ELSE @[i] + inherited[i] + Dealt(ms, t, left, i)]]

cancel_team(ms, t) ==
    [ms EXCEPT !.active[t] = FALSE, !.offline[t] = FALSE, !.respawn_round[t] = 0]

\* A team is removed: the others inherit its fighters, but for those that
\* would make them larger than a single army.  The last team loses all its
\* fighters and stays.
remove_team_internal(ms, rules, t) ==
    LET others == nb_teams(ms) - 1
        all    == active_fighters(ms)
        trimmed == IF all \div others > single_army(rules)
                   THEN remove_team_fighters(ms, t,
                          all - single_army(rules) * others)
                   ELSE ms
    IN  IF ~ms.active[t] THEN ms
        ELSE IF others <= 0 THEN remove_fighters(ms, all)
        ELSE IF active_fighters(trimmed) = 0
             THEN Faulty(ms, "division by zero")
        ELSE cancel_team(Redistributed(trimmed, t), t)

-----------------------------------------------------------------------------
\* Adding a team.

\* How many fighters it gets: a single army, or when there is no room for one
\* the n-th part of what the map can hold; then its handicap.
Recruits(ms, rules, t) ==
    LET single == single_army(rules)
        wanted == IF single + active_fighters(ms) > max_fighters(rules)
                  THEN max_fighters(rules) \div (nb_teams(ms) + 1)
                  ELSE single
    IN  (wanted * rules.handicap[t]) \div 100

Excess(ms, rules, nb) == nb + active_fighters(ms) - max_fighters(rules)

\* Mutant: every team gives the whole excess.
SlipDecimated(ms, rules, nb) ==
    [ms EXCEPT !.fighters_per_team = [i \in Team |-> @[i] - Excess(ms, rules, nb)]]

\* The others make room: in proportion, then what the rounding left.
Decimated(ms, rules, nb) ==
    LET excess == Excess(ms, rules, nb)
        less == [ms EXCEPT !.fighters_per_team =
                    [i \in Team |->
                        @[i] - IMin((excess * @[i]) \div active_fighters(ms), @[i])]]
    IN  remove_fighters(less, Excess(less, rules, nb))

populate_team(ms, rules, t, nb) ==
    [ms EXCEPT
       !.fighters_per_team[t] =
           @ + IMin(nb, max_fighters(rules) - active_fighters(ms)),
       !.active[t] = TRUE, !.offline[t] = FALSE, !.respawn_round[t] = 0]

add_team_internal(ms, rules, t) ==
    LET nb == Recruits(ms, rules, t)
    IN  IF ms.active[t] THEN ms
        ELSE IF Excess(ms, rules, nb) <= 0 THEN populate_team(ms, rules, t, nb)
        ELSE IF active_fighters(ms) = 0 THEN Faulty(ms, "division by zero")
        ELSE populate_team(Decimated(ms, rules, nb), rules, t, nb)

-----------------------------------------------------------------------------
\* The score.

ONE_NEGATIVE_POINT == 0
ONE_FOR_WINNERS_ALL_FOR_LOSER == 1
BALANCED == 2
PROPORTIONAL == 3

Alive(ms, t) == ms.fighters_per_team[t] > 0

\* Only the teams that are not offline are counted ...
Contenders(ms) == {t \in Playing(ms) : ~ms.offline[t]}
Winners(ms) == {t \in Contenders(ms) : Alive(ms, t)}
Losers(ms) == Contenders(ms) \ Winners(ms)

\* ... but every active team scores.
PointsOfMode1(ms, t) ==
    IF Alive(ms, t) THEN 1 ELSE -IMax(1, Cardinality(Winners(ms)))
PointsOfMode2(ms, rules, t) ==
    IF Alive(ms, t)
    THEN IMax(1, (rules.frags_to_distribute * ms.fighters_per_team[t])
                   \div active_fighters(ms))
    ELSE IF rules.frags_mode = BALANCED
         THEN -IMax(1, rules.frags_to_distribute \div Cardinality(Losers(ms)))
         ELSE 0

Points(ms, rules, dead, t) ==
    CASE rules.frags_mode = ONE_NEGATIVE_POINT ->
            IF t = dead THEN -1 ELSE 0
      [] rules.frags_mode = ONE_FOR_WINNERS_ALL_FOR_LOSER ->
            IF ms.active[t] THEN PointsOfMode1(ms, t) ELSE 0
      [] OTHER ->
            IF ms.active[t] /\ Winners(ms) # {} /\ Losers(ms) # {}
            THEN PointsOfMode2(ms, rules, t) ELSE 0

\* Points are added to those who do not lose, or taken from those who do not
\* win, one by one from the dead team on, until the total is zero.
Balance(delta, ms, dead, off) ==
    LET gap == IF off < 0 THEN -off ELSE off
        side(d, t) == ms.active[t] /\ (IF off < 0 THEN d[t] >= 0 ELSE d[t] <= 0)
        step(d, t) ==
            IF Total(d) # 0 /\ side(d, t)
            THEN [d EXCEPT ![t] = IF off < 0 THEN @ + 1 ELSE @ - 1]
            ELSE d
        after[i \in Nat] ==
            IF i = 0 THEN delta
            ELSE step(after[i - 1], (dead + i - 1) % MAX_NB_TEAMS)
    IN  after[MAX_NB_TEAMS * gap]

Faded(ms, rules) ==
    IF rules.frags_mode \in {BALANCED, PROPORTIONAL}
    THEN [t \in Team |-> IF ms.active[t]
                         THEN percent(ms.frags[t], rules.frags_fade_out)
                         ELSE ms.frags[t]]
    ELSE ms.frags

\* Mutant: those that were dead already do not score.
SlipScored(ms, rules, fair) ==
    [t \in Team |-> Faded(ms, rules)[t] + (IF ms.offline[t] THEN 0 ELSE fair[t])]

\* Active teams score, those that were dead already too ...
Scored(ms, rules, fair) == [t \in Team |-> Faded(ms, rules)[t] + fair[t]]

\* ... and those who have just died go offline.
frag(ms, rules, dead) ==
    LET delta == [t \in Team |-> Points(ms, rules, dead, t)]
        fair  == IF rules.frags_mode \in {ONE_FOR_WINNERS_ALL_FOR_LOSER, BALANCED}
                 THEN Balance(delta, ms, dead, Total(delta))
                 ELSE delta
        scored == [ms EXCEPT
            !.frags = Scored(ms, rules, fair),
            !.offline = [t \in Team |-> @[t] \/ t \in Losers(ms)]]
    IN  IF rules.frags_mode \in {ONE_FOR_WINNERS_ALL_FOR_LOSER, BALANCED}
           /\ Total(fair) # 0
        THEN Faulty(ms, "endless loop")
        ELSE scored
=============================================================================
