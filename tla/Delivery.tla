------------------------------ MODULE Delivery ------------------------------
(***************************************************************************)
(* What lw6tsk_loader_pop promises (tsk-loader.c:547-551): for the last    *)
(* request pushed, and for no other, it hands over the level alone first,  *)
(* if it is asked early enough, then the level with its game_struct and    *)
(* game_state.  Each comes at most once, and the level alone never comes   *)
(* after the whole.                                                        *)
(***************************************************************************)
EXTENDS Sequences

CONSTANTS
    Request,  \* what the main thread may ask for
    None      \* no request

VARIABLES
    wanted,   \* the last request pushed, None at first
    given     \* what was handed over since, in order

vars == <<wanted, given>>

Level(r) == [what |-> "level", of |-> r, bench_value |-> 0]
Game(r) == [what |-> "game", of |-> r, bench_value |-> r.bench_value]

Init == wanted = None /\ given = <<>>

Want(r) == wanted' = r /\ given' = <<>>

GiveLevel ==
    /\ wanted \in Request
    /\ given = <<>>
    /\ given' = <<Level(wanted)>>
    /\ UNCHANGED wanted

GiveGame ==
    /\ wanted \in Request
    /\ given \in {<<>>, <<Level(wanted)>>}
    /\ given' = Append(given, Game(wanted))
    /\ UNCHANGED wanted

Next == \/ \E r \in Request : Want(r)
        \/ GiveLevel
        \/ GiveGame

Spec == Init /\ [][Next]_vars
=============================================================================
