------------------------------ MODULE MCPilot ------------------------------
(* A game from its first round to beyond its last: a command from before    *)
(* the game, which is refused, one at round 0, one at round 1, one at       *)
(* round 2 and a DUMP after it, and two at round 3.  The pilot is that of a *)
(* server, which has neither drafts nor display, or that of a player, who   *)
(* looks at the display, is told what is verified up to round 1 and has     *)
(* drafts for rounds 3 and 2, in this order: a draft that comes late.       *)
EXTENDS Pilot, TLC

C(s, r) == [seq |-> s, rank |-> r, dump |-> FALSE]
D(s) == [seq |-> s, rank |-> 9, dump |-> TRUE]

MCVerified == {C(1, 1), C(2, 1), C(3, 1), C(4, 1), D(4), C(5, 1), C(5, 2)}
MCDrafts == {C(4, 1), C(5, 1)}

VARIABLE server
MCvars == <<vars, server>>

NextServer ==
    /\ server
    /\ (\E w \in Worker : Work(w)) \/ Control \/ Freed
    /\ sent' = {}
NextPlayer ==
    /\ ~server
    /\ (\E w \in Worker : Work(w)) \/ Control \/ Watch
    /\ control' \notin {"backup", "free"} /\ fed' \in {0, 3}
    /\ C(4, 1) \in sent' => fed = 3 /\ C(5, 1) \in sent

MCNext == (NextServer \/ NextPlayer) /\ UNCHANGED server
MCInit == Init /\ server \in BOOLEAN
MCSpec == MCInit /\ [][MCNext]_MCvars /\ Fairness
=============================================================================
