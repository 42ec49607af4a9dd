------------------------------- MODULE MCJoin -------------------------------
(***************************************************************************)
(* A server and two clients that come one after the other, or together.    *)
(* Left reads; of what is sent, only what flows towards it is followed: no *)
(* node sends Left anything else for what the others receive from it.      *)
(* Only Right times out: who has is not in the game.                       *)
(***************************************************************************)
EXTENDS Join, TLC

CONSTANTS
  Left, Right, ServerSerials, LeftSerials, RightSerials

MCNode      == {Server, Left, Right}
MCTentacle  == UNION {{<<Server, n>>, <<n, Server>>} : n \in {Left, Right}}
MCMaxSerial == (Server :> ServerSerials) @@ (Left :> LeftSerials) @@ (Right :> RightSerials)

\* What the theorems assume: no window moves, and META is put for every newcomer.
ASSUME ComingAssumed == OneWindow /\ NbMeta # 0

\* The rounds each node writes for.
Rounds == (Server :> {2, 3}) @@ (Left :> {3}) @@ (Right :> {2, 3})

\* One message for each of these rounds, from the one n came in.
Goes(n) ==
  LET open == {q \in Rounds[n] : /\ q >= local_seq_last[n]
                                /\ \A s \in MessagesOf(n) : written[n][s].seq # q}
  IN  local_seq_last'[n] \in open /\ \A q \in open : local_seq_last'[n] <= q

\* The server keeps the serials it needs to tell of those who are to come.
LeavesRoom ==
  Len(written'[Server]) + NbMeta * Cardinality(Node \ known[Server]) <= ServerSerials

NextComing ==
  \/ JoinNetwork
  \/ \E c \in Client : ClientJoin(c) \/ AskToJoin(c)
  \/ TimeOut(Right)
  \/ \E n \in Node : WriteInGame(n) /\ Goes(n) /\ LeavesRoom
  \/ SendToKnown(Right, Server) \/ SendToKnown(Server, Left)
  \/ ReadInGame(Left)

\* A client that has connected asks, and a JOIN and its answer arrive: WF of
\* AskToJoin, RecvJoin and RecvAnswer, that are enabled until they are taken.
Pending(p) == p.cmd = "JOIN" /\ (p.seq = 0 \/ p.to \in Listening)

ComingSpec ==
  /\ JoinInit /\ [][NextComing]_joinVars
  /\ \A c \in Client :
       /\ []<>(status[c] # "connecting")
       /\ []<>~(\E p \in net : c \in {p.from, p.to} /\ Pending(p))
=============================================================================
