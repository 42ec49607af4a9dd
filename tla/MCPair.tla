------------------------------- MODULE MCPair -------------------------------
(***************************************************************************)
(* A server and one joiner.                                                *)
(***************************************************************************)
EXTENDS Warehouse, TLC

CONSTANTS
  Joiner,
  ServerSerials, JoinerSerials, \* bounds: MaxSerial, node by node
  Readers                       \* the nodes whose game loop reads, in ReadSpec

MCNode      == {Server, Joiner}
MCTentacle  == {<<Server, Joiner>>, <<Joiner, Server>>}
MCMaxSerial == (Server :> ServerSerials) @@ (Joiner :> JoinerSerials)

\* What the theorems about reading assume.
ASSUME WindowAssumed == OneWindow

\* Without retransmission.  As net keeps every packet, whatever arrives thanks
\* to a MISS may arrive here as well, only later.  Reading at a node leaves what
\* that node sends unchanged.
NextRead ==
  \/ \E p \in net : RecvAtom(p)
  \/ \E n \in Node : Write(n) \/ Send(n)
  \/ \E n \in Readers : Read(n)

ReadSpec == Init /\ [][NextRead]_vars

\* Without reading: what arrives, what is missing and what is sent again.
NextAsk ==
  \/ \E p \in net : RecvAtom(p) \/ RecvMiss(p) \/ Lose(p)
  \/ \E n \in Node : Write(n) \/ Send(n) \/ Ask(n) \/ Hear(n)

AskSpec == Init /\ [][NextAsk]_vars

----------------------------------------------------------------------------
(* The poll loop of a node runs for ever: it sends what is left to send,   *)
(* and sends a MISS again once the delay that holds it back has passed.    *)
(* The network may lose any packet, but a packet that is sent again and    *)
(* again is received in the end, and so are the pings.                     *)

RecvAtomOf(o, s, n) ==
  \E p \in net : p.cmd # "MISS" /\ p.from = o /\ p.serial = s /\ p.to = n /\ RecvAtom(p)

RecvMissOf(o, lo, hi) ==
  \E p \in net : /\ p.cmd = "MISS" /\ p.id_from = o
                  /\ p.serial_min = lo /\ p.serial_max = hi /\ RecvMiss(p)

ToRecover == 1 .. ServerSerials

\* Stated for the atoms of the server, the only ones this instance loses.
RecoverFairness ==
  /\ WF_vars(SendAtoms(Server, Joiner))
  /\ WF_vars(PollMiss(Joiner, {}))
  /\ WF_vars(HearSerial(Joiner, Server, Len(written[Server])))
  /\ \A s \in ToRecover : SF_vars(RecvAtomOf(Server, s, Joiner))
  /\ \A lo \in ToRecover, hi \in ToRecover :
       lo <= hi /\ hi <= lo + MISS_MAX_RANGE => SF_vars(RecvMissOf(Server, lo, hi))

RecoverSpec == AskSpec /\ RecoverFairness

\* However many packets are lost, a node that has received one atom of a peer
\* ends up with all those the peer has written (MISS, invalidate, send again).
Recovered ==
  \A s \in ToRecover :
    (s <= Len(written[Server]) /\ Present(stacks[Joiner][Server]) # {})
      ~> s \in Present(stacks[Joiner][Server])

----------------------------------------------------------------------------
(* Without losses: every node sends, every packet arrives, and the game    *)
(* loop reads again and again.                                             *)

\* Where reading hands rounds over.  (WF of GetReferenceMsgs, spelled out so
\* that TLC need not compute the messages to know that it is enabled.)
ReferenceReady(n) ==
  /\ SomethingComplete(stacks[n])
  /\ WarehouseSeqReference(n, CalcAll(stacks[n])) > last_seq_reference[n]

Advances(n) == last_seq_reference'[n] > last_seq_reference[n]

CatchUpFairness ==
  /\ \A n, m \in Node : WF_vars(SendAtoms(n, m))
  /\ \A n \in Readers : []<>~ReferenceReady(n) \/ []<><<Advances(n)>>_vars
  /\ \A s \in 1 .. ServerSerials : WF_vars(RecvAtomOf(Server, s, Joiner))
  /\ \A s \in 1 .. JoinerSerials : WF_vars(RecvAtomOf(Joiner, s, Server))

CatchUpSpec == ReadSpec /\ CatchUpFairness

\* Once everybody has gone past a round, that round is handed over to every reader,
\* whatever the order its atoms came in (holes, late first fragments).
CaughtUp ==
  \A n \in Readers, q \in Seq0 .. MaxSeq - 1 :
    (\A o \in Node : local_seq_last[o] > q) ~> last_seq_reference[n] >= q
=============================================================================
