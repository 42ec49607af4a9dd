----------------------------- MODULE Warehouse -----------------------------
(***************************************************************************)
(* The warehouses of the nodes of a game (src/lib/dat/dat-warehouse.c) and *)
(* the part of the peer to peer layer that makes them exchange atoms       *)
(* (src/lib/p2p/p2p-node.c, p2p-recv.c).                                   *)
(*                                                                         *)
(* Every node keeps one stack per node of the game.  It writes its own     *)
(* messages in its own stack, sends the atoms it has to its peers, stores  *)
(* the atoms it receives in the stack of the node that wrote them (not of  *)
(* the node that sent them), and asks again for what it misses.  From its  *)
(* stacks it computes the reference seq, the last round for which nobody   *)
(* can add a message any more, and hands over once and for all the         *)
(* messages of the rounds up to it.                                        *)
(*                                                                         *)
(* The network loses, duplicates and reorders packets: a packet stays in   *)
(* net once received, and may be lost at any time.  The state starts where *)
(* the JOIN handshake has left it: everybody is registered everywhere, and *)
(* the server has written its META messages.                               *)
(***************************************************************************)
EXTENDS Stack, Sequences

CONSTANTS
  Server,    \* the node the others have joined
  Tentacle,  \* pairs of nodes connected to each other
  Seq0,      \* the seq the server was started with
  NbMeta,    \* META messages the server wrote (meta-nb-duplicates, 5)
  MaxSerial, \* bound: how many atoms each node writes
  MaxSeq,    \* bound: the last seq a node writes a message for
  MaxOrder,  \* bound: atoms in a message
  Lossy      \* whether packets in flight get lost

ASSUME ConfigAssumption ==
  /\ Server \in Node
  /\ Tentacle \subseteq Node \X Node
  /\ \A t \in Tentacle : <<t[2], t[1]>> \in Tentacle /\ t[1] # t[2]
  /\ Seq0 \in Nat /\ Seq0 > SEQ_START
  /\ NbMeta \in 0 .. MAX_NB_BLOCKS * NB_ATOMS_PER_BLOCK
  /\ MaxSerial \in [Node -> Nat]
  /\ MaxSeq \in Nat
  /\ MaxOrder \in 0 .. (BLOCK_DELTA_MAX - 1) * NB_ATOMS_PER_BLOCK
  /\ Lossy \in BOOLEAN

VARIABLES
  stacks,             \* stacks[n][o]: what n has of what o wrote
  local_seq_last,     \* local_seq_last[n]: seq of the last message n wrote
  last_seq_reference, \* last_seq_reference[n]: rounds already handed over at n
  net,                \* packets in flight
  written,            \* history: written[o][s], the atom o wrote at serial s
  delivered,          \* history: <<o, s>> in delivered[n] when the message of
                      \* o that begins at serial s was handed over at n
  chain               \* history: chain[n][o], the serial from which n has
                      \* followed what o wrote without a hole, 0 at first

vars == <<stacks, local_seq_last, last_seq_reference, net, written, delivered, chain>>

Peers(n) == {m \in Node : <<n, m>> \in Tentacle}

----------------------------------------------------------------------------
(* What travels.                                                           *)

AtomPacket(to, from, serial, atom) ==
  [cmd |-> atom.type, to |-> to, from |-> from, serial |-> serial, atom |-> atom]

MissPacket(to, id_from, id_to, st) ==
  [cmd |-> "MISS", to |-> to, id_from |-> id_from, id_to |-> id_to,
   serial_min |-> st.serial_miss_min, serial_max |-> st.serial_miss_max]

----------------------------------------------------------------------------
(* The seqs of a whole warehouse, given as the function of its stacks.     *)

SlipWarehouseSeqReference(n, w) == \* who has said nothing does not count
  Max2(MinOr({SeqReference(w[o]) : o \in Node} \ {SEQ_INVALID}, SEQ_INVALID), SEQ_INVALID)

\* _lw6dat_warehouse_get_seq_reference: a node that has said nothing yet
\* counts for the seq_0 it was registered with.
WarehouseSeqReference(n, w) ==
  LET Of(o) == IF SeqReference(w[o]) = SEQ_INVALID
               THEN w[n].seq_0s[o] - 1 ELSE SeqReference(w[o])
  IN  Max2(Min({Of(o) : o \in Node}), SEQ_INVALID)

WarehouseSeqDraft(w) == Max({SEQ_START} \cup {SeqDraft(w[o]) : o \in Node})
WarehouseSeqMax(w)   == Max({SeqMax(w[o]) : o \in Node})
WarehouseSeqMin(w) ==
  MinOr({SeqMin(w[o]) : o \in Node} \ {SEQ_INVALID}, SEQ_INVALID)

CalcAll(w) == [o \in Node |-> Calc(w[o])]
SomethingComplete(w) == \E o \in Node : CalcFinds(w[o])

\* The follow-up without a hole begins again where the stack now begins when
\* the calculation could not resume from the last reference.
ChainAfter(n, w) ==
  [o \in Node |-> IF w[o].serial_min > w[o].serial_reference /\ NoHoleHeads(w[o]) # {}
                  THEN w[o].serial_min ELSE chain[n][o]]

----------------------------------------------------------------------------
(* The state after the JOIN handshake.                                     *)

\* lw6dat_warehouse_register_node and _set_local_seq_0: a joiner registers the
\* server with its own local_seq_last, which is still SEQ_START.
Seq0Of(n, o) == IF o = Server /\ n # Server THEN SEQ_START ELSE Seq0

Registered(n) == [StackInit(SERIAL_START) EXCEPT !.seq_0s = [o \in Node |-> Seq0Of(n, o)]]

MetaAtom == [type |-> META, seq |-> Seq0, order_i |-> 0, order_n |-> 1]

\* The stack of node o at node n, holding the META messages from 1 to nb.
Joined(n, nb, send_flag) ==
  IF nb = 0 THEN Registered(n)
  ELSE [Registered(n) EXCEPT
          !.atoms = [s \in 1 .. nb |-> [atom |-> MetaAtom, send_flag |-> send_flag,
                                        sent_status |-> {}, update_msg_called |-> FALSE]],
          !.serial_min = 1, !.serial_max = nb]

\* Only the META messages make a joiner know of the other joiners.
HasMeta(n) == Node # {n, Server}

Init ==
  /\ stacks = [n \in Node |-> [o \in Node |->
       IF o = Server /\ (n = Server \/ HasMeta(n))
       THEN Joined(n, NbMeta, Node \ {o}) ELSE Registered(n)]]
  /\ local_seq_last = [n \in Node |-> Seq0]
  /\ last_seq_reference = [n \in Node |-> SEQ_INVALID - 1]
  /\ net = {}
  /\ written = [n \in Node |-> IF n = Server THEN [s \in 1 .. NbMeta |-> MetaAtom] ELSE <<>>]
  /\ delivered = [n \in Node |-> {}]
  /\ chain = [n \in Node |-> [o \in Node |-> SERIAL_INVALID]]

----------------------------------------------------------------------------
(* Writing and sending.                                                    *)

\* lw6dat_warehouse_put_local_msg.  The game loop never goes back in time: it
\* writes NOP at local_seq_last and commands in the rounds to come.
PutLocalMsg(n, seq, order_n) ==
  /\ seq >= local_seq_last[n]
  /\ Len(written[n]) + order_n <= MaxSerial[n]
  /\ stacks' = [stacks EXCEPT ![n][n] =
                  PutMsg(@, n, DATA, seq, order_n, Node \ {n})]
  /\ local_seq_last' = [local_seq_last EXCEPT ![n] = seq]
  /\ written' = [written EXCEPT ![n] = @ \o
                   [i \in 1 .. order_n |->
                      [type |-> DATA, seq |-> seq,
                       order_i |-> i - 1, order_n |-> order_n]]]
  /\ UNCHANGED <<last_seq_reference, net, delivered, chain>>

SlipSendAtoms(n, peer) == \* what is forwarded is sent as one's own
  /\ peer \in Peers(n)
  /\ net' = net \cup UNION {
       {AtomPacket(peer, n, s, AtomAt(stacks[n][o], s)) : s \in ToSend(stacks[n][o], peer)} :
          o \in Node \ {peer}}
  /\ stacks' = [stacks EXCEPT ![n] =
       [o \in Node |-> IF o = peer THEN @[o] ELSE Sent(@[o], peer)]]
  /\ UNCHANGED <<local_seq_last, last_seq_reference, written, delivered, chain>>

\* _poll_step10_send_atoms for one tentacle: everything of every stack but the
\* one of the peer itself that was not sent to it yet.
SendAtoms(n, peer) ==
  /\ peer \in Peers(n)
  /\ net' = net \cup UNION {
       {AtomPacket(peer, o, s, AtomAt(stacks[n][o], s)) : s \in ToSend(stacks[n][o], peer)} :
          o \in Node \ {peer}}
  /\ stacks' = [stacks EXCEPT ![n] =
       [o \in Node |-> IF o = peer THEN @[o] ELSE Sent(@[o], peer)]]
  /\ UNCHANGED <<local_seq_last, last_seq_reference, written, delivered, chain>>

\* DATA or META is received: lw6dat_warehouse_put_atom_str.
RecvAtom(p) ==
  /\ p.cmd \in {DATA, META}
  /\ stacks' = [stacks EXCEPT ![p.to][p.from] =
                  PutAtom(@, p.to, p.serial, p.atom, Node \ {p.from})]
  /\ UNCHANGED <<local_seq_last, last_seq_reference, net, written, delivered, chain>>

Lose(p) ==
  /\ Lossy
  /\ net' = net \ {p}
  /\ UNCHANGED <<stacks, local_seq_last, last_seq_reference, written, delivered, chain>>

----------------------------------------------------------------------------
(* Asking again.                                                           *)

\* _poll_step12_miss_list: a MISS per stack that lacks something goes to all
\* the peers, but for those held back because one was sent shortly before.
PollMiss(n, heldback) ==
  LET searched == [o \in Node |-> IF o = n THEN stacks[n][o] ELSE GetMiss(stacks[n][o])]
      missing  == {o \in Node \ {n} : HasMiss(searched[o])} \ heldback
  IN  /\ stacks' = [stacks EXCEPT ![n] = searched]
      /\ net' = net \cup {MissPacket(peer, o, n, searched[o]) : peer \in Peers(n), o \in missing}
      /\ UNCHANGED <<local_seq_last, last_seq_reference, written, delivered, chain>>

\* MISS is received: lw6dat_warehouse_miss_invalidate.  Whoever the atoms are
\* from, all the stacks but the one of the asking node are affected.
RecvMiss(p) ==
  /\ p.cmd = "MISS"
  /\ stacks' = [stacks EXCEPT ![p.to] =
       [o \in Node |-> IF o = p.id_to THEN @[o]
                       ELSE MissInvalidate(@[o], p.id_to, p.serial_min, p.serial_max)]]
  /\ UNCHANGED <<local_seq_last, last_seq_reference, net, written, delivered, chain>>

\* FOO or BAR is received from a peer, with the last serial the peer had
\* written when it sent it: lw6dat_warehouse_update_serial_miss_max.
HearSerial(n, peer, serial) ==
  /\ peer \in Peers(n)
  /\ serial \in 0 .. Len(written[peer])
  /\ stacks' = [stacks EXCEPT ![n][peer] = UpdateSerialMissMax(@, serial)]
  /\ UNCHANGED <<local_seq_last, last_seq_reference, net, written, delivered, chain>>

----------------------------------------------------------------------------
(* Reading.                                                                *)

\* The rounds up to ref are handed over, if ref has moved.
HandOver(n, ref) ==
  LET w   == CalcAll(stacks[n])
      new == last_seq_reference[n] + 1 .. ref
      Cleared(o) == ClearRecent(w[o], ref)
  IN  /\ SomethingComplete(stacks[n])
      /\ ref > last_seq_reference[n]
      /\ stacks' = [stacks EXCEPT ![n] = [o \in Node |-> Popped(Cleared(o), new, TRUE)]]
      /\ delivered' = [delivered EXCEPT ![n] = @ \cup
           UNION {{<<o, h>> : h \in MsgList(Cleared(o), new, TRUE)} : o \in Node}]
      /\ last_seq_reference' = [last_seq_reference EXCEPT ![n] = ref]
      /\ chain' = [chain EXCEPT ![n] = ChainAfter(n, stacks[n])]
      /\ UNCHANGED <<local_seq_last, net, written>>

\* The same when ref has not moved: only the calculation leaves a trace.
NothingNew(n, ref) ==
  /\ SomethingComplete(stacks[n])
  /\ ref <= last_seq_reference[n]
  /\ stacks' = [stacks EXCEPT ![n] = CalcAll(stacks[n])]
  /\ chain' = [chain EXCEPT ![n] = ChainAfter(n, stacks[n])]
  /\ UNCHANGED <<local_seq_last, last_seq_reference, net, written, delivered>>

\* lw6p2p_node_get_next_reference_msg, called until it answers nothing.
GetReferenceMsgs(n) == HandOver(n, WarehouseSeqReference(n, CalcAll(stacks[n])))
NoReferenceMsgs(n)  == NothingNew(n, WarehouseSeqReference(n, CalcAll(stacks[n])))

\* lw6p2p_node_get_next_draft_msg, called until it answers nothing: the
\* rounds after the reference are handed over as a draft, as they are now.
GetDraftMsgs(n) ==
  LET w == CalcAll(stacks[n])
      draft == last_seq_reference[n] + 1 .. WarehouseSeqDraft(w)
  IN  /\ SomethingComplete(stacks[n])
      /\ stacks' = [stacks EXCEPT ![n] = [o \in Node |-> Popped(w[o], draft, FALSE)]]
      /\ chain' = [chain EXCEPT ![n] = ChainAfter(n, stacks[n])]
      /\ UNCHANGED <<local_seq_last, last_seq_reference, net, written, delivered>>

\* The same without a single whole message in stock: the list is thrown away,
\* it is read only to widen the range to ask for.
GetNothing(n) ==
  LET all == WarehouseSeqMin(stacks[n]) .. WarehouseSeqMax(stacks[n])
  IN  /\ ~SomethingComplete(stacks[n])
      /\ stacks' = [stacks EXCEPT ![n] = [o \in Node |-> Popped(@[o], all, FALSE)]]
      /\ UNCHANGED <<local_seq_last, last_seq_reference, net, written, delivered, chain>>

----------------------------------------------------------------------------
Write(n) == \E seq \in Seq0 .. MaxSeq, order_n \in 1 .. MaxOrder : PutLocalMsg(n, seq, order_n)
Send(n)  == \E peer \in Node : SendAtoms(n, peer)
Ask(n)   == \E heldback \in SUBSET (Node \ {n}) : PollMiss(n, heldback)
Hear(n)  == \E peer \in Node : \E serial \in 0 .. Len(written[peer]) : HearSerial(n, peer, serial)
Read(n)  == GetReferenceMsgs(n) \/ NoReferenceMsgs(n) \/ GetDraftMsgs(n) \/ GetNothing(n)
Network  == \E p \in net : RecvAtom(p) \/ RecvMiss(p) \/ Lose(p)

Next == Network \/ \E n \in Node : Write(n) \/ Send(n) \/ Ask(n) \/ Hear(n) \/ Read(n)

Spec == Init /\ [][Next]_vars

\* No node writes more than one window of blocks holds, a million atoms in the
\* code: no window ever moves.
OneWindow ==
  /\ SerialN1(SERIAL_START) < INT_MAX
  /\ NbMeta < SerialN1(SERIAL_START)
  /\ \A o \in Node : MaxSerial[o] < SerialN1(SERIAL_START)

----------------------------------------------------------------------------
(* Properties.                                                             *)

Packet ==
  [cmd : {DATA, META}, to : Node, from : Node, serial : Nat, atom : Atom]
    \cup [cmd : {"MISS"}, to : Node, id_from : Node, id_to : Node,
          serial_min : Int, serial_max : Int]

StacksTyped ==
  /\ stacks = [n \in Node |-> [o \in Node |-> stacks[n][o]]]
  /\ \A n, o \in Node : IsStack(stacks[n][o])

\* The variables have the shapes the code gives them.
TypeOK ==
  /\ StacksTyped
  /\ local_seq_last \in [Node -> Int]
  /\ last_seq_reference \in [Node -> Int]
  /\ net \subseteq Packet
  /\ written \in [Node -> Seq(Atom)]
  /\ delivered \in [Node -> SUBSET (Node \X Int)]
  /\ chain \in [Node -> [Node -> Int]]

\* Whatever path an atom took, and however often it was relayed, a stack holds
\* at a serial what the owner of the stack wrote at that serial, and so does
\* every packet in flight (put_atom_str files atoms under their writer).
StoredAsWritten ==
  /\ \A n, o \in Node : \A s \in Present(stacks[n][o]) :
        s \in 1 .. Len(written[o]) /\ AtomAt(stacks[n][o], s) = written[o][s]
  /\ \A p \in net : p.cmd \in {DATA, META} =>
        p.serial \in 1 .. Len(written[p.from]) /\ p.atom = written[p.from][p.serial]

\* The messages of o that hold data, as the serials they begin at.
MessagesOf(o) ==
  {s \in 1 .. Len(written[o]) : written[o][s].order_i = 0 /\ written[o][s].type = DATA}

\* A round counts as reference at n only when every message anyone wrote for
\* it was handed over at n, for the writers n has followed since their first
\* atom (get_seq_reference, get_msg_list_by_seq).
ReferenceComplete ==
  \A n, o \in Node : chain[n][o] <= SERIAL_START =>
    \A s \in MessagesOf(o) :
      written[o][s].seq <= last_seq_reference[n] => <<o, s>> \in delivered[n]

\* A round that is reference somewhere is over for everybody: nobody can write
\* a message for it any more (the -1 of get_seq_reference, and seq_0s).
NoLateMessage ==
  \A n, o \in Node : last_seq_reference[n] < local_seq_last[o]

\* Seen from the rounds, the warehouses and the network are Lockstep: a round
\* that is handed over is over, is handed over once, and is complete for the
\* writers followed from their first atom on.
Message(o, s) == <<s, written[o][s].seq>>

Abstract == INSTANCE Lockstep WITH
  Writer     <- Node,
  FirstRound <- Seq0,
  Nothing    <- SEQ_INVALID - 1,
  round      <- local_seq_last,
  sent       <- [o \in Node |-> {Message(o, s) : s \in MessagesOf(o)}],
  reference  <- last_seq_reference,
  handed     <- [n \in Node |-> {<<m[1], Message(m[1], m[2])>> : m \in delivered[n]}],
  followed   <- [n \in Node |-> {o \in Node : chain[n][o] <= SERIAL_START}]

ImplementsLockstep == Abstract!LockstepSpec

\* When a MISS leaves, it asks for nothing but atoms that were written, whatever
\* the writer has announced since, and the first and the last of them are
\* missing.
MissIsRight ==
  [][\A p \in net' \ net : p.cmd = "MISS" =>
       /\ p.serial_min .. p.serial_max \subseteq 1 .. Len(written[p.id_from])
       /\ {p.serial_min, p.serial_max} \cap Present(stacks[p.id_to][p.id_from]) = {}]_vars

\* The blind reading of GetNothing, whose list is thrown away, never pops a
\* message ("strange, got messages when one could not figure out what
\* seq_draft was").
BlindReadIsEmpty ==
  \A n, o \in Node : ~SomethingComplete(stacks[n]) =>
    MsgList(stacks[n][o],
            WarehouseSeqMin(stacks[n]) .. WarehouseSeqMax(stacks[n]), FALSE) = {}
=============================================================================
