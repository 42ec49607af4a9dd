-------------------------------- MODULE Join --------------------------------
(***************************************************************************)
(* How nodes get into a game: client_join (src/lib/p2p/p2p-node.c), the    *)
(* handlers of JOIN and META (p2p-recv.c), the registration of nodes in    *)
(* the warehouse (src/lib/dat/dat-warehouse.c).  Warehouse begins where    *)
(* this ends; its actions on stacks are used here by the nodes that are    *)
(* in, while others come.                                                  *)
(*                                                                         *)
(* A client clears everything, sends JOIN with seq 0 and waits.  The server *)
(* registers it at its own local seq, answers with this seq and its last   *)
(* serial, and writes META messages that tell whoever receives them which  *)
(* nodes there are.  Until META has come, the atoms of a newcomer are      *)
(* refused.                                                                *)
(*                                                                         *)
(* The properties about rounds hold as long as no answer to JOIN comes     *)
(* twice and no META overtakes another (Redundant, Overtakes).             *)
(***************************************************************************)
EXTENDS Warehouse

CONSTANTS
  Redundant, \* whether a copy of a JOIN may come late, after another one
  Overtakes  \* whether a META may be received before an earlier one

ASSUME JoinAssumption ==
  /\ Redundant \in BOOLEAN /\ Overtakes \in BOOLEAN
  /\ 1 <= (BLOCK_DELTA_MAX - 1) * NB_ATOMS_PER_BLOCK \* there is room for META

VARIABLES
  known,  \* known[n]: the nodes registered at n
  seq_0,  \* seq_0[n][o]: seq_0 of the stack of o at n
  meta,   \* meta[s]: what the META message at serial s of the server lists
  status  \* status[c]: how far client_join is at c

membership == <<known, seq_0, meta, status>>
joinVars == <<vars, membership>>

Client == Node \ {Server}
InGame == {Server} \cup {c \in Client : status[c] = "in"}

\* Those who have tentacles.
Listening == {Server} \cup {c \in Client : status[c] # "out"}

\* seq_0 of a warehouse that serves or has joined nothing.
NODE_DEFAULT_SEQ_0 == 0

----------------------------------------------------------------------------
(* Registration.                                                           *)

\* _lw6dat_stack_shift: a stack begun at new_serial_0, with the atoms from
\* there on.  It takes the place of st only if it goes up, in serial and in seq,
\* and if it has its first atom.
StackShift(st, st_seq_0, new_serial_0, new_seq_0) ==
  LET kept == {s \in Present(st) : s >= new_serial_0}
  IN  IF /\ new_serial_0 >= st.serial_0_real /\ new_seq_0 >= st_seq_0
         /\ <<new_serial_0, new_seq_0>> # <<st.serial_0_real, st_seq_0>>
         /\ new_serial_0 \in kept /\ AtomAt(st, new_serial_0).seq <= new_seq_0
      THEN [StackInit(new_serial_0) EXCEPT
              !.atoms = [s \in kept |->
                 [st.atoms[s] EXCEPT !.sent_status = {}, !.update_msg_called = FALSE]],
              !.serial_min = Min(kept), !.serial_max = Max(kept)]
      ELSE st

\* What is registered at a node: who, with which stacks.
Registry(n) == [ids |-> known[n], stacks |-> stacks[n], seq_0 |-> seq_0[n]]

\* _lw6dat_warehouse_register_node, at node n.
RegisterNode(r, n, id, serial, seq) ==
  LET serial_0 == Max2(serial, SERIAL_START)
      fresh    == id \notin r.ids
      st       == IF fresh THEN StackInit(serial_0)
                  ELSE StackShift(r.stacks[id], r.seq_0[id], serial_0, seq)
      begun    == [r.stacks EXCEPT ![id] = st]
      \* A new stack copies from the local one what the others need no more.
      limit(o, t) == Max({begun[o].seq_0s[t]}
                           \cup (IF t = id THEN {seq} ELSE {})
                           \cup (IF o = id THEN {begun[n].seq_0s[t]} ELSE {}))
  IN  [ids    |-> r.ids \cup {id},
       stacks |-> [o \in Node |->
          IF o \notin r.ids \cup {id} THEN begun[o]
          ELSE [begun[o] EXCEPT !.seq_0s = [t \in Node |-> limit(o, t)],
                                !.serial_min_to_send[id] = Min2(@, serial_0)]],
       seq_0  |-> [r.seq_0 EXCEPT ![id] =
                     IF fresh \/ st # r.stacks[id] THEN seq ELSE @]]

\* Those of a list of <<id, serial, seq>> that are not registered yet.
RegisterNew(r, n, list) ==
  FoldSet(LAMBDA x, acc : IF x[1] \in acc.ids THEN acc
                          ELSE RegisterNode(acc, n, x[1], x[2], x[3]), r, list)

\* _lw6dat_warehouse_set_local_seq_0, for the stacks of node n.
SetLocalSeq0(r, n, seq) ==
  [r EXCEPT !.stacks = [o \in Node |->
     IF o \in r.ids THEN [@[o] EXCEPT !.seq_0s[n] = seq] ELSE @[o]]]

Record(n, r) ==
  /\ stacks' = [stacks EXCEPT ![n] = r.stacks]
  /\ known'  = [known EXCEPT ![n] = r.ids]
  /\ seq_0'  = [seq_0 EXCEPT ![n] = r.seq_0]

\* The registry of a node that _lw6p2p_node_disconnect has cleared.
Cleared(n) ==
  [ids |-> {n}, stacks |-> [o \in Node |-> StackInit(SERIAL_START)],
   seq_0 |-> [o \in Node |-> IF o = n THEN NODE_DEFAULT_SEQ_0 ELSE SEQ_INVALID]]

\* At first the server has started (lw6p2p_node_server_start), and it is alone.
JoinInit ==
  /\ stacks = [n \in Node |->
       IF n = Server THEN SetLocalSeq0(Cleared(n), n, Seq0).stacks ELSE Cleared(n).stacks]
  /\ known = [n \in Node |-> Cleared(n).ids]
  /\ seq_0 = [n \in Node |-> Cleared(n).seq_0]
  /\ local_seq_last = [n \in Node |-> IF n = Server THEN Seq0 ELSE SEQ_START]
  /\ last_seq_reference = [n \in Node |-> SEQ_INVALID - 1]
  /\ net = {}
  /\ written = [n \in Node |-> <<>>]
  /\ delivered = [n \in Node |-> {}]
  /\ chain = [n \in Node |-> [o \in Node |-> SERIAL_INVALID]]
  /\ meta = <<>>
  /\ status = [c \in Client |-> "out"]

----------------------------------------------------------------------------
(* JOIN.                                                                   *)

JoinPacket(to, from, seq, serial) ==
  [cmd |-> "JOIN", to |-> to, from |-> from, seq |-> seq, serial |-> serial]

\* A JOIN is sent over every connection there is: when copies may come late, it
\* stays in flight.
Received(p) == IF Redundant THEN net ELSE net \ {p}

\* _lw6p2p_node_client_join begins: everything is cleared.  It is called once: a
\* server that has registered a node does not answer it any more.
ClientJoin(c) ==
  /\ status[c] = "out"
  /\ Record(c, Cleared(c))
  /\ local_seq_last' = [local_seq_last EXCEPT ![c] = SEQ_START]
  /\ last_seq_reference' = [last_seq_reference EXCEPT ![c] = SEQ_INVALID - 1]
  /\ delivered' = [delivered EXCEPT ![c] = {}]
  /\ chain' = [chain EXCEPT ![c] = [o \in Node |-> SERIAL_INVALID]]
  /\ status' = [status EXCEPT ![c] = "connecting"]
  /\ UNCHANGED <<net, written, meta>>

\* Once data was exchanged, or after join_delay, it asks to be let in.
AskToJoin(c) ==
  /\ status[c] = "connecting"
  /\ net' = net \cup {JoinPacket(Server, c, 0, stacks[c][c].serial_max)}
  /\ status' = [status EXCEPT ![c] = "asking"]
  /\ UNCHANGED <<stacks, local_seq_last, last_seq_reference, written, delivered, chain,
                 known, seq_0, meta>>

\* join_delay is over and there was no answer.
TimeOut(c) ==
  /\ status[c] = "asking"
  /\ status' = [status EXCEPT ![c] = "failed"]
  /\ UNCHANGED <<vars, known, seq_0, meta>>

SlipMetaGet(w, ids, seq) == \* the next seq is the first one
  {<<o, Seq2Serial(w[o], seq + 1), seq + 1>> : o \in ids}

SlipMetaFrom(w, ids, seq) == \* whatever was written before is left out
  {<<o, Max2(w[o].serial_max, SERIAL_START), seq>> : o \in ids}

\* What a META message lists: every registered node, from the message of seq on.
MetaGet(w, ids, seq) ==
  LET lowest == MinOr({w[o].seq_0s[o] : o \in ids} \ {SEQ_INVALID}, SEQ_INVALID)
      from   == Max2(seq, lowest)
  IN  {<<o, Seq2Serial(w[o], from), from>> : o \in ids}

\* lw6dat_warehouse_meta_put, called k times: the local stack, and the messages.
MetaPuts(r, n, seq) ==
  LET puts[k \in 0 .. NbMeta] ==
        IF k = 0 THEN [st |-> r.stacks[n], lists |-> <<>>]
        ELSE LET w == [r.stacks EXCEPT ![n] = puts[k - 1].st]
             IN  [st    |-> PutMsg(w[n], n, META, seq, 1, Node \ {n}),
                  lists |-> Append(puts[k - 1].lists, MetaGet(w, r.ids, seq))]
  IN  puts[NbMeta]

\* JOIN with seq 0 is received: a newcomer is registered and answered, anyone
\* else is not.
RecvJoin(p) ==
  /\ p.cmd = "JOIN" /\ p.seq = 0
  /\ UNCHANGED <<local_seq_last, last_seq_reference, delivered, chain, status>>
  /\ IF p.from \in known[p.to]
     THEN net' = Received(p) /\ UNCHANGED <<stacks, written, known, seq_0, meta>>
     ELSE LET n    == p.to
              seq  == local_seq_last[n]
              r    == RegisterNode(Registry(n), n, p.from, p.serial, seq)
              puts == MetaPuts(r, n, seq)
          IN  /\ Len(written[n]) + NbMeta <= MaxSerial[n]
              /\ net' = Received(p) \cup
                   {JoinPacket(p.from, n, seq, stacks[n][n].serial_max)}
              /\ Record(n, [r EXCEPT !.stacks[n] = puts.st])
              /\ written' = [written EXCEPT ![n] = @ \o
                   [k \in 1 .. NbMeta |-> [MetaAtom EXCEPT !.seq = seq]]]
              /\ meta' = [s \in 1 .. Len(written'[n]) |->
                   IF s \in DOMAIN meta THEN meta[s]
                   ELSE IF s > Len(written[n]) THEN puts.lists[s - Len(written[n])] ELSE {}]

SlipAnswered(c) == \* the server is known already, thanks to META
  IF status[c] = "asking" /\ known[c] = {c} THEN "in" ELSE status[c]

\* joined is set: client_join ends, if it has not given up.
Answered(c) == IF status[c] = "asking" THEN "in" ELSE status[c]

\* JOIN with another seq is received: a client that has called client_join takes
\* the server in, and begins at that seq.  (The list of peers that comes along is
\* not looked at: lw6nod_info_update drops it, so process_join finds nobody.)
RecvAnswer(p) ==
  /\ p.cmd = "JOIN" /\ p.seq # 0 /\ p.to \in Listening
  /\ LET c      == p.to
         server == RegisterNode(Registry(c), c, p.from, p.serial, local_seq_last[c])
     IN  /\ Record(c, SetLocalSeq0(server, c, p.seq))
         /\ local_seq_last' = [local_seq_last EXCEPT ![c] = Max2(p.seq, @)]
         /\ status' = [status EXCEPT ![c] = Answered(c)]
  /\ net' = Received(p)
  /\ UNCHANGED <<last_seq_reference, written, delivered, chain, meta>>

----------------------------------------------------------------------------
(* DATA, META and the rest, while nodes come.                              *)

\* An atom of a node that is not registered is refused.
Kept(p) ==
  IF p.from \notin known[p.to] THEN stacks[p.to]
  ELSE [stacks[p.to] EXCEPT ![p.from] = PutAtom(@, p.to, p.serial, p.atom, Node \ {p.from})]

\* Who is listed by the META message at serial s.
Listed(s) == {x[1] : x \in meta[s]}

\* Nobody is left whom p.to should know from an earlier META message.
InOrder(p) ==
  \A s \in DOMAIN meta :
    s < p.serial /\ p.to \in Listed(s) => Listed(s) \subseteq known[p.to]

\* DATA or META is received; META is taken into account even when refused.
RecvAtomOrRefuse(p) ==
  /\ p.cmd \in {DATA, META} /\ p.to \in Listening
  /\ p.cmd = META => Overtakes \/ InOrder(p)
  /\ LET kept == [Registry(p.to) EXCEPT !.stacks = Kept(p)]
     IN  Record(p.to, IF p.cmd = META THEN RegisterNew(kept, p.to, meta[p.serial]) ELSE kept)
  /\ UNCHANGED <<local_seq_last, last_seq_reference, net, written, delivered, chain,
                 meta, status>>

\* Nothing is sent to a peer that is not registered: its index is -1, which
\* makes a flag no atom has.
SendToKnown(n, peer) ==
  peer \in known[n] /\ SendAtoms(n, peer) /\ UNCHANGED membership

WriteInGame(n) == n \in InGame /\ Write(n) /\ UNCHANGED membership

SlipKnownReference(n) == \* a silent node is taken to have said its first round
  LET w     == CalcAll(stacks[n])
      Of(o) == IF SeqReference(w[o]) = SEQ_INVALID THEN w[n].seq_0s[o] ELSE SeqReference(w[o])
  IN  Max2(Min({Of(o) : o \in known[n]}), SEQ_INVALID)

\* _lw6dat_warehouse_get_seq_reference counts the stacks of registered nodes.
KnownReference(n) ==
  LET w     == CalcAll(stacks[n])
      Of(o) == IF SeqReference(w[o]) = SEQ_INVALID
               THEN w[n].seq_0s[o] - 1 ELSE SeqReference(w[o])
  IN  Max2(Min({Of(o) : o \in known[n]}), SEQ_INVALID)

ReadInGame(n) ==
  /\ n \in InGame
  /\ HandOver(n, KnownReference(n)) \/ NothingNew(n, KnownReference(n))
  /\ UNCHANGED membership

----------------------------------------------------------------------------
JoinNetwork ==
  \E p \in net : RecvJoin(p) \/ RecvAnswer(p) \/ RecvAtomOrRefuse(p)

JoinNext ==
  \/ JoinNetwork
  \/ \E c \in Client : ClientJoin(c) \/ AskToJoin(c) \/ TimeOut(c)
  \/ \E n \in Node : WriteInGame(n) \/ ReadInGame(n) \/ \E peer \in Node : SendToKnown(n, peer)

JoinSpec == JoinInit /\ [][JoinNext]_joinVars

----------------------------------------------------------------------------
(* Properties.                                                             *)

\* n has followed everybody it knows from the first serial it was told.
Follows(n) == \A o \in known[n] : chain[n][o] <= stacks[n][o].serial_0_real

\* The round a node plays, or will begin with once the answer has reached it.
PlaysAt(o) == IF o \in InGame THEN local_seq_last[o] ELSE stacks[Server][Server].seq_0s[o]

\* A round that is reference anywhere is over for everybody in the game, for those
\* who come, too: from the moment the server has registered a newcomer, and
\* before anyone else knows of it (seq_register, META written at that seq).  The
\* rounds before n came in are not counted: n does not play them.
RoundsWaitForNewcomers ==
  \A n \in InGame : Follows(n) => \A o \in known[Server] :
    last_seq_reference[n] < Max2(PlaysAt(o), stacks[n][n].seq_0s[n])

\* The messages of the rounds after the one n came in, up to the reference, were
\* all handed over at n, although atoms that came before their writer was
\* registered were refused.
NothingMissedByComing ==
  \A n \in InGame : Follows(n) =>
    \A o \in Node : \A s \in MessagesOf(o) :
      (stacks[n][n].seq_0s[n] < written[o][s].seq /\ written[o][s].seq <= last_seq_reference[n])
        => <<o, s>> \in delivered[n]

\* Whatever n was told to begin with for a writer, every atom for the rounds
\* after the one n came in lies where n looks for holes, so that those that were
\* refused are asked for again (serial_0 of meta_get, of JOIN and its answer).
RefusedIsAskedFor ==
  \A n \in InGame : \A o \in known[n] : \A s \in 1 .. Len(written[o]) :
    written[o][s].seq > stacks[n][n].seq_0s[n] => s >= stacks[n][o].serial_0_real

\* Who asks to join is let in, unless join_delay is over.
FirstJoinSucceeds ==
  \A c \in Client : status[c] = "asking" ~> status[c] \in {"in", "failed"}
=============================================================================
