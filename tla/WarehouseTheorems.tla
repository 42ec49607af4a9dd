------------------------- MODULE WarehouseTheorems -------------------------
(***************************************************************************)
(* Theorems about Warehouse, for every set of nodes, every topology of     *)
(* tentacles, every size of the window of blocks and every bound: the      *)
(* types, that a stack holds what its owner wrote (StoredAsWritten), and   *)
(* that a round once reference anywhere is over everywhere                 *)
(* (NoLateMessage).                                                        *)
(***************************************************************************)
EXTENDS Warehouse, StackTheorems

----------------------------------------------------------------------------
(* The inductive invariant.                                                *)

\* What has been written is of rounds up to local_seq_last, in atoms whose
\* number and whose messages are bounded.
WritersOK ==
  \A o \in Node :
    /\ Len(written[o]) <= NbMeta + MaxSerial[o]
    /\ Seq0 <= local_seq_last[o]
    /\ \A s \in 1 .. Len(written[o]) :
         written[o][s].order_n <= MaxOrder + 1 /\ written[o][s].seq <= local_seq_last[o]

\* The stack of o at n holds what o wrote; at o itself it ends with the last
\* atom written, and the next one will find a place in it.
StackOK(n, o) ==
  /\ IsStack(stacks[n][o])
  /\ stacks[n][o].seq_0s \in [Node -> 0 .. Seq0]
  /\ \A s \in Present(stacks[n][o]) :
       s \in 1 .. Len(written[o]) /\ AtomAt(stacks[n][o], s) = written[o][s]
  /\ n = o => Local(stacks[n][o]) /\ stacks[n][o].serial_max = Len(written[o])

StacksOK == \A n, o \in Node : StackOK(n, o)

\* An atom in flight is one that was written, and not on its way home.
PacketsOK ==
  \A p \in net : p.cmd # "MISS" =>
    /\ p.to # p.from
    /\ p.serial \in 1 .. Len(written[p.from])
    /\ p.atom = written[p.from][p.serial]

IInv == TypeOK /\ WritersOK /\ StacksOK /\ PacketsOK /\ NoLateMessage

\* A bound of the serials of what o writes, and of the atoms of its messages.
Last(o) == NbMeta + MaxSerial[o] + MaxOrder + 1

LEMMA LastType == ASSUME NEW o \in Node PROVE Last(o) \in Nat
BY ConfigAssumption, WindowAssumption DEF Last

\* What TypeOK says, taken apart.
LEMMA WrittenType ==
  ASSUME TypeOK, NEW o \in Node
  PROVE  /\ written[o] \in Seq(Atom) /\ Len(written[o]) \in Nat
         /\ \A s \in 1 .. Len(written[o]) : written[o][s] \in Atom
<1>1. written[o] \in Seq(Atom)
  BY DEF TypeOK
<1> QED BY <1>1

LEMMA StackType ==
  ASSUME TypeOK, NEW n \in Node, NEW o \in Node PROVE IsStack(stacks[n][o])
BY DEF TypeOK, StacksTyped

LEMMA StacksShape ==
  ASSUME TypeOK PROVE stacks = [a \in Node |-> [b \in Node |-> stacks[a][b]]]
BY DEF TypeOK, StacksTyped

LEMMA SeqsType ==
  ASSUME TypeOK, NEW n \in Node PROVE local_seq_last[n] \in Int /\ last_seq_reference[n] \in Int
BY DEF TypeOK

LEMMA StackFits ==
  ASSUME WritersOK, StacksOK, TypeOK, NEW n \in Node, NEW o \in Node
  PROVE  Fits(stacks[n][o], Last(o))
<1>1. /\ MaxSerial[o] \in Nat /\ NbMeta \in Nat /\ MaxOrder \in Nat
      /\ Len(written[o]) \in Nat /\ written[o] \in Seq(Atom)
  BY WrittenType, ConfigAssumption, WindowAssumption
<1>2. Len(written[o]) <= NbMeta + MaxSerial[o]
  BY DEF WritersOK
<1>3. StackOK(n, o)
  BY DEF StacksOK
<1>4. ASSUME NEW s \in Present(stacks[n][o])
      PROVE  s \in 1 .. Last(o) /\ AtomAt(stacks[n][o], s).order_n <= Last(o)
  <2>1. s \in 1 .. Len(written[o]) /\ AtomAt(stacks[n][o], s) = written[o][s]
    BY <1>3 DEF StackOK
  <2>2. written[o][s].order_n <= MaxOrder + 1
    BY <2>1 DEF WritersOK
  <2>3. written[o][s].order_n \in Nat
    BY <2>1, WrittenType DEF Atom
  <2> QED BY <1>1, <1>2, <2>1, <2>2, <2>3 DEF Last
<1> QED BY <1>3, <1>4 DEF StackOK, Fits

\* Bookkeeping in a stack breaks nothing.
LEMMA SameAtomsOK ==
  ASSUME NEW n \in Node, NEW o \in Node, StackOK(n, o), written'[o] = written[o],
         IsStack(stacks'[n][o]), SameAtoms(stacks[n][o], stacks'[n][o])
  PROVE  StackOK(n, o)'
BY DEF StackOK, SameAtoms, Local

----------------------------------------------------------------------------
(* Initially.                                                              *)

LEMMA ExtentUpdate ==
  ASSUME NEW st, IsStack(st), NEW a \in Int, NEW b \in Int
  PROVE  IsStack([st EXCEPT !.serial_min = a, !.serial_max = b])
<1> DEFINE new == [st EXCEPT !.serial_min = a, !.serial_max = b]
<1>1. new.atoms = st.atoms
  BY DEF IsStack
<1> QED BY <1>1 DEF IsStack

LEMMA InitIInv == Init => IInv
<1> SUFFICES ASSUME Init PROVE IInv
  OBVIOUS
<1> USE DEF SERIAL_START, SERIAL_INVALID, SEQ_INVALID, SEQ_START
<1>1. Seq0 \in Nat /\ Seq0 > 0 /\ NbMeta \in Nat /\ MaxOrder \in Nat
  BY ConfigAssumption, WindowAssumption
<1>2. \A n \in Node : /\ IsStack(Registered(n)) /\ Present(Registered(n)) = {}
                      /\ Registered(n).seq_0s \in [Node -> 0 .. Seq0]
                      /\ Registered(n).serial_max = 0
                      /\ Registered(n).serial_0_base = 1
  <2> TAKE n \in Node
  <2> DEFINE seqs == [o \in Node |-> Seq0Of(n, o)]
             none == [s \in {} |-> {}]
             n_1  == SerialN1(1)
  <2>1. seqs \in [Node -> 0 .. Seq0] /\ seqs \in [Node -> Int]
    BY <1>1 DEF Seq0Of
  <2>2. ((1 - 1) \div NB_ATOMS_PER_BLOCK) * NB_ATOMS_PER_BLOCK + 1 = 1
    <3>1. (1 - 1) \div NB_ATOMS_PER_BLOCK = 0
      BY WindowAssumption
    <3> QED BY <3>1, WindowAssumption
  <2>3. Registered(n) =
          [serial_0_base |-> 1, serial_0_real |-> 1,
           serial_min |-> INT_MAX, serial_max |-> 0,
           serial_draft |-> 0, serial_reference |-> 0,
           serial_miss_min |-> n_1, serial_miss_max |-> 1,
           serial_min_to_send |-> [t \in Node |-> 1],
           seq_0s |-> seqs, atoms |-> none]
    BY <2>2 DEF Registered, StackInit
  <2>4. n_1 \in Int
    BY SerialN1Type
  <2> HIDE DEF seqs, n_1
  <2> QED BY <2>1, <2>3, <2>4, IntMaxType DEF IsStack, Present

<1>3. MetaAtom \in Atom /\ MetaAtom.order_n = 1 /\ MetaAtom.seq = Seq0
  BY <1>1 DEF MetaAtom, Atom, META, DATA
<1>4. \A n, o \in Node :
        LET st == Joined(n, NbMeta, Node \ {o})
        IN  /\ IsStack(st) /\ Present(st) = 1 .. NbMeta
            /\ st.seq_0s \in [Node -> 0 .. Seq0]
            /\ \A s \in Present(st) : AtomAt(st, s) = MetaAtom
            /\ st.serial_max = NbMeta /\ st.serial_0_base = 1
  <2> TAKE n, o \in Node
  <2> DEFINE st   == Joined(n, NbMeta, Node \ {o})
             cell == [atom |-> MetaAtom, send_flag |-> Node \ {o}, sent_status |-> {},
                      update_msg_called |-> FALSE]
             cells == [s \in 1 .. NbMeta |-> cell]
             reg  == Registered(n)
             new  == [reg EXCEPT !.atoms = cells, !.serial_min = 1, !.serial_max = NbMeta]
  <2>1. CASE NbMeta = 0
    BY <1>1, <1>2, <2>1 DEF Joined, Present
  <2>2. CASE NbMeta # 0
    <3>1. st = new
      BY <2>2 DEF Joined
    <3>2. cell \in Cell /\ cell.atom = MetaAtom
      BY <1>3 DEF Cell
    <3>3. IsStack(reg) /\ reg.seq_0s \in [Node -> 0 .. Seq0] /\ reg.serial_0_base = 1
      BY <1>2
    <3> HIDE DEF reg, cell
    <3>4. /\ new.atoms = cells /\ new.serial_max = NbMeta
          /\ new.seq_0s = reg.seq_0s /\ new.serial_0_base = reg.serial_0_base
      BY <3>3 DEF IsStack
    <3>5. DOMAIN cells = 1 .. NbMeta /\ cells \in [1 .. NbMeta -> Cell]
      BY <3>2
    <3>6. IsStack(new)
      <4>1. DOMAIN cells \subseteq Int
        BY <3>5
      <4>2. cells \in [DOMAIN cells -> Cell]
        BY <3>5
      <4> HIDE DEF cells
      <4>3. IsStack([reg EXCEPT !.atoms = cells])
        BY <3>3, <4>1, <4>2 DEF IsStack
      <4>4. new = [[reg EXCEPT !.atoms = cells] EXCEPT !.serial_min = 1, !.serial_max = NbMeta]
        BY <3>3 DEF IsStack
      <4> DEFINE mid == [reg EXCEPT !.atoms = cells]
      <4> HIDE DEF mid
      <4>5. IsStack(mid)
        BY <4>3 DEF mid
      <4>6. IsStack([mid EXCEPT !.serial_min = 1, !.serial_max = NbMeta])
        <5>1. 1 \in Int /\ NbMeta \in Int
          BY <1>1
        <5> QED BY <4>5, <5>1, ExtentUpdate, Zenon
      <4> QED BY <4>4, <4>6 DEF mid
    <3>7. Present(new) = 1 .. NbMeta /\ \A s \in Present(new) : AtomAt(new, s) = MetaAtom
      BY <3>2, <3>4, <3>5 DEF Present, AtomAt
    <3> HIDE DEF new
    <3> QED BY <3>1, <3>3, <3>4, <3>6, <3>7
  <2> QED BY <2>1, <2>2
<1>5. /\ \A o \in Node \ {Server} : written[o] = <<>> /\ Len(written[o]) = 0
      /\ written[Server] \in Seq(Atom) /\ Len(written[Server]) = NbMeta
      /\ \A s \in 1 .. NbMeta : written[Server][s] = MetaAtom
  <2>1. written[Server] = [s \in 1 .. NbMeta |-> MetaAtom]
    BY ConfigAssumption DEF Init
  <2>2. \A o \in Node \ {Server} : written[o] = <<>> /\ Len(written[o]) = 0
    BY DEF Init
  <2>3. [s \in 1 .. NbMeta |-> MetaAtom] \in Seq(Atom)
        /\ Len([s \in 1 .. NbMeta |-> MetaAtom]) = NbMeta
    BY <1>1, <1>3
  <2> QED BY <2>1, <2>2, <2>3
<1>6. ASSUME NEW n \in Node, NEW o \in Node PROVE StackOK(n, o)
  <2>1. stacks[n][o] = IF o = Server /\ (n = Server \/ HasMeta(n))
                       THEN Joined(n, NbMeta, Node \ {o}) ELSE Registered(n)
    BY DEF Init
  <2>2. NbMeta <= MAX_NB_BLOCKS * NB_ATOMS_PER_BLOCK
        /\ 0 <= MAX_NB_BLOCKS * NB_ATOMS_PER_BLOCK
        /\ MAX_NB_BLOCKS * NB_ATOMS_PER_BLOCK \in Int
    BY ConfigAssumption, WindowAssumption
  <2>3. CASE o = Server /\ (n = Server \/ HasMeta(n))
    <3> DEFINE st == Joined(n, NbMeta, Node \ {o})
    <3>1. /\ IsStack(st) /\ Present(st) = 1 .. NbMeta
          /\ st.seq_0s \in [Node -> 0 .. Seq0]
          /\ \A s \in Present(st) : AtomAt(st, s) = MetaAtom
          /\ st.serial_max = NbMeta /\ st.serial_0_base = 1
      BY <1>4
    <3>2. stacks[n][o] = st
      BY <2>1, <2>3
    <3> HIDE DEF st
    <3> QED BY <1>1, <1>5, <2>2, <2>3, <3>1, <3>2 DEF StackOK, Local, SerialN1
  <2>4. CASE ~(o = Server /\ (n = Server \/ HasMeta(n)))
    <3>1. stacks[n][o] = Registered(n) /\ (n = o => Len(written[o]) = 0)
      BY <1>5, <2>1, <2>4
    <3> QED BY <1>1, <1>2, <2>2, <3>1 DEF StackOK, Local, SerialN1
  <2> QED BY <2>3, <2>4
<1>7. TypeOK
  <2>1. stacks = [n \in Node |-> [o \in Node |-> stacks[n][o]]]
    BY DEF Init
  <2>2. \A n, o \in Node : IsStack(stacks[n][o])
    BY <1>6 DEF StackOK
  <2>3. written \in [Node -> Seq(Atom)]
    <3>1. written = [n \in Node |-> written[n]]
      BY DEF Init
    <3>2. \A n \in Node : written[n] \in Seq(Atom)
      BY <1>5, <<>> \in Seq(Atom)
    <3> QED BY <3>1, <3>2
  <2>4. /\ local_seq_last \in [Node -> Int] /\ last_seq_reference \in [Node -> Int]
        /\ net \subseteq Packet /\ delivered \in [Node -> SUBSET (Node \X Int)]
        /\ chain \in [Node -> [Node -> Int]]
    BY <1>1 DEF Init
  <2> QED BY <2>1, <2>2, <2>3, <2>4 DEF TypeOK, StacksTyped
<1>8. WritersOK
  <2> SUFFICES ASSUME NEW o \in Node
               PROVE  /\ Len(written[o]) <= NbMeta + MaxSerial[o]
                      /\ Seq0 <= local_seq_last[o]
                      /\ \A s \in 1 .. Len(written[o]) :
                           /\ written[o][s].order_n <= MaxOrder + 1
                           /\ written[o][s].seq <= local_seq_last[o]
    BY DEF WritersOK
  <2>1. local_seq_last[o] = Seq0 /\ MaxSerial[o] \in Nat
    BY ConfigAssumption DEF Init
  <2>2. CASE o = Server
    BY <1>1, <1>3, <1>5, <2>1, <2>2
  <2>3. CASE o # Server
    BY <1>1, <1>5, <2>1, <2>3
  <2> QED BY <2>2, <2>3
<1>9. PacketsOK /\ NoLateMessage
  BY <1>1 DEF Init, PacketsOK, NoLateMessage
<1> QED BY <1>6, <1>7, <1>8, <1>9 DEF IInv, StacksOK

----------------------------------------------------------------------------
(* The steps.                                                              *)

\* A step that gives node n the stacks w, with the atoms it had.
LEMMA Bookkeeping ==
  ASSUME IInv, NEW n \in Node, NEW w, w = [o \in Node |-> w[o]],
         \A o \in Node : IsStack(w[o]) /\ SameAtoms(stacks[n][o], w[o]),
         stacks' = [stacks EXCEPT ![n] = w], written' = written
  PROVE  StacksTyped' /\ StacksOK'
<1>1. stacks = [a \in Node |-> [b \in Node |-> stacks[a][b]]]
  BY StacksShape DEF IInv
<1>2. \A a, b \in Node : stacks'[a][b] = IF a = n THEN w[b] ELSE stacks[a][b]
  BY <1>1
<1>3. \A a, b \in Node : IsStack(stacks'[a][b])
  BY <1>2, StackType DEF IInv
<1>4. ASSUME NEW a \in Node, NEW b \in Node PROVE StackOK(a, b)'
  <2>1. StackOK(a, b)
    BY DEF IInv, StacksOK
  <2>2. SameAtoms(stacks[a][b], stacks'[a][b])
    BY <1>2 DEF SameAtoms
  <2> QED BY <1>3, <2>1, <2>2, SameAtomsOK
<1>5. stacks' = [a \in Node |-> [b \in Node |-> stacks'[a][b]]]
  BY <1>1
<1> QED BY <1>3, <1>4, <1>5 DEF StacksTyped, StacksOK

\* A step that changes nothing but stack o of node n.
LEMMA OneStack ==
  ASSUME IInv, NEW n \in Node, NEW o \in Node, NEW st,
         IsStack(st),
         stacks' = [a \in Node |-> [b \in Node |->
                      IF a = n /\ b = o THEN st ELSE stacks[a][b]]]
  PROVE  /\ StacksTyped'
         /\ \A a, b \in Node : stacks'[a][b] = IF a = n /\ b = o THEN st ELSE stacks[a][b]
<1>1. stacks = [a \in Node |-> [b \in Node |-> stacks[a][b]]]
  BY StacksShape DEF IInv
<1>2. \A a, b \in Node : stacks'[a][b] = IF a = n /\ b = o THEN st ELSE stacks[a][b]
  BY <1>1
<1>3. \A a, b \in Node : IsStack(stacks'[a][b])
  BY <1>2, StackType DEF IInv
<1>4. stacks' = [a \in Node |-> [b \in Node |-> stacks'[a][b]]]
  BY <1>1
<1> QED BY <1>2, <1>3, <1>4 DEF StacksTyped

\* Sending: what leaves is what the stack holds.
LEMMA SendStep ==
  ASSUME IInv, NEW n \in Node, NEW peer \in Node, SendAtoms(n, peer)
  PROVE  IInv'
<1> DEFINE w == [o \in Node |-> IF o = peer THEN stacks[n][o] ELSE Sent(stacks[n][o], peer)]
           leaving == UNION {
             {AtomPacket(peer, o, s, AtomAt(stacks[n][o], s)) : s \in ToSend(stacks[n][o], peer)} :
                o \in Node \ {peer}}
<1>1. TypeOK /\ WritersOK /\ StacksOK /\ PacketsOK /\ NoLateMessage
  BY DEF IInv
<1>2. /\ stacks' = [stacks EXCEPT ![n] = w] /\ net' = net \cup leaving
      /\ UNCHANGED <<local_seq_last, last_seq_reference, written, delivered, chain>>
  <2>1. stacks = [a \in Node |-> [b \in Node |-> stacks[a][b]]]
    BY <1>1, StacksShape
  <2> QED BY <2>1 DEF SendAtoms
<1>3. \A o \in Node : IsStack(w[o]) /\ SameAtoms(stacks[n][o], w[o])
  <2> TAKE o \in Node
  <2>1. Fits(stacks[n][o], Last(o)) /\ Last(o) \in Nat /\ IsStack(stacks[n][o])
    BY <1>1, StackFits, LastType DEF Fits
  <2>2. CASE o = peer
    BY <2>1, <2>2 DEF SameAtoms
  <2>3. CASE o # peer
    BY <2>1, <2>3, SentKeeps
  <2> QED BY <2>2, <2>3
<1>4. StacksTyped' /\ StacksOK'
  <2>1. w = [o \in Node |-> w[o]]
    OBVIOUS
  <2> HIDE DEF w
  <2> QED BY <1>2, <1>3, <2>1, Bookkeeping
<1>5. ASSUME NEW p \in leaving
      PROVE  /\ p \in Packet /\ p.to # p.from
             /\ p.serial \in 1 .. Len(written[p.from])
             /\ p.atom = written[p.from][p.serial]
  <2>1. PICK o \in Node \ {peer} : \E s \in ToSend(stacks[n][o], peer) :
               p = AtomPacket(peer, o, s, AtomAt(stacks[n][o], s))
    OBVIOUS
  <2> PICK s \in ToSend(stacks[n][o], peer) : p = AtomPacket(peer, o, s, AtomAt(stacks[n][o], s))
    BY <2>1
  <2>2. s \in Present(stacks[n][o]) /\ IsStack(stacks[n][o]) /\ StackOK(n, o)
    BY <1>1, StackType DEF ToSend, StacksOK
  <2>3. s \in 1 .. Len(written[o]) /\ AtomAt(stacks[n][o], s) = written[o][s]
    BY <2>2 DEF StackOK
  <2>4. AtomAt(stacks[n][o], s) \in Atom /\ AtomAt(stacks[n][o], s).type \in {DATA, META}
    BY <2>2, AtomFields DEF Atom
  <2>5. s \in Nat
    BY <2>3
  <2> QED BY <2>1, <2>3, <2>4, <2>5 DEF AtomPacket, Packet
<1> HIDE DEF leaving
<1>6. TypeOK'
  <2>1. net' \subseteq Packet
    BY <1>1, <1>2, <1>5 DEF TypeOK
  <2> QED BY <1>1, <1>2, <1>4, <2>1 DEF TypeOK, StacksTyped
<1>7. WritersOK' /\ NoLateMessage'
  BY <1>1, <1>2 DEF WritersOK, NoLateMessage
<1>8. PacketsOK'
  BY <1>1, <1>2, <1>5 DEF PacketsOK
<1> QED BY <1>4, <1>6, <1>7, <1>8 DEF IInv

\* Receiving: the atom goes to the stack of its writer, or nowhere.
LEMMA RecvAtomStep ==
  ASSUME IInv, NEW p \in net, RecvAtom(p)
  PROVE  IInv'
<1>1. TypeOK /\ WritersOK /\ StacksOK /\ PacketsOK /\ NoLateMessage
  BY DEF IInv
<1>2. /\ p.cmd \in {DATA, META}
      /\ UNCHANGED <<local_seq_last, last_seq_reference, net, written, delivered, chain>>
  BY DEF RecvAtom
<1>3. /\ p.to \in Node /\ p.from \in Node /\ p.to # p.from /\ p.atom \in Atom
      /\ p.serial \in 1 .. Len(written[p.from]) /\ p.atom = written[p.from][p.serial]
  <2>1. p \in Packet /\ p.cmd # "MISS"
    BY <1>1, <1>2 DEF TypeOK, DATA, META
  <2> QED BY <1>1, <2>1 DEF PacketsOK, Packet
<1> DEFINE n   == p.to
           o   == p.from
           st  == stacks[n][o]
           new == PutAtom(st, n, p.serial, p.atom, Node \ {o})
<1>4. /\ Fits(st, Last(o)) /\ Last(o) \in Nat /\ StackOK(n, o)
      /\ p.serial \in 1 .. Last(o)
  <2>1. Len(written[o]) <= NbMeta + MaxSerial[o] /\ Len(written[o]) \in Nat
    BY <1>1, <1>3 DEF WritersOK, TypeOK
  <2>2. NbMeta \in Nat /\ MaxSerial[o] \in Nat /\ MaxOrder \in Nat
    BY <1>3, ConfigAssumption, WindowAssumption
  <2>3. Fits(st, Last(o)) /\ Last(o) \in Nat /\ StackOK(n, o)
    BY <1>1, <1>3, StackFits, LastType DEF StacksOK
  <2> QED BY <1>3, <2>1, <2>2, <2>3 DEF Last
<1>5. /\ IsStack(new) /\ new.seq_0s = st.seq_0s
      /\ \A s \in Present(new) :
           \/ s \in Present(st) /\ AtomAt(new, s) = AtomAt(st, s)
           \/ s = p.serial /\ AtomAt(new, s) = p.atom
  <2>1. Node \ {o} \in SUBSET Node
    OBVIOUS
  <2> QED BY <1>3, <1>4, <2>1, PutAtomKeeps
<1>6. stacks' = [a \in Node |-> [b \in Node |->
                   IF a = n /\ b = o THEN new ELSE stacks[a][b]]]
  <2>1. stacks = [a \in Node |-> [b \in Node |-> stacks[a][b]]]
    BY <1>1, StacksShape
  <2> QED BY <1>3, <2>1 DEF RecvAtom
<1> HIDE DEF new
<1>7. /\ StacksTyped'
      /\ \A a, b \in Node : stacks'[a][b] = IF a = n /\ b = o THEN new ELSE stacks[a][b]
  BY <1>3, <1>5, <1>6, OneStack
<1>8. StacksOK'
  <2> SUFFICES ASSUME NEW a \in Node, NEW b \in Node PROVE StackOK(a, b)'
    BY DEF StacksOK
  <2>1. StackOK(a, b)
    BY <1>1 DEF StacksOK
  <2>2. CASE a = n /\ b = o
    <3>1. \A s \in Present(new) : s \in 1 .. Len(written[o]) /\ AtomAt(new, s) = written[o][s]
      BY <1>3, <1>4, <1>5 DEF StackOK
    <3>2. new.seq_0s \in [Node -> 0 .. Seq0]
      BY <1>4, <1>5 DEF StackOK
    <3> QED BY <1>2, <1>3, <1>5, <1>7, <2>2, <3>1, <3>2 DEF StackOK
  <2>3. CASE ~(a = n /\ b = o)
    <3>1. stacks'[a][b] = stacks[a][b] /\ written' = written
      BY <1>2, <1>7, <2>3
    <3> QED BY <2>1, <3>1 DEF StackOK
  <2> QED BY <2>2, <2>3
<1>9. TypeOK'
  BY <1>1, <1>2, <1>7 DEF TypeOK, StacksTyped
<1> QED BY <1>1, <1>2, <1>8, <1>9 DEF IInv, WritersOK, PacketsOK, NoLateMessage

\* A packet is lost.
LEMMA LoseStep ==
  ASSUME IInv, NEW p \in net, Lose(p)
  PROVE  IInv'
<1>1. /\ net' \subseteq net
      /\ UNCHANGED <<stacks, local_seq_last, last_seq_reference, written, delivered, chain>>
  BY DEF Lose
<1>2. TypeOK'
  <2>1. StacksTyped'
    BY <1>1 DEF IInv, TypeOK, StacksTyped
  <2> QED BY <1>1, <2>1 DEF IInv, TypeOK
<1>3. StacksOK'
  BY <1>1 DEF IInv, StacksOK, StackOK
<1> QED BY <1>1, <1>2, <1>3 DEF IInv, WritersOK, PacketsOK, NoLateMessage

\* Asking: a MISS carries no atom.
LEMMA PollMissStep ==
  ASSUME IInv, NEW n \in Node, NEW heldback \in SUBSET Node, PollMiss(n, heldback)
  PROVE  IInv'
<1> DEFINE w == [o \in Node |-> IF o = n THEN stacks[n][o] ELSE GetMiss(stacks[n][o])]
           missing == {o \in Node \ {n} : HasMiss(w[o])} \ heldback
           asked   == {MissPacket(peer, o, n, w[o]) : peer \in Peers(n), o \in missing}
<1>1. TypeOK /\ WritersOK /\ StacksOK /\ PacketsOK /\ NoLateMessage
  BY DEF IInv
<1>2. /\ stacks' = [stacks EXCEPT ![n] = w] /\ net' = net \cup asked
      /\ UNCHANGED <<local_seq_last, last_seq_reference, written, delivered, chain>>
  BY DEF PollMiss
<1>3. \A o \in Node : IsStack(w[o]) /\ SameAtoms(stacks[n][o], w[o])
  <2> TAKE o \in Node
  <2>1. IsStack(stacks[n][o])
    BY <1>1, StackType
  <2>2. CASE o = n
    BY <2>1, <2>2 DEF SameAtoms
  <2>3. CASE o # n
    BY <2>1, <2>3, GetMissKeeps
  <2> QED BY <2>2, <2>3
<1>4. w = [o \in Node |-> w[o]]
  OBVIOUS
<1> HIDE DEF w
<1>5. StacksTyped' /\ StacksOK'
  BY <1>2, <1>3, <1>4, Bookkeeping
<1>6. \A p \in asked : p \in Packet /\ p.cmd = "MISS"
  <2> TAKE p \in asked
  <2>1. PICK peer \in Peers(n) : \E o \in missing : p = MissPacket(peer, o, n, w[o])
    OBVIOUS
  <2> PICK o \in missing : p = MissPacket(peer, o, n, w[o])
    BY <2>1
  <2>2. peer \in Node /\ o \in Node
    BY DEF Peers
  <2>3. w[o].serial_miss_min \in Int /\ w[o].serial_miss_max \in Int
    BY <1>3, <2>2, StackFields
  <2> QED BY <2>2, <2>3 DEF MissPacket, Packet
<1> HIDE DEF asked
<1>7. TypeOK'
  <2>1. net' \subseteq Packet
    BY <1>1, <1>2, <1>6 DEF TypeOK
  <2> QED BY <1>1, <1>2, <1>5, <2>1 DEF TypeOK, StacksTyped
<1>8. PacketsOK'
  BY <1>1, <1>2, <1>6 DEF PacketsOK
<1> QED BY <1>1, <1>2, <1>5, <1>7, <1>8 DEF IInv, WritersOK, NoLateMessage

\* Being asked: the atoms are marked unsent, and stay what they are.
LEMMA RecvMissStep ==
  ASSUME IInv, NEW p \in net, RecvMiss(p)
  PROVE  IInv'
<1> DEFINE n == p.to
           w == [o \in Node |-> IF o = p.id_to THEN stacks[n][o]
                  ELSE MissInvalidate(stacks[n][o], p.id_to, p.serial_min, p.serial_max)]
<1>1. TypeOK /\ WritersOK /\ StacksOK /\ PacketsOK /\ NoLateMessage
  BY DEF IInv
<1>2. n \in Node /\ p.id_to \in Node /\ p.serial_min \in Int /\ p.serial_max \in Int
  BY <1>1 DEF RecvMiss, TypeOK, Packet, DATA, META
<1>3. /\ stacks' = [stacks EXCEPT ![n] = w]
      /\ UNCHANGED <<local_seq_last, last_seq_reference, net, written, delivered, chain>>
  <2>1. stacks = [a \in Node |-> [b \in Node |-> stacks[a][b]]]
    BY <1>1, StacksShape
  <2> QED BY <1>2, <2>1 DEF RecvMiss
<1>4. \A o \in Node : IsStack(w[o]) /\ SameAtoms(stacks[n][o], w[o])
  <2> TAKE o \in Node
  <2>1. IsStack(stacks[n][o])
    BY <1>1, <1>2, StackType
  <2>2. CASE o = p.id_to
    BY <2>1, <2>2 DEF SameAtoms
  <2>3. CASE o # p.id_to
    BY <1>2, <2>1, <2>3, MissInvalidateKeeps
  <2> QED BY <2>2, <2>3
<1>5. w = [o \in Node |-> w[o]]
  OBVIOUS
<1> HIDE DEF w
<1>6. StacksTyped' /\ StacksOK'
  BY <1>2, <1>3, <1>4, <1>5, Bookkeeping
<1>7. TypeOK'
  BY <1>1, <1>3, <1>6 DEF TypeOK, StacksTyped
<1> QED BY <1>1, <1>3, <1>6, <1>7 DEF IInv, WritersOK, PacketsOK, NoLateMessage

\* Hearing of the last serial of a peer.
LEMMA HearSerialStep ==
  ASSUME IInv, NEW n \in Node, NEW peer \in Node, NEW serial \in Int, HearSerial(n, peer, serial)
  PROVE  IInv'
<1> DEFINE new == UpdateSerialMissMax(stacks[n][peer], serial)
<1>1. TypeOK /\ WritersOK /\ StacksOK /\ PacketsOK /\ NoLateMessage
  BY DEF IInv
<1>2. /\ stacks' = [a \in Node |-> [b \in Node |->
                      IF a = n /\ b = peer THEN new ELSE stacks[a][b]]]
      /\ UNCHANGED <<local_seq_last, last_seq_reference, net, written, delivered, chain>>
  <2>1. stacks = [a \in Node |-> [b \in Node |-> stacks[a][b]]]
    BY <1>1, StacksShape
  <2> QED BY <2>1 DEF HearSerial
<1>3. IsStack(new) /\ SameAtoms(stacks[n][peer], new)
  BY <1>1, StackType, UpdateSerialMissMaxKeeps
<1> HIDE DEF new
<1>4. /\ StacksTyped'
      /\ \A a, b \in Node : stacks'[a][b] = IF a = n /\ b = peer THEN new ELSE stacks[a][b]
  BY <1>2, <1>3, OneStack
<1>5. ASSUME NEW a \in Node, NEW b \in Node PROVE StackOK(a, b)'
  <2>1. StackOK(a, b) /\ written'[b] = written[b]
    BY <1>1, <1>2 DEF StacksOK
  <2>2. IsStack(stacks'[a][b]) /\ SameAtoms(stacks[a][b], stacks'[a][b])
    BY <1>3, <1>4 DEF SameAtoms, StacksTyped
  <2> QED BY <2>1, <2>2, SameAtomsOK
<1>6. TypeOK'
  BY <1>1, <1>2, <1>4 DEF TypeOK, StacksTyped
<1> QED BY <1>1, <1>2, <1>5, <1>6 DEF IInv, StacksOK, WritersOK, PacketsOK, NoLateMessage

\* What a sequence put after another yields.
LEMMA Appended ==
  ASSUME NEW S, NEW s \in Seq(S), NEW t \in Seq(S)
  PROVE  /\ s \o t \in Seq(S) /\ Len(s \o t) = Len(s) + Len(t)
         /\ \A i \in 1 .. Len(s) : (s \o t)[i] = s[i]
         /\ \A i \in Len(s) + 1 .. Len(s) + Len(t) : (s \o t)[i] = t[i - Len(s)]
  OBVIOUS

\* Writing: the message is in the stack as it is in the history.
LEMMA PutLocalMsgStep ==
  ASSUME IInv, NEW n \in Node, NEW seq \in Int, NEW order_n \in 1 .. MaxOrder,
         PutLocalMsg(n, seq, order_n)
  PROVE  IInv'
<1> DEFINE st    == stacks[n][n]
           new   == PutMsg(st, n, DATA, seq, order_n, Node \ {n})
           first == st.serial_max + 1
           msg   == [i \in 1 .. order_n |->
                       [type |-> DATA, seq |-> seq, order_i |-> i - 1, order_n |-> order_n]]
           len   == Len(written[n])
<1>1. TypeOK /\ WritersOK /\ StacksOK /\ PacketsOK /\ NoLateMessage
  BY DEF IInv
<1>2. /\ stacks' = [a \in Node |-> [b \in Node |->
                      IF a = n /\ b = n THEN new ELSE stacks[a][b]]]
      /\ local_seq_last' = [local_seq_last EXCEPT ![n] = seq]
      /\ written' = [written EXCEPT ![n] = written[n] \o msg]
      /\ seq >= local_seq_last[n] /\ len + order_n <= MaxSerial[n]
      /\ UNCHANGED <<last_seq_reference, net, delivered, chain>>
  <2>1. /\ stacks = [a \in Node |-> [b \in Node |-> stacks[a][b]]]
        /\ written \in [Node -> Seq(Atom)]
    BY <1>1, StacksShape DEF TypeOK
  <2> QED BY <2>1 DEF PutLocalMsg
<1>3. /\ MaxOrder \in Nat /\ MaxOrder <= (BLOCK_DELTA_MAX - 1) * NB_ATOMS_PER_BLOCK
      /\ (BLOCK_DELTA_MAX - 1) * NB_ATOMS_PER_BLOCK \in Int
      /\ NbMeta \in Nat /\ Seq0 \in Nat
  BY ConfigAssumption, WindowAssumption
<1>4. StackOK(n, n) /\ Fits(st, Last(n)) /\ Last(n) \in Nat /\ Local(st)
      /\ st.serial_max = len
  BY <1>1, StackFits, LastType DEF StacksOK, StackOK
<1>5. seq >= st.seq_0s[n] /\ local_seq_last[n] \in Int /\ Seq0 <= local_seq_last[n]
  <2>1. local_seq_last[n] \in Int /\ Seq0 <= local_seq_last[n] /\ st.seq_0s[n] \in 0 .. Seq0
    <3>1. stacks[n][n].seq_0s \in [Node -> 0 .. Seq0]
      BY <1>4 DEF StackOK
    <3> QED BY <1>1, <3>1, SeqsType DEF WritersOK
  <2>2. seq >= local_seq_last[n]
    BY <1>2
  <2>3. Seq0 \in Int
    BY <1>3
  <2> HIDE DEF st
  <2> QED BY <2>1, <2>2, <2>3
<1>6. /\ IsStack(new) /\ new.seq_0s = st.seq_0s /\ Local(new)
      /\ new.serial_max = st.serial_max + order_n
      /\ \A s \in Present(new) :
           \/ s \in Present(st) /\ AtomAt(new, s) = AtomAt(st, s)
           \/ /\ s \in first .. st.serial_max + order_n
              /\ AtomAt(new, s) = [type |-> DATA, seq |-> seq,
                                   order_i |-> s - first, order_n |-> order_n]
  <2>1. /\ order_n \in Nat \ {0} /\ order_n <= (BLOCK_DELTA_MAX - 1) * NB_ATOMS_PER_BLOCK
        /\ DATA \in {DATA, META} /\ Node \ {n} \in SUBSET Node
    BY <1>3
  <2> HIDE DEF st
  <2> QED BY <1>4, <1>5, <2>1, PutMsgAppends
<1>7. /\ written[n] \in Seq(Atom) /\ len \in Nat
      /\ msg \in Seq(Atom) /\ Len(msg) = order_n
  <2>1. \A i \in 1 .. order_n : msg[i] \in Atom
    BY DEF Atom
  <2> QED BY <1>1, <2>1 DEF TypeOK
<1>8. /\ written'[n] \in Seq(Atom) /\ Len(written'[n]) = len + order_n
      /\ \A s \in 1 .. len : written'[n][s] = written[n][s]
      /\ \A s \in len + 1 .. len + order_n : written'[n][s] = msg[s - len]
      /\ written' \in [Node -> Seq(Atom)]
      /\ \A o \in Node \ {n} : written'[o] = written[o]
  <2> HIDE DEF msg
  <2>1. written \in [Node -> Seq(Atom)] /\ written' = [written EXCEPT ![n] = written[n] \o msg]
    BY <1>1, <1>2 DEF TypeOK
  <2>2. /\ written[n] \o msg \in Seq(Atom) /\ Len(written[n] \o msg) = len + order_n
        /\ \A s \in 1 .. len : (written[n] \o msg)[s] = written[n][s]
        /\ \A s \in len + 1 .. len + order_n : (written[n] \o msg)[s] = msg[s - len]
    BY <1>7, Appended
  <2>3. written'[n] = written[n] \o msg /\ \A o \in Node \ {n} : written'[o] = written[o]
    BY <2>1
  <2>4. written' \in [Node -> Seq(Atom)]
    BY <2>1, <2>2
  <2> QED BY <2>2, <2>3, <2>4
<1>9. /\ StacksTyped'
      /\ \A a, b \in Node : stacks'[a][b] = IF a = n /\ b = n THEN new ELSE stacks[a][b]
  <2> HIDE DEF new
  <2> QED BY <1>2, <1>6, OneStack
<1>10. /\ local_seq_last' \in [Node -> Int]
       /\ \A o \in Node : local_seq_last'[o] >= local_seq_last[o]
       /\ local_seq_last'[n] = seq
       /\ \A o \in Node : local_seq_last[o] \in Int
  BY <1>1, <1>2 DEF TypeOK
<1> HIDE DEF new
<1>11. StacksOK'
  <2> SUFFICES ASSUME NEW a \in Node, NEW b \in Node PROVE StackOK(a, b)'
    BY DEF StacksOK
  <2>1. StackOK(a, b)
    BY <1>1 DEF StacksOK
  <2>2. CASE a = n /\ b = n
    <3>1. ASSUME NEW s \in Present(new)
          PROVE  s \in 1 .. len + order_n /\ AtomAt(new, s) = written'[n][s]
      <4>1. CASE s \in Present(st) /\ AtomAt(new, s) = AtomAt(st, s)
        <5>1. s \in 1 .. len /\ AtomAt(st, s) = written[n][s]
          BY <1>4, <4>1 DEF StackOK
        <5>2. s \in 1 .. len + order_n /\ written'[n][s] = written[n][s]
          BY <1>7, <1>8, <5>1
        <5> QED BY <4>1, <5>1, <5>2
      <4>2. CASE /\ s \in first .. st.serial_max + order_n
                 /\ AtomAt(new, s) = [type |-> DATA, seq |-> seq,
                                      order_i |-> s - first, order_n |-> order_n]
        <5>1. s \in len + 1 .. len + order_n /\ s - len \in 1 .. order_n
          BY <1>4, <1>7, <4>2
        <5>2. written'[n][s] = msg[s - len]
          BY <1>8, <5>1
        <5>3. msg[s - len] = [type |-> DATA, seq |-> seq,
                              order_i |-> (s - len) - 1, order_n |-> order_n]
          BY <5>1
        <5>4. (s - len) - 1 = s - first
          BY <1>4, <1>7, <5>1
        <5> QED BY <1>7, <4>2, <5>1, <5>2, <5>3, <5>4
      <4> QED BY <1>6, <4>1, <4>2
    <3>2. new.seq_0s \in [Node -> 0 .. Seq0]
      BY <1>4, <1>6 DEF StackOK
    <3> QED BY <1>4, <1>6, <1>8, <1>9, <2>2, <3>1, <3>2 DEF StackOK
  <2>3. CASE a # n
    <3>1. stacks'[a][b] = stacks[a][b]
      BY <1>9, <2>3
    <3>2. \A s \in 1 .. Len(written[b]) : /\ s \in 1 .. Len(written'[b])
                                          /\ written'[b][s] = written[b][s]
      <4>1. CASE b = n
        <5>1. \A s \in 1 .. len : s \in 1 .. Len(written'[n]) /\ written'[n][s] = written[n][s]
          <6> HIDE DEF msg
          <6> QED BY <1>7, <1>8
        <5> QED BY <4>1, <5>1
      <4>2. CASE b # n
        BY <1>8, <4>2
      <4> QED BY <4>1, <4>2
    <3>3. a = b => written'[b] = written[b]
      BY <1>8, <2>3
    <3> QED BY <2>1, <3>1, <3>2, <3>3 DEF StackOK
  <2>4. CASE a = n /\ b # n
    <3>1. stacks'[a][b] = stacks[a][b] /\ written'[b] = written[b]
      BY <1>8, <1>9, <2>4
    <3> QED BY <2>1, <3>1 DEF StackOK
  <2> QED BY <2>2, <2>3, <2>4
<1>12. TypeOK'
  BY <1>1, <1>2, <1>8, <1>9, <1>10 DEF TypeOK, StacksTyped
<1>13. WritersOK'
  <2> SUFFICES ASSUME NEW o \in Node
               PROVE  /\ Len(written'[o]) <= NbMeta + MaxSerial[o]
                      /\ Seq0 <= local_seq_last'[o]
                      /\ \A s \in 1 .. Len(written'[o]) :
                           /\ written'[o][s].order_n <= MaxOrder + 1
                           /\ written'[o][s].seq <= local_seq_last'[o]
    BY DEF WritersOK
  <2>1. /\ Len(written[o]) <= NbMeta + MaxSerial[o]
        /\ Seq0 <= local_seq_last[o]
        /\ \A s \in 1 .. Len(written[o]) :
             /\ written[o][s].order_n <= MaxOrder + 1
             /\ written[o][s].seq <= local_seq_last[o]
             /\ written[o][s].seq \in Int
    BY <1>1, WrittenType DEF WritersOK, Atom
  <2>2. MaxSerial[o] \in Nat
    BY ConfigAssumption
  <2>3. Seq0 <= local_seq_last'[o]
    BY <1>3, <1>10, <2>1
  <2>4. CASE o # n
    <3>1. written'[o] = written[o] /\ local_seq_last'[o] = local_seq_last[o]
      BY <1>2, <1>8, <2>4 DEF TypeOK
    <3> QED BY <2>1, <2>3, <3>1
  <2>5. CASE o = n
    <3>1. Len(written'[n]) <= NbMeta + MaxSerial[n]
      BY <1>2, <1>3, <1>7, <1>8, <2>2, <2>5
    <3>2. ASSUME NEW s \in 1 .. Len(written'[n])
          PROVE  written'[n][s].order_n <= MaxOrder + 1 /\ written'[n][s].seq <= seq
      <4>1. CASE s \in 1 .. len
        BY <1>2, <1>5, <1>8, <2>1, <2>5, <4>1
      <4>2. CASE s \notin 1 .. len
        <5>1. s \in len + 1 .. len + order_n /\ s - len \in 1 .. order_n
          BY <1>7, <1>8, <4>2
        <5>2. written'[n][s] = msg[s - len]
          BY <1>8, <5>1
        <5>3. msg[s - len].order_n = order_n /\ msg[s - len].seq = seq
          BY <5>1
        <5> QED BY <1>3, <5>2, <5>3
      <4> QED BY <4>1, <4>2
    <3> QED BY <1>10, <2>3, <2>5, <3>1, <3>2
  <2> QED BY <2>4, <2>5
<1>14. PacketsOK'
  <2> SUFFICES ASSUME NEW p \in net, p.cmd # "MISS"
               PROVE  /\ p.to # p.from
                      /\ p.serial \in 1 .. Len(written'[p.from])
                      /\ p.atom = written'[p.from][p.serial]
    BY <1>2 DEF PacketsOK
  <2>1. p.from \in Node /\ p.to # p.from /\ p.serial \in 1 .. Len(written[p.from])
        /\ p.atom = written[p.from][p.serial]
    <3>1. p \in Packet
      BY <1>1 DEF TypeOK
    <3>2. p.from \in Node
      BY <3>1 DEF Packet
    <3> QED BY <1>1, <3>2 DEF PacketsOK
  <2>2. p.serial \in 1 .. Len(written'[p.from]) /\ p.atom = written'[p.from][p.serial]
    <3>1. CASE p.from = n
      BY <1>7, <1>8, <2>1, <3>1
    <3>2. CASE p.from # n
      BY <1>8, <2>1, <3>2
    <3> QED BY <3>1, <3>2
  <2> QED BY <2>1, <2>2
<1>15. NoLateMessage'
  <2>1. \A a, b \in Node : last_seq_reference[a] \in Int /\ last_seq_reference[a] < local_seq_last[b]
    BY <1>1, SeqsType DEF NoLateMessage
  <2> QED BY <1>2, <1>10, <2>1 DEF NoLateMessage
<1> QED BY <1>11, <1>12, <1>13, <1>14, <1>15 DEF IInv

----------------------------------------------------------------------------
(* Reading.                                                                *)

LEMMA SameAtomsFits ==
  ASSUME NEW N \in Nat, NEW st, NEW new, Fits(st, N), IsStack(new), SameAtoms(st, new)
  PROVE  Fits(new, N)
BY DEF Fits, SameAtoms

LEMMA SameAtomsTrans ==
  ASSUME NEW st, NEW mid, NEW new, SameAtoms(st, mid), SameAtoms(mid, new)
  PROVE  SameAtoms(st, new)
BY DEF SameAtoms

\* Messages are named by serials.
LEMMA MsgListType ==
  ASSUME NEW st, IsStack(st), NEW seqs, NEW get_all
  PROVE  MsgList(st, seqs, get_all) \subseteq Int
<1> SUFFICES ASSUME NEW h \in MsgList(st, seqs, get_all) PROVE h \in Int
  OBVIOUS
<1>1. PICK q \in seqs : h \in Given(st, q, get_all)
  BY DEF MsgList
<1>2. h \in Heads(st, q)
  BY <1>1 DEF Given, Visited
<1>3. PICK s \in Having(st, q) : h = HeadOf(st, s)
  BY <1>2 DEF Heads
<1>4. s \in Present(st) /\ s \in Int
  BY <1>3, StackFields DEF Having
<1>5. AtomAt(st, s).order_i \in Nat
  BY <1>4, AtomFields
<1> QED BY <1>3, <1>4, <1>5 DEF HeadOf

\* What the calculation does to each stack of a node.
LEMMA CalcAllKeeps ==
  ASSUME TypeOK, WritersOK, StacksOK, NEW n \in Node, NEW o \in Node
  PROVE  /\ CalcAll(stacks[n])[o] = Calc(stacks[n][o])
         /\ Fits(Calc(stacks[n][o]), Last(o)) /\ IsStack(Calc(stacks[n][o]))
         /\ SameAtoms(stacks[n][o], Calc(stacks[n][o]))
<1>1. Fits(stacks[n][o], Last(o)) /\ Last(o) \in Nat
  BY StackFits, LastType
<1>2. IsStack(Calc(stacks[n][o])) /\ SameAtoms(stacks[n][o], Calc(stacks[n][o]))
  BY <1>1, CalcKeeps
<1> QED BY <1>1, <1>2, SameAtomsFits DEF CalcAll

\* How far writer o lets n go, w being what n has.
ReferenceOf(n, w, o) ==
  IF SeqReference(w[o]) = SEQ_INVALID THEN w[n].seq_0s[o] - 1 ELSE SeqReference(w[o])

\* The reference seq of a node is below the seq anybody has reached: it is
\* one less than the seq of an atom of the writer, or than its seq_0.
LEMMA ReferenceBelow ==
  ASSUME TypeOK, WritersOK, StacksOK, NEW n \in Node
  PROVE  LET w == CalcAll(stacks[n])
         IN  /\ WarehouseSeqReference(n, w) \in Int
             /\ \A o \in Node : WarehouseSeqReference(n, w) < local_seq_last[o]
             /\ \A o \in Node : WarehouseSeqReference(n, w) <= ReferenceOf(n, w, o)
<1> DEFINE w     == CalcAll(stacks[n])
           Of(o) == IF SeqReference(w[o]) = SEQ_INVALID
                    THEN w[n].seq_0s[o] - 1 ELSE SeqReference(w[o])
           ofs   == {Of(o) : o \in Node}
<1>1. ASSUME NEW o \in Node
      PROVE  Of(o) \in Int /\ -1 <= Of(o) /\ Of(o) < local_seq_last[o]
  <2>1. Seq0 \in Nat /\ Seq0 <= local_seq_last[o] /\ local_seq_last[o] \in Int
    BY ConfigAssumption, SeqsType DEF WritersOK
  <2>2. w[n].seq_0s[o] \in 0 .. Seq0
    <3>1. w[n].seq_0s = stacks[n][n].seq_0s
      BY CalcAllKeeps DEF SameAtoms
    <3>2. stacks[n][n].seq_0s \in [Node -> 0 .. Seq0]
      BY DEF StacksOK, StackOK
    <3> HIDE DEF w
    <3> QED BY <3>1, <3>2
  <2>3. /\ IsStack(w[o]) /\ Present(w[o]) = Present(stacks[n][o])
        /\ \A s \in Present(w[o]) : AtomAt(w[o], s) = AtomAt(stacks[n][o], s)
    BY CalcAllKeeps DEF SameAtoms
  <2> DEFINE st  == w[o]
             seq == SeqAt(st, st.serial_reference)
  <2> HIDE DEF w
  <2>4. CASE st.serial_reference \in Present(st) /\ st.serial_reference >= st.serial_0_real
    <3> DEFINE s == st.serial_reference
    <3>1. seq = AtomAt(stacks[n][o], s).seq
      BY <2>3, <2>4 DEF SeqAt
    <3>2. s \in 1 .. Len(written[o]) /\ AtomAt(stacks[n][o], s) = written[o][s]
      BY <2>3, <2>4 DEF StacksOK, StackOK
    <3>3. seq <= local_seq_last[o]
      BY <3>1, <3>2 DEF WritersOK
    <3>4. seq \in Int
      BY <3>1, <3>2, WrittenType DEF Atom
    <3> HIDE DEF seq
    <3> QED BY <2>1, <2>2, <3>3, <3>4 DEF SeqReference, Max2, SEQ_INVALID, seq
  <2>5. CASE ~(st.serial_reference \in Present(st) /\ st.serial_reference >= st.serial_0_real)
    <3>1. seq = -1
      BY <2>5 DEF SeqAt, SEQ_INVALID
    <3>2. SeqReference(st) = -1
      BY <3>1 DEF SeqReference, Max2, SEQ_INVALID
    <3> QED BY <2>1, <2>2, <3>2 DEF SEQ_INVALID
  <2> QED BY <2>4, <2>5
<1>2. WarehouseSeqReference(n, w) = Max2(Min(ofs), -1)
  BY DEF WarehouseSeqReference, SEQ_INVALID
<1> HIDE DEF Of
<1>3. /\ Min(ofs) \in Int /\ -1 <= Min(ofs)
      /\ \A o \in Node : Min(ofs) <= Of(o)
  <2>1. ofs \subseteq Int /\ \A y \in ofs : -1 <= y
    BY <1>1
  <2>2. ofs # {} /\ \A o \in Node : Of(o) \in ofs
    BY ConfigAssumption
  <2> HIDE DEF ofs
  <2>3. -1 \in Int
    OBVIOUS
  <2>4. Min(ofs) \in ofs /\ \A y \in ofs : Min(ofs) <= y
    BY <2>1, <2>2, <2>3, MinIs, Zenon
  <2> QED BY <2>1, <2>2, <2>4
<1> HIDE DEF ofs
<1>4. WarehouseSeqReference(n, w) = Min(ofs)
  BY <1>2, <1>3 DEF Max2
<1> HIDE DEF w
<1>5. \A o \in Node : WarehouseSeqReference(n, w) <= ReferenceOf(n, w, o)
  BY <1>3, <1>4 DEF Of, ReferenceOf
<1>6. WarehouseSeqReference(n, w) \in Int /\ \A o \in Node : WarehouseSeqReference(n, w) < local_seq_last[o]
  <2>1. \A o \in Node : local_seq_last[o] \in Int
    BY SeqsType
  <2> QED BY <1>1, <1>3, <1>4, <2>1
<1> QED BY <1>5, <1>6 DEF w

\* The follow-up of the stacks stays a serial.
LEMMA ChainType ==
  ASSUME IInv, NEW n \in Node
  PROVE  [chain EXCEPT ![n] = ChainAfter(n, stacks[n])] \in [Node -> [Node -> Int]]
<1>1. ChainAfter(n, stacks[n]) \in [Node -> Int]
  <2>1. \A o \in Node : stacks[n][o].serial_min \in Int /\ chain[n][o] \in Int
    BY StackType, StackFields DEF IInv, TypeOK
  <2> QED BY <2>1 DEF ChainAfter
<1>2. chain \in [Node -> [Node -> Int]]
  BY DEF IInv, TypeOK
<1> QED BY <1>1, <1>2

\* A step that gives node n other stacks with the same atoms, hands over some
\* messages and moves the reference up to what it is allowed to.
LEMMA ReadStep ==
  ASSUME IInv, NEW n \in Node, NEW w, w = [o \in Node |-> w[o]],
         \A o \in Node : IsStack(w[o]) /\ SameAtoms(stacks[n][o], w[o]),
         stacks' = [stacks EXCEPT ![n] = w],
         delivered' \in [Node -> SUBSET (Node \X Int)],
         chain' \in [Node -> [Node -> Int]],
         NEW ref \in Int, \A o \in Node : ref < local_seq_last[o],
         last_seq_reference' \in {last_seq_reference, [last_seq_reference EXCEPT ![n] = ref]},
         UNCHANGED <<local_seq_last, net, written>>
  PROVE  IInv'
<1>1. StacksTyped' /\ StacksOK'
  BY Bookkeeping
<1>2. TypeOK'
  BY <1>1 DEF IInv, TypeOK
<1>3. WritersOK' /\ PacketsOK'
  BY DEF IInv, WritersOK, PacketsOK
<1>4. NoLateMessage'
  BY DEF IInv, TypeOK, NoLateMessage
<1> QED BY <1>1, <1>2, <1>3, <1>4 DEF IInv

\* The rounds up to the reference are handed over.
LEMMA GetReferenceMsgsStep ==
  ASSUME IInv, NEW n \in Node, GetReferenceMsgs(n)
  PROVE  IInv'
<1> DEFINE ref == WarehouseSeqReference(n, CalcAll(stacks[n]))
           new == last_seq_reference[n] + 1 .. ref
           cleared(o) == ClearRecent(CalcAll(stacks[n])[o], ref)
           w   == [o \in Node |-> Popped(cleared(o), new, TRUE)]
           handed == UNION {{<<o, h>> : h \in MsgList(cleared(o), new, TRUE)} : o \in Node}
<1>1. TypeOK /\ WritersOK /\ StacksOK
  BY DEF IInv
<1>2. /\ stacks' = [stacks EXCEPT ![n] = w]
      /\ delivered' = [delivered EXCEPT ![n] = delivered[n] \cup handed]
      /\ last_seq_reference' = [last_seq_reference EXCEPT ![n] = ref]
      /\ chain' = [chain EXCEPT ![n] = ChainAfter(n, stacks[n])]
      /\ UNCHANGED <<local_seq_last, net, written>>
  <2>1. delivered \in [Node -> SUBSET (Node \X Int)]
    BY <1>1 DEF TypeOK
  <2> QED BY <2>1 DEF GetReferenceMsgs, HandOver
<1>3. ref \in Int /\ \A o \in Node : ref < local_seq_last[o]
  BY <1>1, ReferenceBelow
<1>4. ASSUME NEW o \in Node
      PROVE  /\ IsStack(cleared(o)) /\ Fits(cleared(o), Last(o)) /\ Last(o) \in Nat
             /\ SameAtoms(stacks[n][o], cleared(o))
  <2> DEFINE calc == Calc(stacks[n][o])
  <2>1. /\ CalcAll(stacks[n])[o] = calc /\ Fits(calc, Last(o)) /\ IsStack(calc)
        /\ SameAtoms(stacks[n][o], calc) /\ Last(o) \in Nat
    BY <1>1, CalcAllKeeps, LastType
  <2> HIDE DEF calc, ref
  <2>2. IsStack(ClearRecent(calc, ref)) /\ SameAtoms(calc, ClearRecent(calc, ref))
    BY <2>1, ClearRecentKeeps
  <2> DEFINE cl == ClearRecent(calc, ref)
  <2>3. cleared(o) = cl
    BY <2>1
  <2> HIDE DEF cleared, cl
  <2>4. IsStack(cl) /\ SameAtoms(calc, cl)
    BY <2>2 DEF cl
  <2> QED BY <2>1, <2>3, <2>4, SameAtomsFits, SameAtomsTrans
<1> HIDE DEF cleared, ref, new
<1>5. \A o \in Node : IsStack(w[o]) /\ SameAtoms(stacks[n][o], w[o])
  <2> TAKE o \in Node
  <2> DEFINE popped == Popped(cleared(o), new, TRUE)
  <2>1. IsStack(popped) /\ SameAtoms(cleared(o), popped)
    BY <1>4, PoppedKeeps
  <2>2. w[o] = popped
    OBVIOUS
  <2> HIDE DEF w, popped
  <2> QED BY <1>4, <2>1, <2>2, SameAtomsTrans
<1>6. w = [o \in Node |-> w[o]]
  OBVIOUS
<1>7. delivered' \in [Node -> SUBSET (Node \X Int)]
  <2>1. handed \in SUBSET (Node \X Int)
    <3>1. \A o \in Node : MsgList(cleared(o), new, TRUE) \subseteq Int
      BY <1>4, MsgListType
    <3> SUFFICES ASSUME NEW m \in handed PROVE m \in Node \X Int
      OBVIOUS
    <3> PICK o \in Node : m \in {<<o, h>> : h \in MsgList(cleared(o), new, TRUE)}
      OBVIOUS
    <3>2. PICK h \in MsgList(cleared(o), new, TRUE) : m = <<o, h>>
      OBVIOUS
    <3>3. h \in Int
      BY <3>1
    <3> QED BY <3>2, <3>3
  <2>2. delivered \in [Node -> SUBSET (Node \X Int)]
    BY <1>1 DEF TypeOK
  <2> HIDE DEF handed
  <2> QED BY <1>2, <2>1, <2>2
<1>8. chain' \in [Node -> [Node -> Int]]
  BY <1>2, ChainType
<1> HIDE DEF w
<1> QED BY <1>2, <1>3, <1>5, <1>6, <1>7, <1>8, ReadStep

\* The reference has not moved: only the calculation is kept.
LEMMA NoReferenceMsgsStep ==
  ASSUME IInv, NEW n \in Node, NoReferenceMsgs(n)
  PROVE  IInv'
<1> DEFINE w == CalcAll(stacks[n])
<1>1. TypeOK /\ WritersOK /\ StacksOK
  BY DEF IInv
<1>2. /\ stacks' = [stacks EXCEPT ![n] = w]
      /\ chain' = [chain EXCEPT ![n] = ChainAfter(n, stacks[n])]
      /\ UNCHANGED <<local_seq_last, last_seq_reference, net, written, delivered>>
  BY DEF NoReferenceMsgs, NothingNew
<1>3. \A o \in Node : IsStack(w[o]) /\ SameAtoms(stacks[n][o], w[o])
  BY <1>1, CalcAllKeeps
<1>4. w = [o \in Node |-> w[o]]
  BY DEF CalcAll
<1>5. /\ WarehouseSeqReference(n, w) \in Int
      /\ \A o \in Node : WarehouseSeqReference(n, w) < local_seq_last[o]
  BY <1>1, ReferenceBelow
<1>6. delivered' \in [Node -> SUBSET (Node \X Int)] /\ chain' \in [Node -> [Node -> Int]]
  BY <1>1, <1>2, ChainType DEF TypeOK
<1> HIDE DEF w
<1> QED BY <1>2, <1>3, <1>4, <1>5, <1>6, ReadStep

\* The rounds after the reference are handed over as a draft.
LEMMA GetDraftMsgsStep ==
  ASSUME IInv, NEW n \in Node, GetDraftMsgs(n)
  PROVE  IInv'
<1> DEFINE all   == CalcAll(stacks[n])
           draft == last_seq_reference[n] + 1 .. WarehouseSeqDraft(all)
           w     == [o \in Node |-> Popped(all[o], draft, FALSE)]
<1>1. TypeOK /\ WritersOK /\ StacksOK
  BY DEF IInv
<1>2. /\ stacks' = [stacks EXCEPT ![n] = w]
      /\ chain' = [chain EXCEPT ![n] = ChainAfter(n, stacks[n])]
      /\ UNCHANGED <<local_seq_last, last_seq_reference, net, written, delivered>>
  BY DEF GetDraftMsgs
<1>3. \A o \in Node : IsStack(w[o]) /\ SameAtoms(stacks[n][o], w[o])
  <2> TAKE o \in Node
  <2> DEFINE calc == Calc(stacks[n][o])
  <2>1. /\ all[o] = calc /\ Fits(calc, Last(o)) /\ Last(o) \in Nat
        /\ SameAtoms(stacks[n][o], calc)
    BY <1>1, CalcAllKeeps, LastType
  <2> HIDE DEF calc, draft
  <2> DEFINE popped == Popped(calc, draft, FALSE)
  <2>2. IsStack(popped) /\ SameAtoms(calc, popped)
    BY <2>1, PoppedKeeps
  <2>3. w[o] = popped
    BY <2>1
  <2> HIDE DEF w, popped, all
  <2> QED BY <2>1, <2>2, <2>3, SameAtomsTrans
<1>4. w = [o \in Node |-> w[o]]
  OBVIOUS
<1>5. /\ WarehouseSeqReference(n, all) \in Int
      /\ \A o \in Node : WarehouseSeqReference(n, all) < local_seq_last[o]
  BY <1>1, ReferenceBelow
<1>6. delivered' \in [Node -> SUBSET (Node \X Int)] /\ chain' \in [Node -> [Node -> Int]]
  BY <1>1, <1>2, ChainType DEF TypeOK
<1> HIDE DEF w, all
<1> QED BY <1>2, <1>3, <1>4, <1>5, <1>6, ReadStep

\* Nothing can be read: the lists are thrown away.
LEMMA GetNothingStep ==
  ASSUME IInv, NEW n \in Node, GetNothing(n)
  PROVE  IInv'
<1> DEFINE all == WarehouseSeqMin(stacks[n]) .. WarehouseSeqMax(stacks[n])
           w   == [o \in Node |-> Popped(stacks[n][o], all, FALSE)]
<1>1. TypeOK /\ WritersOK /\ StacksOK
  BY DEF IInv
<1>2. /\ stacks' = [stacks EXCEPT ![n] = w]
      /\ UNCHANGED <<local_seq_last, last_seq_reference, net, written, delivered, chain>>
  <2>1. stacks = [a \in Node |-> [b \in Node |-> stacks[a][b]]]
    BY <1>1, StacksShape
  <2> QED BY <2>1 DEF GetNothing
<1>3. \A o \in Node : IsStack(w[o]) /\ SameAtoms(stacks[n][o], w[o])
  <2> TAKE o \in Node
  <2>1. Fits(stacks[n][o], Last(o)) /\ Last(o) \in Nat
    BY <1>1, StackFits, LastType
  <2> HIDE DEF all
  <2> QED BY <2>1, PoppedKeeps
<1>4. w = [o \in Node |-> w[o]]
  OBVIOUS
<1>5. /\ WarehouseSeqReference(n, CalcAll(stacks[n])) \in Int
      /\ \A o \in Node : WarehouseSeqReference(n, CalcAll(stacks[n])) < local_seq_last[o]
  BY <1>1, ReferenceBelow
<1>6. delivered' \in [Node -> SUBSET (Node \X Int)] /\ chain' \in [Node -> [Node -> Int]]
  BY <1>1, <1>2 DEF TypeOK
<1> HIDE DEF w
<1> QED BY <1>2, <1>3, <1>4, <1>5, <1>6, ReadStep

----------------------------------------------------------------------------
(* The theorems.                                                           *)

LEMMA NextIInv == IInv /\ [Next]_vars => IInv'
<1> SUFFICES ASSUME IInv, [Next]_vars PROVE IInv'
  OBVIOUS
<1>1. CASE Network
  <2> PICK p \in net : RecvAtom(p) \/ RecvMiss(p) \/ Lose(p)
    BY <1>1 DEF Network
  <2> QED BY RecvAtomStep, RecvMissStep, LoseStep
<1>2. ASSUME NEW n \in Node, Write(n) PROVE IInv'
  <2>1. Seq0 \in Nat /\ MaxSeq \in Nat
    BY ConfigAssumption
  <2> PICK seq \in Seq0 .. MaxSeq, order_n \in 1 .. MaxOrder : PutLocalMsg(n, seq, order_n)
    BY <1>2 DEF Write
  <2> QED BY <2>1, PutLocalMsgStep
<1>3. ASSUME NEW n \in Node, Send(n) PROVE IInv'
  BY <1>3, SendStep DEF Send
<1>4. ASSUME NEW n \in Node, Ask(n) PROVE IInv'
  BY <1>4, PollMissStep DEF Ask
<1>5. ASSUME NEW n \in Node, Hear(n) PROVE IInv'
  <2>1. PICK peer \in Node : \E serial \in 0 .. Len(written[peer]) : HearSerial(n, peer, serial)
    BY <1>5 DEF Hear
  <2> PICK serial \in 0 .. Len(written[peer]) : HearSerial(n, peer, serial)
    BY <2>1
  <2>2. serial \in Int
    OBVIOUS
  <2> QED BY <2>2, HearSerialStep
<1>6. ASSUME NEW n \in Node, Read(n) PROVE IInv'
  BY <1>6, GetReferenceMsgsStep, NoReferenceMsgsStep, GetDraftMsgsStep, GetNothingStep DEF Read
<1>7. CASE UNCHANGED vars
  <2>1. /\ UNCHANGED <<stacks, local_seq_last, last_seq_reference, net>>
        /\ UNCHANGED <<written, delivered, chain>>
    BY <1>7 DEF vars
  <2>2. StacksTyped' /\ StacksOK'
    BY <2>1 DEF IInv, TypeOK, StacksTyped, StacksOK, StackOK
  <2> QED BY <2>1, <2>2 DEF IInv, TypeOK, WritersOK, PacketsOK, NoLateMessage
<1> QED BY <1>1, <1>2, <1>3, <1>4, <1>5, <1>6, <1>7 DEF Next

\* The invariant holds in every state.
LEMMA Invariance == Spec => []IInv
<1>1. Init => IInv
  BY InitIInv
<1>2. IInv /\ [Next]_vars => IInv'
  BY NextIInv
<1> QED BY <1>1, <1>2, PTL DEF Spec

\* The variables of the warehouses and of the network keep their types.
THEOREM TypeCorrect == Spec => []TypeOK
<1>1. IInv => TypeOK
  BY DEF IInv
<1> QED BY <1>1, Invariance, PTL

\* Whatever is lost, doubled, reordered, relayed by others or forgotten by a
\* window that moves, what a stack holds at a serial is what its owner wrote
\* there (put_atom_str, get_atom_str_list_not_sent).
THEOREM AlwaysStoredAsWritten == Spec => []StoredAsWritten
<1>1. IInv => StoredAsWritten
  BY DEF IInv, StacksOK, StackOK, PacketsOK, StoredAsWritten, DATA, META
<1> QED BY <1>1, Invariance, PTL

\* A round that any node has handed over as reference is over for every
\* writer (get_seq_reference and its -1).
THEOREM NeverLate == Spec => []NoLateMessage
<1>1. IInv => NoLateMessage
  BY DEF IInv
<1> QED BY <1>1, Invariance, PTL
=============================================================================
