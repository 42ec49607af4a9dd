---------------------------- MODULE JoinTheorems ----------------------------
(***************************************************************************)
(* Theorems about Join, for every set of clients, every topology of        *)
(* tentacles, every size of the window of blocks, every bound, whether a   *)
(* node may be taken twice (Redundant) and whatever META a node coming     *)
(* late is sent (Overtakes).                                               *)
(*                                                                         *)
(* The invariant (ComeInv) is of a registry at a time: what is registered  *)
(* at a node is Sound, each stack of it Holds what its owner wrote, and    *)
(* the stack of the node itself ends with the last atom it wrote.  The     *)
(* lemmas before it say what the operations of the warehouse do to a       *)
(* registry (register one node, those META lists, begin a stack again, put *)
(* META for all registered), those after it take the actions in turn.      *)
(*                                                                         *)
(* The invariant of the second half (TellInv) is of what newcomers are     *)
(* told, when no META overtakes another and no window moves: the lists of  *)
(* META, the answers in flight, the serials each registry begins at.       *)
(*                                                                         *)
(* The invariant of the last part (WaitInv) is of the rounds newcomers are *)
(* waited for in, when JOIN is not received twice either: how far each     *)
(* newcomer is, whom each META lists and for which round, which of those   *)
(* lists a node has, and from which serial it follows each stack.          *)
(***************************************************************************)
EXTENDS Join, ReferenceTheorems, FiniteSetTheorems

----------------------------------------------------------------------------
(* Registration.                                                           *)

\* Whatever a node registers: who, with which stacks.
Sound(r) ==
  /\ r = [ids |-> r.ids, stacks |-> r.stacks, seq_0 |-> r.seq_0]
  /\ r.ids \subseteq Node
  /\ r.stacks = [o \in Node |-> r.stacks[o]]
  /\ r.seq_0 \in [Node -> Int]
  /\ \A o \in Node : IsStack(r.stacks[o]) /\ \A t \in Node : r.stacks[o].seq_0s[t] >= SEQ_INVALID

\* The atoms and the bounds of a stack, all but what the others need of it.
SameBody(st, new) ==
  /\ new.atoms = st.atoms
  /\ new.serial_0_base = st.serial_0_base /\ new.serial_0_real = st.serial_0_real
  /\ new.serial_min = st.serial_min /\ new.serial_max = st.serial_max
  /\ new.serial_draft = st.serial_draft /\ new.serial_reference = st.serial_reference

\* The stack registration begins with.
Begun(r, id, serial, seq) ==
  IF id \notin r.ids THEN StackInit(Max2(serial, SERIAL_START))
  ELSE StackShift(r.stacks[id], r.seq_0[id], Max2(serial, SERIAL_START), seq)

\* What registering id does to the stacks of n.
LEMMA RegisterNodeDoes ==
  ASSUME NEW r, Sound(r), NEW n \in r.ids, NEW id \in Node, id # n,
         NEW serial \in Int, NEW seq \in Int,
         IsStack(Begun(r, id, serial, seq)),
         \A t \in Node : Begun(r, id, serial, seq).seq_0s[t] >= SEQ_INVALID
  PROVE  LET q == RegisterNode(r, n, id, serial, seq)
         IN  /\ Sound(q) /\ q.ids = r.ids \cup {id}
             /\ \A o \in Node \ {id} : SameBody(r.stacks[o], q.stacks[o])
             /\ \A o \in Node \ q.ids : q.stacks[o] = r.stacks[o]
             /\ SameBody(Begun(r, id, serial, seq), q.stacks[id])
             /\ \A t \in Node \ {id} : q.stacks[n].seq_0s[t] = r.stacks[n].seq_0s[t]
             /\ q.stacks[n].seq_0s[id] = Max2(r.stacks[n].seq_0s[id], seq)
             /\ q.seq_0[n] = r.seq_0[n]
<1> DEFINE serial_0 == Max2(serial, SERIAL_START)
           st       == Begun(r, id, serial, seq)
           begun    == [r.stacks EXCEPT ![id] = st]
           many(o, t) == {begun[o].seq_0s[t]} \cup (IF t = id THEN {seq} ELSE {})
                           \cup (IF o = id THEN {begun[n].seq_0s[t]} ELSE {})
           limits(o) == [t \in Node |-> Max(many(o, t))]
           sends(o)  == [begun[o].serial_min_to_send EXCEPT ![id] = Min2(@, serial_0)]
           last(o)   == IF o \notin r.ids \cup {id} THEN begun[o]
                        ELSE [begun[o] EXCEPT !.seq_0s = limits(o), !.serial_min_to_send = sends(o)]
           stacks_1  == [o \in Node |-> last(o)]
           seqs      == [r.seq_0 EXCEPT ![id] =
                           IF id \notin r.ids \/ st # r.stacks[id] THEN seq ELSE @]
           q == [ids |-> r.ids \cup {id}, stacks |-> stacks_1, seq_0 |-> seqs]
<1>1. \A o \in Node : IsStack(begun[o]) /\ begun[o] = (IF o = id THEN st ELSE r.stacks[o])
  BY DEF Sound
<1>2. serial_0 \in Int
  BY Max2Type DEF SERIAL_START
<1>3. RegisterNode(r, n, id, serial, seq) = q
  <2>1. RegisterNode(r, n, id, serial, seq) =
          [ids |-> r.ids \cup {id},
           stacks |-> [o \in Node |->
             IF o \notin r.ids \cup {id} THEN begun[o]
             ELSE [begun[o] EXCEPT !.seq_0s = limits(o), !.serial_min_to_send[id] = Min2(@, serial_0)]],
           seq_0 |-> seqs]
    BY DEF RegisterNode, Begun
  <2>2. \A o \in Node :
          [begun[o] EXCEPT !.seq_0s = limits(o), !.serial_min_to_send[id] = Min2(@, serial_0)]
            = [begun[o] EXCEPT !.seq_0s = limits(o), !.serial_min_to_send = sends(o)]
    <3> HIDE DEF limits, serial_0, begun
    <3> QED BY <1>1 DEF IsStack
  <2> HIDE DEF limits, serial_0, begun, sends, seqs
  <2> QED BY <2>1, <2>2
<1>4. \A o, t \in Node : begun[o].seq_0s[t] \in Int /\ begun[o].seq_0s[t] >= SEQ_INVALID
  <2> SUFFICES ASSUME NEW o \in Node, NEW t \in Node
               PROVE  begun[o].seq_0s[t] \in Int /\ begun[o].seq_0s[t] >= SEQ_INVALID
    OBVIOUS
  <2>1. begun[o].seq_0s \in [Node -> Int]
    BY <1>1, StackFields
  <2>2. begun[o].seq_0s[t] >= SEQ_INVALID
    BY <1>1 DEF Sound
  <2> HIDE DEF begun
  <2> QED BY <2>1, <2>2
<1>5. \A o, t \in Node : /\ limits(o)[t] \in Int /\ limits(o)[t] >= SEQ_INVALID
                         /\ limits(o)[t] \in many(o, t)
                         /\ \A x \in many(o, t) : limits(o)[t] >= x
  <2> SUFFICES ASSUME NEW o \in Node, NEW t \in Node
               PROVE  /\ limits(o)[t] \in Int /\ limits(o)[t] >= SEQ_INVALID
                      /\ limits(o)[t] \in many(o, t)
                      /\ \A x \in many(o, t) : limits(o)[t] >= x
    OBVIOUS
  <2> DEFINE a == begun[o].seq_0s[t]
             b == begun[n].seq_0s[t]
             top == Max2(Max2(a, b), seq)
  <2>1. a \in Int /\ b \in Int /\ a >= SEQ_INVALID /\ seq \in Int
    BY <1>4, n \in Node DEF Sound
  <2>2. many(o, t) \subseteq {a, b, seq} /\ a \in many(o, t)
    OBVIOUS
  <2>3. limits(o)[t] = Max(many(o, t))
    OBVIOUS
  <2> HIDE DEF a, b, many, limits
  <2>4. top \in Int /\ a <= top /\ b <= top /\ seq <= top
    BY <2>1 DEF Max2
  <2> HIDE DEF top
  <2>5. many(o, t) \subseteq Int /\ \A x \in many(o, t) : x <= top
    BY <2>1, <2>2, <2>4
  <2>6. Max(many(o, t)) \in many(o, t) /\ \A x \in many(o, t) : Max(many(o, t)) >= x
    BY <2>2, <2>4, <2>5, MaxIs, Zenon
  <2> QED BY <2>1, <2>2, <2>3, <2>5, <2>6 DEF SEQ_INVALID
<1>6. n \in Node /\ begun[n] = r.stacks[n]
  BY <1>1 DEF Sound
<1>7. /\ \A t \in Node \ {id} : limits(n)[t] = r.stacks[n].seq_0s[t]
      /\ limits(n)[id] = Max2(r.stacks[n].seq_0s[id], seq)
  <2>1. \A t \in Node : many(n, t) = {r.stacks[n].seq_0s[t]} \cup (IF t = id THEN {seq} ELSE {})
    BY <1>6
  <2>2. r.stacks[n].seq_0s[id] \in Int
    BY <1>4, <1>6
  <2> HIDE DEF many, limits, begun
  <2> QED BY <1>5, <1>6, <2>1, <2>2 DEF Max2
<1>8. \A o \in Node : /\ IsStack(last(o)) /\ SameBody(begun[o], last(o))
                      /\ o \notin r.ids \cup {id} => last(o) = begun[o]
                      /\ o \in r.ids \cup {id} => last(o).seq_0s = limits(o)
  <2> SUFFICES ASSUME NEW o \in Node
               PROVE  /\ IsStack(last(o)) /\ SameBody(begun[o], last(o))
                      /\ o \notin r.ids \cup {id} => last(o) = begun[o]
                      /\ o \in r.ids \cup {id} => last(o).seq_0s = limits(o)
    OBVIOUS
  <2>1. limits(o) \in [Node -> Int]
    <3>1. \A t \in Node : Max(many(o, t)) \in Int
      BY <1>5
    <3> HIDE DEF many
    <3> QED BY <3>1
  <2>2. sends(o) \in [Node -> Int]
    <3>1. begun[o].serial_min_to_send \in [Node -> Int]
      BY <1>1, StackFields
    <3>2. begun[o].serial_min_to_send[id] \in Int
      BY <3>1
    <3>3. Min2(begun[o].serial_min_to_send[id], serial_0) \in Int
      BY <1>2, <3>2, Min2Type
    <3> HIDE DEF begun, serial_0
    <3> QED BY <3>1, <3>3
  <2>3. IsStack(begun[o])
    BY <1>1
  <2> HIDE DEF limits, sends, begun
  <2> QED BY <2>1, <2>2, <2>3 DEF IsStack, SameBody
<1>9. seqs \in [Node -> Int] /\ seqs[n] = r.seq_0[n]
  BY <1>6 DEF Sound
<1> HIDE DEF begun, limits, last, seqs
<1>10. /\ q.ids = r.ids \cup {id} /\ q.seq_0 = seqs /\ q.stacks = stacks_1
       /\ q = [ids |-> q.ids, stacks |-> q.stacks, seq_0 |-> q.seq_0]
       /\ \A o \in Node : q.stacks[o] = last(o)
       /\ q.stacks = [o \in Node |-> q.stacks[o]]
  OBVIOUS
<1> HIDE DEF q
<1>11. \A o, t \in Node : q.stacks[o].seq_0s[t] >= SEQ_INVALID
  BY <1>4, <1>5, <1>8, <1>10
<1>12. Sound(q)
  <2>1. q.ids \subseteq Node
    BY <1>10 DEF Sound
  <2> QED BY <2>1, <1>8, <1>9, <1>10, <1>11 DEF Sound
<1>13. /\ \A o \in Node \ {id} : SameBody(r.stacks[o], q.stacks[o])
       /\ SameBody(st, q.stacks[id])
  BY <1>1, <1>8, <1>10
<1>14. \A o \in Node \ q.ids : q.stacks[o] = r.stacks[o]
  BY <1>1, <1>8, <1>10
<1>15. q.stacks[n].seq_0s = limits(n)
  BY <1>6, <1>8, <1>10
<1> QED BY <1>3, <1>7, <1>9, <1>10, <1>12, <1>13, <1>14, <1>15

\* One of a list of <<id, serial, seq>> is registered, if it is not yet.
Add(r, n, x) ==
  IF x[1] \in r.ids THEN r ELSE RegisterNode(r, n, x[1], x[2], x[3])

\* F registers those of list one by one.
OneByOne(r, n, list, F) ==
  /\ RegisterNew(r, n, list) = F[list]
  /\ F[{}] = r
  /\ \A s \in SUBSET list : s # {} => \E x \in s : F[s] = Add(F[s \ {x}], n, x)

\* RegisterNew takes them in some order, one after the other.
LEMMA RegisterNewFolds ==
  ASSUME NEW r, NEW n, NEW list, IsFiniteSet(list)
  PROVE  \E F : OneByOne(r, n, list, F)
<1> DEFINE one(s) == CHOOSE x \in s : TRUE
           Next1(F, s) == IF s = {} THEN r ELSE Add(F[s \ {one(s)}], n, one(s))
           iter == CHOOSE F : F = [s \in SUBSET list |-> Next1(F, s)]
           Right(k) == \E F : \A s \in SUBSET list : Cardinality(s) <= k => F[s] = Next1(F, s)
<1>1. RegisterNew(r, n, list) = iter[list]
  BY DEF RegisterNew, FoldSet, MapThenFoldSet, Add
<1>2. \A s \in SUBSET list : IsFiniteSet(s) /\ Cardinality(s) \in Nat
  BY FS_Subset, FS_CardinalityType
<1>3. \A s \in SUBSET list : s # {} => /\ one(s) \in s /\ s \ {one(s)} \in SUBSET list
                                       /\ Cardinality(s \ {one(s)}) = Cardinality(s) - 1
  <2> SUFFICES ASSUME NEW s \in SUBSET list, s # {}
               PROVE  /\ one(s) \in s /\ s \ {one(s)} \in SUBSET list
                      /\ Cardinality(s \ {one(s)}) = Cardinality(s) - 1
    OBVIOUS
  <2>1. one(s) \in s
    OBVIOUS
  <2> HIDE DEF one
  <2> QED BY <1>2, <2>1, FS_RemoveElement
<1>4. \A k \in Nat : Right(k)
  <2> SUFFICES ASSUME NEW k0 \in Nat, ~Right(k0) PROVE FALSE
    OBVIOUS
  <2>1. PICK k \in {k \in Nat : ~Right(k)} : \A j \in {k_1 \in Nat : ~Right(k_1)} : k <= j
    <3> HIDE DEF Right
    <3> QED BY NatLeast
  <2>2. k = 0 \/ Right(k - 1)
    <3> HIDE DEF Right
    <3> QED BY <2>1
  <2>3. CASE k = 0
    <3>1. \A s \in SUBSET list : Cardinality(s) <= 0 => s = {}
      BY <1>2, FS_EmptySet
    <3> DEFINE F == [s \in SUBSET list |-> r]
    <3>2. \A s \in SUBSET list : Cardinality(s) <= 0 => F[s] = Next1(F, s)
      BY <3>1
    <3> HIDE DEF F, Next1
    <3>3. Right(k)
      BY <2>3, <3>2
    <3> QED BY <2>1, <3>3
  <2>4. CASE k # 0 /\ Right(k - 1)
    <3>1. PICK F : \A s \in SUBSET list : Cardinality(s) <= k - 1 => F[s] = Next1(F, s)
      BY <2>4
    <3> DEFINE G == [s \in SUBSET list |-> Next1(F, s)]
    <3>2. ASSUME NEW s \in SUBSET list, Cardinality(s) <= k
          PROVE  G[s] = Next1(G, s)
      <4>1. CASE s = {}
        BY <4>1
      <4>2. CASE s # {}
        <5> DEFINE t == s \ {one(s)}
        <5>1. t \in SUBSET list /\ Cardinality(t) <= k - 1
          BY <1>2, <1>3, <3>2, <4>2
        <5>2. G[s] = Add(F[t], n, one(s)) /\ Next1(G, s) = Add(G[t], n, one(s))
          BY <4>2
        <5> HIDE DEF t, Next1
        <5>3. G[t] = F[t]
          BY <3>1, <5>1
        <5> QED BY <5>2, <5>3
      <4> QED BY <4>1, <4>2
    <3> HIDE DEF G, Next1
    <3>3. Right(k)
      BY <3>2
    <3> QED BY <2>1, <3>3
  <2> QED BY <2>2, <2>3, <2>4
<1>5. PICK F : \A s \in SUBSET list : F[s] = Next1(F, s)
  <2>1. Cardinality(list) \in Nat /\ \A s \in SUBSET list : Cardinality(s) <= Cardinality(list)
    BY FS_CardinalityType, FS_Subset
  <2>2. Right(Cardinality(list))
    <3> HIDE DEF Right
    <3> QED BY <1>4, <2>1
  <2> HIDE DEF Next1
  <2> QED BY <2>1, <2>2
<1>6. iter = [s \in SUBSET list |-> Next1(iter, s)]
  <2> DEFINE G == [s \in SUBSET list |-> Next1(F, s)]
  <2>1. G = [s \in SUBSET list |-> Next1(G, s)]
    <3>1. ASSUME NEW s \in SUBSET list PROVE Next1(F, s) = Next1(G, s)
      <4>1. CASE s = {}
        BY <4>1
      <4>2. CASE s # {}
        <5> DEFINE t == s \ {one(s)}
        <5>1. t \in SUBSET list
          BY <1>3, <4>2
        <5>2. Next1(F, s) = Add(F[t], n, one(s)) /\ Next1(G, s) = Add(G[t], n, one(s))
          BY <4>2
        <5> HIDE DEF t, Next1
        <5> QED BY <1>5, <5>1, <5>2
      <4> QED BY <4>1, <4>2
    <3> HIDE DEF Next1
    <3> QED BY <3>1
  <2> HIDE DEF G, Next1
  <2> QED BY <2>1
<1>7. iter[{}] = r
  <2> HIDE DEF iter
  <2> QED BY <1>6
<1>8. \A s \in SUBSET list : s # {} => \E x \in s : iter[s] = Add(iter[s \ {x}], n, x)
  <2> SUFFICES ASSUME NEW s \in SUBSET list, s # {}
               PROVE  \E x \in s : iter[s] = Add(iter[s \ {x}], n, x)
    OBVIOUS
  <2> HIDE DEF iter
  <2>1. iter[s] = Add(iter[s \ {one(s)}], n, one(s)) 
    BY <1>6
  <2>2. one(s) \in s
    BY <1>3
  <2> HIDE DEF one
  <2> QED BY <2>1, <2>2
<1> HIDE DEF iter
<1> QED BY <1>1, <1>7, <1>8 DEF OneByOne

\* A stack that has just been begun.
LEMMA StackInitIs ==
  ASSUME NEW serial_0 \in Int
  PROVE  LET st == StackInit(serial_0)
         IN  /\ IsStack(st) /\ Present(st) = {} /\ st.atoms = [s \in {} |-> {}]
             /\ st.seq_0s = [t \in Node |-> SEQ_INVALID]
             /\ st.serial_0_real = serial_0 /\ st.serial_reference = 0 /\ st.serial_max = 0
             /\ st.serial_0_base = ((serial_0 - SERIAL_START) \div NB_ATOMS_PER_BLOCK)
                                      * NB_ATOMS_PER_BLOCK + SERIAL_START
<1> DEFINE base == ((serial_0 - SERIAL_START) \div NB_ATOMS_PER_BLOCK)
                      * NB_ATOMS_PER_BLOCK + SERIAL_START
<1>1. base \in Int
  <2>1. (serial_0 - SERIAL_START) \div NB_ATOMS_PER_BLOCK \in Int /\ NB_ATOMS_PER_BLOCK \in Int
    BY BlockDivision, WindowAssumption DEF SERIAL_START
  <2> QED BY <2>1 DEF SERIAL_START
<1>2. SerialN1(base) \in Int /\ INT_MAX \in Int
  BY <1>1, SerialN1Type, IntMaxType
<1> DEFINE st == [serial_0_base |-> base, serial_0_real |-> serial_0,
                  serial_min |-> INT_MAX, serial_max |-> SERIAL_INVALID,
                  serial_draft |-> SERIAL_INVALID, serial_reference |-> SERIAL_INVALID,
                  serial_miss_min |-> SerialN1(base), serial_miss_max |-> serial_0,
                  serial_min_to_send |-> [t \in Node |-> serial_0],
                  seq_0s |-> [t \in Node |-> SEQ_INVALID],
                  atoms |-> [s \in {} |-> {}]]
<1>3. StackInit(serial_0) = st
  BY DEF StackInit
<1> HIDE DEF base
<1>4. IsStack(st)
  BY <1>1, <1>2 DEF IsStack, SERIAL_INVALID, SEQ_INVALID
<1> QED BY <1>3, <1>4 DEF base, Present, SERIAL_INVALID

\* The stack of a node that was not registered begins empty, and may be registered.
LEMMA StackInitSound ==
  ASSUME NEW r, NEW id, id \notin r.ids, NEW serial \in Int, NEW seq
  PROVE  /\ Begun(r, id, serial, seq) = StackInit(Max2(serial, SERIAL_START))
         /\ IsStack(Begun(r, id, serial, seq))
         /\ \A t \in Node : Begun(r, id, serial, seq).seq_0s[t] >= SEQ_INVALID
<1>1. Max2(serial, SERIAL_START) \in Int
  BY Max2Type DEF SERIAL_START
<1>2. Begun(r, id, serial, seq) = StackInit(Max2(serial, SERIAL_START))
  BY DEF Begun
<1> QED BY <1>1, <1>2, StackInitIs DEF SEQ_INVALID

\* A list of <<id, serial, seq>>, as META carries it.
IsList(list) ==
  IsFiniteSet(list) /\ \A x \in list : x[1] \in Node /\ x[2] \in Int /\ x[3] \in Int

\* q is r once those of list that r had not are registered.
Enlarged(r, n, list, q) ==
  /\ Sound(q) /\ q.ids = r.ids \cup {x[1] : x \in list}
  /\ \A o \in Node : o \in r.ids \/ o \notin q.ids => SameBody(r.stacks[o], q.stacks[o])
  /\ \A o \in Node \ q.ids : q.stacks[o] = r.stacks[o]
  /\ \A o \in q.ids \ r.ids : \E x \in list :
       /\ x[1] = o /\ SameBody(StackInit(Max2(x[2], SERIAL_START)), q.stacks[o])
       /\ q.stacks[n].seq_0s[o] = Max2(r.stacks[n].seq_0s[o], x[3])
  /\ \A t \in Node : t \in r.ids \/ t \notin q.ids =>
       q.stacks[n].seq_0s[t] = r.stacks[n].seq_0s[t]
  /\ q.seq_0[n] = r.seq_0[n]

\* Registering a list keeps the stacks of those registered before, and begins one
\* for each of the others.
LEMMA RegisterNewDoes ==
  ASSUME NEW r, Sound(r), NEW n \in r.ids, NEW list, IsList(list)
  PROVE  Enlarged(r, n, list, RegisterNew(r, n, list))
<1>0. PICK F : OneByOne(r, n, list, F)
  BY RegisterNewFolds DEF IsList
<1>1. /\ RegisterNew(r, n, list) = F[list]
      /\ F[{}] = r
      /\ \A s \in SUBSET list : s # {} => \E x \in s : F[s] = Add(F[s \ {x}], n, x)
  BY <1>0 DEF OneByOne
<1>2. \A s \in SUBSET list : IsFiniteSet(s) /\ Cardinality(s) \in Nat
  BY FS_Subset, FS_CardinalityType DEF IsList
<1>3. Enlarged(r, n, {}, r)
  BY DEF Enlarged, SameBody
<1>4. ASSUME NEW s \in SUBSET list, NEW x \in s, Enlarged(r, n, s \ {x}, F[s \ {x}]),
             F[s] = Add(F[s \ {x}], n, x)
      PROVE  Enlarged(r, n, s, F[s])
  <2> DEFINE p == F[s \ {x}]
             q == F[s]
             t == s \ {x}
  <2>1. x[1] \in Node /\ x[2] \in Int /\ x[3] \in Int
    BY DEF IsList
  <2>2. q = Add(p, n, x) /\ Enlarged(r, n, t, p) /\ t \subseteq s /\ s = t \cup {x}
    BY <1>4
  <2> HIDE DEF p, q, t
  <2>3. CASE x[1] \in p.ids
    <3>1. q = p
      BY <2>2, <2>3 DEF Add
    <3>2. q.ids = r.ids \cup {y[1] : y \in s}
      BY <2>2, <2>3, <3>1 DEF Enlarged
    <3> QED BY <2>2, <3>1, <3>2 DEF Enlarged, q
  <2>4. CASE x[1] \notin p.ids
    <3>1. q = RegisterNode(p, n, x[1], x[2], x[3])
      BY <2>2, <2>4 DEF Add
    <3>2. Sound(p) /\ n \in p.ids /\ x[1] # n /\ n \in Node
      BY <2>2, <2>4 DEF Enlarged, Sound
    <3>3. /\ Sound(q) /\ q.ids = p.ids \cup {x[1]}
          /\ \A o \in Node \ {x[1]} : SameBody(p.stacks[o], q.stacks[o])
          /\ \A o \in Node \ q.ids : q.stacks[o] = p.stacks[o]
          /\ SameBody(StackInit(Max2(x[2], SERIAL_START)), q.stacks[x[1]])
          /\ \A u \in Node \ {x[1]} : q.stacks[n].seq_0s[u] = p.stacks[n].seq_0s[u]
          /\ q.stacks[n].seq_0s[x[1]] = Max2(p.stacks[n].seq_0s[x[1]], x[3])
          /\ q.seq_0[n] = p.seq_0[n]
      BY <2>1, <2>4, <3>1, <3>2, StackInitSound, RegisterNodeDoes
    <3>4. q.ids = r.ids \cup {y[1] : y \in s}
      BY <2>2, <3>3 DEF Enlarged
    <3>5. \A o \in Node : o \in r.ids \/ o \notin q.ids => SameBody(r.stacks[o], q.stacks[o])
      BY <2>2, <2>4, <3>3 DEF Enlarged, SameBody
    <3>6. \A o \in q.ids \ r.ids : \E y \in s :
            /\ y[1] = o /\ SameBody(StackInit(Max2(y[2], SERIAL_START)), q.stacks[o])
            /\ q.stacks[n].seq_0s[o] = Max2(r.stacks[n].seq_0s[o], y[3])
      <4> SUFFICES ASSUME NEW o \in q.ids \ r.ids
                   PROVE  \E y \in s :
                     /\ y[1] = o /\ SameBody(StackInit(Max2(y[2], SERIAL_START)), q.stacks[o])
                     /\ q.stacks[n].seq_0s[o] = Max2(r.stacks[n].seq_0s[o], y[3])
        OBVIOUS
      <4>1. CASE o = x[1]
        <5>1. p.stacks[n].seq_0s[o] = r.stacks[n].seq_0s[o]
          BY <2>1, <2>2, <2>4, <4>1 DEF Enlarged
        <5> QED BY <3>3, <4>1, <5>1
      <4>2. CASE o # x[1]
        <5>1. o \in p.ids \ r.ids /\ o \in Node
          BY <3>2, <3>3, <4>2 DEF Sound
        <5>2. PICK y \in t : /\ y[1] = o
                             /\ SameBody(StackInit(Max2(y[2], SERIAL_START)), p.stacks[o])
                             /\ p.stacks[n].seq_0s[o] = Max2(r.stacks[n].seq_0s[o], y[3])
          BY <2>2, <5>1 DEF Enlarged
        <5>3. SameBody(p.stacks[o], q.stacks[o])
              /\ q.stacks[n].seq_0s[o] = p.stacks[n].seq_0s[o]
          BY <3>3, <4>2, <5>1
        <5>4. SameBody(StackInit(Max2(y[2], SERIAL_START)), q.stacks[o])
          BY <5>2, <5>3 DEF SameBody
        <5> QED BY <2>2, <5>2, <5>3, <5>4
      <4> QED BY <4>1, <4>2
    <3>7. \A u \in Node : u \in r.ids \/ u \notin q.ids =>
            q.stacks[n].seq_0s[u] = r.stacks[n].seq_0s[u]
      BY <2>2, <2>4, <3>3 DEF Enlarged
    <3>8. \A o \in Node \ q.ids : q.stacks[o] = r.stacks[o]
      BY <2>2, <3>3 DEF Enlarged
    <3>9. q.seq_0[n] = r.seq_0[n]
      BY <2>2, <3>3 DEF Enlarged
    <3>10. Enlarged(r, n, s, q)
      BY <3>3, <3>4, <3>5, <3>6, <3>7, <3>8, <3>9 DEF Enlarged
    <3> QED BY <3>10 DEF q
  <2> QED BY <2>3, <2>4 DEF q
<1>5. \A s \in SUBSET list : Enlarged(r, n, s, F[s])
  <2> DEFINE Bad == {s \in SUBSET list : ~Enlarged(r, n, s, F[s])}
             Sizes == {Cardinality(s) : s \in Bad}
  <2> SUFFICES ASSUME Bad # {} PROVE FALSE
    OBVIOUS
  <2>1. Sizes \subseteq Nat /\ Sizes # {}
    BY <1>2
  <2>2. PICK k \in Sizes : \A j \in Sizes : k <= j
    <3> HIDE DEF Sizes
    <3> QED BY <2>1, NatLeast
  <2>3. PICK s \in Bad : k = Cardinality(s)
    BY <2>2
  <2>4. s # {} /\ s \in SUBSET list
    BY <1>1, <1>3, <2>3
  <2>5. PICK x \in s : F[s] = Add(F[s \ {x}], n, x)
    BY <1>1, <2>4
  <2>6. s \ {x} \in SUBSET list /\ Cardinality(s \ {x}) = k - 1 /\ k \in Nat
    BY <1>2, <2>3, <2>4, FS_RemoveElement
  <2>7. s \ {x} \notin Bad
    BY <2>2, <2>6
  <2>8. Enlarged(r, n, s \ {x}, F[s \ {x}])
    BY <2>6, <2>7
  <2>9. Enlarged(r, n, s, F[s])
    BY <1>4, <2>4, <2>5, <2>8
  <2> QED BY <2>3, <2>9
<1> QED BY <1>1, <1>5

----------------------------------------------------------------------------
(* META messages put one after the other.                                  *)

\* new is the local stack st after k META messages.
PutMetas(st, new, k, seq) ==
  /\ IsStack(new) /\ new.seq_0s = st.seq_0s /\ Local(new)
  /\ new.serial_max = st.serial_max + k
  /\ \A s \in Present(new) :
       \/ s \in Present(st) /\ AtomAt(new, s) = AtomAt(st, s)
       \/ /\ s \in st.serial_max + 1 .. st.serial_max + k
          /\ AtomAt(new, s) = [MetaAtom EXCEPT !.seq = seq]
  /\ (Steady(st) /\ st.serial_max + NbMeta <= SerialN1(SERIAL_START)) => Grows(st, new)

\* One more.
LEMMA PutMetaMore ==
  ASSUME NEW st, NEW N \in Nat, Fits(st, N), Local(st), NEW n \in Node,
         Present(st) \subseteq 1 .. st.serial_max, 0 <= st.serial_max,
         NEW seq \in Int, seq >= st.seq_0s[n],
         st.serial_max + NbMeta <= N, 1 <= N,
         NEW k \in 0 .. NbMeta - 1, NEW mid, PutMetas(st, mid, k, seq)
  PROVE  PutMetas(st, PutMsg(mid, n, META, seq, 1, Node \ {n}), k + 1, seq)
<1> DEFINE new == PutMsg(mid, n, META, seq, 1, Node \ {n})
           atom == [MetaAtom EXCEPT !.seq = seq]
<1>1. /\ IsStack(st) /\ st.serial_max \in Int /\ Present(st) \subseteq Int
      /\ \A s \in Present(st) : s <= st.serial_max /\ 1 <= s /\ AtomAt(st, s).order_n <= N
  BY StackFields DEF Fits
<1>2. /\ IsStack(mid) /\ mid.seq_0s = st.seq_0s /\ Local(mid)
      /\ mid.serial_max = st.serial_max + k
      /\ \A s \in Present(mid) :
           \/ s \in Present(st) /\ AtomAt(mid, s) = AtomAt(st, s)
           \/ s \in st.serial_max + 1 .. st.serial_max + k /\ AtomAt(mid, s) = atom
  BY DEF PutMetas
<1>3. /\ NbMeta \in Nat /\ k \in Nat /\ 1 <= (BLOCK_DELTA_MAX - 1) * NB_ATOMS_PER_BLOCK
      /\ k + 1 <= NbMeta
  BY ConfigAssumption, WindowAssumption, JoinAssumption
<1>4. atom = [type |-> META, seq |-> seq, order_i |-> 0, order_n |-> 1]
  BY DEF MetaAtom
<1>5. \A s \in Present(mid) : 1 <= s /\ s <= mid.serial_max /\ AtomAt(mid, s).order_n <= N
                              /\ s \in Int
  <2> HIDE DEF atom
  <2>1. atom.order_n = 1
    BY <1>4
  <2> QED BY <1>1, <1>2, <1>3, <2>1
<1> HIDE DEF atom
<1>6. mid.serial_max <= N - 1 /\ mid.serial_max \in Int
  BY <1>1, <1>2, <1>3
<1>7. Fits(mid, N)
  <2>1. Present(mid) \subseteq 1 .. N
    BY <1>5, <1>6
  <2> QED BY <1>2, <1>5, <2>1 DEF Fits
<1>8. /\ IsStack(new) /\ new.seq_0s = mid.seq_0s /\ Local(new)
      /\ new.serial_max = mid.serial_max + 1
      /\ \A s \in Present(new) :
           \/ s \in Present(mid) /\ AtomAt(new, s) = AtomAt(mid, s)
           \/ /\ s \in mid.serial_max + 1 .. mid.serial_max + 1
              /\ AtomAt(new, s) = [type |-> META, seq |-> seq,
                                   order_i |-> s - (mid.serial_max + 1), order_n |-> 1]
  <2>1. 1 \in Nat \ {0} /\ META \in {DATA, META} /\ Node \ {n} \in SUBSET Node
        /\ seq >= mid.seq_0s[n]
    BY <1>2
  <2>2. \A one \in Nat \ {0} : one <= (BLOCK_DELTA_MAX - 1) * NB_ATOMS_PER_BLOCK =>
          LET put == PutMsg(mid, n, META, seq, one, Node \ {n})
              first == mid.serial_max + 1
          IN  /\ IsStack(put) /\ put.seq_0s = mid.seq_0s /\ Local(put)
              /\ put.serial_max = mid.serial_max + one
              /\ \A s \in Present(put) :
                   \/ s \in Present(mid) /\ AtomAt(put, s) = AtomAt(mid, s)
                   \/ /\ s \in first .. mid.serial_max + one
                      /\ AtomAt(put, s) = [type |-> META, seq |-> seq,
                                           order_i |-> s - first, order_n |-> one]
    BY <1>2, <1>7, <2>1, PutMsgAppends
  <2> QED BY <1>3, <2>1, <2>2
<1>9. \A s \in Present(new) :
        \/ s \in Present(st) /\ AtomAt(new, s) = AtomAt(st, s)
        \/ s \in st.serial_max + 1 .. st.serial_max + (k + 1) /\ AtomAt(new, s) = atom
  <2> SUFFICES ASSUME NEW s \in Present(new)
               PROVE  \/ s \in Present(st) /\ AtomAt(new, s) = AtomAt(st, s)
                      \/ /\ s \in st.serial_max + 1 .. st.serial_max + (k + 1)
                         /\ AtomAt(new, s) = atom
    OBVIOUS
  <2>1. CASE s \in Present(mid) /\ AtomAt(new, s) = AtomAt(mid, s)
    BY <1>1, <1>2, <1>3, <2>1
  <2>2. CASE /\ s \in mid.serial_max + 1 .. mid.serial_max + 1
             /\ AtomAt(new, s) = [type |-> META, seq |-> seq,
                                  order_i |-> s - (mid.serial_max + 1), order_n |-> 1]
    <3>1. s = mid.serial_max + 1 /\ s - (mid.serial_max + 1) = 0
      BY <1>6, <2>2
    <3>2. AtomAt(new, s) = atom
      BY <1>4, <2>2, <3>1
    <3> QED BY <1>1, <1>2, <1>3, <3>1, <3>2
  <2> QED BY <1>8, <2>1, <2>2
<1>10. (Steady(st) /\ st.serial_max + NbMeta <= SerialN1(SERIAL_START)) => Grows(st, new)
  <2> SUFFICES ASSUME Steady(st), st.serial_max + NbMeta <= SerialN1(SERIAL_START)
               PROVE  Grows(st, new)
    OBVIOUS
  <2>1. Grows(st, mid)
    BY DEF PutMetas
  <2>2. mid.serial_max + 1 <= SerialN1(SERIAL_START) /\ 0 <= mid.serial_max
    BY <1>1, <1>2, <1>3, WindowFacts
  <2>3. Present(mid) \subseteq 1 .. mid.serial_max
    BY <1>5, <1>6
  <2>4. Grows(mid, new)
    <3>1. Steady(mid) /\ 1 \in Nat \ {0}
      BY <2>1 DEF Grows
    <3> QED BY <1>2, <1>7, <2>2, <2>3, <3>1, PutMsgSteady
  <2>5. /\ st.serial_0_real \in Int /\ mid.serial_0_real \in Int /\ new.serial_0_real \in Int
    BY <1>1, <1>2, <1>8, StackFields
  <2> HIDE DEF new
  <2> QED BY <2>1, <2>4, <2>5 DEF Grows
<1> HIDE DEF new
<1>11. new.serial_max = st.serial_max + (k + 1)
  BY <1>1, <1>2, <1>3, <1>8
<1>12. PutMetas(st, new, k + 1, seq)
  BY <1>2, <1>8, <1>9, <1>10, <1>11 DEF PutMetas, atom
<1> QED BY <1>12 DEF new

\* All of them, and what they list.
LEMMA MetaPutsDoes ==
  ASSUME NEW r, Sound(r), NEW n \in r.ids, NEW seq \in Int, NEW N \in Nat,
         Fits(r.stacks[n], N), Local(r.stacks[n]),
         Present(r.stacks[n]) \subseteq 1 .. r.stacks[n].serial_max,
         0 <= r.stacks[n].serial_max, r.stacks[n].serial_max + NbMeta <= N, 1 <= N,
         seq >= r.stacks[n].seq_0s[n]
  PROVE  LET q == MetaPuts(r, n, seq)
         IN  /\ PutMetas(r.stacks[n], q.st, NbMeta, seq)
             /\ DOMAIN q.lists = 1 .. NbMeta
             /\ \A k \in 1 .. NbMeta : \E new :
                  /\ PutMetas(r.stacks[n], new, k - 1, seq)
                  /\ q.lists[k] = MetaGet([r.stacks EXCEPT ![n] = new], r.ids, seq)
<1> DEFINE st == r.stacks[n]
           W(F, k) == [r.stacks EXCEPT ![n] = F[k].st]
           Put(F, k) == [st    |-> PutMsg(W(F, k)[n], n, META, seq, 1, Node \ {n}),
                         lists |-> Append(F[k].lists, MetaGet(W(F, k), r.ids, seq))]
           Next1(F, k) == IF k = 0 THEN [st |-> st, lists |-> <<>>] ELSE Put(F, k - 1)
           puts == CHOOSE F : F = [k \in 0 .. NbMeta |-> Next1(F, k)]
           Right(k) == \E F : \A j \in 0 .. NbMeta : j <= k => F[j] = Next1(F, j)
<1>1. MetaPuts(r, n, seq) = puts[NbMeta]
  BY DEF MetaPuts
<1>2. NbMeta \in Nat
  BY ConfigAssumption, WindowAssumption
<1>3. ASSUME NEW F, NEW G, NEW k, F[k] = G[k] PROVE Put(F, k) = Put(G, k)
  BY <1>3
<1>4. \A F : Next1(F, 0) = [st |-> st, lists |-> <<>>]
             /\ \A k \in 1 .. NbMeta : Next1(F, k) = Put(F, k - 1)
  OBVIOUS
<1> HIDE DEF Put, Next1
<1>5. \A k \in Nat : Right(k)
  <2> SUFFICES ASSUME NEW k0 \in Nat, ~Right(k0) PROVE FALSE
    OBVIOUS
  <2>1. PICK k \in {k \in Nat : ~Right(k)} : \A j \in {k_1 \in Nat : ~Right(k_1)} : k <= j
    <3> HIDE DEF Right
    <3> QED BY NatLeast
  <2>2. k = 0 \/ Right(k - 1)
    <3> HIDE DEF Right
    <3> QED BY <2>1
  <2>3. CASE k = 0
    <3> DEFINE F == [j \in 0 .. NbMeta |-> [st |-> st, lists |-> <<>>]]
    <3>1. \A j \in 0 .. NbMeta : j <= 0 => F[j] = Next1(F, j)
      <4>1. ASSUME NEW j \in 0 .. NbMeta, j <= 0 PROVE F[j] = Next1(F, j)
        <5>1. j = 0 /\ F[j] = [st |-> st, lists |-> <<>>]
          BY <1>2, <4>1
        <5> QED BY <1>4, <5>1
      <4> QED BY <4>1
    <3> HIDE DEF F
    <3>2. Right(k)
      BY <2>3, <3>1
    <3> QED BY <2>1, <3>2
  <2>4. CASE k # 0 /\ Right(k - 1)
    <3>1. PICK F : \A j \in 0 .. NbMeta : j <= k - 1 => F[j] = Next1(F, j)
      BY <2>4
    <3> DEFINE G == [j \in 0 .. NbMeta |-> Next1(F, j)]
    <3>2. ASSUME NEW j \in 0 .. NbMeta, j <= k PROVE G[j] = Next1(G, j)
      <4>1. G[j] = Next1(F, j)
        OBVIOUS
      <4>2. CASE j = 0
        BY <1>4, <4>1, <4>2
      <4>3. CASE j # 0
        <5>1. j - 1 \in 0 .. NbMeta /\ j - 1 <= k - 1
          BY <1>2, <2>1, <3>2, <4>3
        <5>2. G[j - 1] = F[j - 1]
          BY <3>1, <5>1
        <5>3. Put(F, j - 1) = Put(G, j - 1)
          BY <1>3, <5>2
        <5>4. j \in 1 .. NbMeta
          BY <4>3
        <5> QED BY <1>4, <4>1, <5>3, <5>4
      <4> QED BY <4>2, <4>3
    <3> HIDE DEF G
    <3>3. Right(k)
      BY <3>2
    <3> QED BY <2>1, <3>3
  <2> QED BY <2>2, <2>3, <2>4
<1>6. PICK F : \A j \in 0 .. NbMeta : F[j] = Next1(F, j)
  <2>1. Right(NbMeta)
    <3> HIDE DEF Right
    <3> QED BY <1>2, <1>5
  <2> QED BY <1>2, <2>1
<1>7. puts = [k \in 0 .. NbMeta |-> Next1(puts, k)]
  <2> DEFINE G == [k \in 0 .. NbMeta |-> Next1(F, k)]
  <2>1. ASSUME NEW j \in 0 .. NbMeta PROVE Next1(F, j) = Next1(G, j)
    <3>1. CASE j = 0
      BY <1>4, <3>1
    <3>2. CASE j # 0
      <4>1. j - 1 \in 0 .. NbMeta /\ j \in 1 .. NbMeta
        BY <1>2, <3>2
      <4>2. G[j - 1] = F[j - 1]
        BY <1>6, <4>1
      <4>3. Put(F, j - 1) = Put(G, j - 1)
        BY <1>3, <4>2
      <4> QED BY <1>4, <4>1, <4>3
    <3> QED BY <3>1, <3>2
  <2>2. G = [k \in 0 .. NbMeta |-> Next1(G, k)]
    BY <2>1
  <2> HIDE DEF G
  <2> QED BY <2>2
<1> HIDE DEF puts
<1>8. puts[0] = [st |-> st, lists |-> <<>>]
      /\ \A k \in 1 .. NbMeta : puts[k] = Put(puts, k - 1)
  <2>1. \A k \in 0 .. NbMeta : puts[k] = Next1(puts, k)
    BY <1>7
  <2>2. 0 \in 0 .. NbMeta /\ \A k \in 1 .. NbMeta : k \in 0 .. NbMeta
    BY <1>2
  <2> QED BY <1>4, <2>1, <2>2
<1> DEFINE S == {MetaGet(W(puts, j), r.ids, seq) : j \in 0 .. NbMeta}
           Ok(k) ==
             /\ PutMetas(st, puts[k].st, k, seq)
             /\ puts[k].lists \in Seq(S) /\ Len(puts[k].lists) = k
             /\ \A j \in 1 .. k : \E new :
                  /\ PutMetas(st, new, j - 1, seq)
                  /\ puts[k].lists[j] = MetaGet([r.stacks EXCEPT ![n] = new], r.ids, seq)
<1>9. Ok(0)
  <2>1. PutMetas(st, st, 0, seq)
    <3>1. Steady(st) => Grows(st, st)
      BY StackFields DEF Grows, Fits
    <3>2. st.serial_max \in Int
      BY StackFields DEF Fits
    <3> QED BY <3>1, <3>2 DEF PutMetas, Fits
  <2>2. puts[0].st = st /\ puts[0].lists = <<>>
    BY <1>8
  <2>3. puts[0].lists \in Seq(S) /\ Len(puts[0].lists) = 0
    <3> HIDE DEF S
    <3> QED BY <2>2
  <2>4. \A j \in 1 .. 0 : FALSE
    OBVIOUS
  <2> HIDE DEF st, S
  <2> QED BY <2>1, <2>2, <2>3, <2>4
<1>10. ASSUME NEW k \in 0 .. NbMeta - 1, Ok(k) PROVE Ok(k + 1)
  <2> DEFINE list == MetaGet(W(puts, k), r.ids, seq)
  <2>1. k + 1 \in 1 .. NbMeta /\ (k + 1) - 1 = k /\ k \in Nat /\ k \in 0 .. NbMeta
    BY <1>2
  <2>2. puts[k + 1] = Put(puts, k)
    BY <1>8, <2>1
  <2>3. W(puts, k)[n] = puts[k].st
    BY DEF Sound
  <2>4. /\ puts[k + 1].st = PutMsg(puts[k].st, n, META, seq, 1, Node \ {n})
        /\ puts[k + 1].lists = Append(puts[k].lists, list)
    <3> HIDE DEF W
    <3> QED BY <2>2, <2>3 DEF Put
  <2>5. PutMetas(st, puts[k + 1].st, k + 1, seq)
    <3>1. n \in Node
      BY DEF Sound
    <3>2. PutMetas(st, PutMsg(puts[k].st, n, META, seq, 1, Node \ {n}), k + 1, seq)
      <4> HIDE DEF st
      <4> QED BY <1>10, <3>1, PutMetaMore DEF st
    <3> QED BY <2>4, <3>2
  <2>6. PutMetas(st, puts[k].st, (k + 1) - 1, seq)
        /\ list = MetaGet([r.stacks EXCEPT ![n] = puts[k].st], r.ids, seq)
    BY <1>10, <2>1
  <2>7. list \in S /\ puts[k].lists \in Seq(S) /\ Len(puts[k].lists) = k
    BY <1>10, <2>1
  <2> HIDE DEF list, S, st
  <2>8. /\ puts[k + 1].lists \in Seq(S) /\ Len(puts[k + 1].lists) = k + 1
        /\ \A j \in 1 .. k : puts[k + 1].lists[j] = puts[k].lists[j]
        /\ puts[k + 1].lists[k + 1] = list
    BY <2>1, <2>4, <2>7
  <2>9. ASSUME NEW j \in 1 .. k + 1
        PROVE  \E new : /\ PutMetas(st, new, j - 1, seq)
                        /\ puts[k + 1].lists[j] = MetaGet([r.stacks EXCEPT ![n] = new], r.ids, seq)
    <3>1. CASE j = k + 1
      BY <2>6, <2>8, <3>1
    <3>2. CASE j # k + 1
      <4>1. j \in 1 .. k
        BY <2>1, <3>2
      <4> QED BY <1>10, <2>8, <4>1
    <3> QED BY <3>1, <3>2
  <2> QED BY <2>5, <2>8, <2>9
<1>11. Ok(NbMeta)
  <2> DEFINE Bad == {k \in 0 .. NbMeta : ~Ok(k)}
  <2> HIDE DEF Ok
  <2> SUFFICES ASSUME Bad # {} PROVE FALSE
    BY <1>2
  <2>1. PICK k \in Bad : \A j \in Bad : k <= j
    <3>1. Bad \subseteq Nat
      OBVIOUS
    <3> HIDE DEF Bad
    <3> QED BY <3>1, NatLeast
  <2>2. k # 0 /\ k \in 1 .. NbMeta
    BY <1>2, <1>9
  <2>3. k - 1 \in 0 .. NbMeta - 1 /\ k - 1 \notin Bad /\ (k - 1) + 1 = k
    BY <1>2, <2>1, <2>2
  <2>4. Ok(k - 1)
    BY <1>2, <2>3
  <2>5. Ok((k - 1) + 1)
    BY <1>10, <2>3, <2>4
  <2> QED BY <2>1, <2>3, <2>5
<1>12. /\ PutMetas(st, puts[NbMeta].st, NbMeta, seq)
       /\ DOMAIN puts[NbMeta].lists = 1 .. NbMeta
       /\ \A j \in 1 .. NbMeta : \E new :
            /\ PutMetas(st, new, j - 1, seq)
            /\ puts[NbMeta].lists[j] = MetaGet([r.stacks EXCEPT ![n] = new], r.ids, seq)
  <2> HIDE DEF S, st
  <2> QED BY <1>11
<1> QED BY <1>1, <1>12

----------------------------------------------------------------------------
(* A stack begun again.                                                    *)

\* A stack that has just been begun is steady.
LEMMA StackInitSteady ==
  ASSUME NEW serial_0 \in Int, 1 <= serial_0
  PROVE  Steady(StackInit(serial_0))
<1> DEFINE k == (serial_0 - 1) \div NB_ATOMS_PER_BLOCK
           st == StackInit(serial_0)
           A  == NB_ATOMS_PER_BLOCK
<1>1. k \in Int /\ k * A <= serial_0 - 1 /\ serial_0 - 1 < k * A + A /\ A \in Nat \ {0}
      /\ k * A \in Int
  BY BlockDivision, WindowAssumption
<1>2. st.serial_0_base = k * A + 1 /\ st.serial_0_real = serial_0 /\ Present(st) = {}
      /\ st.serial_min = INT_MAX
  <2>1. st.serial_min = INT_MAX
    BY DEF StackInit
  <2> QED BY <2>1, StackInitIs DEF SERIAL_START
<1> HIDE DEF k, st
<1>3. k \in Nat
  <2>1. ASSUME k <= -1 PROVE FALSE
    <3>1. k * A <= (-1) * A /\ (-1) * A = -A
      BY <1>1, <2>1, BlocksGrow
    <3> HIDE DEF A
    <3> QED BY <1>1, <3>1
  <2> QED BY <1>1, <2>1
<1>4. \E j \in Nat : st.serial_0_base = SERIAL_START + j * NB_ATOMS_PER_BLOCK
  BY <1>1, <1>2, <1>3 DEF SERIAL_START
<1>5. st.serial_0_base <= st.serial_0_real
  <2> HIDE DEF A
  <2> QED BY <1>1, <1>2
<1> QED BY <1>2, <1>4, <1>5 DEF Steady, INT_MAX, st

\* What a stack keeps when it begins at another serial.
LEMMA StackShiftIs ==
  ASSUME NEW st, IsStack(st), NEW N \in Nat, Present(st) \subseteq 1 .. N, NEW st_seq_0,
         NEW serial_0 \in Int, 1 <= serial_0, NEW seq
  PROVE  LET new == StackShift(st, st_seq_0, serial_0, seq)
         IN  \/ new = st
             \/ /\ IsStack(new) /\ Steady(new) /\ new.seq_0s = [t \in Node |-> SEQ_INVALID]
                /\ Present(new) \subseteq Present(st)
                /\ \A s \in Present(new) : AtomAt(new, s) = AtomAt(st, s)
                /\ new.serial_reference = 0 /\ new.serial_0_real = serial_0
<1> DEFINE kept  == {s \in Present(st) : s >= serial_0}
           cells == [s \in kept |->
                       [st.atoms[s] EXCEPT !.sent_status = {}, !.update_msg_called = FALSE]]
           init  == StackInit(serial_0)
           new   == [init EXCEPT !.atoms = cells, !.serial_min = Min(kept), !.serial_max = Max(kept)]
<1>1. \/ StackShift(st, st_seq_0, serial_0, seq) = st
      \/ StackShift(st, st_seq_0, serial_0, seq) = new /\ serial_0 \in kept
  BY DEF StackShift
<1>2. ASSUME serial_0 \in kept
      PROVE  /\ IsStack(new) /\ Steady(new) /\ new.seq_0s = [t \in Node |-> SEQ_INVALID]
             /\ Present(new) \subseteq Present(st)
             /\ \A s \in Present(new) : AtomAt(new, s) = AtomAt(st, s)
             /\ new.serial_reference = 0 /\ new.serial_0_real = serial_0
  <2>1. /\ IsStack(init) /\ init.seq_0s = [t \in Node |-> SEQ_INVALID]
        /\ init.serial_0_real = serial_0 /\ init.serial_reference = 0
        /\ Steady(init)
    BY StackInitIs, StackInitSteady
  <2>2. st.atoms \in [Present(st) -> Cell]
    BY StackFields
  <2>3. \A s \in kept : cells[s] \in Cell /\ cells[s].atom = AtomAt(st, s)
    <3> SUFFICES ASSUME NEW s \in kept PROVE cells[s] \in Cell /\ cells[s].atom = AtomAt(st, s)
      OBVIOUS
    <3>1. st.atoms[s] \in Cell
      BY <2>2
    <3> QED BY <3>1 DEF Cell, AtomAt
  <2>4. DOMAIN cells = kept /\ kept \subseteq Int /\ (\A s \in kept : serial_0 <= s /\ s <= N)
        /\ cells \in [kept -> Cell]
    <3>1. cells = [s \in kept |-> cells[s]]
      OBVIOUS
    <3> HIDE DEF cells
    <3> QED BY <2>3, <3>1
  <2> HIDE DEF init, cells, kept
  <2>5. /\ Min(kept) \in kept /\ \A s \in kept : Min(kept) <= s
    BY <1>2, <2>4, MinIs
  <2>6. Max(kept) \in kept /\ \A s \in kept : Max(kept) >= s
    <3>1. kept \subseteq Int /\ (\A s \in kept : s <= N) /\ kept # {} /\ N \in Int
      BY <1>2, <2>4
    <3> QED BY <3>1, MaxIs, Zenon
  <2>7. Min(kept) \in Int /\ Max(kept) \in Int
    BY <2>4, <2>5, <2>6
  <2>8. /\ new.atoms = cells /\ new.serial_min = Min(kept) /\ new.seq_0s = init.seq_0s
        /\ new.serial_0_base = init.serial_0_base /\ new.serial_0_real = serial_0
        /\ new.serial_reference = 0 /\ new.serial_max = Max(kept)
    BY <2>1 DEF IsStack
  <2>9. IsStack(new)
    BY <2>1, <2>4, <2>7, <2>8 DEF IsStack
  <2> HIDE DEF new
  <2>10. Present(new) = kept /\ \A s \in kept : AtomAt(new, s) = AtomAt(st, s)
    BY <2>3, <2>4, <2>8 DEF Present, AtomAt
  <2>11. Steady(new)
    <3>1. 1 <= new.serial_min
      BY <2>4, <2>5, <2>7, <2>8
    <3>2. \A s \in Present(new) : new.serial_0_base <= s /\ new.serial_min <= s /\ s <= new.serial_max
      <4> SUFFICES ASSUME NEW s \in kept
                   PROVE  new.serial_0_base <= s /\ new.serial_min <= s /\ s <= new.serial_max
        BY <2>10
      <4>1. init.serial_0_base <= serial_0 /\ init.serial_0_base \in Int /\ s \in Int /\ serial_0 <= s
        BY <2>1, <2>4, StackFields DEF Steady
      <4> QED BY <2>5, <2>6, <2>7, <2>8, <4>1
    <3> QED BY <2>1, <2>8, <3>1, <3>2 DEF Steady
  <2>12. kept \subseteq Present(st)
    BY DEF kept
  <2> QED BY <2>1, <2>8, <2>9, <2>10, <2>11, <2>12
<1> QED BY <1>1, <1>2

----------------------------------------------------------------------------
(* What META lists.                                                        *)

\* The serial a seq begins at: the first atom of a message of that seq, if there
\* is one.
LEMMA Seq2SerialIs ==
  ASSUME NEW st, NEW N \in Nat, Fits(st, N), NEW seq
  PROVE  /\ Seq2Serial(st, seq) \in Int
         /\ \/ Seq2Serial(st, seq) = 0
            \/ \E s \in Present(st) : AtomAt(st, s).seq = seq /\ Seq2Serial(st, seq) <= s
<1>1. IsStack(st) /\ Present(st) \subseteq 1 .. N
  BY DEF Fits
<1>2. \A s \in Present(st) : s \in Int /\ HeadOf(st, s) \in Int /\ HeadOf(st, s) <= s
  <2> SUFFICES ASSUME NEW s \in Present(st)
               PROVE  s \in Int /\ HeadOf(st, s) \in Int /\ HeadOf(st, s) <= s
    OBVIOUS
  <2>1. s \in Int /\ AtomAt(st, s).order_i \in Nat
    BY <1>1, AtomFields
  <2> QED BY <2>1 DEF HeadOf
<1>3. CASE st.serial_max < st.serial_0_real \/ Having(st, seq) = {}
  BY <1>3 DEF Seq2Serial, SERIAL_INVALID
<1>4. CASE ~(st.serial_max < st.serial_0_real \/ Having(st, seq) = {})
  <2> DEFINE H == Having(st, seq)
  <2>1. H \subseteq Present(st) /\ H # {} /\ \A s \in H : AtomAt(st, s).seq = seq
    BY <1>4 DEF Having
  <2>2. H \subseteq Int /\ (\A s \in H : 1 <= s /\ s <= N) /\ N \in Int /\ 1 \in Int
    BY <1>1, <2>1
  <2> HIDE DEF H
  <2>3. Min(H) \in H
    BY <2>1, <2>2, MinIs, Zenon
  <2>4. Max(H) \in H
    BY <2>1, <2>2, MaxIs, Zenon
  <2>5. \E s \in H : Seq2Serial(st, seq) = HeadOf(st, s)
    BY <1>4, <2>3, <2>4 DEF Seq2Serial, H
  <2> QED BY <1>2, <2>1, <2>5
<1> QED BY <1>3, <1>4

\* A META message written for seq lists every registered node, from seq on when
\* no stack begins later.
LEMMA MetaGetIs ==
  ASSUME NEW w, NEW ids, ids \subseteq Node, IsFiniteSet(ids), NEW seq \in Int,
         \A o \in ids : /\ w[o].seq_0s[o] \in Int /\ w[o].seq_0s[o] >= SEQ_INVALID
                        /\ \E N \in Nat : Fits(w[o], N)
  PROVE  \E from \in Int :
           /\ MetaGet(w, ids, seq) = {<<o, Seq2Serial(w[o], from), from>> : o \in ids}
           /\ IsList(MetaGet(w, ids, seq))
           /\ \A o \in ids : (SEQ_INVALID < w[o].seq_0s[o] /\ w[o].seq_0s[o] <= seq) => from = seq
<1> DEFINE S == {w[o].seq_0s[o] : o \in ids} \ {SEQ_INVALID}
           lowest == MinOr(S, SEQ_INVALID)
           from == Max2(seq, lowest)
           list == {<<o, Seq2Serial(w[o], from), from>> : o \in ids}
<1>1. S \subseteq Int /\ (\A x \in S : SEQ_INVALID <= x) /\ SEQ_INVALID \in Int
  BY DEF SEQ_INVALID
<1>2. lowest \in Int
  <2> HIDE DEF S
  <2> QED BY <1>1, MinOrType
<1>3. from \in Int
  <2> HIDE DEF lowest
  <2> QED BY <1>2, Max2Type
<1>4. MetaGet(w, ids, seq) = list
  BY DEF MetaGet
<1>5. \A o \in ids : (SEQ_INVALID < w[o].seq_0s[o] /\ w[o].seq_0s[o] <= seq) => from = seq
  <2> SUFFICES ASSUME NEW o \in ids, SEQ_INVALID < w[o].seq_0s[o], w[o].seq_0s[o] <= seq
               PROVE  from = seq
    OBVIOUS
  <2> DEFINE x == w[o].seq_0s[o]
  <2>1. x \in S /\ S # {}
    BY DEF SEQ_INVALID
  <2>2. lowest = Min(S)
    BY <2>1 DEF MinOr
  <2> HIDE DEF S
  <2>3. Min(S) \in S /\ \A y \in S : Min(S) <= y
    BY <1>1, <2>1, MinIs, Zenon
  <2>4. lowest <= x
    BY <2>1, <2>2, <2>3
  <2>5. x \in Int /\ x <= seq
    OBVIOUS
  <2> HIDE DEF lowest, x
  <2> QED BY <1>2, <2>4, <2>5 DEF Max2
<1> HIDE DEF from
<1>6. IsFiniteSet(list)
  <2> DEFINE F == [o \in ids |-> <<o, Seq2Serial(w[o], from), from>>]
  <2>1. F \in Surjection(ids, list)
    BY DEF Surjection, Range
  <2> HIDE DEF F, list
  <2> QED BY <2>1, FS_Surjection
<1>7. \A x \in list : x[1] \in Node /\ x[2] \in Int /\ x[3] \in Int
  BY <1>3, Seq2SerialIs
<1>8. IsList(list)
  BY <1>6, <1>7 DEF IsList
<1> QED BY <1>3, <1>4, <1>5, <1>8

----------------------------------------------------------------------------
(* What holds in every game, however nodes come into it.                   *)

\* What is registered at n, wr being what everybody wrote: the stack of n itself
\* ends with the last atom n wrote, and n writes for no round before its first.
RegistryOK(r, n, wr, last) ==
  /\ Sound(r) /\ n \in r.ids
  /\ n = Server => IsFiniteSet(r.ids)
  /\ \A o \in Node : Holds(r.stacks[o], wr[o])
  /\ Local(r.stacks[n]) /\ r.stacks[n].serial_max = Len(wr[n])
  /\ r.stacks[n].seq_0s[n] <= last

\* An atom in flight is one that was written, and not on its way home.
AtomFlies(p, wr) ==
  /\ p.cmd \in {DATA, META}
  /\ p.to \in Node /\ p.from \in Node /\ p.to # p.from
  /\ p.serial \in 1 .. Len(wr[p.from]) /\ p.atom = wr[p.from][p.serial]
  /\ p.cmd = p.atom.type

Asks(p) ==
  p.cmd = "JOIN" /\ p.seq = 0 /\ p.to = Server /\ p.from \in Client /\ p.serial \in Int

Answers(p) ==
  /\ p.cmd = "JOIN" /\ p.seq \in Int /\ p.seq > 0
  /\ p.from = Server /\ p.to \in Client /\ p.serial \in Int

Flies(p, wr) == AtomFlies(p, wr) \/ Asks(p) \/ Answers(p)

Shapes ==
  /\ stacks = [n \in Node |-> stacks[n]]
  /\ known = [n \in Node |-> known[n]]
  /\ seq_0 = [n \in Node |-> seq_0[n]]
  /\ local_seq_last \in [Node -> Int]
  /\ written \in [Node -> Seq(Atom)]

\* Only the server writes META, and what it lists is known.
AuthorsOK(wr, lists) ==
  /\ \A o \in Node : Len(wr[o]) <= MaxSerial[o]
  /\ \A o \in Node : \A s \in 1 .. Len(wr[o]) :
       /\ wr[o][s].order_n <= MaxOrder + 1
       /\ wr[o][s].type = META => o = Server /\ s \in DOMAIN lists
  /\ \A s \in DOMAIN lists : s \in 1 .. Len(wr[Server]) /\ IsList(lists[s])

ComingOK ==
  /\ status = [c \in Client |-> status[c]]
  /\ \A c \in Client : status[c] # "in" => written[c] = <<>>
  /\ Seq0 <= local_seq_last[Server]

ComeInv ==
  /\ Shapes /\ ComingOK
  /\ AuthorsOK(written, meta)
  /\ \A n \in Node : RegistryOK(Registry(n), n, written, local_seq_last[n])
  /\ \A p \in net : Flies(p, written)

\* Others write more: what is held stays what was written.
LEMMA HoldsOn ==
  ASSUME NEW st, NEW a \in Seq(Atom), NEW b \in Seq(Atom), Holds(st, a),
         Len(a) <= Len(b), \A s \in 1 .. Len(a) : b[s] = a[s]
  PROVE  Holds(st, b)
<1>1. Len(a) \in Nat /\ Len(b) \in Nat
  OBVIOUS
<1> QED BY <1>1 DEF Holds

\* What a registry is made of.
LEMMA RegistryParts ==
  ASSUME ComeInv, NEW n \in Node
  PROVE  /\ RegistryOK(Registry(n), n, written, local_seq_last[n])
         /\ Registry(n).ids = known[n] /\ Registry(n).stacks = stacks[n]
         /\ Registry(n).seq_0 = seq_0[n]
         /\ stacks[n] = [o \in Node |-> stacks[n][o]]
         /\ \A o \in Node : /\ IsStack(stacks[n][o]) /\ Holds(stacks[n][o], written[o])
                            /\ written[o] \in Seq(Atom)
         /\ n \in known[n] /\ known[n] \subseteq Node
         /\ Local(stacks[n][n]) /\ stacks[n][n].serial_max = Len(written[n])
         /\ local_seq_last[n] \in Int
<1>1. RegistryOK(Registry(n), n, written, local_seq_last[n]) /\ Shapes
  BY DEF ComeInv
<1>2. /\ Registry(n).ids = known[n] /\ Registry(n).stacks = stacks[n]
      /\ Registry(n).seq_0 = seq_0[n]
  BY DEF Registry
<1>3. Sound(Registry(n)) /\ n \in known[n]
      /\ (\A o \in Node : Holds(stacks[n][o], written[o]))
      /\ Local(stacks[n][n]) /\ stacks[n][n].serial_max = Len(written[n])
  BY <1>1, <1>2 DEF RegistryOK
<1>4. stacks[n] = [o \in Node |-> stacks[n][o]] /\ (\A o \in Node : IsStack(stacks[n][o]))
      /\ known[n] \subseteq Node
  BY <1>2, <1>3 DEF Sound
<1> QED BY <1>1, <1>2, <1>3, <1>4 DEF Shapes

\* The atoms of every stack, and their messages, end somewhere.
LEMMA JoinFits ==
  ASSUME ComeInv, NEW n \in Node, NEW o \in Node
  PROVE  Fits(stacks[n][o], Last(o)) /\ Last(o) \in Nat /\ 1 <= Last(o)
<1>1. NbMeta \in Nat /\ MaxSerial[o] \in Nat /\ MaxOrder \in Nat
  BY ConfigAssumption
<1>2. /\ Last(o) \in Nat /\ 1 <= Last(o) /\ MaxSerial[o] <= Last(o) /\ MaxOrder + 1 <= Last(o)
  BY <1>1 DEF Last
<1>3. IsStack(stacks[n][o]) /\ Holds(stacks[n][o], written[o]) /\ written[o] \in Seq(Atom)
  BY RegistryParts
<1>4. Len(written[o]) \in Nat /\ Len(written[o]) <= MaxSerial[o]
      /\ \A s \in 1 .. Len(written[o]) : written[o][s].order_n <= MaxOrder + 1
                                         /\ written[o][s].order_n \in Nat
  <2>1. \A s \in 1 .. Len(written[o]) : written[o][s] \in Atom
    BY <1>3
  <2> QED BY <1>3, <2>1 DEF ComeInv, AuthorsOK, Atom
<1> HIDE DEF Last
<1>5. ASSUME NEW s \in Present(stacks[n][o])
      PROVE  s \in 1 .. Last(o) /\ AtomAt(stacks[n][o], s).order_n <= Last(o)
  <2>1. s \in 1 .. Len(written[o]) /\ AtomAt(stacks[n][o], s) = written[o][s]
    BY <1>3 DEF Holds
  <2> QED BY <1>1, <1>2, <1>4, <2>1
<1> QED BY <1>2, <1>3, <1>5 DEF Fits

\* later is what everybody has written after n wrote more, if anybody.
Writes(n, wr, later) ==
  /\ later \in [Node -> Seq(Atom)]
  /\ \A o \in Node \ {n} : later[o] = wr[o]
  /\ Len(wr[n]) <= Len(later[n])
  /\ \A s \in 1 .. Len(wr[n]) : later[n][s] = wr[n][s]

\* What o had written when n writes is still there.
LEMMA WritesOn ==
  ASSUME NEW wr \in [Node -> Seq(Atom)], NEW later, NEW n \in Node, Writes(n, wr, later),
         NEW o \in Node
  PROVE  /\ wr[o] \in Seq(Atom) /\ later[o] \in Seq(Atom)
         /\ Len(wr[o]) <= Len(later[o])
         /\ \A s \in 1 .. Len(wr[o]) : s \in 1 .. Len(later[o]) /\ later[o][s] = wr[o][s]
<1>1. wr[o] \in Seq(Atom) /\ later[o] \in Seq(Atom)
  BY DEF Writes
<1>2. Len(wr[o]) \in Nat /\ Len(later[o]) \in Nat
  BY <1>1
<1>3. Len(wr[o]) <= Len(later[o]) /\ \A s \in 1 .. Len(wr[o]) : later[o][s] = wr[o][s]
  <2>1. CASE o = n
    BY <2>1 DEF Writes
  <2>2. CASE o # n
    BY <1>2, <2>2 DEF Writes
  <2> QED BY <2>1, <2>2
<1> QED BY <1>1, <1>2, <1>3

\* Nobody writes.
LEMMA WritesNothing ==
  ASSUME NEW wr \in [Node -> Seq(Atom)], NEW n \in Node
  PROVE  Writes(n, wr, wr)
<1>1. wr[n] \in Seq(Atom)
  OBVIOUS
<1>2. Len(wr[n]) \in Nat
  BY <1>1
<1> QED BY <1>2 DEF Writes

\* What is in flight stays what was written.
LEMMA FliesOn ==
  ASSUME NEW wr \in [Node -> Seq(Atom)], NEW later, NEW n \in Node, Writes(n, wr, later),
         NEW p, Flies(p, wr)
  PROVE  Flies(p, later)
<1>1. CASE AtomFlies(p, wr)
  <2>1. p.from \in Node /\ p.serial \in 1 .. Len(wr[p.from])
    BY <1>1 DEF AtomFlies
  <2>2. p.serial \in 1 .. Len(later[p.from]) /\ later[p.from][p.serial] = wr[p.from][p.serial]
    BY <2>1, WritesOn
  <2> QED BY <1>1, <2>2 DEF AtomFlies, Flies
<1> QED BY <1>1 DEF Flies

\* What the steps have in common: at most node n changes what it has registered,
\* its round and what it wrote; what it sends was written.
LEMMA NodeStep ==
  ASSUME ComeInv, NEW n \in Node, NEW q, NEW last \in Int,
         stacks' = [stacks EXCEPT ![n] = q.stacks],
         known' = [known EXCEPT ![n] = q.ids],
         seq_0' = [seq_0 EXCEPT ![n] = q.seq_0],
         local_seq_last' = [local_seq_last EXCEPT ![n] = last],
         Writes(n, written, written'),
         RegistryOK(q, n, written', last),
         AuthorsOK(written', meta'), ComingOK',
         \A p \in net' : p \in net \/ Flies(p, written')
  PROVE  ComeInv'
<1>1. Shapes
  BY DEF ComeInv
<1>2. Shapes'
  BY <1>1 DEF Shapes, Writes
<1>3. ASSUME NEW m \in Node PROVE RegistryOK(Registry(m), m, written, local_seq_last[m])'
  <2>1. CASE m = n
    <3>1. Registry(m)' = [ids |-> q.ids, stacks |-> q.stacks, seq_0 |-> q.seq_0]
      BY <1>1, <2>1 DEF Registry, Shapes
    <3>2. q = [ids |-> q.ids, stacks |-> q.stacks, seq_0 |-> q.seq_0]
      BY DEF RegistryOK, Sound
    <3>3. local_seq_last'[m] = last
      BY <1>1, <2>1 DEF Shapes
    <3>4. Registry(m)' = q
      BY <3>1, <3>2
    <3>5. RegistryOK(q, m, written', local_seq_last'[m])
      BY <2>1, <3>3
    <3> QED BY <3>4, <3>5
  <2>2. CASE m # n
    <3>1. Registry(m)' = Registry(m) /\ local_seq_last'[m] = local_seq_last[m]
          /\ written'[m] = written[m]
      BY <1>1, <2>2 DEF Registry, Shapes, Writes
    <3>2. RegistryOK(Registry(m), m, written, local_seq_last[m])
      BY DEF ComeInv
    <3>3. ASSUME NEW o \in Node PROVE Holds(Registry(m).stacks[o], written'[o])
      <4>1. Holds(Registry(m).stacks[o], written[o])
        BY <3>2 DEF RegistryOK
      <4>2. written \in [Node -> Seq(Atom)]
        BY <1>1 DEF Shapes
      <4>3. /\ written[o] \in Seq(Atom) /\ written'[o] \in Seq(Atom)
            /\ Len(written[o]) <= Len(written'[o])
            /\ \A s \in 1 .. Len(written[o]) :
                 s \in 1 .. Len(written'[o]) /\ written'[o][s] = written[o][s]
        BY <4>2, WritesOn
      <4> QED BY <4>1, <4>3, HoldsOn
    <3>4. RegistryOK(Registry(m), m, written', local_seq_last'[m])
      BY <3>1, <3>2, <3>3 DEF RegistryOK
    <3> QED BY <3>1, <3>4
  <2> QED BY <2>1, <2>2
<1>4. ASSUME NEW p \in net' PROVE Flies(p, written')
  <2>1. CASE p \in net
    <3>1. Flies(p, written)
      BY <2>1 DEF ComeInv
    <3> QED BY <1>1, <3>1, FliesOn DEF Shapes
  <2> QED BY <2>1
<1> QED BY <1>2, <1>3, <1>4 DEF ComeInv

\* Bookkeeping in the stacks of a registry.
LEMMA RegistryKeeps ==
  ASSUME NEW r, NEW n, NEW wr, NEW last, RegistryOK(r, n, wr, last), n \in Node,
         NEW w, w = [o \in Node |-> w[o]],
         \A o \in Node : IsStack(w[o]) /\ SameAtoms(r.stacks[o], w[o])
  PROVE  RegistryOK([r EXCEPT !.stacks = w], n, wr, last)
<1> DEFINE q == [r EXCEPT !.stacks = w]
<1>1. Sound(r)
  BY DEF RegistryOK
<1>2. q = [ids |-> r.ids, stacks |-> w, seq_0 |-> r.seq_0]
  BY <1>1 DEF Sound
<1>3. \A o \in Node : \A t \in Node : w[o].seq_0s[t] >= SEQ_INVALID
  BY <1>1 DEF Sound, SameAtoms
<1>4. Sound(q)
  BY <1>1, <1>2, <1>3 DEF Sound
<1>5. \A o \in Node : Holds(w[o], wr[o])
  BY DEF RegistryOK, Holds, SameAtoms
<1>6. Local(w[n]) /\ w[n].serial_max = Len(wr[n]) /\ w[n].seq_0s[n] <= last
  BY DEF RegistryOK, SameAtoms, Local
<1> QED BY <1>2, <1>4, <1>5, <1>6 DEF RegistryOK

\* Bookkeeping in the stacks of one node, and what it sends of them.
LEMMA BookStep ==
  ASSUME ComeInv, NEW n \in Node, NEW w, w = [o \in Node |-> w[o]],
         \A o \in Node : IsStack(w[o]) /\ SameAtoms(stacks[n][o], w[o]),
         stacks' = [stacks EXCEPT ![n] = w],
         UNCHANGED <<local_seq_last, written, known, seq_0, meta>>, ComingOK',
         \A p \in net' : p \in net \/ Flies(p, written)
  PROVE  ComeInv'
<1>1. Shapes /\ AuthorsOK(written, meta)
      /\ RegistryOK(Registry(n), n, written, local_seq_last[n])
  BY DEF ComeInv
<1>2. PICK q : q = [Registry(n) EXCEPT !.stacks = w]
  OBVIOUS
<1>3. Registry(n).stacks = stacks[n]
  BY DEF Registry
<1>4. RegistryOK(q, n, written, local_seq_last[n])
  BY <1>1, <1>2, <1>3, RegistryKeeps
<1>5. q = [ids |-> known[n], stacks |-> w, seq_0 |-> seq_0[n]]
  BY <1>2 DEF Registry
<1>6. PICK last \in Int : last = local_seq_last[n]
  BY <1>1 DEF Shapes
<1>7. /\ stacks' = [stacks EXCEPT ![n] = q.stacks]
      /\ known' = [known EXCEPT ![n] = q.ids]
      /\ seq_0' = [seq_0 EXCEPT ![n] = q.seq_0]
      /\ local_seq_last' = [local_seq_last EXCEPT ![n] = last]
  BY <1>1, <1>5, <1>6 DEF Shapes
<1>8. Writes(n, written, written')
  BY <1>1, WritesNothing DEF Shapes
<1>9. RegistryOK(q, n, written', last) /\ AuthorsOK(written', meta')
  BY <1>1, <1>4, <1>6
<1>10. \A p \in net' : p \in net \/ Flies(p, written')
  OBVIOUS
<1> QED BY <1>7, <1>8, <1>9, <1>10, NodeStep

\* Nothing but the network and status moves.
LEMMA StatusStep ==
  ASSUME ComeInv, UNCHANGED <<stacks, local_seq_last, written, known, seq_0, meta>>, ComingOK',
         \A p \in net' : p \in net \/ Flies(p, written)
  PROVE  ComeInv'
<1>1. Server \in Node /\ Shapes
  BY ConfigAssumption DEF ComeInv
<1>2. PICK w : w = stacks[Server]
  OBVIOUS
<1>3. w = [o \in Node |-> w[o]] /\ \A o \in Node : IsStack(w[o]) /\ stacks[Server][o] = w[o]
  BY <1>1, <1>2, RegistryParts
<1>4. \A o \in Node : IsStack(w[o]) /\ SameAtoms(stacks[Server][o], w[o])
  BY <1>3 DEF SameAtoms
<1>5. stacks' = [stacks EXCEPT ![Server] = w]
  BY <1>1, <1>2 DEF Shapes
<1> QED BY <1>1, <1>3, <1>4, <1>5, BookStep

\* Reading hands messages over: the stacks keep their atoms.
LEMMA ReadInGameStep ==
  ASSUME ComeInv, NEW n \in Node, ReadInGame(n)
  PROVE  ComeInv'
<1> DEFINE calc == CalcAll(stacks[n])
<1>1. PICK ref : ref = KnownReference(n)
  OBVIOUS
<1>2. HandOver(n, ref) \/ NothingNew(n, ref)
  BY <1>1 DEF ReadInGame
<1>3. UNCHANGED <<local_seq_last, net, written, known, seq_0, meta, status>>
  BY <1>2 DEF ReadInGame, HandOver, NothingNew, membership
<1>4. ComingOK' /\ \A p \in net' : p \in net
  BY <1>3 DEF ComeInv, ComingOK
<1>5. ASSUME NEW o \in Node
      PROVE  /\ calc[o] = Calc(stacks[n][o]) /\ Fits(calc[o], Last(o)) /\ Last(o) \in Nat
             /\ IsStack(calc[o]) /\ SameAtoms(stacks[n][o], calc[o])
  <2>1. Fits(stacks[n][o], Last(o)) /\ Last(o) \in Nat
    BY JoinFits
  <2>2. IsStack(Calc(stacks[n][o])) /\ SameAtoms(stacks[n][o], Calc(stacks[n][o]))
    BY <2>1, CalcKeeps
  <2>3. calc[o] = Calc(stacks[n][o])
    BY DEF CalcAll
  <2> QED BY <2>1, <2>2, <2>3, SameAtomsFits
<1>6. calc = [o \in Node |-> calc[o]]
  BY DEF CalcAll
<1> HIDE DEF calc
<1>7. CASE HandOver(n, ref)
  <2> DEFINE new == last_seq_reference[n] + 1 .. ref
             cleared(o) == ClearRecent(calc[o], ref)
             v == [o \in Node |-> Popped(cleared(o), new, TRUE)]
  <2>1. PICK w : w = v
    OBVIOUS
  <2>2. stacks' = [stacks EXCEPT ![n] = w]
    BY <1>7, <2>1 DEF HandOver, calc
  <2>3. ASSUME NEW o \in Node PROVE IsStack(w[o]) /\ SameAtoms(stacks[n][o], w[o])
    <3> DEFINE cl == ClearRecent(calc[o], ref)
               popped == Popped(cl, new, TRUE)
    <3>1. IsStack(cl) /\ SameAtoms(calc[o], cl)
      BY <1>5, ClearRecentKeeps
    <3>2. w[o] = popped
      BY <2>1
    <3> HIDE DEF cl, new
    <3>3. Fits(cl, Last(o))
      BY <1>5, <3>1, SameAtomsFits
    <3>4. IsStack(popped) /\ SameAtoms(cl, popped)
      BY <1>5, <3>3, PoppedKeeps
    <3> HIDE DEF popped
    <3>5. SameAtoms(calc[o], popped)
      BY <3>1, <3>4, SameAtomsTrans
    <3>6. SameAtoms(stacks[n][o], popped)
      BY <1>5, <3>5, SameAtomsTrans
    <3> QED BY <3>2, <3>4, <3>6
  <2>4. w = [o \in Node |-> w[o]]
    BY <2>1
  <2> QED BY <1>3, <1>4, <2>2, <2>3, <2>4, BookStep
<1>8. CASE NothingNew(n, ref)
  <2>1. PICK w : w = calc
    OBVIOUS
  <2>2. stacks' = [stacks EXCEPT ![n] = w]
    BY <1>8, <2>1 DEF NothingNew, calc
  <2> QED BY <1>3, <1>4, <1>5, <1>6, <2>1, <2>2, BookStep
<1> QED BY <1>2, <1>7, <1>8

\* Sending: what leaves is what the stacks hold.
LEMMA SendToKnownStep ==
  ASSUME ComeInv, NEW n \in Node, NEW peer \in Node, SendToKnown(n, peer)
  PROVE  /\ ComeInv'
         /\ \A p \in net' : p \in net \/ (AtomFlies(p, written) /\ p.to \in known[n])
<1> DEFINE v == [o \in Node |-> IF o = peer THEN stacks[n][o] ELSE Sent(stacks[n][o], peer)]
           leaving == UNION {
             {AtomPacket(peer, o, s, AtomAt(stacks[n][o], s)) : s \in ToSend(stacks[n][o], peer)} :
                o \in Node \ {peer}}
<1>1. PICK w : w = v
  OBVIOUS
<1>2. w = [o \in Node |-> w[o]]
  BY <1>1
<1>3. /\ stacks' = [stacks EXCEPT ![n] = w] /\ net' = net \cup leaving /\ peer \in known[n]
      /\ UNCHANGED <<local_seq_last, written, known, seq_0, meta, status>>
  BY <1>1, RegistryParts DEF SendToKnown, SendAtoms, membership, ComeInv, Shapes
<1>4. ASSUME NEW o \in Node PROVE IsStack(w[o]) /\ SameAtoms(stacks[n][o], w[o])
  <2>1. Fits(stacks[n][o], Last(o)) /\ Last(o) \in Nat /\ IsStack(stacks[n][o])
    BY JoinFits, RegistryParts
  <2>2. CASE o = peer
    <3>1. w[o] = stacks[n][o]
      BY <1>1, <2>2
    <3> QED BY <2>1, <3>1 DEF SameAtoms
  <2>3. CASE o # peer
    <3>1. w[o] = Sent(stacks[n][o], peer)
      BY <1>1, <2>3
    <3> QED BY <2>1, <3>1, SentKeeps
  <2> QED BY <2>2, <2>3
<1>5. ASSUME NEW p \in leaving
      PROVE  AtomFlies(p, written) /\ p.to \in known[n]
  <2>1. PICK o \in Node \ {peer} : \E s \in ToSend(stacks[n][o], peer) :
               p = AtomPacket(peer, o, s, AtomAt(stacks[n][o], s))
    OBVIOUS
  <2> PICK s \in ToSend(stacks[n][o], peer) : p = AtomPacket(peer, o, s, AtomAt(stacks[n][o], s))
    BY <2>1
  <2>2. s \in Present(stacks[n][o]) /\ IsStack(stacks[n][o]) /\ Holds(stacks[n][o], written[o])
    BY RegistryParts DEF ToSend
  <2>3. s \in 1 .. Len(written[o]) /\ AtomAt(stacks[n][o], s) = written[o][s]
    BY <2>2 DEF Holds
  <2>4. AtomAt(stacks[n][o], s).type \in {DATA, META}
    BY <2>2, AtomFields DEF Atom
  <2> QED BY <1>3, <2>3, <2>4 DEF AtomFlies, AtomPacket
<1> HIDE DEF leaving
<1>6. \A p \in net' : p \in net \/ (AtomFlies(p, written) /\ p.to \in known[n])
  BY <1>3, <1>5
<1>7. \A p \in net' : p \in net \/ Flies(p, written)
  BY <1>6 DEF Flies
<1>8. ComingOK'
  BY <1>3 DEF ComeInv, ComingOK
<1> QED BY <1>2, <1>3, <1>4, <1>6, <1>7, <1>8, BookStep

\* It asks to be let in.
LEMMA AskToJoinStep ==
  ASSUME ComeInv, NEW c \in Client, AskToJoin(c)
  PROVE  ComeInv'
<1>1. c \in Node /\ c # Server /\ Server \in Node
  BY ConfigAssumption DEF Client
<1>2. stacks[c][c].serial_max \in Int
  BY <1>1, RegistryParts, StackFields
<1>3. /\ UNCHANGED <<stacks, local_seq_last, written, known, seq_0, meta>>
      /\ net' = net \cup {JoinPacket(Server, c, 0, stacks[c][c].serial_max)}
      /\ status[c] = "connecting" /\ status' = [status EXCEPT ![c] = "asking"]
  BY DEF AskToJoin
<1>4. \A p \in net' : p \in net \/ Flies(p, written)
  BY <1>2, <1>3 DEF JoinPacket, Flies, Asks
<1>5. ComingOK'
  BY <1>3 DEF ComeInv, ComingOK
<1> QED BY <1>3, <1>4, <1>5, StatusStep

\* It gives up.
LEMMA TimeOutStep ==
  ASSUME ComeInv, NEW c \in Client, TimeOut(c)
  PROVE  ComeInv'
<1>1. /\ UNCHANGED <<stacks, local_seq_last, written, known, seq_0, meta, net>>
      /\ status[c] = "asking" /\ status' = [status EXCEPT ![c] = "failed"]
  BY DEF TimeOut, vars
<1>2. ComingOK'
  BY <1>1 DEF ComeInv, ComingOK
<1> QED BY <1>1, <1>2, StatusStep

\* A registry that begins again.
LEMMA ClearedIs ==
  ASSUME NEW n \in Node, NEW wr, Len(wr[n]) = 0, NEW last \in Int, SEQ_INVALID <= last
  PROVE  RegistryOK(Cleared(n), n, wr, last)
<1> DEFINE st == StackInit(SERIAL_START)
<1>1. SERIAL_START \in Int /\ SERIAL_START = 1
  BY DEF SERIAL_START
<1>2. /\ IsStack(st) /\ Present(st) = {} /\ st.seq_0s = [t \in Node |-> SEQ_INVALID]
      /\ st.serial_max = 0
      /\ st.serial_0_base = ((SERIAL_START - SERIAL_START) \div NB_ATOMS_PER_BLOCK)
                                      * NB_ATOMS_PER_BLOCK + SERIAL_START
  BY <1>1, StackInitIs
<1>3. st.serial_0_base = 1
  <2>1. NB_ATOMS_PER_BLOCK \in Nat \ {0}
    BY WindowAssumption
  <2>2. 0 \div NB_ATOMS_PER_BLOCK = 0
    BY <2>1
  <2> QED BY <1>1, <1>2, <2>1, <2>2
<1>4. Cleared(n) = [ids |-> {n}, stacks |-> [o \in Node |-> st],
                    seq_0 |-> [o \in Node |-> IF o = n THEN NODE_DEFAULT_SEQ_0 ELSE SEQ_INVALID]]
  BY DEF Cleared
<1> HIDE DEF st
<1>5. Sound(Cleared(n))
  BY <1>2, <1>4 DEF Sound, NODE_DEFAULT_SEQ_0, SEQ_INVALID
<1>6. \A o \in Node : Holds(Cleared(n).stacks[o], wr[o])
  BY <1>2, <1>4 DEF Holds
<1>7. Local(st)
  BY <1>2, <1>3, WindowFacts DEF Local, SERIAL_START
<1>8. IsFiniteSet({n})
  BY FS_Singleton
<1>9. Cleared(n).ids = {n} /\ Cleared(n).stacks[n] = st
  BY <1>4
<1>10. st.serial_max = Len(wr[n]) /\ st.seq_0s[n] <= last
  BY <1>2 DEF SEQ_INVALID
<1> QED BY <1>5, <1>6, <1>7, <1>8, <1>9, <1>10 DEF RegistryOK

\* client_join begins: everything is cleared.
LEMMA ClientJoinStep ==
  ASSUME ComeInv, NEW c \in Client, ClientJoin(c)
  PROVE  ComeInv'
<1>1. c \in Node /\ c # Server /\ Server \in Node
  BY ConfigAssumption DEF Client
<1>2. PICK q : q = Cleared(c)
  OBVIOUS
<1>3. /\ stacks' = [stacks EXCEPT ![c] = q.stacks]
      /\ known' = [known EXCEPT ![c] = q.ids]
      /\ seq_0' = [seq_0 EXCEPT ![c] = q.seq_0]
      /\ local_seq_last' = [local_seq_last EXCEPT ![c] = SEQ_START]
      /\ status[c] = "out" /\ status' = [status EXCEPT ![c] = "connecting"]
      /\ UNCHANGED <<net, written, meta>>
  BY <1>2 DEF ClientJoin, Record
<1>4. SEQ_START \in Int /\ SEQ_INVALID <= SEQ_START
  BY DEF SEQ_START, SEQ_INVALID
<1>5. Shapes /\ AuthorsOK(written, meta) /\ ComingOK
  BY DEF ComeInv
<1>6. written[c] = <<>>
  BY <1>3, <1>5 DEF ComingOK
<1>7. RegistryOK(q, c, written', SEQ_START)
  BY <1>1, <1>2, <1>3, <1>4, <1>6, ClearedIs
<1>8. Writes(c, written, written')
  BY <1>1, <1>3, <1>5, WritesNothing DEF Shapes
<1>9. ComingOK'
  BY <1>1, <1>3, <1>5 DEF ComingOK, Shapes
<1>10. AuthorsOK(written', meta')
  BY <1>3, <1>5
<1> QED BY <1>1, <1>3, <1>4, <1>7, <1>8, <1>9, <1>10, NodeStep

\* Writing: the message is in the stack as it is in the history.
LEMMA WriteInGameStep ==
  ASSUME ComeInv, NEW n \in Node, WriteInGame(n)
  PROVE  /\ ComeInv'
         /\ Writes(n, written, written')
         /\ \E seq \in Int, order_n \in Nat \ {0} :
              /\ PutLocalMsg(n, seq, order_n) /\ order_n <= MaxOrder
              /\ Len(written'[n]) = Len(written[n]) + order_n
              /\ \A s \in Len(written[n]) + 1 .. Len(written[n]) + order_n :
                   written'[n][s] = [type |-> DATA, seq |-> seq,
                                     order_i |-> s - (Len(written[n]) + 1), order_n |-> order_n]
<1>1. PICK seq \in Seq0 .. MaxSeq, order_n \in 1 .. MaxOrder : PutLocalMsg(n, seq, order_n)
  BY DEF WriteInGame, Write
<1> DEFINE st    == stacks[n][n]
           put   == PutMsg(st, n, DATA, seq, order_n, Node \ {n})
           msg   == [i \in 1 .. order_n |->
                       [type |-> DATA, seq |-> seq, order_i |-> i - 1, order_n |-> order_n]]
           len   == Len(written[n])
<1>2. Shapes /\ AuthorsOK(written, meta) /\ ComingOK
      /\ RegistryOK(Registry(n), n, written, local_seq_last[n])
  BY DEF ComeInv
<1>3. /\ MaxOrder \in Nat /\ MaxOrder <= (BLOCK_DELTA_MAX - 1) * NB_ATOMS_PER_BLOCK
      /\ (BLOCK_DELTA_MAX - 1) * NB_ATOMS_PER_BLOCK \in Int
      /\ Seq0 \in Nat /\ MaxSeq \in Nat /\ MaxSerial[n] \in Nat /\ Server \in Node
  BY ConfigAssumption, WindowAssumption
<1>4. seq \in Int /\ order_n \in Nat \ {0} /\ Seq0 <= seq
      /\ order_n <= (BLOCK_DELTA_MAX - 1) * NB_ATOMS_PER_BLOCK /\ order_n <= MaxOrder
  BY <1>3
<1>5. /\ local_seq_last' = [local_seq_last EXCEPT ![n] = seq]
      /\ written' = [written EXCEPT ![n] = written[n] \o msg]
      /\ seq >= local_seq_last[n] /\ len + order_n <= MaxSerial[n]
      /\ UNCHANGED <<net, known, seq_0, meta, status>>
      /\ n \in InGame
  BY <1>1, <1>2 DEF PutLocalMsg, Shapes, WriteInGame, membership
<1>6. stacks' = [stacks EXCEPT ![n] = [stacks[n] EXCEPT ![n] = put]]
  BY <1>1 DEF PutLocalMsg
<1>7. /\ Fits(st, Last(n)) /\ Last(n) \in Nat /\ Local(st) /\ st.serial_max = len
      /\ IsStack(st) /\ Holds(st, written[n])
      /\ st.seq_0s[n] <= local_seq_last[n] /\ st.seq_0s[n] \in Int /\ local_seq_last[n] \in Int
  <2>1. Fits(st, Last(n)) /\ Last(n) \in Nat /\ IsStack(st)
    BY JoinFits DEF Fits
  <2>2. Local(st) /\ st.serial_max = len /\ Holds(st, written[n]) /\ local_seq_last[n] \in Int
    BY RegistryParts
  <2>3. st.seq_0s[n] <= local_seq_last[n]
    BY <1>2 DEF RegistryOK, Registry
  <2>4. st.seq_0s[n] \in Int
    <3> HIDE DEF st
    <3> QED BY <2>1, StackFields
  <2> QED BY <2>1, <2>2, <2>3, <2>4
<1>8. seq >= st.seq_0s[n]
  <2> HIDE DEF st
  <2> QED BY <1>4, <1>5, <1>7
<1>9. /\ IsStack(put) /\ put.seq_0s = st.seq_0s /\ Local(put)
      /\ put.serial_max = len + order_n
      /\ \A s \in Present(put) :
           \/ s \in Present(st) /\ AtomAt(put, s) = AtomAt(st, s)
           \/ /\ s \in len + 1 .. len + order_n
              /\ AtomAt(put, s) = [type |-> DATA, seq |-> seq,
                                   order_i |-> s - (len + 1), order_n |-> order_n]
  <2>1. DATA \in {DATA, META} /\ Node \ {n} \in SUBSET Node
    OBVIOUS
  <2> HIDE DEF st
  <2> QED BY <1>4, <1>7, <1>8, <2>1, PutMsgAppends
<1>10. /\ written[n] \in Seq(Atom) /\ len \in Nat
       /\ msg \in Seq(Atom) /\ Len(msg) = order_n
  <2>1. \A i \in 1 .. order_n : msg[i] \in Atom
    BY <1>4 DEF Atom
  <2>2. order_n \in Nat /\ msg = [i \in 1 .. order_n |-> msg[i]]
    BY <1>4
  <2>3. written[n] \in Seq(Atom)
    BY <1>2 DEF Shapes
  <2> HIDE DEF msg
  <2> QED BY <2>1, <2>2, <2>3
<1>11. /\ written'[n] \in Seq(Atom) /\ Len(written'[n]) = len + order_n
       /\ \A s \in 1 .. len : written'[n][s] = written[n][s]
       /\ \A s \in len + 1 .. len + order_n : written'[n][s] = msg[s - len]
       /\ written' \in [Node -> Seq(Atom)]
       /\ \A o \in Node \ {n} : written'[o] = written[o]
  <2> HIDE DEF msg
  <2>1. written \in [Node -> Seq(Atom)] /\ written' = [written EXCEPT ![n] = written[n] \o msg]
    BY <1>2, <1>5 DEF Shapes
  <2>2. /\ written[n] \o msg \in Seq(Atom) /\ Len(written[n] \o msg) = len + order_n
        /\ \A s \in 1 .. len : (written[n] \o msg)[s] = written[n][s]
        /\ \A s \in len + 1 .. len + order_n : (written[n] \o msg)[s] = msg[s - len]
    BY <1>10, Appended
  <2>3. written'[n] = written[n] \o msg /\ \A o \in Node \ {n} : written'[o] = written[o]
    BY <2>1
  <2>4. written' \in [Node -> Seq(Atom)]
    BY <2>1, <2>2
  <2> QED BY <2>2, <2>3, <2>4
<1>12. Writes(n, written, written')
  <2> HIDE DEF msg
  <2> QED BY <1>4, <1>10, <1>11 DEF Writes
<1>13. \A s \in len + 1 .. len + order_n :
         /\ written'[n][s] = [type |-> DATA, seq |-> seq, order_i |-> s - (len + 1),
                              order_n |-> order_n]
  <2> SUFFICES ASSUME NEW s \in len + 1 .. len + order_n
               PROVE  written'[n][s] = [type |-> DATA, seq |-> seq, order_i |-> s - (len + 1),
                                        order_n |-> order_n]
    OBVIOUS
  <2>1. s - len \in 1 .. order_n /\ (s - len) - 1 = s - (len + 1)
    BY <1>4, <1>10
  <2>2. msg[s - len] = [type |-> DATA, seq |-> seq, order_i |-> (s - len) - 1,
                        order_n |-> order_n]
    BY <2>1
  <2>3. written'[n][s] = msg[s - len]
    BY <1>11
  <2> QED BY <2>1, <2>2, <2>3
<1>14. PICK q : q = [ids |-> known[n], stacks |-> [stacks[n] EXCEPT ![n] = put],
                     seq_0 |-> seq_0[n]]
  OBVIOUS
<1> HIDE DEF put, msg
<1>15. /\ q.ids = known[n] /\ q.seq_0 = seq_0[n] /\ q.stacks = [stacks[n] EXCEPT ![n] = put]
       /\ q.stacks[n] = put /\ \A o \in Node \ {n} : q.stacks[o] = stacks[n][o]
  <2>1. stacks[n] = [o \in Node |-> stacks[n][o]]
    BY RegistryParts
  <2> QED BY <1>14, <2>1
<1>16. Sound(q)
  <2>1. Sound(Registry(n))
    BY <1>2 DEF RegistryOK
  <2>2. \A o \in Node : IsStack(q.stacks[o]) /\ \A t \in Node : q.stacks[o].seq_0s[t] >= SEQ_INVALID
    BY <1>9, <1>15, <2>1 DEF Sound, Registry
  <2>3. q.stacks = [o \in Node |-> q.stacks[o]]
    BY <1>15, RegistryParts
  <2> QED BY <1>14, <1>15, <2>1, <2>2, <2>3 DEF Sound, Registry
<1>17. Holds(put, written'[n])
  <2> SUFFICES ASSUME NEW s \in Present(put)
               PROVE  s \in 1 .. Len(written'[n]) /\ AtomAt(put, s) = written'[n][s]
    BY DEF Holds
  <2>1. CASE s \in Present(st) /\ AtomAt(put, s) = AtomAt(st, s)
    <3>1. s \in 1 .. len /\ AtomAt(st, s) = written[n][s]
      BY <1>7, <2>1 DEF Holds
    <3> QED BY <1>4, <1>10, <1>11, <2>1, <3>1
  <2>2. CASE /\ s \in len + 1 .. len + order_n
             /\ AtomAt(put, s) = [type |-> DATA, seq |-> seq,
                                  order_i |-> s - (len + 1), order_n |-> order_n]
    BY <1>4, <1>10, <1>11, <1>13, <2>2
  <2> QED BY <1>9, <2>1, <2>2
<1>18. RegistryOK(q, n, written', seq)
  <2>1. \A o \in Node : Holds(q.stacks[o], written'[o])
    BY <1>11, <1>15, <1>17, RegistryParts
  <2>2. n \in q.ids /\ (n = Server => IsFiniteSet(q.ids))
    BY <1>2, <1>15 DEF RegistryOK, Registry
  <2>3. put.seq_0s[n] <= seq
    BY <1>8, <1>9
  <2> QED BY <1>9, <1>11, <1>15, <1>16, <2>1, <2>2, <2>3 DEF RegistryOK
<1>19. AuthorsOK(written', meta')
  <2>1. \A o \in Node : Len(written'[o]) <= MaxSerial[o]
    BY <1>2, <1>5, <1>11 DEF AuthorsOK
  <2>2. ASSUME NEW o \in Node, NEW s \in 1 .. Len(written'[o])
        PROVE  /\ written'[o][s].order_n <= MaxOrder + 1
               /\ written'[o][s].type = META => o = Server /\ s \in DOMAIN meta
    <3>1. CASE o # n
      BY <1>2, <1>11, <3>1 DEF AuthorsOK
    <3>2. CASE o = n /\ s \in 1 .. len
      BY <1>2, <1>11, <3>2 DEF AuthorsOK
    <3>3. CASE o = n /\ s \notin 1 .. len
      <4>1. s \in len + 1 .. len + order_n
        BY <1>10, <1>11, <3>3
      <4>a. written'[n][s] = [type |-> DATA, seq |-> seq, order_i |-> s - (len + 1),
                              order_n |-> order_n]
        BY <1>13, <4>1, Zenon
      <4>2. written'[n][s].order_n = order_n /\ written'[n][s].type = DATA
        BY <4>a
      <4>3. DATA # META
        BY DEF DATA, META
      <4>4. order_n <= MaxOrder + 1
        BY <1>3, <1>4
      <4> QED BY <3>3, <4>2, <4>3, <4>4
    <3> QED BY <3>1, <3>2, <3>3
  <2>3. ASSUME NEW s \in DOMAIN meta PROVE s \in 1 .. Len(written'[Server]) /\ IsList(meta[s])
    <3>1. s \in 1 .. Len(written[Server]) /\ IsList(meta[s])
      BY <1>2 DEF AuthorsOK
    <3>a. written \in [Node -> Seq(Atom)]
      BY <1>2 DEF Shapes
    <3>b. \A i \in 1 .. Len(written[Server]) : i \in 1 .. Len(written'[Server])
      BY <1>3, <1>12, <3>a, WritesOn
    <3>2. s \in 1 .. Len(written'[Server])
      BY <3>1, <3>b
    <3> QED BY <3>1, <3>2
  <2> QED BY <1>5, <2>1, <2>2, <2>3 DEF AuthorsOK
<1>20. ComingOK'
  <2>1. ASSUME NEW c \in Client, status[c] # "in" PROVE written'[c] = <<>>
    <3>1. c \in Node /\ c # n
      BY <1>5, <2>1 DEF Client, InGame
    <3> QED BY <1>2, <1>11, <2>1, <3>1 DEF ComingOK
  <2>2. Seq0 <= local_seq_last'[Server]
    BY <1>2, <1>3, <1>4, <1>5 DEF ComingOK, Shapes
  <2> QED BY <1>2, <1>5, <2>1, <2>2 DEF ComingOK
<1>21. /\ stacks' = [stacks EXCEPT ![n] = q.stacks]
       /\ known' = [known EXCEPT ![n] = q.ids]
       /\ seq_0' = [seq_0 EXCEPT ![n] = q.seq_0]
  BY <1>2, <1>5, <1>6, <1>15 DEF Shapes
<1>22. ComeInv'
  BY <1>4, <1>5, <1>12, <1>18, <1>19, <1>20, <1>21, NodeStep
<1> QED BY <1>1, <1>4, <1>11, <1>12, <1>13, <1>22

\* A stack with the same body holds the same atoms.
LEMMA BodyKeeps ==
  ASSUME NEW st, NEW new, SameBody(st, new)
  PROVE  /\ Present(new) = Present(st)
         /\ \A s \in Present(st) : AtomAt(new, s) = AtomAt(st, s)
         /\ \A atoms : Holds(st, atoms) => Holds(new, atoms)
         /\ Local(st) => Local(new)
         /\ Steady(st) => Steady(new)
<1>1. Present(new) = Present(st) /\ \A s \in Present(st) : AtomAt(new, s) = AtomAt(st, s)
  BY DEF SameBody, Present, AtomAt
<1> QED BY <1>1 DEF SameBody, Holds, Local, Steady

\* What begins when id is registered.
LEMMA BegunIs ==
  ASSUME NEW r, Sound(r), NEW id \in Node, NEW serial \in Int, NEW seq,
         NEW N \in Nat, Present(r.stacks[id]) \subseteq 1 .. N
  PROVE  LET st == Begun(r, id, serial, seq)
         IN  /\ IsStack(st) /\ \A t \in Node : st.seq_0s[t] >= SEQ_INVALID
             /\ \A atoms : Holds(r.stacks[id], atoms) => Holds(st, atoms)
<1> DEFINE st == Begun(r, id, serial, seq)
           serial_0 == Max2(serial, SERIAL_START)
<1>1. CASE id \notin r.ids
  <2>1. /\ IsStack(st) /\ \A t \in Node : st.seq_0s[t] >= SEQ_INVALID
        /\ st = StackInit(serial_0)
    BY <1>1, StackInitSound
  <2>2. serial_0 \in Int
    BY Max2Type DEF SERIAL_START
  <2> HIDE DEF st, serial_0
  <2>3. Present(st) = {}
    BY <2>1, <2>2, StackInitIs
  <2> QED BY <2>1, <2>3 DEF Holds, st
<1>2. CASE id \in r.ids
  <2>1. IsStack(r.stacks[id]) /\ \A t \in Node : r.stacks[id].seq_0s[t] >= SEQ_INVALID
    BY DEF Sound
  <2>2. serial_0 \in Int /\ 1 <= serial_0
    BY Max2Type DEF SERIAL_START
  <2>3. st = StackShift(r.stacks[id], r.seq_0[id], serial_0, seq)
    BY <1>2 DEF Begun
  <2> DEFINE old == r.stacks[id]
  <2>4. IsStack(old) /\ Present(old) \subseteq 1 .. N
    BY <2>1
  <2> HIDE DEF st, serial_0, old
  <2>5. \/ st = old
        \/ /\ IsStack(st) /\ st.seq_0s = [t \in Node |-> SEQ_INVALID]
           /\ Present(st) \subseteq Present(old)
           /\ \A s \in Present(st) : AtomAt(st, s) = AtomAt(old, s)
    BY <2>2, <2>3, <2>4, StackShiftIs DEF old
  <2>6. CASE st = old
    BY <2>1, <2>6 DEF old, st
  <2>7. CASE /\ IsStack(st) /\ st.seq_0s = [t \in Node |-> SEQ_INVALID]
             /\ Present(st) \subseteq Present(old)
             /\ \A s \in Present(st) : AtomAt(st, s) = AtomAt(old, s)
    <3>1. \A t \in Node : st.seq_0s[t] >= SEQ_INVALID
      BY <2>7 DEF SEQ_INVALID
    <3>2. \A atoms : Holds(old, atoms) => Holds(st, atoms)
      BY <2>7 DEF Holds
    <3> QED BY <2>7, <3>1, <3>2 DEF old, st
  <2> QED BY <2>5, <2>6, <2>7
<1> QED BY <1>1, <1>2

\* Registering another node leaves a registry in order.
LEMMA RegisteredOK ==
  ASSUME NEW r, NEW n \in Node, NEW wr, NEW last, RegistryOK(r, n, wr, last),
         NEW id \in Node, id # n, NEW serial \in Int, NEW seq \in Int,
         NEW N \in Nat, Present(r.stacks[id]) \subseteq 1 .. N
  PROVE  RegistryOK(RegisterNode(r, n, id, serial, seq), n, wr, last)
<1> DEFINE q == RegisterNode(r, n, id, serial, seq)
           st == Begun(r, id, serial, seq)
<1>1. Sound(r) /\ n \in r.ids
  BY DEF RegistryOK
<1>2. /\ IsStack(st) /\ \A t \in Node : st.seq_0s[t] >= SEQ_INVALID
      /\ \A atoms : Holds(r.stacks[id], atoms) => Holds(st, atoms)
  BY <1>1, BegunIs
<1>3. /\ Sound(q) /\ q.ids = r.ids \cup {id}
      /\ \A o \in Node \ {id} : SameBody(r.stacks[o], q.stacks[o])
      /\ SameBody(st, q.stacks[id])
      /\ q.stacks[n].seq_0s[n] = r.stacks[n].seq_0s[n]
  <2>1. IsStack(Begun(r, id, serial, seq))
        /\ \A t \in Node : Begun(r, id, serial, seq).seq_0s[t] >= SEQ_INVALID
    BY <1>2
  <2>2. n \in Node \ {id}
    OBVIOUS
  <2> HIDE DEF q
  <2> QED BY <1>1, <2>1, <2>2, RegisterNodeDoes DEF q
<1> HIDE DEF q, st
<1>4. ASSUME NEW o \in Node PROVE Holds(q.stacks[o], wr[o])
  <2>1. Holds(r.stacks[o], wr[o])
    BY DEF RegistryOK
  <2>2. CASE o = id
    BY <1>2, <1>3, <2>1, <2>2, BodyKeeps
  <2>3. CASE o # id
    BY <1>3, <2>1, <2>3, BodyKeeps
  <2> QED BY <2>2, <2>3
<1>5. SameBody(r.stacks[n], q.stacks[n])
  BY <1>3
<1>6. Local(q.stacks[n]) /\ q.stacks[n].serial_max = Len(wr[n])
      /\ q.stacks[n].seq_0s[n] <= last
  <2>1. Local(r.stacks[n]) /\ r.stacks[n].serial_max = Len(wr[n])
        /\ r.stacks[n].seq_0s[n] <= last
    BY DEF RegistryOK
  <2> QED BY <1>3, <1>5, <2>1, BodyKeeps DEF SameBody
<1>7. n = Server => IsFiniteSet(q.ids)
  BY <1>3, FS_AddElement DEF RegistryOK
<1> QED BY <1>1, <1>3, <1>4, <1>6, <1>7 DEF RegistryOK, q

\* All the stacks of a node are told its first seq.
LEMMA SetLocalSeq0Does ==
  ASSUME NEW r, Sound(r), NEW n \in r.ids, NEW seq \in Int, SEQ_INVALID <= seq
  PROVE  LET q == SetLocalSeq0(r, n, seq)
         IN  /\ Sound(q) /\ q.ids = r.ids /\ q.seq_0 = r.seq_0
             /\ \A o \in Node : SameBody(r.stacks[o], q.stacks[o])
             /\ \A o \in Node \ r.ids : q.stacks[o] = r.stacks[o]
             /\ q.stacks[n].seq_0s = [r.stacks[n].seq_0s EXCEPT ![n] = seq]
<1> DEFINE seqs(o) == [r.stacks[o].seq_0s EXCEPT ![n] = seq]
           told(o) == IF o \in r.ids THEN [r.stacks[o] EXCEPT !.seq_0s = seqs(o)] ELSE r.stacks[o]
           q == [ids |-> r.ids, stacks |-> [o \in Node |-> told(o)], seq_0 |-> r.seq_0]
<1>1. n \in Node /\ \A o \in Node : /\ IsStack(r.stacks[o]) /\ r.stacks[o].seq_0s \in [Node -> Int]
                                    /\ \A t \in Node : r.stacks[o].seq_0s[t] >= SEQ_INVALID
  BY StackFields DEF Sound
<1>2. SetLocalSeq0(r, n, seq) = q
  <2>1. SetLocalSeq0(r, n, seq) =
          [r EXCEPT !.stacks = [o \in Node |->
             IF o \in r.ids THEN [r.stacks[o] EXCEPT !.seq_0s[n] = seq] ELSE r.stacks[o]]]
    BY DEF SetLocalSeq0
  <2>2. ASSUME NEW o \in Node
        PROVE  [r.stacks[o] EXCEPT !.seq_0s[n] = seq] = [r.stacks[o] EXCEPT !.seq_0s = seqs(o)]
    OBVIOUS
  <2>3. r = [ids |-> r.ids, stacks |-> r.stacks, seq_0 |-> r.seq_0]
    BY DEF Sound
  <2> HIDE DEF seqs
  <2> QED BY <2>1, <2>2, <2>3
<1>3. \A o \in Node : /\ seqs(o) \in [Node -> Int]
                      /\ \A t \in Node : seqs(o)[t] >= SEQ_INVALID
  BY <1>1
<1>4. ASSUME NEW o \in Node
      PROVE  /\ IsStack(told(o)) /\ SameBody(r.stacks[o], told(o))
             /\ \A t \in Node : told(o).seq_0s[t] >= SEQ_INVALID
             /\ o \in r.ids => told(o).seq_0s = seqs(o)
  <2>1. /\ IsStack(r.stacks[o]) /\ seqs(o) \in [Node -> Int]
        /\ \A t \in Node : r.stacks[o].seq_0s[t] >= SEQ_INVALID
    BY <1>1, <1>3
  <2> DEFINE st == r.stacks[o]
             new == [st EXCEPT !.seq_0s = seqs(o)]
  <2>2. IsStack(st) /\ told(o) = IF o \in r.ids THEN new ELSE st
    BY <2>1
  <2>3. IsStack(new) /\ SameBody(st, new) /\ new.seq_0s = seqs(o)
    <3> HIDE DEF seqs, st
    <3> QED BY <2>1, <2>2 DEF IsStack, SameBody
  <2>4. SameBody(st, st)
    BY DEF SameBody
  <2> HIDE DEF new, told, seqs
  <2> QED BY <1>3, <2>1, <2>2, <2>3, <2>4
<1>5. n \in r.ids /\ seqs(n) = [r.stacks[n].seq_0s EXCEPT ![n] = seq]
  OBVIOUS
<1> HIDE DEF told, seqs
<1>6. Sound(q)
  BY <1>4 DEF Sound
<1>7. \A o \in Node \ r.ids : q.stacks[o] = r.stacks[o]
  BY DEF told
<1> QED BY <1>1, <1>2, <1>4, <1>5, <1>6, <1>7

\* The answer has come: the server is registered, and the first seq is known.
LEMMA RecvAnswerStep ==
  ASSUME ComeInv, NEW p \in net, RecvAnswer(p)
  PROVE  ComeInv'
<1>1. Flies(p, written) /\ p.cmd = "JOIN" /\ p.seq # 0
  BY DEF ComeInv, RecvAnswer
<1>2. Answers(p)
  BY <1>1 DEF Flies, AtomFlies, Asks, DATA, META
<1>3. PICK c \in Node : c = p.to /\ c \in Client /\ c # Server /\ Server \in Node
  BY <1>2, ConfigAssumption DEF Answers, Client
<1>4. p.from = Server /\ p.serial \in Int /\ p.seq \in Int /\ p.seq > 0
  BY <1>2 DEF Answers
<1>5. Shapes /\ AuthorsOK(written, meta) /\ ComingOK
      /\ RegistryOK(Registry(c), c, written, local_seq_last[c])
  BY DEF ComeInv
<1>6. PICK seq \in Int : seq = local_seq_last[c]
  BY <1>5 DEF Shapes
<1>7. PICK last \in Int : last = Max2(p.seq, local_seq_last[c])
  BY <1>4, <1>5, Max2Type DEF Shapes
<1>8. p.seq <= last /\ local_seq_last[c] <= last
  <2>1. local_seq_last[c] \in Int
    BY <1>5 DEF Shapes
  <2> QED BY <1>4, <1>7, <2>1, Max2Type
<1>9. PICK r : r = RegisterNode(Registry(c), c, Server, p.serial, seq)
  OBVIOUS
<1>10. RegistryOK(r, c, written, seq)
  <2>1. Present(Registry(c).stacks[Server]) \subseteq 1 .. Last(Server) /\ Last(Server) \in Nat
    BY <1>3, JoinFits DEF Registry, Fits
  <2>2. RegistryOK(Registry(c), c, written, seq)
    BY <1>5, <1>6
  <2> QED BY <1>3, <1>4, <1>9, <2>1, <2>2, RegisteredOK
<1>11. PICK q : q = SetLocalSeq0(r, c, p.seq)
  OBVIOUS
<1>12. /\ Sound(q) /\ q.ids = r.ids
       /\ \A o \in Node : SameBody(r.stacks[o], q.stacks[o])
       /\ q.stacks[c].seq_0s = [r.stacks[c].seq_0s EXCEPT ![c] = p.seq]
  <2>1. Sound(r) /\ c \in r.ids /\ SEQ_INVALID <= p.seq
    BY <1>4, <1>10 DEF RegistryOK, SEQ_INVALID
  <2> QED BY <1>4, <1>11, <2>1, SetLocalSeq0Does
<1>13. q.stacks[c].seq_0s[c] = p.seq
  <2>1. IsStack(r.stacks[c])
    BY <1>10 DEF RegistryOK, Sound
  <2>2. r.stacks[c].seq_0s \in [Node -> Int]
    BY <2>1, StackFields
  <2> QED BY <1>12, <2>2
<1>14. RegistryOK(q, c, written, last)
  <2>1. \A o \in Node : Holds(q.stacks[o], written[o])
    BY <1>10, <1>12, BodyKeeps DEF RegistryOK
  <2>2. Local(q.stacks[c]) /\ q.stacks[c].serial_max = Len(written[c])
    BY <1>10, <1>12, BodyKeeps DEF RegistryOK, SameBody
  <2> QED BY <1>8, <1>10, <1>12, <1>13, <2>1, <2>2 DEF RegistryOK
<1>15. /\ stacks' = [stacks EXCEPT ![c] = q.stacks]
       /\ known' = [known EXCEPT ![c] = q.ids]
       /\ seq_0' = [seq_0 EXCEPT ![c] = q.seq_0]
       /\ local_seq_last' = [local_seq_last EXCEPT ![c] = last]
       /\ status' = [status EXCEPT ![c] = Answered(c)]
       /\ UNCHANGED <<written, meta>>
       /\ net' \subseteq net
  BY <1>3, <1>4, <1>6, <1>7, <1>9, <1>11 DEF RecvAnswer, Record, Received
<1>16. Writes(c, written, written')
  BY <1>5, <1>15, WritesNothing DEF Shapes
<1>17. ComingOK'
  BY <1>3, <1>5, <1>15 DEF ComingOK, Answered, Shapes
<1>18. RegistryOK(q, c, written', last) /\ AuthorsOK(written', meta')
  BY <1>5, <1>14, <1>15
<1>19. \A a \in net' : a \in net \/ Flies(a, written')
  BY <1>15
<1> QED BY <1>15, <1>16, <1>17, <1>18, <1>19, NodeStep

\* An atom received from a node that is known is stored.
LEMMA KeptOK ==
  ASSUME ComeInv, NEW n \in Node, NEW p, AtomFlies(p, written), p.to = n
  PROVE  LET q == [Registry(n) EXCEPT !.stacks = Kept(p)]
         IN  /\ RegistryOK(q, n, written, local_seq_last[n])
             /\ q = [ids |-> known[n], stacks |-> q.stacks, seq_0 |-> seq_0[n]]
             /\ q.stacks = Kept(p)
             /\ \A o \in Node \ {p.from} : Kept(p)[o] = stacks[n][o]
             /\ p.from \notin known[n] => Kept(p) = stacks[n]
             /\ p.from \in known[n] => Kept(p)[p.from] =
                  PutAtom(stacks[n][p.from], n, p.serial, p.atom, Node \ {p.from})
             /\ \A o \in Node : Kept(p)[o].seq_0s = stacks[n][o].seq_0s
<1> DEFINE q == [Registry(n) EXCEPT !.stacks = Kept(p)]
<1>1. RegistryOK(Registry(n), n, written, local_seq_last[n]) /\ Shapes
  BY DEF ComeInv
<1>2. q = [ids |-> known[n], stacks |-> Kept(p), seq_0 |-> seq_0[n]]
  BY DEF Registry
<1>3. PICK o \in Node : o = p.from
  BY DEF AtomFlies
<1>4. o # n /\ p.serial \in 1 .. Len(written[o]) /\ p.atom = written[o][p.serial]
      /\ Len(written[o]) \in Nat /\ p.atom \in Atom
  <2>1. written[o] \in Seq(Atom)
    BY RegistryParts
  <2>2. o # n /\ p.serial \in 1 .. Len(written[o]) /\ p.atom = written[o][p.serial]
    BY <1>3 DEF AtomFlies
  <2> QED BY <2>1, <2>2
<1>5. stacks[n] = [b \in Node |-> stacks[n][b]] /\ IsStack(stacks[n][o])
      /\ Holds(stacks[n][o], written[o])
  BY RegistryParts
<1>6. CASE o \notin known[n]
  <2>1. Kept(p) = stacks[n]
    BY <1>3, <1>6 DEF Kept
  <2>2. q = Registry(n)
    BY <1>2, <2>1 DEF Registry
  <2> HIDE DEF q
  <2> QED BY <1>1, <1>2, <1>3, <1>6, <2>1, <2>2 DEF q
<1>7. CASE o \in known[n]
  <2> DEFINE st == stacks[n][o]
             new == PutAtom(st, n, p.serial, p.atom, Node \ {o})
  <2>1. Kept(p) = [stacks[n] EXCEPT ![o] = new]
    BY <1>3, <1>7 DEF Kept
  <2>2. Fits(st, Last(o)) /\ Last(o) \in Nat /\ p.serial \in 1 .. Last(o)
    <3>1. Fits(st, Last(o)) /\ Last(o) \in Nat
      BY JoinFits
    <3>2. Len(written[o]) <= MaxSerial[o] /\ MaxSerial[o] <= Last(o)
      <4>1. NbMeta \in Nat /\ MaxSerial[o] \in Nat /\ MaxOrder \in Nat
        BY ConfigAssumption
      <4>2. Len(written[o]) <= MaxSerial[o]
        BY DEF ComeInv, AuthorsOK
      <4> QED BY <4>1, <4>2 DEF Last
    <3>3. MaxSerial[o] \in Nat
      BY ConfigAssumption
    <3> HIDE DEF st
    <3> QED BY <1>4, <3>1, <3>2, <3>3
  <2>3. /\ IsStack(new) /\ new.seq_0s = st.seq_0s
        /\ \A s \in Present(new) :
             \/ s \in Present(st) /\ AtomAt(new, s) = AtomAt(st, s)
             \/ s = p.serial /\ AtomAt(new, s) = p.atom
    <3>1. Node \ {o} \in SUBSET Node
      OBVIOUS
    <3> HIDE DEF st
    <3> QED BY <1>4, <2>2, <3>1, PutAtomKeeps
  <2>4. Holds(new, written[o])
    <3> HIDE DEF new
    <3> QED BY <1>4, <1>5, <2>3 DEF Holds
  <2> HIDE DEF new
  <2>5. /\ Kept(p)[o] = new /\ \A b \in Node \ {o} : Kept(p)[b] = stacks[n][b]
        /\ Kept(p) = [b \in Node |-> Kept(p)[b]]
    BY <1>5, <2>1
  <2>6. Sound(Registry(n))
    BY <1>1 DEF RegistryOK
  <2>7. /\ Registry(n).stacks = stacks[n] /\ Registry(n).ids = known[n]
        /\ Registry(n).seq_0 = seq_0[n]
    BY DEF Registry
  <2>8. \A b \in Node : /\ IsStack(Kept(p)[b]) /\ Holds(Kept(p)[b], written[b])
                        /\ Kept(p)[b].seq_0s = stacks[n][b].seq_0s
    BY <2>3, <2>4, <2>5, RegistryParts
  <2>9. Sound(q)
    <3>1. \A b, t \in Node : Kept(p)[b].seq_0s[t] >= SEQ_INVALID
      BY <2>6, <2>7, <2>8 DEF Sound
    <3>2. q.ids = known[n] /\ q.stacks = Kept(p) /\ q.seq_0 = seq_0[n]
      BY <1>2
    <3>3. q = [ids |-> q.ids, stacks |-> q.stacks, seq_0 |-> q.seq_0]
      BY <1>2
    <3> HIDE DEF q
    <3> QED BY <2>5, <2>6, <2>7, <2>8, <3>1, <3>2, <3>3 DEF Sound
  <2>10. Kept(p)[n] = stacks[n][n]
    BY <1>4, <2>5
  <2>11. q.ids = known[n] /\ q.stacks = Kept(p)
    BY <1>2
  <2> HIDE DEF q
  <2>12. RegistryOK(q, n, written, local_seq_last[n])
    BY <1>1, <2>7, <2>8, <2>9, <2>10, <2>11 DEF RegistryOK
  <2> QED BY <1>2, <1>3, <1>4, <1>7, <2>5, <2>8, <2>11, <2>12 DEF q, new
<1> QED BY <1>6, <1>7

\* Those a META message lists are registered: a registry stays in order.
LEMMA EnlargedOK ==
  ASSUME NEW r, NEW n \in Node, n # Server, NEW wr, NEW last, RegistryOK(r, n, wr, last),
         NEW list, IsList(list), NEW q, Enlarged(r, n, list, q)
  PROVE  RegistryOK(q, n, wr, last)
<1>1. n \in r.ids /\ Sound(r)
  BY DEF RegistryOK
<1>2. ASSUME NEW o \in Node PROVE Holds(q.stacks[o], wr[o])
  <2>1. Holds(r.stacks[o], wr[o])
    BY DEF RegistryOK
  <2>2. CASE o \in r.ids \/ o \notin q.ids
    <3>1. SameBody(r.stacks[o], q.stacks[o])
      BY <2>2 DEF Enlarged
    <3> QED BY <2>1, <3>1, BodyKeeps
  <2>3. CASE o \in q.ids /\ o \notin r.ids
    <3>1. PICK x \in list : SameBody(StackInit(Max2(x[2], SERIAL_START)), q.stacks[o])
      BY <2>3 DEF Enlarged
    <3>2. Max2(x[2], SERIAL_START) \in Int
      <4>1. x[2] \in Int
        BY DEF IsList
      <4> QED BY <4>1 DEF Max2, SERIAL_START
    <3>3. Present(StackInit(Max2(x[2], SERIAL_START))) = {}
      BY <3>2, StackInitIs
    <3>4. Present(q.stacks[o]) = {}
      BY <3>1, <3>3, BodyKeeps
    <3> QED BY <3>4 DEF Holds
  <2> QED BY <2>2, <2>3
<1>3. SameBody(r.stacks[n], q.stacks[n]) /\ q.stacks[n].seq_0s[n] = r.stacks[n].seq_0s[n]
      /\ Sound(q) /\ n \in q.ids
  BY <1>1 DEF Enlarged
<1>4. Local(q.stacks[n]) /\ q.stacks[n].serial_max = Len(wr[n])
  BY <1>3, BodyKeeps DEF RegistryOK, SameBody
<1> QED BY <1>2, <1>3, <1>4 DEF RegistryOK

\* What META lists is a list.
LEMMA MetaIsList ==
  ASSUME ComeInv, NEW p, AtomFlies(p, written), p.cmd = META
  PROVE  p.from = Server /\ p.to # Server /\ p.serial \in DOMAIN meta /\ IsList(meta[p.serial])
         /\ p.serial \in 1 .. Len(written[Server])
<1>1. p.from \in Node /\ p.to # p.from /\ p.serial \in 1 .. Len(written[p.from])
      /\ written[p.from][p.serial].type = META
  BY DEF AtomFlies
<1>2. p.from = Server /\ p.serial \in DOMAIN meta
  BY <1>1 DEF ComeInv, AuthorsOK
<1>3. IsList(meta[p.serial])
  BY <1>2 DEF ComeInv, AuthorsOK
<1> QED BY <1>1, <1>2, <1>3

\* DATA or META is received: what the registry of p.to is then.
LEMMA RecvAtomOrRefuseStep ==
  ASSUME ComeInv, NEW p \in net, RecvAtomOrRefuse(p)
  PROVE  ComeInv'
<1>1. Flies(p, written) /\ p.cmd \in {DATA, META}
  BY DEF ComeInv, RecvAtomOrRefuse
<1>2. AtomFlies(p, written)
  BY <1>1 DEF Flies, Asks, Answers, DATA, META
<1>3. PICK n \in Node : n = p.to
  BY <1>2 DEF AtomFlies
<1>4. Shapes /\ AuthorsOK(written, meta) /\ ComingOK
  BY DEF ComeInv
<1>5. PICK last \in Int : last = local_seq_last[n]
  BY <1>4 DEF Shapes
<1>6. PICK r : r = [Registry(n) EXCEPT !.stacks = Kept(p)]
  OBVIOUS
<1>7. RegistryOK(r, n, written, last)
  BY <1>2, <1>3, <1>5, <1>6, KeptOK
<1>8. PICK q : q = IF p.cmd = META THEN RegisterNew(r, n, meta[p.serial]) ELSE r
  OBVIOUS
<1>9. RegistryOK(q, n, written, last)
  <2>1. CASE p.cmd # META
    BY <1>7, <1>8, <2>1
  <2>2. CASE p.cmd = META
    <3>1. n # Server /\ IsList(meta[p.serial])
      <4>1. p.to # Server /\ IsList(meta[p.serial])
        BY <1>2, <2>2, MetaIsList
      <4> QED BY <1>3, <4>1
    <3>2. PICK list : list = meta[p.serial]
      OBVIOUS
    <3>3. q = RegisterNew(r, n, list) /\ IsList(list)
      BY <1>8, <2>2, <3>1, <3>2
    <3>4. n \in r.ids /\ Sound(r)
      BY <1>7 DEF RegistryOK
    <3>5. Enlarged(r, n, list, q)
      BY <3>3, <3>4, RegisterNewDoes
    <3> QED BY <1>7, <3>1, <3>3, <3>5, EnlargedOK
  <2> QED BY <2>1, <2>2
<1>10. /\ stacks' = [stacks EXCEPT ![n] = q.stacks]
       /\ known' = [known EXCEPT ![n] = q.ids]
       /\ seq_0' = [seq_0 EXCEPT ![n] = q.seq_0]
       /\ UNCHANGED <<local_seq_last, net, written, meta, status>>
  BY <1>3, <1>6, <1>8 DEF RecvAtomOrRefuse, Record
<1>11. local_seq_last' = [local_seq_last EXCEPT ![n] = last]
  BY <1>4, <1>5, <1>10 DEF Shapes
<1>12. Writes(n, written, written')
  BY <1>4, <1>10, WritesNothing DEF Shapes
<1>13. ComingOK'
  BY <1>4, <1>10 DEF ComingOK
<1>14. RegistryOK(q, n, written', last) /\ AuthorsOK(written', meta')
  BY <1>4, <1>9, <1>10
<1>15. \A a \in net' : a \in net \/ Flies(a, written')
  BY <1>10
<1> QED BY <1>10, <1>11, <1>12, <1>13, <1>14, <1>15, NodeStep

\* A newcomer: r is what the server has once it is registered, q with META put.
Welcomed(p, r, q, seq) ==
  /\ p.to = Server /\ p.from \in Client \ known[Server] /\ p.serial \in Int
  /\ seq = local_seq_last[Server]
  /\ r = RegisterNode(Registry(Server), Server, p.from, p.serial, seq)
  /\ q.ids = r.ids /\ q.seq_0 = r.seq_0 /\ \A o \in Node \ {Server} : q.stacks[o] = r.stacks[o]
  /\ q = [ids |-> q.ids, stacks |-> [o \in Node |-> q.stacks[o]], seq_0 |-> q.seq_0]
  /\ PutMetas(r.stacks[Server], q.stacks[Server], NbMeta, seq)
  /\ Record(Server, q)
  /\ written' = [written EXCEPT ![Server] = written'[Server]]
  /\ Len(written'[Server]) = Len(written[Server]) + NbMeta
  /\ Len(written'[Server]) <= MaxSerial[Server]
  /\ Writes(Server, written, written')
  /\ \A s \in 1 .. Len(written'[Server]) : s > Len(written[Server]) =>
       written'[Server][s] = [MetaAtom EXCEPT !.seq = seq]
  /\ DOMAIN meta' = 1 .. Len(written'[Server])
  /\ \A s \in DOMAIN meta' :
       \/ s \in DOMAIN meta /\ meta'[s] = meta[s]
       \/ s \notin DOMAIN meta /\ s <= Len(written[Server]) /\ meta'[s] = {}
       \/ /\ s \notin DOMAIN meta /\ s > Len(written[Server])
          /\ \E new : /\ PutMetas(r.stacks[Server], new, s - Len(written[Server]) - 1, seq)
                      /\ meta'[s] = MetaGet([r.stacks EXCEPT ![Server] = new], r.ids, seq)
  /\ \A a \in net' : a \in net \/ a = JoinPacket(p.from, Server, seq, Len(written[Server]))
  /\ UNCHANGED <<local_seq_last, last_seq_reference, delivered, chain, status>>

\* A JOIN that is answered welcomes a newcomer.
LEMMA RecvJoinWelcomes ==
  ASSUME ComeInv, NEW p \in net, RecvJoin(p), p.from \notin known[p.to]
  PROVE  /\ \E r, q, seq : Welcomed(p, r, q, seq)
         /\ RegistryOK(RegisterNode(Registry(Server), Server, p.from, p.serial,
                                    local_seq_last[Server]),
                       Server, written, local_seq_last[Server])
<1>1. Flies(p, written) /\ p.cmd = "JOIN" /\ p.seq = 0
  BY DEF ComeInv, RecvJoin
<1>2. Asks(p)
  BY <1>1 DEF Flies, AtomFlies, Answers, DATA, META
<1>3. p.to = Server /\ p.from \in Client /\ p.serial \in Int /\ p.from \in Node
      /\ p.from # Server /\ Server \in Node /\ p.from \notin known[Server]
  BY <1>2, ConfigAssumption DEF Asks, Client
<1>4. Shapes /\ AuthorsOK(written, meta) /\ ComingOK
      /\ RegistryOK(Registry(Server), Server, written, local_seq_last[Server])
  BY <1>3 DEF ComeInv
<1>5. PICK seq \in Int : seq = local_seq_last[Server]
  BY <1>3, <1>4 DEF Shapes
<1>6. PICK r : r = RegisterNode(Registry(Server), Server, p.from, p.serial, seq)
  OBVIOUS
<1>7. RegistryOK(r, Server, written, seq)
  <2>1. PICK c \in Node : c = p.from /\ c # Server
    BY <1>3
  <2>2. Present(Registry(Server).stacks[c]) \subseteq 1 .. Last(c) /\ Last(c) \in Nat
    BY <1>3, JoinFits DEF Registry, Fits
  <2>3. RegistryOK(Registry(Server), Server, written, seq)
    BY <1>4, <1>5
  <2> QED BY <1>3, <1>6, <2>1, <2>2, <2>3, RegisteredOK
<1>8. PICK puts : puts = MetaPuts(r, Server, seq)
  OBVIOUS
<1>9. PICK q : q = [r EXCEPT !.stacks[Server] = puts.st]
  OBVIOUS
<1> DEFINE len == Len(written[Server])
           msg == [k \in 1 .. NbMeta |-> [MetaAtom EXCEPT !.seq = seq]]
           st == r.stacks[Server]
<1>10. /\ len + NbMeta <= MaxSerial[Server]
       /\ \A a \in net' : a \in net \/ a = JoinPacket(p.from, Server, seq, stacks[Server][Server].serial_max)
       /\ Record(Server, q)
       /\ written' = [written EXCEPT ![Server] = written[Server] \o msg]
       /\ meta' = [s \in 1 .. Len(written'[Server]) |->
                   IF s \in DOMAIN meta THEN meta[s]
                   ELSE IF s > len THEN puts.lists[s - len] ELSE {}]
       /\ UNCHANGED <<local_seq_last, last_seq_reference, delivered, chain, status>>
  BY <1>3, <1>4, <1>5, <1>6, <1>8, <1>9 DEF RecvJoin, Received, Shapes
<1>11. NbMeta \in Nat /\ len \in Nat /\ written[Server] \in Seq(Atom) /\ MaxSerial[Server] \in Nat
       /\ MaxOrder \in Nat
  BY <1>3, <1>4, ConfigAssumption, WindowAssumption DEF Shapes
<1>12. /\ msg \in Seq(Atom) /\ Len(msg) = NbMeta
       /\ \A k \in 1 .. NbMeta : msg[k] = [MetaAtom EXCEPT !.seq = seq]
  <2>1. [MetaAtom EXCEPT !.seq = seq] \in Atom
    BY DEF MetaAtom, Atom, META
  <2>2. PICK atom \in Atom : atom = [MetaAtom EXCEPT !.seq = seq]
    BY <2>1
  <2>3. msg = [k \in 1 .. NbMeta |-> atom]
    BY <2>2, Zenon
  <2>4. /\ [k \in 1 .. NbMeta |-> atom] \in Seq(Atom) /\ Len([k \in 1 .. NbMeta |-> atom]) = NbMeta
        /\ \A k \in 1 .. NbMeta : [j \in 1 .. NbMeta |-> atom][k] = atom
    BY <1>11
  <2> HIDE DEF msg
  <2> QED BY <2>2, <2>3, <2>4
<1> HIDE DEF msg
<1>13. /\ written'[Server] \in Seq(Atom) /\ Len(written'[Server]) = len + NbMeta
       /\ \A s \in 1 .. len : written'[Server][s] = written[Server][s]
       /\ \A s \in len + 1 .. len + NbMeta : written'[Server][s] = msg[s - len]
       /\ written' \in [Node -> Seq(Atom)]
       /\ \A o \in Node \ {Server} : written'[o] = written[o]
       /\ written' = [written EXCEPT ![Server] = written'[Server]]
  <2>1. written \in [Node -> Seq(Atom)]
        /\ written' = [written EXCEPT ![Server] = written[Server] \o msg]
    BY <1>4, <1>10 DEF Shapes
  <2>2. /\ written[Server] \o msg \in Seq(Atom) /\ Len(written[Server] \o msg) = len + NbMeta
        /\ \A s \in 1 .. len : (written[Server] \o msg)[s] = written[Server][s]
        /\ \A s \in len + 1 .. len + NbMeta : (written[Server] \o msg)[s] = msg[s - len]
    <3>1. /\ Len(written[Server] \o msg) = Len(written[Server]) + Len(msg)
          /\ written[Server] \o msg \in Seq(Atom)
          /\ \A s \in 1 .. Len(written[Server]) : (written[Server] \o msg)[s] = written[Server][s]
          /\ \A s \in Len(written[Server]) + 1 .. Len(written[Server]) + Len(msg) :
               (written[Server] \o msg)[s] = msg[s - Len(written[Server])]
      <4>1. msg \in Seq(Atom) /\ written[Server] \in Seq(Atom)
        BY <1>11, <1>12
      <4> HIDE DEF len
      <4> QED BY <4>1, Appended
    <3> QED BY <1>12, <3>1
  <2>3. written'[Server] = written[Server] \o msg
        /\ \A o \in Node \ {Server} : written'[o] = written[o]
    BY <1>3, <2>1
  <2>4. written' \in [Node -> Seq(Atom)] /\ written' = [written EXCEPT ![Server] = written'[Server]]
    BY <2>1, <2>2, <2>3
  <2> QED BY <2>2, <2>3, <2>4
<1>14. Writes(Server, written, written')
  BY <1>11, <1>13 DEF Writes
<1>15. \A s \in 1 .. Len(written'[Server]) : s > len =>
         written'[Server][s] = [MetaAtom EXCEPT !.seq = seq]
  <2> SUFFICES ASSUME NEW s \in 1 .. Len(written'[Server]), s > len
               PROVE  written'[Server][s] = [MetaAtom EXCEPT !.seq = seq]
    OBVIOUS
  <2>1. s \in len + 1 .. len + NbMeta /\ s - len \in 1 .. NbMeta
    BY <1>11, <1>13
  <2> QED BY <1>12, <1>13, <2>1
<1>16. /\ Sound(r) /\ Server \in r.ids /\ Local(st) /\ st.serial_max = len
       /\ st.seq_0s[Server] <= seq /\ Holds(st, written[Server])
  BY <1>3, <1>7 DEF RegistryOK
<1>17. /\ Fits(st, Last(Server)) /\ Last(Server) \in Nat /\ 1 <= Last(Server)
       /\ st.serial_max + NbMeta <= Last(Server)
       /\ Present(st) \subseteq 1 .. st.serial_max /\ 0 <= st.serial_max
  <2>1. IsStack(st)
    BY <1>3, <1>16 DEF Sound
  <2>2. /\ Last(Server) \in Nat /\ 1 <= Last(Server) /\ MaxSerial[Server] <= Last(Server)
        /\ MaxOrder + 1 <= Last(Server)
    BY <1>11 DEF Last
  <2> HIDE DEF Last
  <2>3. ASSUME NEW s \in Present(st)
        PROVE  s \in 1 .. len /\ AtomAt(st, s).order_n <= MaxOrder + 1
               /\ AtomAt(st, s).order_n \in Nat
    <3>1. s \in 1 .. len /\ AtomAt(st, s) = written[Server][s]
      BY <1>16 DEF Holds
    <3>2. AtomAt(st, s).order_n \in Nat
      BY <2>1, AtomFields
    <3> QED BY <1>3, <1>4, <3>1, <3>2 DEF AuthorsOK
  <2>4. Present(st) \subseteq 1 .. Last(Server)
        /\ \A s \in Present(st) : AtomAt(st, s).order_n <= Last(Server)
    <3> HIDE DEF st
    <3> QED BY <1>10, <1>11, <2>2, <2>3
  <2>5. Present(st) \subseteq 1 .. st.serial_max
    <3> HIDE DEF st
    <3> QED BY <1>16, <2>3
  <2> QED BY <1>10, <1>11, <1>16, <2>1, <2>2, <2>4, <2>5 DEF Fits
<1>18. /\ PutMetas(st, puts.st, NbMeta, seq)
       /\ DOMAIN puts.lists = 1 .. NbMeta
       /\ \A k \in 1 .. NbMeta : \E new :
                  /\ PutMetas(st, new, k - 1, seq)
                  /\ puts.lists[k] = MetaGet([r.stacks EXCEPT ![Server] = new], r.ids, seq)
  <2>1. seq >= st.seq_0s[Server]
    <3>1. st.seq_0s[Server] \in Int
      <4>1. st.seq_0s \in [Node -> Int]
        BY <1>17, StackFields DEF Fits
      <4> QED BY <1>3, <4>1
    <3> QED BY <1>16, <3>1
  <2> QED BY <1>8, <1>16, <1>17, <2>1, MetaPutsDoes
<1>19. /\ q.ids = r.ids /\ q.seq_0 = r.seq_0 /\ q.stacks[Server] = puts.st
       /\ \A o \in Node \ {Server} : q.stacks[o] = r.stacks[o]
       /\ q = [ids |-> q.ids, stacks |-> [o \in Node |-> q.stacks[o]], seq_0 |-> q.seq_0]
  BY <1>3, <1>9, <1>16 DEF Sound
<1>20. \A s \in DOMAIN meta' :
       \/ s \in DOMAIN meta /\ meta'[s] = meta[s]
       \/ s \notin DOMAIN meta /\ s <= len /\ meta'[s] = {}
       \/ /\ s \notin DOMAIN meta /\ s > len
          /\ \E new : /\ PutMetas(st, new, s - len - 1, seq)
                      /\ meta'[s] = MetaGet([r.stacks EXCEPT ![Server] = new], r.ids, seq)
  <2> SUFFICES ASSUME NEW s \in DOMAIN meta', s \notin DOMAIN meta
               PROVE  \/ s <= len /\ meta'[s] = {}
                      \/ /\ s > len
                         /\ \E new : /\ PutMetas(st, new, s - len - 1, seq)
                                     /\ meta'[s] = MetaGet([r.stacks EXCEPT ![Server] = new], r.ids, seq)
    BY <1>10
  <2>1. s \in 1 .. len + NbMeta
    BY <1>10, <1>13
  <2>2. CASE s <= len
    BY <1>10, <1>11, <2>1, <2>2
  <2>3. CASE s > len
    <3>1. s - len \in 1 .. NbMeta /\ meta'[s] = puts.lists[s - len]
      BY <1>10, <1>11, <2>1, <2>3
    <3> HIDE DEF st, len
    <3> QED BY <1>18, <2>3, <3>1
  <2> QED BY <1>11, <2>1, <2>2, <2>3
<1>21. stacks[Server][Server].serial_max = len
  BY <1>3, RegistryParts
<1>22. Welcomed(p, r, q, seq)
  <2> HIDE DEF st
  <2>1. p.from \in Client \ known[Server]
    BY <1>3
  <2>2. PutMetas(r.stacks[Server], q.stacks[Server], NbMeta, seq)
    BY <1>18, <1>19 DEF st
  <2>3. \A a \in net' : a \in net \/ a = JoinPacket(p.from, Server, seq, len)
    BY <1>10, <1>21
  <2>4. DOMAIN meta' = 1 .. Len(written'[Server])
    BY <1>10
  <2> QED BY <1>3, <1>5, <1>6, <1>10, <1>13, <1>14, <1>15, <1>19, <1>20, <2>1, <2>2, <2>3, <2>4
      DEF Welcomed, st
<1> QED BY <1>5, <1>6, <1>7, <1>22

\* The stacks META is made from, when a newcomer is welcomed.
LEMMA MetaSource ==
  ASSUME ComeInv, NEW r, NEW seq \in Int, RegistryOK(r, Server, written, seq),
         NEW k \in 0 .. NbMeta, NEW new, PutMetas(r.stacks[Server], new, k, seq),
         Len(written[Server]) + NbMeta <= MaxSerial[Server]
  PROVE  LET w == [r.stacks EXCEPT ![Server] = new]
         IN  /\ r.ids \subseteq Node /\ IsFiniteSet(r.ids)
             /\ w[Server] = new /\ \A o \in Node \ {Server} : w[o] = r.stacks[o]
             /\ \A o \in Node : /\ w[o].seq_0s = r.stacks[o].seq_0s
                                /\ w[o].seq_0s[o] \in Int /\ w[o].seq_0s[o] >= SEQ_INVALID
                                /\ \E N \in Nat : Fits(w[o], N)
<1> DEFINE w == [r.stacks EXCEPT ![Server] = new]
           st == r.stacks[Server]
<1>1. Sound(r) /\ IsFiniteSet(r.ids) /\ Server \in Node
      /\ (\A o \in Node : Holds(r.stacks[o], written[o])) /\ st.serial_max = Len(written[Server])
  BY ConfigAssumption DEF RegistryOK
<1>2. /\ r.ids \subseteq Node /\ r.stacks = [o \in Node |-> r.stacks[o]]
      /\ \A o \in Node : IsStack(r.stacks[o]) /\ \A t \in Node : r.stacks[o].seq_0s[t] >= SEQ_INVALID
  BY <1>1 DEF Sound
<1>3. w[Server] = new /\ \A o \in Node \ {Server} : w[o] = r.stacks[o]
  BY <1>1, <1>2
<1>4. /\ IsStack(new) /\ new.seq_0s = st.seq_0s
      /\ \A s \in Present(new) :
           \/ s \in Present(st) /\ AtomAt(new, s) = AtomAt(st, s)
           \/ /\ s \in st.serial_max + 1 .. st.serial_max + k
              /\ AtomAt(new, s) = [MetaAtom EXCEPT !.seq = seq]
  BY DEF PutMetas
<1> HIDE DEF w, st
<1>5. ASSUME NEW o \in Node
      PROVE  /\ Last(o) \in Nat /\ 1 <= Last(o) /\ MaxOrder + 1 <= Last(o) /\ MaxOrder \in Nat
             /\ Len(written[o]) \in Nat /\ Len(written[o]) <= Last(o)
             /\ o = Server => Len(written[o]) + NbMeta <= Last(o)
             /\ NbMeta \in Nat
             /\ \A s \in 1 .. Len(written[o]) : written[o][s].order_n <= Last(o)
  <2>1. NbMeta \in Nat /\ MaxSerial[o] \in Nat /\ MaxOrder \in Nat
    BY ConfigAssumption
  <2>2. /\ Last(o) \in Nat /\ 1 <= Last(o) /\ MaxSerial[o] <= Last(o)
        /\ MaxOrder + 1 <= Last(o)
    BY <2>1 DEF Last
  <2> HIDE DEF Last
  <2>3. written[o] \in Seq(Atom) /\ Len(written[o]) <= MaxSerial[o]
        /\ \A s \in 1 .. Len(written[o]) : written[o][s].order_n <= MaxOrder + 1
    BY DEF ComeInv, Shapes, AuthorsOK
  <2>4. \A s \in 1 .. Len(written[o]) : written[o][s].order_n \in Nat
    <3>1. \A s \in 1 .. Len(written[o]) : written[o][s] \in Atom
      BY <2>3
    <3> QED BY <3>1 DEF Atom
  <2>5. Len(written[o]) \in Nat
    BY <2>3
  <2>6. \A s \in 1 .. Len(written[o]) : written[o][s].order_n <= Last(o)
    BY <2>1, <2>2, <2>3, <2>4
  <2>7. Len(written[o]) <= Last(o)
    BY <2>1, <2>2, <2>3, <2>5
  <2>8. CASE o # Server
    BY <2>1, <2>2, <2>5, <2>6, <2>7, <2>8
  <2>9. CASE o = Server
    <3>1. Len(written[o]) + NbMeta <= MaxSerial[o]
      BY <2>9
    <3>2. Len(written[o]) + NbMeta <= Last(o)
      BY <2>1, <2>2, <2>5, <3>1
    <3> QED BY <2>1, <2>2, <2>5, <2>6, <2>7, <3>2
  <2> QED BY <2>8, <2>9
<1> HIDE DEF Last
<1>6. ASSUME NEW o \in Node PROVE Fits(r.stacks[o], Last(o))
  <2>1. ASSUME NEW s \in Present(r.stacks[o])
        PROVE  s \in 1 .. Last(o) /\ AtomAt(r.stacks[o], s).order_n <= Last(o)
    <3>1. s \in 1 .. Len(written[o]) /\ AtomAt(r.stacks[o], s) = written[o][s]
      BY <1>1 DEF Holds
    <3> QED BY <1>5, <3>1
  <2> QED BY <1>2, <2>1 DEF Fits
<1>7. Fits(new, Last(Server))
  <2>1. Fits(st, Last(Server))
    BY <1>1, <1>6 DEF st
  <2>2. ASSUME NEW s \in Present(new)
        PROVE  s \in 1 .. Last(Server) /\ AtomAt(new, s).order_n <= Last(Server)
    <3>1. CASE s \in Present(st) /\ AtomAt(new, s) = AtomAt(st, s)
      BY <2>1, <3>1 DEF Fits
    <3>2. CASE /\ s \in st.serial_max + 1 .. st.serial_max + k
               /\ AtomAt(new, s) = [MetaAtom EXCEPT !.seq = seq]
      <4>1. AtomAt(new, s).order_n = 1
        BY <3>2 DEF MetaAtom
      <4>2. Last(Server) \in Nat /\ 1 <= Last(Server) /\ Len(written[Server]) \in Nat
            /\ Len(written[Server]) + NbMeta <= Last(Server) /\ NbMeta \in Nat
        BY <1>1, <1>5
      <4>3. s \in 1 .. Last(Server)
        BY <1>1, <3>2, <4>2
      <4> QED BY <4>1, <4>2, <4>3
    <3> QED BY <1>4, <3>1, <3>2
  <2> QED BY <1>4, <2>2 DEF Fits
<1>8. ASSUME NEW o \in Node
      PROVE  /\ w[o].seq_0s = r.stacks[o].seq_0s
             /\ w[o].seq_0s[o] \in Int /\ w[o].seq_0s[o] >= SEQ_INVALID
             /\ \E N \in Nat : Fits(w[o], N)
  <2>1. r.stacks[o].seq_0s \in [Node -> Int]
    BY <1>2, StackFields
  <2>2. w[o].seq_0s = r.stacks[o].seq_0s
    BY <1>3, <1>4 DEF st
  <2>3. Fits(w[o], Last(o)) /\ Last(o) \in Nat
    <3>1. CASE o = Server
      BY <1>1, <1>3, <1>5, <1>7, <3>1
    <3>2. CASE o # Server
      BY <1>3, <1>5, <1>6, <3>2
    <3> QED BY <3>1, <3>2
  <2> QED BY <1>2, <2>1, <2>2, <2>3
<1> QED BY <1>1, <1>2, <1>3, <1>8 DEF w

\* The messages META that are new list who there is then, from one seq on.
LEMMA NewMetaLists ==
  ASSUME ComeInv, NEW p, NEW r, NEW q, NEW seq \in Int, Welcomed(p, r, q, seq),
         RegistryOK(r, Server, written, seq),
         NEW s \in DOMAIN meta', s \notin DOMAIN meta, s > Len(written[Server])
  PROVE  /\ IsList(meta'[s])
         /\ \E new, from :
              /\ PutMetas(r.stacks[Server], new, s - Len(written[Server]) - 1, seq) /\ from \in Int
              /\ meta'[s] = {<<o, Seq2Serial([r.stacks EXCEPT ![Server] = new][o], from), from>> :
                                o \in r.ids}
              /\ \A o \in r.ids : (SEQ_INVALID < r.stacks[o].seq_0s[o] /\ r.stacks[o].seq_0s[o] <= seq)
                                    => from = seq
<1>1. NbMeta \in Nat /\ Len(written[Server]) \in Nat /\ Server \in Node
  BY ConfigAssumption, WindowAssumption DEF ComeInv, Shapes
<1>2. PICK k \in 0 .. NbMeta : k = s - Len(written[Server]) - 1
  BY <1>1 DEF Welcomed
<1>3. PICK new : /\ PutMetas(r.stacks[Server], new, k, seq)
                 /\ meta'[s] = MetaGet([r.stacks EXCEPT ![Server] = new], r.ids, seq)
  <2>1. \A t \in DOMAIN meta' :
       \/ t \in DOMAIN meta /\ meta'[t] = meta[t]
       \/ t \notin DOMAIN meta /\ t <= Len(written[Server]) /\ meta'[t] = {}
       \/ /\ t \notin DOMAIN meta /\ t > Len(written[Server])
          /\ \E new : /\ PutMetas(r.stacks[Server], new, t - Len(written[Server]) - 1, seq)
                      /\ meta'[t] = MetaGet([r.stacks EXCEPT ![Server] = new], r.ids, seq)
    BY DEF Welcomed
  <2>2. s \in Int /\ s > Len(written[Server])
    BY <1>1 DEF Welcomed
  <2>3. ~(s <= Len(written[Server]))
    BY <1>1, <2>2
  <2> QED BY <1>2, <2>1, <2>3
<1>4. Len(written[Server]) + NbMeta <= MaxSerial[Server]
  BY DEF Welcomed
<1>5. PICK w : w = [r.stacks EXCEPT ![Server] = new]
  OBVIOUS
<1>6. /\ r.ids \subseteq Node /\ IsFiniteSet(r.ids)
      /\ \A o \in Node : /\ w[o].seq_0s = r.stacks[o].seq_0s
                         /\ w[o].seq_0s[o] \in Int /\ w[o].seq_0s[o] >= SEQ_INVALID
                         /\ \E N \in Nat : Fits(w[o], N)
  <2> DEFINE v == [r.stacks EXCEPT ![Server] = new]
  <2>1. /\ r.ids \subseteq Node /\ IsFiniteSet(r.ids)
        /\ \A o \in Node : /\ v[o].seq_0s = r.stacks[o].seq_0s
                           /\ v[o].seq_0s[o] \in Int /\ v[o].seq_0s[o] >= SEQ_INVALID
                           /\ \E N \in Nat : Fits(v[o], N)
    BY <1>3, <1>4, MetaSource
  <2>2. w = v
    BY <1>5
  <2> HIDE DEF v
  <2> QED BY <2>1, <2>2
<1>7. PICK from \in Int :
         /\ MetaGet(w, r.ids, seq) = {<<o, Seq2Serial(w[o], from), from>> : o \in r.ids}
         /\ IsList(MetaGet(w, r.ids, seq))
         /\ \A o \in r.ids : (SEQ_INVALID < w[o].seq_0s[o] /\ w[o].seq_0s[o] <= seq) => from = seq
  <2>1. \A o \in r.ids : /\ w[o].seq_0s[o] \in Int /\ w[o].seq_0s[o] >= SEQ_INVALID
                         /\ \E N \in Nat : Fits(w[o], N)
    BY <1>6
  <2> QED BY <1>6, <2>1, MetaGetIs
<1>8. \A o \in r.ids : (SEQ_INVALID < r.stacks[o].seq_0s[o] /\ r.stacks[o].seq_0s[o] <= seq)
                                    => from = seq
  BY <1>6, <1>7
<1>9. /\ PutMetas(r.stacks[Server], new, s - Len(written[Server]) - 1, seq)
      /\ meta'[s] = {<<o, Seq2Serial([r.stacks EXCEPT ![Server] = new][o], from), from>> :
                        o \in r.ids}
      /\ IsList(meta'[s])
  BY <1>2, <1>3, <1>5, <1>7
<1> QED BY <1>7, <1>8, <1>9

\* A newcomer is registered and told of, or nothing happens.
LEMMA RecvJoinStep ==
  ASSUME ComeInv, NEW p \in net, RecvJoin(p)
  PROVE  ComeInv'
<1>1. CASE p.from \in known[p.to]
  <2>1. net' \subseteq net
        /\ UNCHANGED <<stacks, local_seq_last, written, known, seq_0, meta, status>>
    BY <1>1 DEF RecvJoin, Received
  <2>2. ComingOK'
    BY <2>1 DEF ComeInv, ComingOK
  <2> QED BY <2>1, <2>2, StatusStep
<1>2. CASE p.from \notin known[p.to]
  <2>1. PICK r, q, seq : Welcomed(p, r, q, seq)
    BY <1>2, RecvJoinWelcomes
  <2>2. Shapes /\ AuthorsOK(written, meta) /\ ComingOK
    BY DEF ComeInv
  <2>3. /\ seq = local_seq_last[Server] /\ Server \in Node /\ seq \in Int
        /\ r = RegisterNode(Registry(Server), Server, p.from, p.serial, seq)
        /\ p.from \in Client /\ p.serial \in Int
    BY <2>1, <2>2, ConfigAssumption DEF Welcomed, Shapes
  <2>4. RegistryOK(r, Server, written, seq)
    BY <1>2, <2>3, RecvJoinWelcomes
  <2>5. /\ q.ids = r.ids /\ q.seq_0 = r.seq_0
        /\ (\A o \in Node \ {Server} : q.stacks[o] = r.stacks[o])
        /\ PutMetas(r.stacks[Server], q.stacks[Server], NbMeta, seq)
        /\ stacks' = [stacks EXCEPT ![Server] = q.stacks]
        /\ known' = [known EXCEPT ![Server] = q.ids]
        /\ seq_0' = [seq_0 EXCEPT ![Server] = q.seq_0]
        /\ Writes(Server, written, written')
        /\ Len(written'[Server]) = Len(written[Server]) + NbMeta
        /\ Len(written'[Server]) <= MaxSerial[Server]
        /\ UNCHANGED <<local_seq_last, status>>
    BY <2>1 DEF Welcomed, Record
  <2>6. \A s \in 1 .. Len(written'[Server]) : s > Len(written[Server]) =>
       written'[Server][s] = [MetaAtom EXCEPT !.seq = seq]
    BY <2>1 DEF Welcomed
  <2>7. NbMeta \in Nat /\ Len(written[Server]) \in Nat /\ Len(written'[Server]) \in Nat
        /\ written'[Server] \in Seq(Atom)
    <3>1. written[Server] \in Seq(Atom) /\ written'[Server] \in Seq(Atom)
      BY <2>2, <2>3, <2>5 DEF Shapes, Writes
    <3> QED BY <3>1, ConfigAssumption, WindowAssumption
  <2> DEFINE new == q.stacks[Server]
             st == r.stacks[Server]
  <2>8. /\ IsStack(new) /\ new.seq_0s = st.seq_0s /\ Local(new)
        /\ new.serial_max = st.serial_max + NbMeta
        /\ \A s \in Present(new) :
             \/ s \in Present(st) /\ AtomAt(new, s) = AtomAt(st, s)
             \/ /\ s \in st.serial_max + 1 .. st.serial_max + NbMeta
                /\ AtomAt(new, s) = [MetaAtom EXCEPT !.seq = seq]
    BY <2>5 DEF PutMetas
  <2>9. /\ Sound(r) /\ Server \in r.ids /\ IsFiniteSet(r.ids)
        /\ (\A o \in Node : Holds(r.stacks[o], written[o]))
        /\ st.serial_max = Len(written[Server]) /\ st.seq_0s[Server] <= seq
    BY <2>4 DEF RegistryOK
  <2>10. Sound(q)
    <3>1. \A o \in Node : IsStack(q.stacks[o]) /\ \A t \in Node : q.stacks[o].seq_0s[t] >= SEQ_INVALID
      <4>1. \A o \in Node : IsStack(r.stacks[o]) /\ \A t \in Node : r.stacks[o].seq_0s[t] >= SEQ_INVALID
        BY <2>9 DEF Sound
      <4> QED BY <2>3, <2>5, <2>8, <4>1
    <3>2. /\ q = [ids |-> q.ids, stacks |-> [o \in Node |-> q.stacks[o]], seq_0 |-> q.seq_0]
      BY <2>1 DEF Welcomed
    <3>3. q.stacks = [o \in Node |-> q.stacks[o]]
      BY <3>2
    <3>4. q.ids \subseteq Node /\ q.seq_0 \in [Node -> Int]
      BY <2>5, <2>9 DEF Sound
    <3>5. q = [ids |-> q.ids, stacks |-> q.stacks, seq_0 |-> q.seq_0]
      BY <3>2, <3>3
    <3> QED BY <3>1, <3>3, <3>4, <3>5 DEF Sound
  <2>11. Holds(new, written'[Server])
    <3> SUFFICES ASSUME NEW s \in Present(new)
                 PROVE  s \in 1 .. Len(written'[Server]) /\ AtomAt(new, s) = written'[Server][s]
      BY DEF Holds
    <3>1. CASE s \in Present(st) /\ AtomAt(new, s) = AtomAt(st, s)
      <4>1. s \in 1 .. Len(written[Server]) /\ AtomAt(st, s) = written[Server][s]
        BY <2>3, <2>9, <3>1 DEF Holds
      <4>2. s \in 1 .. Len(written'[Server]) /\ written'[Server][s] = written[Server][s]
        BY <2>5, <2>7, <4>1 DEF Writes
      <4> QED BY <3>1, <4>1, <4>2
    <3>2. CASE /\ s \in st.serial_max + 1 .. st.serial_max + NbMeta
               /\ AtomAt(new, s) = [MetaAtom EXCEPT !.seq = seq]
      <4>1. s \in 1 .. Len(written'[Server]) /\ s > Len(written[Server])
        BY <2>5, <2>7, <2>9, <3>2
      <4> QED BY <2>6, <3>2, <4>1
    <3> QED BY <2>8, <3>1, <3>2
  <2>12. RegistryOK(q, Server, written', seq)
    <3>1. ASSUME NEW o \in Node PROVE Holds(q.stacks[o], written'[o])
      <4>1. CASE o = Server
        BY <2>11, <4>1
      <4>2. CASE o # Server
        BY <2>5, <2>9, <4>2 DEF Writes
      <4> QED BY <4>1, <4>2
    <3>2. q.stacks[Server].serial_max = Len(written'[Server])
      BY <2>5, <2>7, <2>8, <2>9
    <3>3. q.stacks[Server].seq_0s[Server] <= seq
      BY <2>8, <2>9
    <3> HIDE DEF new
    <3> QED BY <2>5, <2>8, <2>9, <2>10, <3>1, <3>2, <3>3 DEF RegistryOK, new
  <2> HIDE DEF new, st
  <2>13. AuthorsOK(written', meta')
    <3>1. DOMAIN meta' = 1 .. Len(written'[Server])
      BY <2>1 DEF Welcomed
    <3>2. \A o \in Node : Len(written'[o]) <= MaxSerial[o]
      BY <2>2, <2>5 DEF AuthorsOK, Writes
    <3>3. ASSUME NEW o \in Node, NEW s \in 1 .. Len(written'[o])
          PROVE  /\ written'[o][s].order_n <= MaxOrder + 1
                 /\ written'[o][s].type = META => o = Server /\ s \in DOMAIN meta'
      <4>1. CASE o # Server
        BY <2>2, <2>5, <4>1 DEF AuthorsOK, Writes
      <4>2. CASE o = Server /\ s <= Len(written[Server])
        <5>1. s \in 1 .. Len(written[Server])
          BY <2>7, <4>2
        <5>2. written'[o][s] = written[o][s]
          BY <2>5, <4>2, <5>1 DEF Writes
        <5> QED BY <2>2, <2>3, <3>1, <4>2, <5>1, <5>2 DEF AuthorsOK
      <4>3. CASE o = Server /\ s > Len(written[Server])
        <5>1. written'[o][s] = [MetaAtom EXCEPT !.seq = seq]
          BY <2>6, <4>3
        <5>2. written'[o][s].order_n = 1 /\ MaxOrder \in Nat
          BY <5>1, ConfigAssumption DEF MetaAtom
        <5> QED BY <3>1, <4>3, <5>2
      <4> QED BY <2>7, <4>1, <4>2, <4>3
    <3>4. ASSUME NEW s \in DOMAIN meta' PROVE IsList(meta'[s])
      <4>1. CASE s \in DOMAIN meta
        <5>1. meta'[s] = meta[s]
          BY <2>1, <4>1 DEF Welcomed
        <5> QED BY <2>2, <4>1, <5>1 DEF AuthorsOK
      <4>2. CASE s \notin DOMAIN meta /\ s <= Len(written[Server])
        <5>1. s \in Int /\ ~(s > Len(written[Server]))
          BY <2>7, <3>1, <4>2
        <5>2. meta'[s] = {}
          BY <2>1, <4>2, <5>1 DEF Welcomed
        <5>3. IsFiniteSet({})
          BY FS_EmptySet
        <5> QED BY <5>2, <5>3 DEF IsList
      <4>3. CASE s \notin DOMAIN meta /\ s > Len(written[Server])
        BY <2>1, <2>3, <2>4, <4>3, NewMetaLists
      <4> QED BY <2>7, <3>1, <4>1, <4>2, <4>3
    <3> QED BY <3>1, <3>2, <3>3, <3>4 DEF AuthorsOK
  <2>14. ComingOK'
    <3>1. \A c \in Client : c \in Node /\ c # Server
      BY DEF Client
    <3> QED BY <2>2, <2>5, <3>1 DEF ComingOK, Writes
  <2>15. \A a \in net' : a \in net \/ Flies(a, written')
    <3>1. JoinPacket(p.from, Server, seq, Len(written[Server])).cmd = "JOIN"
          /\ Answers(JoinPacket(p.from, Server, seq, Len(written[Server])))
      <4>1. seq > 0
        BY <2>2, <2>3, ConfigAssumption DEF ComingOK, SEQ_START
      <4> QED BY <2>3, <2>7, <4>1 DEF JoinPacket, Answers
    <3>2. \A a \in net' : a \in net \/ a = JoinPacket(p.from, Server, seq, Len(written[Server]))
      BY <2>1 DEF Welcomed
    <3> QED BY <3>1, <3>2 DEF Flies
  <2>16. local_seq_last' = [local_seq_last EXCEPT ![Server] = seq]
    BY <2>2, <2>3, <2>5 DEF Shapes
  <2> QED BY <2>3, <2>5, <2>12, <2>13, <2>14, <2>15, <2>16, NodeStep
<1> QED BY <1>1, <1>2

\* At first the server is alone.
LEMMA JoinInitCome == JoinInit => ComeInv
<1> SUFFICES ASSUME JoinInit PROVE ComeInv
  OBVIOUS
<1>1. /\ Server \in Node /\ Seq0 \in Nat /\ Seq0 > 0 /\ (\A o \in Node : MaxSerial[o] \in Nat)
  BY ConfigAssumption DEF SEQ_START
<1>2. /\ stacks = [n \in Node |->
           IF n = Server THEN SetLocalSeq0(Cleared(n), n, Seq0).stacks ELSE Cleared(n).stacks]
      /\ known = [n \in Node |-> Cleared(n).ids]
      /\ seq_0 = [n \in Node |-> Cleared(n).seq_0]
      /\ local_seq_last = [n \in Node |-> IF n = Server THEN Seq0 ELSE SEQ_START]
      /\ net = {} /\ written = [n \in Node |-> <<>>] /\ meta = <<>>
      /\ status = [c \in Client |-> "out"]
  BY DEF JoinInit
<1>3. Shapes
  <2>1. <<>> \in Seq(Atom)
    OBVIOUS
  <2>2. \A n \in Node : local_seq_last[n] \in Int
    BY <1>1, <1>2 DEF SEQ_START
  <2> QED BY <1>2, <2>1, <2>2 DEF Shapes
<1>4. ComingOK
  <2>1. \A c \in Client : c \in Node
    BY DEF Client
  <2> QED BY <1>1, <1>2, <2>1 DEF ComingOK
<1>5. AuthorsOK(written, meta)
  <2>1. DOMAIN meta = {} /\ \A o \in Node : Len(written[o]) = 0
    BY <1>2
  <2> QED BY <1>1, <2>1 DEF AuthorsOK
<1>6. ASSUME NEW n \in Node PROVE RegistryOK(Registry(n), n, written, local_seq_last[n])
  <2>1. PICK r : r = Cleared(n)
    OBVIOUS
  <2>2. Len(written[n]) = 0 /\ local_seq_last[n] \in Int /\ SEQ_INVALID <= local_seq_last[n]
    BY <1>1, <1>2 DEF SEQ_START, SEQ_INVALID
  <2>3. RegistryOK(r, n, written, local_seq_last[n])
    BY <2>1, <2>2, ClearedIs
  <2>4. Sound(r) /\ n \in r.ids
    BY <2>3 DEF RegistryOK
  <2>5. CASE n # Server
    <3>1. Registry(n) = [ids |-> r.ids, stacks |-> r.stacks, seq_0 |-> r.seq_0]
      BY <1>2, <2>1, <2>5 DEF Registry
    <3>2. Registry(n) = r
      BY <2>4, <3>1 DEF Sound
    <3> QED BY <2>3, <3>2
  <2>6. CASE n = Server
    <3>1. PICK q : q = SetLocalSeq0(r, n, Seq0)
      OBVIOUS
    <3>2. /\ Sound(q) /\ q.ids = r.ids /\ q.seq_0 = r.seq_0
          /\ \A o \in Node : SameBody(r.stacks[o], q.stacks[o])
          /\ q.stacks[n].seq_0s = [r.stacks[n].seq_0s EXCEPT ![n] = Seq0]
      <4>1. Seq0 \in Int /\ SEQ_INVALID <= Seq0
        BY <1>1 DEF SEQ_INVALID
      <4> QED BY <2>4, <3>1, <4>1, SetLocalSeq0Does
    <3>3. Registry(n) = [ids |-> q.ids, stacks |-> q.stacks, seq_0 |-> q.seq_0]
      BY <1>2, <2>1, <2>6, <3>1, <3>2 DEF Registry
    <3>4. Registry(n) = q
      BY <3>2, <3>3 DEF Sound
    <3>5. q.stacks[n].seq_0s[n] = Seq0 /\ local_seq_last[n] = Seq0
      <4>1. r.stacks[n].seq_0s \in [Node -> Int]
        <5>1. IsStack(r.stacks[n])
          BY <2>4 DEF Sound
        <5> QED BY <5>1, StackFields
      <4> QED BY <1>2, <2>6, <3>2, <4>1
    <3>6. \A o \in Node : Holds(q.stacks[o], written[o])
      BY <2>3, <3>2, BodyKeeps DEF RegistryOK
    <3>7. Local(q.stacks[n]) /\ q.stacks[n].serial_max = Len(written[n])
      BY <2>3, <3>2, BodyKeeps DEF RegistryOK, SameBody
    <3>8. RegistryOK(q, n, written, local_seq_last[n])
      BY <1>1, <2>3, <2>4, <3>2, <3>5, <3>6, <3>7 DEF RegistryOK
    <3> QED BY <3>4, <3>8
  <2> QED BY <2>5, <2>6
<1> QED BY <1>2, <1>3, <1>4, <1>5, <1>6 DEF ComeInv

\* Every step keeps it.
LEMMA JoinNextCome == ComeInv /\ [JoinNext]_joinVars => ComeInv'
<1> SUFFICES ASSUME ComeInv, [JoinNext]_joinVars PROVE ComeInv'
  OBVIOUS
<1>1. ASSUME NEW p \in net, RecvJoin(p) PROVE ComeInv'
  BY <1>1, RecvJoinStep
<1>2. ASSUME NEW p \in net, RecvAnswer(p) PROVE ComeInv'
  BY <1>2, RecvAnswerStep
<1>3. ASSUME NEW p \in net, RecvAtomOrRefuse(p) PROVE ComeInv'
  BY <1>3, RecvAtomOrRefuseStep
<1>4. ASSUME NEW c \in Client, ClientJoin(c) PROVE ComeInv'
  BY <1>4, ClientJoinStep
<1>5. ASSUME NEW c \in Client, AskToJoin(c) PROVE ComeInv'
  BY <1>5, AskToJoinStep
<1>6. ASSUME NEW c \in Client, TimeOut(c) PROVE ComeInv'
  BY <1>6, TimeOutStep
<1>7. ASSUME NEW n \in Node, WriteInGame(n) PROVE ComeInv'
  BY <1>7, WriteInGameStep
<1>8. ASSUME NEW n \in Node, ReadInGame(n) PROVE ComeInv'
  BY <1>8, ReadInGameStep
<1>9. ASSUME NEW n \in Node, NEW peer \in Node, SendToKnown(n, peer) PROVE ComeInv'
  BY <1>9, SendToKnownStep
<1>10. CASE UNCHANGED joinVars
  <2>1. UNCHANGED <<stacks, local_seq_last, net, written, known, seq_0, meta, status>>
    BY <1>10 DEF joinVars, vars, membership
  <2>2. ComingOK'
    BY <2>1 DEF ComeInv, ComingOK
  <2> QED BY <2>1, <2>2, StatusStep
<1> QED BY <1>1, <1>2, <1>3, <1>4, <1>5, <1>6, <1>7, <1>8, <1>9, <1>10 DEF JoinNext, JoinNetwork

\* It holds in every state.
LEMMA ComeInvariance == JoinSpec => []ComeInv
  BY JoinInitCome, JoinNextCome, PTL DEF JoinSpec

\* While nodes come, whatever is refused, begun again or taken twice, a stack
\* holds at a serial what its owner wrote there, and so does every packet in
\* flight (put_atom_str, register_node and the shift of the stacks it makes).
THEOREM JoinStoredAsWritten == JoinSpec => []StoredAsWritten
<1>1. ComeInv => StoredAsWritten
  <2> SUFFICES ASSUME ComeInv PROVE StoredAsWritten
    OBVIOUS
  <2>1. \A n, o \in Node : \A s \in Present(stacks[n][o]) :
          s \in 1 .. Len(written[o]) /\ AtomAt(stacks[n][o], s) = written[o][s]
    BY RegistryParts DEF Holds
  <2>2. ASSUME NEW p \in net, p.cmd \in {DATA, META}
        PROVE  p.serial \in 1 .. Len(written[p.from]) /\ p.atom = written[p.from][p.serial]
    <3>1. Flies(p, written)
      BY DEF ComeInv
    <3>2. AtomFlies(p, written)
      BY <2>2, <3>1 DEF Flies, Asks, Answers, DATA, META
    <3> QED BY <3>2 DEF AtomFlies
  <2> QED BY <2>1, <2>2 DEF StoredAsWritten
<1> QED BY <1>1, ComeInvariance, PTL

----------------------------------------------------------------------------
(* What newcomers are told, when no META overtakes another.                *)

\* What is written for the rounds after seq lies at first, or behind it.
LaterFrom(atoms, seq, first) == \A t \in 1 .. Len(atoms) : atoms[t].seq > seq => t >= first

\* Who writes goes from round to round, up to last.
InSeqOrder(atoms, last) ==
  /\ \A s, t \in 1 .. Len(atoms) : s < t => atoms[s].seq <= atoms[t].seq
  /\ \A s \in 1 .. Len(atoms) : atoms[s].seq <= last

\* An entry of META at seq: nothing of a later round lies before the serial it tells.
TellsOf(x, wr, ids, seq) ==
  /\ x[1] \in ids /\ x[2] <= Len(wr[x[1]]) /\ x[3] = seq
  /\ LaterFrom(wr[x[1]], seq, x[2])

Whom(list) == {x[1] : x \in list}

\* To a, who plays from first[a], the entry x tells no serial too late.
TellsIn(a, x, first) == x[3] <= first[a] \/ x[2] <= SERIAL_START

\* The lists of META.  Whoever is listed is told the truth, or was told of it before;
\* whoever is not listed has come at that seq or a later one.
ListsOK(lists, wr, first, ids) ==
  /\ NbMeta # 0 /\ ids # {Server} => \E t \in DOMAIN lists : Whom(lists[t]) = ids
  /\ \A s \in DOMAIN lists :
       /\ \A x \in lists[s] : TellsOf(x, wr, ids, wr[Server][s].seq)
       /\ \A a \in Client \cap Whom(lists[s]) : \A x \in lists[s] :
            \/ TellsIn(a, x, first)
            \/ \E t \in DOMAIN lists : t < s /\ {a, x[1]} \subseteq Whom(lists[t])
       /\ \A n \in ids : lists[s] = {} \/ n \in Whom(lists[s]) \/ wr[Server][s].seq <= first[n]

\* What n, who plays from first[n], looks for begins early enough.
ToldOK(r, n, wr, first, ids) ==
  /\ n \notin ids => r.ids = {n}
  /\ \A o \in r.ids :
       /\ o \in ids \cup {n}
       /\ r.stacks[o].serial_0_real <= Len(wr[o]) + 1
       /\ LaterFrom(wr[o], first[n], r.stacks[o].serial_0_real)

\* What is in flight goes to those who were let in, and an answer is what the server
\* knows.
TellsOK(p, wr, first, ids) ==
  IF p.cmd # "JOIN" THEN p.to \in ids
  ELSE IF p.seq = 0 THEN p.serial <= 1
  ELSE /\ p.to \in ids /\ p.seq = first[p.to] /\ p.serial <= Len(wr[Server])
       /\ LaterFrom(wr[Server], p.seq, p.serial + 1)

\* The seq each node was registered at by the server.
First == stacks[Server][Server].seq_0s

TellInv ==
  /\ ComeInv
  /\ \A o \in Node : InSeqOrder(written[o], local_seq_last[o])
  /\ First[Server] = Seq0 /\ \A o \in Node : First[o] <= local_seq_last[Server]
  /\ ListsOK(meta, written, First, known[Server])
  /\ \A n, o \in Node : Steady(stacks[n][o])
  /\ \A o \in Node : stacks[Server][o].serial_0_real <= 1
  /\ \A c \in Client : ToldOK(Registry(c), c, written, First, known[Server])
  /\ \A c \in Client : status[c] = "in" =>
       c \in known[Server] /\ stacks[c][c].seq_0s[c] = First[c]
  /\ \A p \in net : TellsOK(p, written, First, known[Server])

\* Whatever is written more lies behind.
LEMMA LaterOn ==
  ASSUME NEW wr \in [Node -> Seq(Atom)], NEW later, NEW n \in Node, Writes(n, wr, later),
         NEW o \in Node, NEW seq, NEW first \in Int, first <= Len(wr[o]) + 1,
         LaterFrom(wr[o], seq, first)
  PROVE  first <= Len(later[o]) + 1 /\ LaterFrom(later[o], seq, first)
<1>1. /\ wr[o] \in Seq(Atom) /\ later[o] \in Seq(Atom)
      /\ Len(wr[o]) <= Len(later[o])
      /\ \A s \in 1 .. Len(wr[o]) : s \in 1 .. Len(later[o]) /\ later[o][s] = wr[o][s]
  BY WritesOn
<1>2. Len(wr[o]) \in Nat /\ Len(later[o]) \in Nat
  BY <1>1
<1>3. ASSUME NEW t \in 1 .. Len(later[o]), later[o][t].seq > seq PROVE t >= first
  <2>1. CASE t \in 1 .. Len(wr[o])
    <3>1. wr[o][t].seq > seq
      BY <1>1, <1>3, <2>1
    <3> QED BY <2>1, <3>1 DEF LaterFrom
  <2>2. CASE t \notin 1 .. Len(wr[o])
    BY <1>2, <2>2
  <2> QED BY <2>1, <2>2
<1> QED BY <1>1, <1>2, <1>3 DEF LaterFrom

\* What was told stays true when more is written.
LEMMA TellsOfOn ==
  ASSUME NEW wr \in [Node -> Seq(Atom)], NEW later, NEW n \in Node, Writes(n, wr, later),
         NEW ids, NEW more, ids \subseteq more, more \subseteq Node,
         NEW x, x[2] \in Int, NEW seq, TellsOf(x, wr, ids, seq)
  PROVE  TellsOf(x, later, more, seq)
<1>1. x[1] \in more /\ x[1] \in Node /\ x[2] <= Len(wr[x[1]]) /\ x[3] = seq
      /\ LaterFrom(wr[x[1]], seq, x[2])
  BY DEF TellsOf
<1>2. PICK o \in Node : o = x[1]
  BY <1>1
<1>3. /\ wr[o] \in Seq(Atom) /\ later[o] \in Seq(Atom) /\ Len(wr[o]) <= Len(later[o])
  BY WritesOn
<1>4. Len(wr[o]) \in Nat /\ Len(later[o]) \in Nat
  BY <1>3
<1>5. x[2] <= Len(wr[o]) /\ LaterFrom(wr[o], seq, x[2])
  BY <1>1, <1>2
<1>6. x[2] <= Len(wr[o]) + 1
  BY <1>4, <1>5
<1>7. LaterFrom(later[o], seq, x[2])
  BY <1>5, <1>6, LaterOn
<1>8. x[2] <= Len(later[o])
  BY <1>3, <1>4, <1>5
<1> QED BY <1>1, <1>2, <1>7, <1>8 DEF TellsOf

\* What META lists stays true when more is written and nobody comes.
LEMMA ListsOn ==
  ASSUME NEW wr \in [Node -> Seq(Atom)], NEW later, NEW n \in Node, Writes(n, wr, later),
         NEW lists, AuthorsOK(wr, lists), NEW first, NEW ids, ids \subseteq Node,
         ListsOK(lists, wr, first, ids)
  PROVE  ListsOK(lists, later, first, ids)
<1>1. ASSUME NEW s \in DOMAIN lists PROVE later[Server][s].seq = wr[Server][s].seq
  <2>1. s \in 1 .. Len(wr[Server])
    BY DEF AuthorsOK
  <2>2. \A t \in 1 .. Len(wr[Server]) : later[Server][t] = wr[Server][t]
    BY ConfigAssumption, WritesOn
  <2> QED BY <2>1, <2>2
<1>2. ASSUME NEW s \in DOMAIN lists, NEW x \in lists[s]
      PROVE  TellsOf(x, later, ids, later[Server][s].seq)
  <2>1. x[2] \in Int
    BY DEF AuthorsOK, IsList
  <2>2. TellsOf(x, wr, ids, wr[Server][s].seq)
    BY DEF ListsOK
  <2>3. TellsOf(x, later, ids, wr[Server][s].seq)
    BY <2>1, <2>2, TellsOfOn
  <2> QED BY <1>1, <2>3
<1>3. ASSUME NEW s \in DOMAIN lists, NEW o \in ids
      PROVE  lists[s] = {} \/ o \in Whom(lists[s]) \/ later[Server][s].seq <= first[o]
  BY <1>1 DEF ListsOK
<1> QED BY <1>2, <1>3 DEF ListsOK

\* A node that registers no one else, and whose stacks begin no later, has been told
\* enough.
LEMMA ToldOn ==
  ASSUME NEW wr \in [Node -> Seq(Atom)], NEW later, NEW n \in Node, Writes(n, wr, later),
         NEW c \in Node, NEW r, NEW q, q.ids = r.ids, r.ids \subseteq Node,
         \A o \in r.ids : /\ r.stacks[o].serial_0_real \in Int /\ q.stacks[o].serial_0_real \in Int
                          /\ q.stacks[o].serial_0_real <= r.stacks[o].serial_0_real,
         NEW first, NEW ids, ToldOK(r, c, wr, first, ids)
  PROVE  ToldOK(q, c, later, first, ids)
<1>1. ASSUME NEW o \in q.ids
      PROVE  /\ o \in ids \cup {c}
             /\ q.stacks[o].serial_0_real <= Len(later[o]) + 1
             /\ LaterFrom(later[o], first[c], q.stacks[o].serial_0_real)
  <2>1. o \in Node /\ o \in r.ids /\ o \in ids \cup {c}
    BY DEF ToldOK
  <2>2. PICK old \in Int : old = r.stacks[o].serial_0_real
    BY <2>1
  <2>3. PICK new \in Int : new = q.stacks[o].serial_0_real
    BY <2>1
  <2>4. new <= old /\ old <= Len(wr[o]) + 1 /\ LaterFrom(wr[o], first[c], old)
    BY <2>1, <2>2, <2>3 DEF ToldOK
  <2>5. old <= Len(later[o]) + 1 /\ LaterFrom(later[o], first[c], old)
    BY <2>1, <2>4, LaterOn
  <2>6. Len(later[o]) \in Nat
    BY <2>1, WritesOn
  <2>7. new <= Len(later[o]) + 1 /\ LaterFrom(later[o], first[c], new)
    BY <2>4, <2>5, <2>6 DEF LaterFrom
  <2> QED BY <2>1, <2>3, <2>7
<1> QED BY <1>1 DEF ToldOK

\* What is in flight stays true when more is written.
LEMMA TellsOn ==
  ASSUME NEW wr \in [Node -> Seq(Atom)], NEW later, NEW n \in Node, Writes(n, wr, later),
         NEW p, Flies(p, wr), NEW first, NEW ids, TellsOK(p, wr, first, ids)
  PROVE  TellsOK(p, later, first, ids)
<1>1. CASE p.cmd # "JOIN"
  BY <1>1 DEF TellsOK
<1>2. CASE p.cmd = "JOIN" /\ p.seq = 0
  BY <1>2 DEF TellsOK
<1>3. CASE p.cmd = "JOIN" /\ p.seq # 0
  <2>1. p.to \in ids /\ p.seq = first[p.to] /\ p.serial <= Len(wr[Server])
        /\ LaterFrom(wr[Server], p.seq, p.serial + 1)
    BY <1>3 DEF TellsOK
  <2>2. PICK serial \in Int : serial = p.serial
    BY <1>3 DEF Flies, AtomFlies, Asks, Answers, DATA, META
  <2>3. /\ wr[Server] \in Seq(Atom) /\ later[Server] \in Seq(Atom)
        /\ Len(wr[Server]) <= Len(later[Server]) /\ Server \in Node
    BY ConfigAssumption, WritesOn
  <2>4. Len(wr[Server]) \in Nat /\ Len(later[Server]) \in Nat
    BY <2>3
  <2>5. serial + 1 \in Int /\ serial + 1 <= Len(wr[Server]) + 1 /\ serial <= Len(later[Server])
        /\ LaterFrom(wr[Server], p.seq, serial + 1)
    BY <2>1, <2>2, <2>3, <2>4
  <2>6. LaterFrom(later[Server], p.seq, serial + 1)
    BY <2>3, <2>5, LaterOn
  <2> QED BY <1>3, <2>1, <2>2, <2>5, <2>6 DEF TellsOK
<1> QED BY <1>1, <1>2, <1>3

\* What the steps have in common when nobody is let in: node n changes what it has
\* registered, its round and what it wrote.
LEMMA NodeTells ==
  ASSUME TellInv, ComeInv', NEW n \in Node, NEW q, NEW last \in Int,
         stacks' = [stacks EXCEPT ![n] = q.stacks],
         known' = [known EXCEPT ![n] = q.ids],
         local_seq_last' = [local_seq_last EXCEPT ![n] = last],
         UNCHANGED meta,
         Writes(n, written, written'), InSeqOrder(written'[n], last),
         \A o \in Node : Steady(q.stacks[o]),
         n = Server => /\ q.ids = known[n] /\ q.stacks[n].seq_0s = First
                       /\ local_seq_last[n] <= last
                       /\ \A o \in Node : q.stacks[o].serial_0_real <= 1,
         n # Server => ToldOK(q, n, written', First, known[Server]),
         \A c \in Client : status'[c] = "in" =>
            \/ c # n /\ status[c] = "in"
            \/ c = n /\ c \in known[Server] /\ q.stacks[c].seq_0s[c] = First[c],
         \A p \in net' : p \in net \/ TellsOK(p, written', First, known[Server])
  PROVE  TellInv'
<1>1. /\ ComeInv /\ Shapes /\ AuthorsOK(written, meta) /\ Server \in Node
      /\ written \in [Node -> Seq(Atom)] /\ local_seq_last \in [Node -> Int]
  BY ConfigAssumption DEF TellInv, ComeInv, Shapes
<1>2. /\ stacks'[n] = q.stacks /\ known'[n] = q.ids /\ local_seq_last'[n] = last
      /\ \A o \in Node \ {n} : /\ stacks'[o] = stacks[o] /\ known'[o] = known[o]
                               /\ local_seq_last'[o] = local_seq_last[o]
                               /\ written'[o] = written[o]
  BY <1>1 DEF Shapes, Writes
<1>3. known'[Server] = known[Server] /\ First' = First
  BY <1>1, <1>2 DEF First
<1>4. PICK first : first = First
  OBVIOUS
<1>5. PICK ids : ids = known[Server]
  OBVIOUS
<1>6. ids \subseteq Node
  BY <1>1, <1>5, RegistryParts
<1>7. \A o \in Node : InSeqOrder(written'[o], local_seq_last'[o])
  BY <1>2 DEF TellInv
<1>8. first[Server] = Seq0 /\ \A o \in Node : first[o] <= local_seq_last'[Server]
  <2>1. first[Server] = Seq0 /\ \A o \in Node : first[o] <= local_seq_last[Server]
    BY <1>4 DEF TellInv
  <2>2. \A o \in Node : first[o] \in Int
    <3>1. IsStack(stacks[Server][Server])
      BY <1>1, RegistryParts
    <3> QED BY <1>4, <3>1, StackFields DEF First
  <2>3. local_seq_last[Server] <= local_seq_last'[Server] /\ local_seq_last[Server] \in Int
        /\ local_seq_last'[Server] \in Int
    BY <1>1, <1>2
  <2> QED BY <2>1, <2>2, <2>3
<1>9. ListsOK(meta, written', first, ids)
  <2>1. ListsOK(meta, written, first, ids)
    BY <1>4, <1>5 DEF TellInv
  <2> QED BY <1>1, <1>6, <2>1, ListsOn
<1>10. \A m, o \in Node : Steady(stacks'[m][o])
  BY <1>2 DEF TellInv
<1>11. \A o \in Node : stacks'[Server][o].serial_0_real <= 1
  BY <1>2 DEF TellInv
<1>12. ASSUME NEW c \in Client PROVE ToldOK(Registry(c), c, written, first, ids)'
  <2>1. c \in Node /\ c # Server
    BY DEF Client
  <2>2. CASE c = n
    <3>1. ToldOK(q, n, written', first, ids)
      BY <1>4, <1>5, <2>1, <2>2
    <3>2. Registry(c)'.ids = q.ids /\ Registry(c)'.stacks = q.stacks
      BY <1>2, <2>2 DEF Registry
    <3> QED BY <2>2, <3>1, <3>2 DEF ToldOK
  <2>3. CASE c # n
    <3>1. ToldOK(Registry(c), c, written, first, ids)
      BY <1>4, <1>5 DEF TellInv
    <3>a. known'[c] = known[c] /\ stacks'[c] = stacks[c] /\ known[c] \subseteq Node
      BY <1>1, <1>2, <2>1, <2>3, RegistryParts
    <3>2. Registry(c)'.ids = Registry(c).ids /\ Registry(c)'.stacks = Registry(c).stacks
          /\ Registry(c).ids \subseteq Node /\ Registry(c).stacks = stacks[c]
      BY <3>a DEF Registry
    <3>3. \A o \in Node : stacks[c][o].serial_0_real \in Int
      BY <1>1, <2>1, RegistryParts, StackFields
    <3>4. \A o \in Registry(c).ids :
            /\ Registry(c).stacks[o].serial_0_real \in Int
            /\ Registry(c)'.stacks[o].serial_0_real \in Int
            /\ Registry(c)'.stacks[o].serial_0_real <= Registry(c).stacks[o].serial_0_real
      BY <3>2, <3>3
    <3> QED BY <1>1, <2>1, <3>1, <3>2, <3>4, ToldOn
  <2> QED BY <2>2, <2>3
<1>13. ASSUME NEW c \in Client, status'[c] = "in"
       PROVE  c \in ids /\ stacks'[c][c].seq_0s[c] = first[c]
  <2>1. c \in Node /\ c # Server
    BY DEF Client
  <2>2. CASE c = n
    BY <1>2, <1>4, <1>5, <1>13, <2>1, <2>2
  <2>3. CASE c # n
    <3>1. status[c] = "in"
      BY <1>13, <2>3
    <3> QED BY <1>2, <1>4, <1>5, <2>1, <2>3, <3>1 DEF TellInv
  <2> QED BY <2>2, <2>3
<1>14. ASSUME NEW p \in net' PROVE TellsOK(p, written', first, ids)
  <2>1. CASE p \in net
    <3>1. Flies(p, written) /\ TellsOK(p, written, first, ids)
      BY <1>1, <1>4, <1>5, <2>1 DEF TellInv, ComeInv
    <3> QED BY <1>1, <3>1, TellsOn
  <2>2. CASE TellsOK(p, written', First, known[Server])
    BY <1>4, <1>5, <2>2
  <2> QED BY <2>1, <2>2
<1>15. first = First' /\ ids = known'[Server] /\ meta' = meta
  BY <1>3, <1>4, <1>5
<1>16. \A c \in Client : ToldOK(Registry(c)', c, written', First', known'[Server])
  BY <1>12, <1>15
<1>17. ListsOK(meta', written', First', known'[Server])
  BY <1>9, <1>15
<1>18. \A p \in net' : TellsOK(p, written', First', known'[Server])
  BY <1>14, <1>15
<1>19. \A c \in Client : status'[c] = "in" =>
          c \in known'[Server] /\ stacks'[c][c].seq_0s[c] = First'[c]
  BY <1>13, <1>15
<1>20. First'[Server] = Seq0 /\ \A o \in Node : First'[o] <= local_seq_last'[Server]
  BY <1>8, <1>15
<1> QED BY <1>7, <1>10, <1>11, <1>16, <1>17, <1>18, <1>19, <1>20 DEF TellInv

\* Popping messages leaves the bounds as they are.
LEMMA PoppedBounds ==
  ASSUME NEW st, IsStack(st), NEW seqs, NEW get_all
  PROVE  SameBounds(st, Popped(st, seqs, get_all))
<1> DEFINE cells == Popped(st, seqs, get_all).atoms
           min   == Popped(st, seqs, get_all).serial_miss_min
           max   == Popped(st, seqs, get_all).serial_miss_max
           new   == [st EXCEPT !.atoms = cells, !.serial_miss_min = min, !.serial_miss_max = max]
<1>1. Popped(st, seqs, get_all) = new
  BY DEF Popped, IsStack
<1> HIDE DEF cells, min, max
<1>2. SameBounds(st, new)
  BY DEF IsStack, SameBounds
<1> QED BY <1>1, <1>2

\* The atoms are the same, and so are the bounds that say from where on they are all there.
Keeps(st, new) ==
  SameAtoms(st, new) /\ new.serial_min = st.serial_min /\ new.serial_0_real = st.serial_0_real

\* Bookkeeping in the stacks of one node, and what it sends of them.
LEMMA BookTells ==
  ASSUME TellInv, ComeInv', NEW n \in Node, NEW w,
         \A o \in Node : Keeps(stacks[n][o], w[o]),
         stacks' = [stacks EXCEPT ![n] = w],
         UNCHANGED <<local_seq_last, written, known, meta>>,
         \A c \in Client : status'[c] = "in" => status[c] = "in",
         \A p \in net' : p \in net \/ TellsOK(p, written, First, known[Server])
  PROVE  TellInv'
<1>1. /\ ComeInv /\ Shapes /\ written \in [Node -> Seq(Atom)] /\ local_seq_last \in [Node -> Int]
  BY DEF TellInv, ComeInv, Shapes
<1>2. PICK q : q = [ids |-> known[n], stacks |-> w]
  OBVIOUS
<1>3. q.ids = known[n] /\ q.stacks = w
  BY <1>2
<1>4. known' = [known EXCEPT ![n] = q.ids] /\ stacks' = [stacks EXCEPT ![n] = q.stacks]
  BY <1>1, <1>3 DEF Shapes
<1>5. PICK last \in Int : last = local_seq_last[n]
  BY <1>1
<1>6. local_seq_last' = [local_seq_last EXCEPT ![n] = last]
  BY <1>1, <1>5
<1>7. Writes(n, written, written')
  BY <1>1, WritesNothing
<1>8. InSeqOrder(written'[n], last)
  BY <1>5 DEF TellInv
<1>9. \A o \in Node : Steady(q.stacks[o])
  BY <1>3, SteadyOn DEF TellInv, Keeps
<1>10. ASSUME n = Server
       PROVE  /\ q.ids = known[n] /\ q.stacks[n].seq_0s = First
              /\ local_seq_last[n] <= last
              /\ \A o \in Node : q.stacks[o].serial_0_real <= 1
  <2>1. q.stacks[n].seq_0s = First
    BY <1>3, <1>10 DEF First, Keeps, SameAtoms
  <2>2. \A o \in Node : q.stacks[o].serial_0_real <= 1
    BY <1>3, <1>10 DEF TellInv, Keeps
  <2> QED BY <1>3, <1>5, <2>1, <2>2
<1>11. ASSUME n # Server PROVE ToldOK(q, n, written', First, known[Server])
  <2>1. n \in Client /\ ToldOK(Registry(n), n, written, First, known[Server])
    BY <1>11 DEF TellInv, Client
  <2>2. Registry(n).ids = q.ids /\ Registry(n).stacks = stacks[n] /\ q.ids \subseteq Node
    BY <1>1, <1>3, RegistryParts
  <2>3. \A o \in q.ids : /\ stacks[n][o].serial_0_real \in Int
                         /\ q.stacks[o].serial_0_real = stacks[n][o].serial_0_real
    BY <1>1, <1>3, <2>2, RegistryParts, StackFields DEF Keeps
  <2>4. \A o \in Registry(n).ids :
           /\ Registry(n).stacks[o].serial_0_real \in Int /\ q.stacks[o].serial_0_real \in Int
           /\ q.stacks[o].serial_0_real <= Registry(n).stacks[o].serial_0_real
    BY <2>2, <2>3
  <2>5. Registry(n).ids \subseteq Node /\ q.ids = Registry(n).ids
    BY <2>2
  <2> QED BY <1>1, <1>7, <2>1, <2>4, <2>5, ToldOn
<1>12. \A c \in Client : status'[c] = "in" =>
            \/ c # n /\ status[c] = "in"
            \/ c = n /\ c \in known[Server] /\ q.stacks[c].seq_0s[c] = First[c]
  <2> SUFFICES ASSUME NEW c \in Client, status'[c] = "in", c = n
               PROVE  c \in known[Server] /\ q.stacks[c].seq_0s[c] = First[c]
    OBVIOUS
  <2>1. c \in known[Server] /\ stacks[c][c].seq_0s[c] = First[c]
    BY DEF TellInv
  <2>2. q.stacks[c].seq_0s = stacks[c][c].seq_0s
    BY <1>3 DEF Keeps, SameAtoms
  <2> QED BY <2>1, <2>2
<1>13. \A p \in net' : p \in net \/ TellsOK(p, written', First, known[Server])
  OBVIOUS
<1> QED BY <1>4, <1>6, <1>7, <1>8, <1>9, <1>10, <1>11, <1>12, <1>13, NodeTells

\* Reading tells nobody anything.
LEMMA ReadInGameTells ==
  ASSUME TellInv, NEW n \in Node, ReadInGame(n)
  PROVE  TellInv'
<1> DEFINE calc == CalcAll(stacks[n])
<1>1. PICK ref : ref = KnownReference(n)
  OBVIOUS
<1>2. HandOver(n, ref) \/ NothingNew(n, ref)
  BY <1>1 DEF ReadInGame
<1>3. UNCHANGED <<local_seq_last, net, written, known, seq_0, meta, status>>
  BY <1>2 DEF ReadInGame, HandOver, NothingNew, membership
<1>a. /\ \A c \in Client : status'[c] = "in" => status[c] = "in"
      /\ \A p \in net' : p \in net \/ TellsOK(p, written, First, known[Server])
  BY <1>3
<1>b. UNCHANGED <<local_seq_last, written, known, meta>>
  BY <1>3
<1>4. ComeInv /\ ComeInv'
  BY ReadInGameStep DEF TellInv
<1>5. ASSUME NEW o \in Node
      PROVE  /\ calc[o] = Calc(stacks[n][o]) /\ Fits(calc[o], Last(o)) /\ Last(o) \in Nat
             /\ IsStack(calc[o]) /\ SameAtoms(stacks[n][o], calc[o])
             /\ calc[o].serial_min = stacks[n][o].serial_min
             /\ calc[o].serial_0_real = stacks[n][o].serial_0_real
  <2>1. Fits(stacks[n][o], Last(o)) /\ Last(o) \in Nat /\ IsStack(stacks[n][o])
    BY <1>4, JoinFits, RegistryParts
  <2>2. IsStack(Calc(stacks[n][o])) /\ SameAtoms(stacks[n][o], Calc(stacks[n][o]))
    BY <2>1, CalcKeeps
  <2>3. calc[o] = Calc(stacks[n][o])
    BY DEF CalcAll
  <2>4. /\ Calc(stacks[n][o]).serial_min = stacks[n][o].serial_min
        /\ Calc(stacks[n][o]).serial_0_real = stacks[n][o].serial_0_real
    BY <2>1, CalcBounds
  <2>5. Fits(Calc(stacks[n][o]), Last(o))
    BY <2>1, <2>2, SameAtomsFits
  <2> QED BY <2>1, <2>2, <2>3, <2>4, <2>5
<1> HIDE DEF calc
<1>6. CASE HandOver(n, ref)
  <2> DEFINE new == last_seq_reference[n] + 1 .. ref
             cleared(o) == ClearRecent(calc[o], ref)
             v == [o \in Node |-> Popped(cleared(o), new, TRUE)]
  <2>1. PICK w : w = v
    OBVIOUS
  <2>2. stacks' = [stacks EXCEPT ![n] = w]
    BY <1>6, <2>1 DEF HandOver, calc
  <2>3. ASSUME NEW o \in Node
        PROVE  Keeps(stacks[n][o], w[o])
    <3> DEFINE cl == ClearRecent(calc[o], ref)
               popped == Popped(cl, new, TRUE)
    <3>1. IsStack(cl) /\ SameAtoms(calc[o], cl) /\ SameBounds(calc[o], cl)
      BY <1>5, ClearRecentKeeps, ClearRecentBounds
    <3>2. w[o] = popped
      BY <2>1
    <3> HIDE DEF cl, new
    <3>3. Fits(cl, Last(o))
      BY <1>5, <3>1, SameAtomsFits
    <3>4. SameAtoms(cl, popped) /\ SameBounds(cl, popped)
      BY <1>5, <3>1, <3>3, PoppedKeeps, PoppedBounds
    <3> HIDE DEF popped
    <3>5. SameAtoms(calc[o], popped)
      BY <3>1, <3>4, SameAtomsTrans
    <3>6. SameAtoms(stacks[n][o], popped)
      BY <1>5, <3>5, SameAtomsTrans
    <3> QED BY <1>5, <3>1, <3>2, <3>4, <3>6 DEF SameBounds, Keeps
  <2> QED BY <1>4, <1>a, <1>b, <2>2, <2>3, BookTells
<1>7. CASE NothingNew(n, ref)
  <2>1. PICK w : w = calc
    OBVIOUS
  <2>2. stacks' = [stacks EXCEPT ![n] = w]
    BY <1>7, <2>1 DEF NothingNew, calc
  <2>3. \A o \in Node : Keeps(stacks[n][o], w[o])
    BY <1>5, <2>1 DEF Keeps
  <2> QED BY <1>4, <1>a, <1>b, <2>2, <2>3, BookTells
<1> QED BY <1>2, <1>6, <1>7

\* What is sent goes to those who were let in.
LEMMA SendToKnownTells ==
  ASSUME TellInv, NEW n \in Node, NEW peer \in Node, SendToKnown(n, peer)
  PROVE  TellInv'
<1> DEFINE v == [o \in Node |-> IF o = peer THEN stacks[n][o] ELSE Sent(stacks[n][o], peer)]
<1>1. PICK w : w = v
  OBVIOUS
<1>2. ComeInv /\ ComeInv' /\ Server \in Node
  BY SendToKnownStep, ConfigAssumption DEF TellInv
<1>3. /\ stacks' = [stacks EXCEPT ![n] = w] /\ peer \in known[n] /\ peer \in Peers(n)
      /\ UNCHANGED <<local_seq_last, written, known, seq_0, meta, status>>
  BY <1>1, <1>2, RegistryParts DEF SendToKnown, SendAtoms, membership, ComeInv, Shapes
<1>4. ASSUME NEW o \in Node
      PROVE  Keeps(stacks[n][o], w[o])
  <2>1. Fits(stacks[n][o], Last(o)) /\ Last(o) \in Nat /\ IsStack(stacks[n][o])
    BY <1>2, JoinFits, RegistryParts
  <2>2. CASE o = peer
    <3>1. w[o] = stacks[n][o]
      BY <1>1, <2>2
    <3> QED BY <2>1, <3>1 DEF SameAtoms, Keeps
  <2>3. CASE o # peer
    <3>1. w[o] = Sent(stacks[n][o], peer)
      BY <1>1, <2>3
    <3>2. /\ SameAtoms(stacks[n][o], Sent(stacks[n][o], peer))
          /\ SameBounds(stacks[n][o], Sent(stacks[n][o], peer))
      BY <2>1, SentKeeps, SentBounds
    <3> QED BY <3>1, <3>2 DEF SameBounds, Keeps
  <2> QED BY <2>2, <2>3
<1>5. ASSUME NEW p \in net', p \notin net
      PROVE  TellsOK(p, written, First, known[Server])
  <2>1. AtomFlies(p, written) /\ p.to \in known[n]
    BY <1>2, <1>5, SendToKnownStep
  <2>2. p.cmd # "JOIN"
    BY <2>1 DEF AtomFlies, DATA, META
  <2>3. p.to = peer
    <3>1. p \in UNION {
             {AtomPacket(peer, o, s, AtomAt(stacks[n][o], s)) : s \in ToSend(stacks[n][o], peer)} :
                o \in Node \ {peer}}
      BY <1>5 DEF SendToKnown, SendAtoms
    <3> QED BY <3>1 DEF AtomPacket
  <2>4. p.to # n
    BY <1>3, <2>3, ConfigAssumption DEF Peers
  <2>5. p.to \in known[Server]
    <3>1. CASE n = Server
      BY <2>1, <3>1
    <3>2. CASE n # Server
      <4>1. n \in Client
        BY <3>2 DEF Client
      <4>2. ToldOK(Registry(n), n, written, First, known[Server]) /\ Registry(n).ids = known[n]
        BY <1>2, <4>1, RegistryParts DEF TellInv
      <4>3. p.to \in known[Server] \cup {n}
        BY <2>1, <4>2 DEF ToldOK
      <4> QED BY <2>4, <4>3
    <3> QED BY <3>1, <3>2
  <2> QED BY <2>2, <2>5 DEF TellsOK
<1>6. \A c \in Client : status'[c] = "in" => status[c] = "in"
  BY <1>3
<1>7. \A p \in net' : p \in net \/ TellsOK(p, written, First, known[Server])
  BY <1>5
<1> QED BY <1>2, <1>3, <1>4, <1>6, <1>7, BookTells

\* It asks from the beginning.
LEMMA AskToJoinTells ==
  ASSUME TellInv, NEW c \in Client, AskToJoin(c)
  PROVE  TellInv'
<1>1. ComeInv /\ ComeInv' /\ c \in Node
  BY AskToJoinStep DEF TellInv, Client
<1>2. /\ UNCHANGED <<stacks, local_seq_last, written, known, seq_0, meta>>
      /\ net' = net \cup {JoinPacket(Server, c, 0, stacks[c][c].serial_max)}
      /\ status[c] = "connecting" /\ status' = [status EXCEPT ![c] = "asking"]
  BY DEF AskToJoin
<1>3. stacks[c][c].serial_max = 0
  <2>1. written[c] = <<>>
    BY <1>1, <1>2 DEF ComeInv, ComingOK
  <2> QED BY <1>1, <2>1, RegistryParts
<1>4. \A p \in net' : p \in net \/ TellsOK(p, written, First, known[Server])
  BY <1>2, <1>3 DEF JoinPacket, TellsOK
<1>5. \A d \in Client : status'[d] = "in" => status[d] = "in"
  BY <1>1, <1>2 DEF ComeInv, ComingOK
<1>6. stacks' = [stacks EXCEPT ![c] = stacks[c]]
  BY <1>1, <1>2 DEF ComeInv, Shapes
<1>7. \A o \in Node : Keeps(stacks[c][o], stacks[c][o])
  BY DEF SameAtoms, Keeps
<1> QED BY <1>1, <1>2, <1>4, <1>5, <1>6, <1>7, BookTells

\* It gives up.
LEMMA TimeOutTells ==
  ASSUME TellInv, NEW c \in Client, TimeOut(c)
  PROVE  TellInv'
<1>1. ComeInv /\ ComeInv' /\ c \in Node
  BY TimeOutStep DEF TellInv, Client
<1>2. /\ UNCHANGED <<stacks, local_seq_last, written, known, seq_0, meta, net>>
      /\ status[c] = "asking" /\ status' = [status EXCEPT ![c] = "failed"]
  BY DEF TimeOut, vars
<1>3. \A d \in Client : status'[d] = "in" => status[d] = "in"
  BY <1>1, <1>2 DEF ComeInv, ComingOK
<1>4. stacks' = [stacks EXCEPT ![c] = stacks[c]]
  BY <1>1, <1>2 DEF ComeInv, Shapes
<1>5. \A o \in Node : Keeps(stacks[c][o], stacks[c][o])
  BY DEF SameAtoms, Keeps
<1>6. \A p \in net' : p \in net \/ TellsOK(p, written, First, known[Server])
  BY <1>2
<1> QED BY <1>1, <1>2, <1>3, <1>4, <1>5, <1>6, BookTells

\* client_join begins: what was told before is forgotten.
LEMMA ClientJoinTells ==
  ASSUME TellInv, NEW c \in Client, ClientJoin(c)
  PROVE  TellInv'
<1>1. ComeInv /\ ComeInv' /\ c \in Node /\ c # Server
  BY ClientJoinStep DEF TellInv, Client
<1>2. /\ status[c] = "out" /\ status' = [status EXCEPT ![c] = "connecting"]
      /\ Record(c, Cleared(c))
      /\ local_seq_last' = [local_seq_last EXCEPT ![c] = SEQ_START]
      /\ UNCHANGED <<net, written, meta>>
  BY DEF ClientJoin
<1>3. PICK q : q = Cleared(c)
  OBVIOUS
<1>4. /\ stacks' = [stacks EXCEPT ![c] = q.stacks] /\ known' = [known EXCEPT ![c] = q.ids]
  BY <1>2, <1>3 DEF Record
<1>5. written \in [Node -> Seq(Atom)] /\ written[c] = <<>> /\ SEQ_START \in Int
  BY <1>1, <1>2 DEF ComeInv, ComingOK, Shapes, SEQ_START
<1>6. Writes(c, written, written')
  BY <1>1, <1>2, <1>5, WritesNothing
<1>7. InSeqOrder(written'[c], SEQ_START)
  BY <1>2, <1>5 DEF InSeqOrder
<1>8. \A o \in Node : q.stacks[o] = StackInit(SERIAL_START)
  BY <1>3 DEF Cleared
<1>9. q.ids = {c}
  BY <1>3 DEF Cleared
<1>10. \A o \in Node : Steady(q.stacks[o])
  <2>1. Steady(StackInit(SERIAL_START))
    BY StackInitSteady DEF SERIAL_START
  <2> QED BY <1>8, <2>1
<1>11. ToldOK(q, c, written', First, known[Server])
  <2>1. q.stacks[c].serial_0_real = 1
    BY <1>1, <1>8, StackInitIs DEF SERIAL_START
  <2>2. LaterFrom(written'[c], First[c], 1)
    BY <1>2, <1>5 DEF LaterFrom
  <2>3. Len(written'[c]) + 1 = 1
    BY <1>2, <1>5
  <2> QED BY <1>9, <2>1, <2>2, <2>3 DEF ToldOK
<1>12. \A d \in Client : status'[d] = "in" => d # c /\ status[d] = "in"
  BY <1>1, <1>2 DEF ComeInv, ComingOK
<1> QED BY <1>1, <1>2, <1>4, <1>5, <1>6, <1>7, <1>10, <1>11, <1>12, NodeTells

\* Writing goes on from round to round, and the stack still begins where it did.
LEMMA WriteInGameTells ==
  ASSUME OneWindow, TellInv, NEW n \in Node, WriteInGame(n)
  PROVE  TellInv'
<1>1. ComeInv /\ ComeInv' /\ Writes(n, written, written')
  BY WriteInGameStep DEF TellInv
<1>2. PICK seq \in Int, order_n \in Nat \ {0} :
              /\ PutLocalMsg(n, seq, order_n) /\ order_n <= MaxOrder
              /\ Len(written'[n]) = Len(written[n]) + order_n
              /\ \A s \in Len(written[n]) + 1 .. Len(written[n]) + order_n :
                   written'[n][s] = [type |-> DATA, seq |-> seq,
                                     order_i |-> s - (Len(written[n]) + 1), order_n |-> order_n]
  BY <1>1, WriteInGameStep
<1> DEFINE st  == stacks[n][n]
           put == PutMsg(st, n, DATA, seq, order_n, Node \ {n})
           len == Len(written[n])
<1>3. /\ local_seq_last' = [local_seq_last EXCEPT ![n] = seq]
      /\ seq >= local_seq_last[n] /\ len + order_n <= MaxSerial[n]
      /\ UNCHANGED <<net, known, seq_0, meta, status>>
  BY <1>2 DEF PutLocalMsg, WriteInGame, membership
<1>4. stacks' = [stacks EXCEPT ![n] = [stacks[n] EXCEPT ![n] = put]]
  BY <1>2 DEF PutLocalMsg
<1>5. /\ Fits(st, Last(n)) /\ Last(n) \in Nat /\ Local(st) /\ st.serial_max = len
      /\ IsStack(st) /\ Holds(st, written[n]) /\ st.serial_0_real \in Int
      /\ local_seq_last[n] \in Int /\ written[n] \in Seq(Atom)
      /\ stacks[n] = [o \in Node |-> stacks[n][o]]
      /\ \A o \in Node : stacks[n][o].serial_0_real \in Int
      /\ \A o \in Node : IsStack(stacks[n][o])
      /\ written \in [Node -> Seq(Atom)] /\ MaxSerial[n] \in Int
  <2>1. Fits(st, Last(n)) /\ Last(n) \in Nat
    BY <1>1, JoinFits
  <2>2. /\ Local(st) /\ st.serial_max = len /\ Holds(st, written[n]) /\ local_seq_last[n] \in Int
        /\ stacks[n] = [o \in Node |-> stacks[n][o]] /\ written[n] \in Seq(Atom)
        /\ \A o \in Node : IsStack(stacks[n][o])
    BY <1>1, RegistryParts
  <2>3. \A o \in Node : stacks[n][o].serial_0_real \in Int
    BY <2>2, StackFields
  <2>4. written \in [Node -> Seq(Atom)] /\ MaxSerial[n] \in Int
    BY <1>1, ConfigAssumption DEF ComeInv, Shapes
  <2> QED BY <2>1, <2>2, <2>3, <2>4
<1>6. Steady(st) /\ SerialN1(SERIAL_START) \in Int
  BY WindowAssumption DEF TellInv, SerialN1, SERIAL_START
<1> HIDE DEF st
<1>7. len + order_n <= SerialN1(SERIAL_START) /\ len \in Nat
  BY <1>3, <1>5, <1>6 DEF OneWindow
<1>8. Grows(st, put)
  <2>1. Present(st) \subseteq 1 .. st.serial_max
    BY <1>5 DEF Holds
  <2> QED BY <1>5, <1>6, <1>7, <2>1, PutMsgSteady
<1>9. IsStack(put) /\ put.seq_0s = st.seq_0s /\ put.serial_0_real \in Int
  <2>1. st.seq_0s[n] <= local_seq_last[n] /\ st.seq_0s[n] \in Int
    <3>1. RegistryOK(Registry(n), n, written, local_seq_last[n]) /\ Registry(n).stacks = stacks[n]
      BY <1>1, RegistryParts
    <3> QED BY <1>5, <3>1, StackFields DEF RegistryOK, st
  <2>2. seq >= st.seq_0s[n]
    BY <1>3, <1>5, <2>1
  <2>3. DATA \in {DATA, META} /\ Node \ {n} \in SUBSET Node
    OBVIOUS
  <2>a. /\ MaxOrder \in Nat /\ MaxOrder <= (BLOCK_DELTA_MAX - 1) * NB_ATOMS_PER_BLOCK
        /\ (BLOCK_DELTA_MAX - 1) * NB_ATOMS_PER_BLOCK \in Int
    BY ConfigAssumption, WindowAssumption
  <2>4. order_n <= (BLOCK_DELTA_MAX - 1) * NB_ATOMS_PER_BLOCK
    BY <1>2, <2>a
  <2>5. IsStack(put) /\ put.seq_0s = st.seq_0s
    BY <1>5, <2>2, <2>3, <2>4, PutMsgAppends
  <2> QED BY <2>5, StackFields
<1> HIDE DEF put
<1>10. PICK q : q = [ids |-> known[n], stacks |-> [stacks[n] EXCEPT ![n] = put]]
  OBVIOUS
<1>11. /\ q.ids = known[n] /\ q.stacks[n] = put
       /\ \A o \in Node \ {n} : q.stacks[o] = stacks[n][o]
  BY <1>5, <1>10
<1>12. stacks' = [stacks EXCEPT ![n] = q.stacks] /\ known' = [known EXCEPT ![n] = q.ids]
  BY <1>1, <1>3, <1>4, <1>10 DEF ComeInv, Shapes
<1>13. InSeqOrder(written'[n], seq)
  <2>1. /\ \A s, t \in 1 .. len : s < t => written[n][s].seq <= written[n][t].seq
        /\ \A s \in 1 .. len : written[n][s].seq <= local_seq_last[n]
    BY DEF TellInv, InSeqOrder
  <2>2. \A s \in 1 .. len : written'[n][s] = written[n][s] /\ written[n][s].seq \in Int
    <3> SUFFICES ASSUME NEW s \in 1 .. len
                 PROVE  written'[n][s] = written[n][s] /\ written[n][s].seq \in Int
      OBVIOUS
    <3>1. written'[n][s] = written[n][s]
      BY <1>1 DEF Writes
    <3>2. written[n][s].seq \in Int
      BY <1>5, SeqIsInt
    <3> QED BY <3>1, <3>2
  <2>3. ASSUME NEW s \in 1 .. Len(written'[n])
        PROVE  s \in 1 .. len \/ written'[n][s].seq = seq
    <3>1. s \in 1 .. len \/ s \in len + 1 .. len + order_n
      BY <1>2, <1>7
    <3>2. ASSUME s \in len + 1 .. len + order_n PROVE written'[n][s].seq = seq
      <4>1. written'[n][s] = [type |-> DATA, seq |-> seq, order_i |-> s - (len + 1),
                              order_n |-> order_n]
        BY <1>2, <3>2, Zenon
      <4> QED BY <4>1
    <3> QED BY <3>1, <3>2
  <2>4. ASSUME NEW s \in 1 .. len
        PROVE  written'[n][s].seq <= seq /\ written'[n][s].seq \in Int
    <3>1. PICK old \in Int : old = written[n][s].seq /\ old <= local_seq_last[n]
      BY <2>1, <2>2
    <3>2. old <= seq
      BY <1>3, <1>5, <3>1
    <3> QED BY <2>2, <3>1, <3>2
  <2>5. \A s \in 1 .. Len(written'[n]) : written'[n][s].seq <= seq
    BY <2>3, <2>4
  <2>6. \A s, t \in 1 .. Len(written'[n]) : s < t => written'[n][s].seq <= written'[n][t].seq
    <3> SUFFICES ASSUME NEW s \in 1 .. Len(written'[n]), NEW t \in 1 .. Len(written'[n]), s < t
                 PROVE  written'[n][s].seq <= written'[n][t].seq
      OBVIOUS
    <3>1. CASE t \in 1 .. len
      <4>1. s \in 1 .. len
        BY <3>1
      <4> QED BY <2>1, <2>2, <3>1, <4>1
    <3>2. CASE t \notin 1 .. len
      BY <2>3, <2>5, <3>2
    <3> QED BY <3>1, <3>2
  <2> QED BY <2>5, <2>6 DEF InSeqOrder
<1>14. \A o \in Node : Steady(q.stacks[o]) /\ q.stacks[o].serial_0_real <= stacks[n][o].serial_0_real
                       /\ q.stacks[o].serial_0_real \in Int
  <2>1. Steady(put) /\ put.serial_0_real <= st.serial_0_real
    BY <1>8 DEF Grows
  <2>2. \A o \in Node : Steady(stacks[n][o])
    BY DEF TellInv
  <2> QED BY <1>5, <1>9, <1>11, <2>1, <2>2 DEF st
<1>15. ASSUME n = Server
       PROVE  /\ q.ids = known[n] /\ q.stacks[n].seq_0s = First /\ local_seq_last[n] <= seq
              /\ \A o \in Node : q.stacks[o].serial_0_real <= 1
  <2>1. \A o \in Node : stacks[n][o].serial_0_real <= 1
    BY <1>15 DEF TellInv
  <2>2. \A o \in Node : q.stacks[o].serial_0_real <= 1
    BY <1>5, <1>14, <2>1
  <2>3. q.stacks[n].seq_0s = First
    BY <1>9, <1>11, <1>15 DEF st, First
  <2> QED BY <1>3, <1>5, <1>11, <2>2, <2>3
<1>16. ASSUME n # Server PROVE ToldOK(q, n, written', First, known[Server])
  <2>1. n \in Client /\ ToldOK(Registry(n), n, written, First, known[Server])
    BY <1>16 DEF TellInv, Client
  <2>2. Registry(n).ids = q.ids /\ Registry(n).stacks = stacks[n] /\ Registry(n).ids \subseteq Node
    BY <1>1, <1>11, RegistryParts
  <2>3. \A o \in Registry(n).ids :
           /\ Registry(n).stacks[o].serial_0_real \in Int /\ q.stacks[o].serial_0_real \in Int
           /\ q.stacks[o].serial_0_real <= Registry(n).stacks[o].serial_0_real
    BY <1>5, <1>14, <2>2
  <2>4. q.ids = Registry(n).ids
    BY <2>2
  <2> QED BY <1>1, <1>5, <2>1, <2>2, <2>3, <2>4, ToldOn
<1>17. \A c \in Client : status'[c] = "in" =>
            \/ c # n /\ status[c] = "in"
            \/ c = n /\ c \in known[Server] /\ q.stacks[c].seq_0s[c] = First[c]
  <2> SUFFICES ASSUME NEW c \in Client, status'[c] = "in", c = n
               PROVE  c \in known[Server] /\ q.stacks[c].seq_0s[c] = First[c]
    BY <1>3
  <2>1. c \in known[Server] /\ stacks[c][c].seq_0s[c] = First[c]
    BY <1>3 DEF TellInv
  <2> QED BY <1>9, <1>11, <2>1 DEF st
<1>18. \A p \in net' : p \in net \/ TellsOK(p, written', First, known[Server])
  BY <1>3
<1>19. UNCHANGED meta
  BY <1>3
<1>20. \A o \in Node : Steady(q.stacks[o])
  BY <1>14
<1> QED BY <1>1, <1>3, <1>12, <1>13, <1>15, <1>16, <1>17, <1>18, <1>19, <1>20, NodeTells

\* What begins when id is registered is steady, and begins at the serial that was told,
\* or where it did before.
LEMMA BegunBounds ==
  ASSUME NEW r, Sound(r), NEW id \in Node, NEW serial \in Int, NEW seq,
         Steady(r.stacks[id]), NEW N \in Nat, Present(r.stacks[id]) \subseteq 1 .. N
  PROVE  LET st == Begun(r, id, serial, seq)
         IN  /\ Steady(st)
             /\ st.serial_0_real = Max2(serial, SERIAL_START)
                \/ (id \in r.ids /\ st.serial_0_real = r.stacks[id].serial_0_real)
<1> DEFINE serial_0 == Max2(serial, SERIAL_START)
<1>1. serial_0 \in Int /\ 1 <= serial_0
  BY Max2Type DEF SERIAL_START
<1> HIDE DEF serial_0
<1>2. CASE id \notin r.ids
  <2>1. Begun(r, id, serial, seq) = StackInit(serial_0)
    BY <1>2 DEF Begun, serial_0
  <2>2. Steady(StackInit(serial_0)) /\ StackInit(serial_0).serial_0_real = serial_0
    BY <1>1, StackInitSteady, StackInitIs
  <2> QED BY <2>1, <2>2 DEF serial_0
<1>3. CASE id \in r.ids
  <2>1. PICK new : new = StackShift(r.stacks[id], r.seq_0[id], serial_0, seq)
    OBVIOUS
  <2>2. Begun(r, id, serial, seq) = new
    BY <1>3, <2>1 DEF Begun, serial_0
  <2>3. IsStack(r.stacks[id])
    BY DEF Sound
  <2>4. new = r.stacks[id] \/ (Steady(new) /\ new.serial_0_real = serial_0)
    BY <1>1, <2>1, <2>3, StackShiftIs
  <2> QED BY <1>3, <2>2, <2>4 DEF serial_0
<1> QED BY <1>2, <1>3

\* The answer tells where the server is to be followed from.
LEMMA RecvAnswerTells ==
  ASSUME TellInv, NEW p \in net, RecvAnswer(p)
  PROVE  TellInv'
<1>1. Flies(p, written) /\ p.cmd = "JOIN" /\ p.seq # 0 /\ ComeInv /\ ComeInv'
  BY RecvAnswerStep DEF TellInv, ComeInv, RecvAnswer
<1>2. Answers(p)
  BY <1>1 DEF Flies, AtomFlies, Asks, DATA, META
<1>3. PICK c \in Node : c = p.to /\ c \in Client /\ c # Server /\ Server \in Node
  BY <1>2, ConfigAssumption DEF Answers, Client
<1>4. p.from = Server /\ p.serial \in Int /\ p.seq \in Int /\ p.seq > 0
  BY <1>2 DEF Answers
<1>5. Shapes /\ RegistryOK(Registry(c), c, written, local_seq_last[c])
      /\ written \in [Node -> Seq(Atom)] /\ local_seq_last[c] \in Int
  BY <1>1 DEF ComeInv, Shapes
<1>6. PICK seq \in Int : seq = local_seq_last[c]
  BY <1>5
<1>7. PICK last \in Int : last = Max2(p.seq, local_seq_last[c])
  BY <1>4, <1>5, Max2Type
<1>8. local_seq_last[c] <= last
  BY <1>4, <1>5, <1>7, Max2Type
<1>9. PICK old : old = Registry(c)
  OBVIOUS
<1>10. PICK r : r = RegisterNode(old, c, Server, p.serial, seq)
  OBVIOUS
<1>11. PICK q : q = SetLocalSeq0(r, c, p.seq)
  OBVIOUS
<1>12. /\ Sound(old) /\ c \in old.ids /\ old.ids \subseteq Node /\ old.ids = known[c]
       /\ \A o \in Node : Steady(old.stacks[o]) /\ old.stacks[o].serial_0_real \in Int
       /\ ToldOK(old, c, written, First, known[Server])
       /\ Present(old.stacks[Server]) \subseteq 1 .. Last(Server) /\ Last(Server) \in Nat
  <2>1. Sound(old) /\ c \in old.ids
    BY <1>5, <1>9 DEF RegistryOK
  <2>2. old.stacks = stacks[c] /\ old.ids = known[c]
    BY <1>9 DEF Registry
  <2>3. \A o \in Node : Steady(old.stacks[o])
    BY <2>2 DEF TellInv
  <2>4. \A o \in Node : old.stacks[o].serial_0_real \in Int
    BY <2>1, StackFields DEF Sound
  <2>5. ToldOK(old, c, written, First, known[Server])
    BY <1>3, <1>9 DEF TellInv
  <2>6. Present(old.stacks[Server]) \subseteq 1 .. Last(Server) /\ Last(Server) \in Nat
    BY <1>1, <1>3, <2>2, JoinFits DEF Fits
  <2> QED BY <2>1, <2>2, <2>3, <2>4, <2>5, <2>6 DEF Sound
<1>13. PICK begun : begun = Begun(old, Server, p.serial, seq)
  OBVIOUS
<1>14. /\ IsStack(begun) /\ \A t \in Node : begun.seq_0s[t] >= SEQ_INVALID
       /\ Steady(begun)
       /\ begun.serial_0_real = Max2(p.serial, SERIAL_START)
          \/ (Server \in old.ids /\ begun.serial_0_real = old.stacks[Server].serial_0_real)
  BY <1>3, <1>4, <1>12, <1>13, BegunIs, BegunBounds
<1>15. /\ Sound(r) /\ r.ids = old.ids \cup {Server}
       /\ \A o \in Node \ {Server} : SameBody(old.stacks[o], r.stacks[o])
       /\ SameBody(begun, r.stacks[Server])
  BY <1>3, <1>4, <1>10, <1>12, <1>13, <1>14, RegisterNodeDoes
<1>16. /\ Sound(q) /\ q.ids = r.ids
       /\ \A o \in Node : SameBody(r.stacks[o], q.stacks[o])
       /\ q.stacks[c].seq_0s = [r.stacks[c].seq_0s EXCEPT ![c] = p.seq]
  <2>1. c \in r.ids /\ SEQ_INVALID <= p.seq
    BY <1>4, <1>12, <1>15 DEF SEQ_INVALID
  <2> QED BY <1>4, <1>11, <1>15, <2>1, SetLocalSeq0Does
<1>17. q.stacks[c].seq_0s[c] = p.seq
  <2>1. IsStack(r.stacks[c])
    BY <1>15 DEF Sound
  <2>2. r.stacks[c].seq_0s \in [Node -> Int]
    BY <2>1, StackFields
  <2> QED BY <1>16, <2>2
<1>18. /\ stacks' = [stacks EXCEPT ![c] = q.stacks]
       /\ known' = [known EXCEPT ![c] = q.ids]
       /\ local_seq_last' = [local_seq_last EXCEPT ![c] = last]
       /\ status' = [status EXCEPT ![c] = Answered(c)]
       /\ UNCHANGED <<written, meta>>
       /\ net' \subseteq net
  BY <1>3, <1>4, <1>6, <1>7, <1>9, <1>10, <1>11 DEF RecvAnswer, Record, Received
<1>19. \A o \in Node : /\ Steady(q.stacks[o])
                       /\ o # Server => q.stacks[o].serial_0_real = old.stacks[o].serial_0_real
                       /\ o = Server => q.stacks[o].serial_0_real = begun.serial_0_real
  <2>1. \A o \in Node : Steady(r.stacks[o])
    BY <1>12, <1>14, <1>15, BodyKeeps
  <2>2. \A o \in Node : Steady(q.stacks[o])
    BY <1>16, <2>1, BodyKeeps
  <2> QED BY <1>15, <1>16, <2>2 DEF SameBody
<1>20. TellsOK(p, written, First, known[Server])
  BY DEF TellInv
<1>21. /\ c \in known[Server] /\ p.seq = First[c] /\ p.serial <= Len(written[Server])
       /\ LaterFrom(written[Server], p.seq, p.serial + 1)
  BY <1>1, <1>3, <1>20 DEF TellsOK
<1>22. Server \in known[Server] /\ written[Server] \in Seq(Atom)
  BY <1>1, <1>3, RegistryParts
<1>23. ToldOK(q, c, written, First, known[Server])
  <2>1. ASSUME NEW o \in q.ids
        PROVE  /\ o \in known[Server] \cup {c}
               /\ q.stacks[o].serial_0_real <= Len(written[o]) + 1
               /\ LaterFrom(written[o], First[c], q.stacks[o].serial_0_real)
    <3>1. CASE o \in old.ids /\ (o = Server => begun.serial_0_real = old.stacks[o].serial_0_real)
      <4>1. q.stacks[o].serial_0_real = old.stacks[o].serial_0_real
        BY <1>12, <1>19, <3>1
      <4> QED BY <1>12, <3>1, <4>1 DEF ToldOK
    <3>2. CASE o = Server /\ begun.serial_0_real = Max2(p.serial, SERIAL_START)
      <4>1. PICK real \in Int : /\ real = Max2(p.serial, SERIAL_START)
                                /\ (real = 1 \/ real = p.serial) /\ p.serial <= real /\ 1 <= real
        BY <1>4 DEF Max2, SERIAL_START
      <4>2. q.stacks[o].serial_0_real = real
        BY <1>3, <1>19, <3>2, <4>1
      <4>3. Len(written[Server]) \in Nat
        BY <1>22
      <4>4. real <= Len(written[Server]) + 1
        BY <1>4, <1>21, <4>1, <4>3
      <4>5. LaterFrom(written[Server], First[c], real)
        <5> SUFFICES ASSUME NEW t \in 1 .. Len(written[Server]), written[Server][t].seq > First[c]
                     PROVE  t >= real
          BY DEF LaterFrom
        <5>1. t >= p.serial + 1 /\ t >= 1 /\ t \in Int
          BY <1>21 DEF LaterFrom
        <5> QED BY <1>4, <4>1, <5>1
      <4> QED BY <1>22, <3>2, <4>2, <4>4, <4>5
    <3>3. o \in old.ids \/ o = Server
      BY <1>15, <1>16, <2>1
    <3> QED BY <1>14, <3>1, <3>2, <3>3
  <2> QED BY <1>21, <2>1 DEF ToldOK
<1>24. Writes(c, written, written')
  BY <1>5, <1>18, WritesNothing
<1>25. InSeqOrder(written'[c], last)
  <2>1. InSeqOrder(written[c], local_seq_last[c])
    BY DEF TellInv
  <2>2. \A s \in 1 .. Len(written[c]) : written[c][s].seq \in Int
    <3>1. written[c] \in Seq(Atom)
      BY <1>5
    <3> QED BY <3>1, SeqIsInt
  <2>3. \A s \in 1 .. Len(written[c]) : written[c][s].seq <= last
    BY <1>5, <1>8, <2>1, <2>2 DEF InSeqOrder
  <2> QED BY <1>18, <2>1, <2>3 DEF InSeqOrder
<1>26. \A d \in Client : status'[d] = "in" =>
            \/ d # c /\ status[d] = "in"
            \/ d = c /\ d \in known[Server] /\ q.stacks[d].seq_0s[d] = First[d]
  BY <1>1, <1>17, <1>18, <1>21 DEF ComeInv, ComingOK
<1>27. ToldOK(q, c, written', First, known[Server])
  BY <1>18, <1>23
<1>28. \A a \in net' : a \in net \/ TellsOK(a, written', First, known[Server])
  BY <1>18
<1>29. UNCHANGED meta /\ \A o \in Node : Steady(q.stacks[o])
  BY <1>18, <1>19
<1> QED BY <1>1, <1>3, <1>18, <1>24, <1>25, <1>26, <1>27, <1>28, <1>29, NodeTells

\* An atom that is stored, or refused, leaves the stacks steady: none begins later.
LEMMA KeptTells ==
  ASSUME OneWindow, TellInv, NEW n \in Node, NEW p, AtomFlies(p, written), p.to = n
  PROVE  LET r == [Registry(n) EXCEPT !.stacks = Kept(p)]
         IN  /\ Sound(r) /\ n \in r.ids /\ r.ids = known[n]
             /\ \A o \in Node : /\ Steady(r.stacks[o]) /\ r.stacks[o].serial_0_real \in Int
                                /\ r.stacks[o].serial_0_real <= stacks[n][o].serial_0_real
                                /\ r.stacks[o].seq_0s = stacks[n][o].seq_0s
<1>1. ComeInv /\ written \in [Node -> Seq(Atom)]
  BY DEF TellInv, ComeInv, Shapes
<1>2. PICK r : r = [Registry(n) EXCEPT !.stacks = Kept(p)]
  OBVIOUS
<1>3. /\ RegistryOK(r, n, written, local_seq_last[n])
      /\ r = [ids |-> known[n], stacks |-> r.stacks, seq_0 |-> seq_0[n]]
      /\ r.stacks = Kept(p)
      /\ \A o \in Node \ {p.from} : Kept(p)[o] = stacks[n][o]
      /\ p.from \notin known[n] => Kept(p) = stacks[n]
      /\ p.from \in known[n] => Kept(p)[p.from] =
           PutAtom(stacks[n][p.from], n, p.serial, p.atom, Node \ {p.from})
      /\ \A o \in Node : Kept(p)[o].seq_0s = stacks[n][o].seq_0s
  BY <1>1, <1>2, KeptOK
<1>4. Sound(r) /\ n \in r.ids /\ r.ids = known[n]
  BY <1>3 DEF RegistryOK
<1>5. ASSUME NEW o \in Node
      PROVE  /\ Steady(r.stacks[o]) /\ r.stacks[o].serial_0_real \in Int
             /\ r.stacks[o].serial_0_real <= stacks[n][o].serial_0_real
             /\ r.stacks[o].seq_0s = stacks[n][o].seq_0s
  <2>1. Steady(stacks[n][o])
    BY DEF TellInv
  <2>2. stacks[n][o].serial_0_real \in Int /\ r.stacks[o].serial_0_real \in Int
    <3>1. IsStack(stacks[n][o]) /\ IsStack(r.stacks[o])
      BY <1>1, <1>4, RegistryParts DEF Sound
    <3> QED BY <3>1, StackFields
  <2>3. CASE r.stacks[o] = stacks[n][o]
    BY <2>1, <2>2, <2>3
  <2>4. CASE o = p.from /\ p.from \in known[n]
    <3> DEFINE st == stacks[n][o]
    <3>1. Fits(st, Last(o)) /\ Last(o) \in Nat /\ Holds(st, written[o])
      BY <1>1, JoinFits, RegistryParts
    <3>2. /\ p.serial \in 1 .. Len(written[o]) /\ p.atom \in Atom
          /\ written[o] \in Seq(Atom)
      BY <1>1, <2>4 DEF AtomFlies
    <3>3. Len(written[o]) <= SerialN1(SERIAL_START) /\ SerialN1(SERIAL_START) \in Int
      <4>1. Len(written[o]) <= MaxSerial[o]
        BY <1>1 DEF ComeInv, AuthorsOK
      <4>2. MaxSerial[o] \in Int /\ SerialN1(SERIAL_START) \in Int
        BY ConfigAssumption, WindowAssumption DEF SerialN1, SERIAL_START
      <4> QED BY <3>2, <4>1, <4>2 DEF OneWindow
    <3>4. r.stacks[o] = PutAtom(st, n, p.serial, p.atom, Node \ {p.from})
      BY <1>3, <2>4
    <3> HIDE DEF st
    <3>5. Present(st) \subseteq 1 .. SerialN1(SERIAL_START)
      BY <3>1, <3>2, <3>3 DEF Holds
    <3>6. p.serial \in 1 .. SerialN1(SERIAL_START) /\ Node \ {p.from} \in SUBSET Node
      BY <3>2, <3>3
    <3>7. Steady(st)
      BY <2>1 DEF st
    <3>8. Grows(st, r.stacks[o])
      BY <3>1, <3>2, <3>4, <3>5, <3>6, <3>7, PutAtomSteady
    <3> QED BY <1>3, <2>2, <3>8 DEF Grows, st
  <2> QED BY <1>3, <2>3, <2>4
<1> QED BY <1>2, <1>4, <1>5

\* From a serial that is told: who comes is not told one too late.
LEMMA ToldByMeta ==
  ASSUME TellInv, NEW n \in Client \cap known[Server], NEW s \in DOMAIN meta,
         \A t \in DOMAIN meta : t < s /\ n \in Whom(meta[t]) => Whom(meta[t]) \subseteq known[n],
         NEW x \in meta[s], x[1] \notin known[n],
         NEW real, real = Max2(x[2], SERIAL_START)
  PROVE  /\ x[1] \in known[Server]
         /\ real <= Len(written[x[1]]) + 1
         /\ LaterFrom(written[x[1]], First[n], real)
<1>1. ComeInv /\ written \in [Node -> Seq(Atom)] /\ Server \in Node
  BY ConfigAssumption DEF TellInv, ComeInv, Shapes
<1>2. ListsOK(meta, written, First, known[Server])
  BY DEF TellInv
<1>3. PICK seq : seq = written[Server][s].seq
  OBVIOUS
<1>4. TellsOf(x, written, known[Server], seq)
  BY <1>2, <1>3 DEF ListsOK
<1>5. PICK o \in Node : o = x[1]
  BY <1>1, <1>4, RegistryParts DEF TellsOf
<1>6. /\ o \in known[Server] /\ x[2] <= Len(written[o]) /\ x[3] = seq
      /\ LaterFrom(written[o], seq, x[2])
  BY <1>4, <1>5 DEF TellsOf
<1>7. x[2] \in Int /\ s \in 1 .. Len(written[Server])
  BY <1>1 DEF ComeInv, AuthorsOK, IsList
<1>8. written[o] \in Seq(Atom) /\ written[Server] \in Seq(Atom)
  BY <1>1
<1>9. /\ real \in Int /\ 1 <= real /\ (real = 1 \/ real = x[2])
  BY <1>7 DEF Max2, SERIAL_START
<1>10. Len(written[o]) \in Nat
  BY <1>8
<1>11. real <= Len(written[o]) + 1
  BY <1>6, <1>7, <1>9, <1>10
<1>12. seq <= First[n] \/ x[2] <= 1
  <2>1. CASE n \in Whom(meta[s])
    <3>1. TellsIn(n, x, First) \/ \E t \in DOMAIN meta : t < s /\ {n, x[1]} \subseteq Whom(meta[t])
      BY <1>2, <2>1 DEF ListsOK
    <3>2. ~ \E t \in DOMAIN meta : t < s /\ {n, x[1]} \subseteq Whom(meta[t])
      OBVIOUS
    <3> QED BY <1>6, <3>1, <3>2 DEF TellsIn, SERIAL_START
  <2>2. CASE n \notin Whom(meta[s])
    <3>1. meta[s] = {} \/ n \in Whom(meta[s]) \/ written[Server][s].seq <= First[n]
      BY <1>2 DEF ListsOK
    <3> QED BY <1>3, <2>2, <3>1
  <2> QED BY <2>1, <2>2
<1>13. LaterFrom(written[o], First[n], real)
  <2> SUFFICES ASSUME NEW t \in 1 .. Len(written[o]), written[o][t].seq > First[n]
               PROVE  t >= real
    BY DEF LaterFrom
  <2>1. CASE x[2] <= 1
    <3>1. real = 1
      BY <1>7, <1>9, <2>1
    <3> QED BY <3>1
  <2>2. CASE seq <= First[n]
    <3>1. written[o][t].seq \in Int /\ seq \in Int
      BY <1>3, <1>7, <1>8, SeqIsInt
    <3>2. First[n] \in Int
      <4>1. IsStack(stacks[Server][Server])
        BY <1>1, RegistryParts
      <4>2. n \in Node
        BY DEF Client
      <4> QED BY <4>1, <4>2, StackFields DEF First
    <3>3. written[o][t].seq > seq
      BY <2>2, <3>1, <3>2
    <3>4. t >= x[2]
      BY <1>6, <3>3 DEF LaterFrom
    <3> QED BY <1>9, <3>4
  <2> QED BY <1>12, <2>1, <2>2
<1> QED BY <1>5, <1>6, <1>11, <1>13

\* Atoms come from where they are looked for; META tells where the others begin.
LEMMA RecvAtomTells ==
  ASSUME OneWindow, ~Overtakes, TellInv, NEW p \in net, RecvAtomOrRefuse(p)
  PROVE  TellInv'
<1>1. /\ Flies(p, written) /\ p.cmd \in {DATA, META} /\ ComeInv /\ ComeInv'
      /\ TellsOK(p, written, First, known[Server])
  BY RecvAtomOrRefuseStep DEF TellInv, ComeInv, RecvAtomOrRefuse
<1>2. AtomFlies(p, written)
  BY <1>1 DEF Flies, Asks, Answers, DATA, META
<1>3. PICK n \in Node : n = p.to
  BY <1>2 DEF AtomFlies
<1>4. n \in known[Server]
  BY <1>1, <1>3 DEF TellsOK, DATA, META
<1>5. /\ Shapes /\ written \in [Node -> Seq(Atom)] /\ local_seq_last[n] \in Int
  BY <1>1 DEF ComeInv, Shapes
<1>6. PICK r : r = [Registry(n) EXCEPT !.stacks = Kept(p)]
  OBVIOUS
<1>7. /\ Sound(r) /\ n \in r.ids /\ r.ids = known[n]
      /\ \A o \in Node : /\ Steady(r.stacks[o]) /\ r.stacks[o].serial_0_real \in Int
                         /\ r.stacks[o].serial_0_real <= stacks[n][o].serial_0_real
                         /\ r.stacks[o].seq_0s = stacks[n][o].seq_0s
  BY <1>2, <1>3, <1>6, KeptTells
<1>8. PICK q : q = IF p.cmd = META THEN RegisterNew(r, n, meta[p.serial]) ELSE r
  OBVIOUS
<1>9. /\ stacks' = [stacks EXCEPT ![n] = q.stacks]
      /\ known' = [known EXCEPT ![n] = q.ids]
      /\ UNCHANGED <<local_seq_last, net, written, meta, status>>
  BY <1>3, <1>6, <1>8 DEF RecvAtomOrRefuse, Record
<1>10. \A o \in Node : stacks[n][o].serial_0_real \in Int
  <2>1. \A o \in Node : IsStack(stacks[n][o])
    BY <1>1, RegistryParts
  <2> QED BY <2>1, StackFields
<1>11. ASSUME n # Server
       PROVE  /\ ToldOK(Registry(n), n, written, First, known[Server])
              /\ Registry(n).ids = r.ids /\ Registry(n).ids \subseteq Node
              /\ \A o \in Registry(n).ids :
                   /\ Registry(n).stacks[o].serial_0_real \in Int
                   /\ r.stacks[o].serial_0_real \in Int
                   /\ r.stacks[o].serial_0_real <= Registry(n).stacks[o].serial_0_real
  <2>1. ToldOK(Registry(n), n, written, First, known[Server])
    BY <1>11 DEF TellInv, Client
  <2>2. Registry(n).ids = r.ids /\ Registry(n).ids \subseteq Node /\ Registry(n).stacks = stacks[n]
    BY <1>1, <1>7, RegistryParts
  <2> QED BY <1>7, <1>10, <2>1, <2>2
<1>12. ASSUME n # Server PROVE ToldOK(r, n, written, First, known[Server])
  <2>1. Writes(n, written, written)
    BY <1>5, WritesNothing
  <2>2. r.ids = Registry(n).ids
    BY <1>11, <1>12
  <2> QED BY <1>5, <1>11, <1>12, <2>1, <2>2, ToldOn
<1>13. ASSUME p.cmd = META
       PROVE  /\ n # Server /\ p.serial \in DOMAIN meta /\ IsList(meta[p.serial])
              /\ Enlarged(r, n, meta[p.serial], q)
  <2>1. p.to # Server /\ IsList(meta[p.serial]) /\ p.serial \in DOMAIN meta
    BY <1>1, <1>2, <1>13, MetaIsList
  <2>2. q = RegisterNew(r, n, meta[p.serial])
    BY <1>8, <1>13
  <2> QED BY <1>3, <1>7, <2>1, <2>2, RegisterNewDoes
<1>14. \A o \in Node : Steady(q.stacks[o])
  <2>1. CASE p.cmd # META
    BY <1>7, <1>8, <2>1
  <2>2. CASE p.cmd = META
    <3> SUFFICES ASSUME NEW o \in Node PROVE Steady(q.stacks[o])
      OBVIOUS
    <3>1. Enlarged(r, n, meta[p.serial], q) /\ IsList(meta[p.serial])
      BY <1>13, <2>2
    <3>2. CASE o \in r.ids \/ o \notin q.ids
      <4>1. SameBody(r.stacks[o], q.stacks[o])
        BY <3>1, <3>2 DEF Enlarged
      <4> QED BY <1>7, <4>1, BodyKeeps
    <3>3. CASE o \in q.ids \ r.ids
      <4>1. PICK x \in meta[p.serial] :
               SameBody(StackInit(Max2(x[2], SERIAL_START)), q.stacks[o])
        BY <3>1, <3>3 DEF Enlarged
      <4>2. Max2(x[2], SERIAL_START) \in Int /\ 1 <= Max2(x[2], SERIAL_START)
        <5>1. x[2] \in Int /\ SERIAL_START \in Int /\ 1 <= SERIAL_START
          BY <3>1 DEF IsList, SERIAL_START
        <5>2. PICK a \in Int, b \in Int : a = x[2] /\ b = SERIAL_START /\ 1 <= b
          BY <5>1
        <5>3. Max2(a, b) \in Int /\ Max2(a, b) >= b
          BY <5>2, Max2Type
        <5> QED BY <5>2, <5>3
      <4>3. Steady(StackInit(Max2(x[2], SERIAL_START)))
        BY <4>2, StackInitSteady
      <4> QED BY <4>1, <4>3, BodyKeeps
    <3> QED BY <3>2, <3>3
  <2> QED BY <2>1, <2>2
<1>15. q.stacks[n].seq_0s[n] = stacks[n][n].seq_0s[n]
  <2>1. CASE p.cmd # META
    BY <1>7, <1>8, <2>1
  <2>2. CASE p.cmd = META
    BY <1>7, <1>13, <2>2 DEF Enlarged
  <2> QED BY <2>1, <2>2
<1>16. ASSUME n = Server
       PROVE  /\ q.ids = known[n] /\ q.stacks[n].seq_0s = First
              /\ local_seq_last[n] <= local_seq_last[n]
              /\ \A o \in Node : q.stacks[o].serial_0_real <= 1
  <2>1. q = r
    BY <1>8, <1>13, <1>16
  <2>2. \A o \in Node : stacks[n][o].serial_0_real <= 1
    BY <1>16 DEF TellInv
  <2>3. \A o \in Node : q.stacks[o].serial_0_real <= 1
    BY <1>7, <1>10, <2>1, <2>2
  <2>4. q.stacks[n].seq_0s = First
    BY <1>7, <1>16, <2>1 DEF First
  <2> QED BY <1>5, <1>7, <2>1, <2>3, <2>4
<1>17. ASSUME n # Server PROVE ToldOK(q, n, written, First, known[Server])
  <2>1. CASE p.cmd # META
    BY <1>8, <1>12, <1>17, <2>1
  <2>2. CASE p.cmd = META
    <3>1. PICK list : list = meta[p.serial]
      OBVIOUS
    <3>2. Enlarged(r, n, list, q) /\ IsList(list) /\ p.serial \in DOMAIN meta
      BY <1>13, <2>2, <3>1
    <3>3. ASSUME NEW o \in q.ids
          PROVE  /\ o \in known[Server] \cup {n}
                 /\ q.stacks[o].serial_0_real <= Len(written[o]) + 1
                 /\ LaterFrom(written[o], First[n], q.stacks[o].serial_0_real)
      <4>1. q.ids \subseteq Node
        BY <3>2 DEF Enlarged, Sound
      <4>2. CASE o \in r.ids
        <5>1. q.stacks[o].serial_0_real = r.stacks[o].serial_0_real
          BY <3>2, <4>1, <4>2 DEF Enlarged, SameBody
        <5> QED BY <1>12, <1>17, <4>2, <5>1 DEF ToldOK
      <4>3. CASE o \notin r.ids
        <5>1. PICK x \in list :
                 x[1] = o /\ SameBody(StackInit(Max2(x[2], SERIAL_START)), q.stacks[o])
          BY <3>2, <4>3 DEF Enlarged
        <5>2. PICK real \in Int : real = Max2(x[2], SERIAL_START)
          <6>1. x[2] \in Int /\ SERIAL_START \in Int
            BY <3>2 DEF IsList, SERIAL_START
          <6> QED BY <6>1, Max2Type
        <5>3. q.stacks[o].serial_0_real = real
          BY <5>1, <5>2, StackInitIs DEF SameBody
        <5>4. \A t \in DOMAIN meta : t < p.serial /\ n \in Whom(meta[t]) => Whom(meta[t]) \subseteq known[n]
          BY <1>3, <2>2 DEF RecvAtomOrRefuse, InOrder, Listed, Whom
        <5>5. n \in Client \cap known[Server] /\ x[1] \notin known[n]
          BY <1>4, <1>7, <1>17, <4>3, <5>1 DEF Client
        <5>6. /\ x[1] \in known[Server] /\ real <= Len(written[x[1]]) + 1
              /\ LaterFrom(written[x[1]], First[n], real)
          BY <3>1, <3>2, <5>2, <5>4, <5>5, ToldByMeta
        <5> QED BY <5>1, <5>3, <5>6
      <4> QED BY <4>2, <4>3
    <3> QED BY <1>4, <3>3 DEF ToldOK
  <2> QED BY <2>1, <2>2
<1>18. Writes(n, written, written')
  BY <1>5, <1>9, WritesNothing
<1>19. PICK last \in Int : last = local_seq_last[n]
  BY <1>5
<1>20. local_seq_last' = [local_seq_last EXCEPT ![n] = last]
  BY <1>5, <1>9, <1>19 DEF Shapes
<1>21. InSeqOrder(written'[n], last)
  BY <1>9, <1>19 DEF TellInv
<1>22. \A d \in Client : status'[d] = "in" =>
            \/ d # n /\ status[d] = "in"
            \/ d = n /\ d \in known[Server] /\ q.stacks[d].seq_0s[d] = First[d]
  BY <1>9, <1>15 DEF TellInv
<1>23. \A a \in net' : a \in net \/ TellsOK(a, written', First, known[Server])
  BY <1>9
<1>24. n # Server => ToldOK(q, n, written', First, known[Server])
  BY <1>9, <1>17
<1>25. n = Server => /\ q.ids = known[n] /\ q.stacks[n].seq_0s = First
                     /\ local_seq_last[n] <= last
                     /\ \A o \in Node : q.stacks[o].serial_0_real <= 1
  BY <1>16, <1>19
<1>26. UNCHANGED meta
  BY <1>9
<1> QED BY <1>1, <1>9, <1>14, <1>18, <1>20, <1>21, <1>22, <1>23, <1>24, <1>25, <1>26, NodeTells

\* The serial a seq begins at: what comes after that seq lies there or later.
LEMMA SerialTold ==
  ASSUME NEW st, NEW N \in Nat, Fits(st, N), NEW atoms \in Seq(Atom), Holds(st, atoms),
         NEW last, InSeqOrder(atoms, last), NEW seq \in Int
  PROVE  /\ Seq2Serial(st, seq) \in Int
         /\ Seq2Serial(st, seq) <= Len(atoms)
         /\ LaterFrom(atoms, seq, Seq2Serial(st, seq))
         /\ Present(st) = {} => Seq2Serial(st, seq) = 0
<1>1. PICK serial \in Int : serial = Seq2Serial(st, seq)
  BY Seq2SerialIs
<1>2. CASE serial = 0
  BY <1>1, <1>2 DEF LaterFrom
<1>3. CASE serial # 0
  <2>1. PICK s \in Present(st) : AtomAt(st, s).seq = seq /\ serial <= s
    BY <1>1, <1>3, Seq2SerialIs
  <2>2. s \in 1 .. Len(atoms) /\ atoms[s].seq = seq
    BY <2>1 DEF Holds
  <2>3. LaterFrom(atoms, seq, serial)
    <3> SUFFICES ASSUME NEW t \in 1 .. Len(atoms), atoms[t].seq > seq PROVE t >= serial
      BY DEF LaterFrom
    <3>1. atoms[t].seq \in Int
      BY SeqIsInt
    <3>2. t < s => atoms[t].seq <= atoms[s].seq
      BY <2>2 DEF InSeqOrder
    <3> QED BY <2>1, <2>2, <3>1, <3>2
  <2> QED BY <1>1, <2>1, <2>2, <2>3
<1> QED BY <1>2, <1>3

\* What the server has once a newcomer is registered.
LEMMA NewcomerIs ==
  ASSUME TellInv, NEW p, p.serial <= 1, NEW r, NEW q, NEW seq \in Int, Welcomed(p, r, q, seq)
  PROVE  /\ r.ids = known[Server] \cup {p.from}
         /\ \A o \in Node : /\ Steady(r.stacks[o]) /\ r.stacks[o].serial_0_real \in Int
                            /\ r.stacks[o].serial_0_real <= 1
         /\ Present(r.stacks[p.from]) = {}
         /\ \A t \in Node \ {p.from} : r.stacks[Server].seq_0s[t] = First[t]
         /\ r.stacks[Server].seq_0s[p.from] = seq
         /\ r.stacks[Server].serial_max = Len(written[Server])
<1>1. ComeInv /\ Server \in Node
  BY ConfigAssumption DEF TellInv
<1>2. PICK a \in Node : a = p.from /\ a \in Client /\ a # Server /\ a \notin known[Server]
  BY DEF Welcomed, Client
<1>3. PICK old : old = Registry(Server)
  OBVIOUS
<1>4. /\ p.serial \in Int /\ seq = local_seq_last[Server]
      /\ r = RegisterNode(old, Server, a, p.serial, seq)
  BY <1>2, <1>3 DEF Welcomed
<1>5. /\ Sound(old) /\ Server \in old.ids /\ old.ids = known[Server] /\ old.stacks = stacks[Server]
      /\ old.stacks[Server].serial_max = Len(written[Server])
  BY <1>1, <1>3, RegistryParts DEF RegistryOK
<1>6. Max2(p.serial, SERIAL_START) = 1
  BY <1>4 DEF Max2, SERIAL_START
<1>7. PICK begun : begun = Begun(old, a, p.serial, seq)
  OBVIOUS
<1>8. begun = StackInit(1) /\ IsStack(begun) /\ \A t \in Node : begun.seq_0s[t] >= SEQ_INVALID
  BY <1>2, <1>4, <1>5, <1>6, <1>7, StackInitSound
<1>9. Steady(begun) /\ begun.serial_0_real = 1 /\ Present(begun) = {}
  BY <1>8, StackInitSteady, StackInitIs
<1>10. /\ r.ids = old.ids \cup {a} /\ Sound(r)
       /\ \A o \in Node \ {a} : SameBody(old.stacks[o], r.stacks[o])
       /\ SameBody(begun, r.stacks[a])
       /\ \A t \in Node \ {a} : r.stacks[Server].seq_0s[t] = old.stacks[Server].seq_0s[t]
       /\ r.stacks[Server].seq_0s[a] = Max2(old.stacks[Server].seq_0s[a], seq)
  <2>1. PICK serial \in Int : serial = p.serial
    BY <1>4
  <2>2. /\ IsStack(Begun(old, a, serial, seq))
        /\ \A t \in Node : Begun(old, a, serial, seq).seq_0s[t] >= SEQ_INVALID
        /\ begun = Begun(old, a, serial, seq)
    BY <1>7, <1>8, <2>1
  <2>3. r = RegisterNode(old, Server, a, serial, seq)
    BY <1>4, <2>1
  <2>4. Sound(old) /\ Server \in old.ids /\ a # Server
    BY <1>2, <1>5
  <2> QED BY <2>2, <2>3, <2>4, RegisterNodeDoes
<1>11. ASSUME NEW o \in Node
       PROVE  /\ Steady(r.stacks[o]) /\ r.stacks[o].serial_0_real \in Int
              /\ r.stacks[o].serial_0_real <= 1
  <2>1. CASE o = a
    <3>1. r.stacks[o].serial_0_real = 1
      BY <1>9, <1>10, <2>1 DEF SameBody
    <3> QED BY <1>9, <1>10, <2>1, <3>1, BodyKeeps
  <2>2. CASE o # a
    <3>1. Steady(stacks[Server][o]) /\ stacks[Server][o].serial_0_real <= 1
      BY <1>1 DEF TellInv
    <3>2. SameBody(stacks[Server][o], r.stacks[o])
      BY <1>5, <1>10, <2>2
    <3>3. Steady(r.stacks[o])
      BY <3>1, <3>2, BodyKeeps
    <3>4. r.stacks[o].serial_0_real = stacks[Server][o].serial_0_real
      BY <3>2 DEF SameBody
    <3>5. r.stacks[o].serial_0_real \in Int
      <4>1. IsStack(r.stacks[o])
        BY <1>10 DEF Sound
      <4> QED BY <4>1, StackFields
    <3> QED BY <3>1, <3>3, <3>4, <3>5
  <2> QED BY <2>1, <2>2
<1>12. Present(r.stacks[a]) = {}
  BY <1>9, <1>10, BodyKeeps
<1>13. r.stacks[Server].seq_0s[a] = seq
  <2>1. First[a] \in Int
    <3>1. IsStack(stacks[Server][Server])
      BY <1>1, RegistryParts
    <3> QED BY <3>1, StackFields DEF First
  <2>2. First[a] <= seq
    BY <1>4 DEF TellInv
  <2>3. Max2(First[a], seq) = seq
    BY <2>1, <2>2 DEF Max2
  <2> QED BY <1>5, <1>10, <2>3 DEF First
<1>14. \A t \in Node \ {a} : r.stacks[Server].seq_0s[t] = First[t]
  BY <1>5, <1>10 DEF First
<1>15. r.stacks[Server].serial_max = Len(written[Server])
  BY <1>1, <1>2, <1>5, <1>10 DEF SameBody
<1> QED BY <1>2, <1>5, <1>10, <1>11, <1>12, <1>13, <1>14, <1>15

\* What is written when a newcomer is welcomed.
LEMMA WelcomeWrites ==
  ASSUME TellInv, NEW p, NEW r, NEW q, NEW seq \in Int, Welcomed(p, r, q, seq)
  PROVE  /\ \A o \in Node : InSeqOrder(written'[o], local_seq_last[o])
         /\ \A s \in 1 .. Len(written'[Server]) :
              s > Len(written[Server]) => written'[Server][s].seq = seq
<1>1. /\ ComeInv /\ Server \in Node /\ written \in [Node -> Seq(Atom)]
      /\ seq = local_seq_last[Server] /\ NbMeta \in Nat
  BY ConfigAssumption DEF TellInv, ComeInv, Shapes, Welcomed
<1>2. /\ Writes(Server, written, written')
      /\ Len(written'[Server]) = Len(written[Server]) + NbMeta
      /\ \A s \in 1 .. Len(written'[Server]) : s > Len(written[Server]) =>
           written'[Server][s] = [MetaAtom EXCEPT !.seq = seq]
  BY DEF Welcomed
<1>3. [MetaAtom EXCEPT !.seq = seq].seq = seq
  BY DEF MetaAtom
<1>4. \A s \in 1 .. Len(written'[Server]) :
        s > Len(written[Server]) => written'[Server][s].seq = seq
  BY <1>2, <1>3
<1>5. ASSUME NEW o \in Node PROVE InSeqOrder(written'[o], local_seq_last[o])
  <2>1. InSeqOrder(written[o], local_seq_last[o])
    BY DEF TellInv
  <2>2. CASE o # Server
    BY <1>2, <2>1, <2>2 DEF Writes
  <2>3. CASE o = Server
    <3> DEFINE len == Len(written[Server])
               atoms == written'[Server]
    <3>1. len \in Nat /\ written[Server] \in Seq(Atom)
      BY <1>1
    <3>2. ASSUME NEW s \in 1 .. len
          PROVE  /\ atoms[s].seq \in Int /\ atoms[s].seq <= seq
                 /\ atoms[s] = written[Server][s]
      <4>1. atoms[s] = written[Server][s]
        BY <1>2 DEF Writes
      <4>2. written[Server][s].seq \in Int
        BY <3>1, SeqIsInt
      <4>3. written[Server][s].seq <= seq
        BY <1>1, <2>1, <2>3 DEF InSeqOrder
      <4> QED BY <4>1, <4>2, <4>3
    <3>3. \A s \in 1 .. Len(atoms) : s \in 1 .. len \/ atoms[s].seq = seq
      BY <1>4, <3>1
    <3>4. \A s \in 1 .. Len(atoms) : atoms[s].seq <= seq
      BY <3>2, <3>3
    <3>5. ASSUME NEW s \in 1 .. Len(atoms), NEW t \in 1 .. Len(atoms), s < t
          PROVE  atoms[s].seq <= atoms[t].seq
      <4>1. CASE t \in 1 .. len
        <5>1. s \in 1 .. len
          BY <3>5, <4>1
        <5>2. written[Server][s].seq <= written[Server][t].seq
          BY <2>1, <2>3, <3>5, <4>1, <5>1 DEF InSeqOrder
        <5> QED BY <3>2, <4>1, <5>1, <5>2
      <4>2. CASE t \notin 1 .. len
        BY <3>3, <3>4, <4>2
      <4> QED BY <4>1, <4>2
    <3> QED BY <1>1, <2>3, <3>4, <3>5 DEF InSeqOrder
  <2> QED BY <2>2, <2>3
<1> QED BY <1>4, <1>5

\* What the messages META list when a newcomer is welcomed.
LEMMA NewListOK ==
  ASSUME TellInv, NEW p, p.serial <= 1, NEW r, NEW q, NEW seq \in Int, Welcomed(p, r, q, seq),
         RegistryOK(r, Server, written, seq),
         NEW s \in DOMAIN meta', s \notin DOMAIN meta, s > Len(written[Server])
  PROVE  /\ Whom(meta'[s]) = known[Server] \cup {p.from}
         /\ \A x \in meta'[s] :
              /\ TellsOf(x, written', known[Server] \cup {p.from}, seq)
              /\ x[1] = p.from => x[2] <= SERIAL_START
<1>1. /\ ComeInv /\ Server \in Node /\ written \in [Node -> Seq(Atom)]
      /\ seq = local_seq_last[Server] /\ NbMeta \in Nat /\ 0 < Seq0 /\ Seq0 \in Int
  <2>1. Server \in Node /\ NbMeta \in Nat /\ 0 < Seq0 /\ Seq0 \in Int
    BY ConfigAssumption, WindowAssumption DEF SEQ_START
  <2>2. seq = local_seq_last[Server]
    BY DEF Welcomed
  <2> QED BY <2>1, <2>2 DEF TellInv, ComeInv, Shapes
<1>2. /\ Writes(Server, written, written')
      /\ Len(written'[Server]) = Len(written[Server]) + NbMeta
      /\ Len(written'[Server]) <= MaxSerial[Server]
      /\ DOMAIN meta' = 1 .. Len(written'[Server])
      /\ \A t \in 1 .. Len(written'[Server]) : t > Len(written[Server]) =>
           written'[Server][t] = [MetaAtom EXCEPT !.seq = seq]
      /\ p.from \in Client /\ p.from # Server /\ p.from \in Node
  BY DEF Welcomed, Client
<1>3. /\ r.ids = known[Server] \cup {p.from} /\ Present(r.stacks[p.from]) = {}
      /\ \A t \in Node \ {p.from} : r.stacks[Server].seq_0s[t] = First[t]
      /\ r.stacks[Server].serial_max = Len(written[Server])
  <2>1. /\ r.ids = known[Server] \cup {p.from}
        /\ \A o \in Node : /\ Steady(r.stacks[o]) /\ r.stacks[o].serial_0_real \in Int
                            /\ r.stacks[o].serial_0_real <= 1
        /\ Present(r.stacks[p.from]) = {}
        /\ \A t \in Node \ {p.from} : r.stacks[Server].seq_0s[t] = First[t]
        /\ r.stacks[Server].seq_0s[p.from] = seq
        /\ r.stacks[Server].serial_max = Len(written[Server])
    BY NewcomerIs
  <2> QED BY <2>1
<1>4. PICK k \in 0 .. NbMeta : k = s - Len(written[Server]) - 1
  <2>1. Len(written[Server]) \in Nat
    BY <1>1
  <2> QED BY <1>1, <1>2, <2>1
<1>5. PICK new, from :
        /\ PutMetas(r.stacks[Server], new, k, seq) /\ from \in Int
        /\ meta'[s] = {<<o, Seq2Serial([r.stacks EXCEPT ![Server] = new][o], from), from>> :
                          o \in r.ids}
        /\ \A o \in r.ids : (SEQ_INVALID < r.stacks[o].seq_0s[o] /\ r.stacks[o].seq_0s[o] <= seq)
                              => from = seq
  <2>1. /\ IsList(meta'[s])
        /\ \E new, from :
              /\ PutMetas(r.stacks[Server], new, s - Len(written[Server]) - 1, seq) /\ from \in Int
              /\ meta'[s] = {<<o, Seq2Serial([r.stacks EXCEPT ![Server] = new][o], from), from>> :
                                o \in r.ids}
              /\ \A o \in r.ids : (SEQ_INVALID < r.stacks[o].seq_0s[o] /\ r.stacks[o].seq_0s[o] <= seq)
                                    => from = seq
    BY <1>1, NewMetaLists
  <2> QED BY <1>4, <2>1, Zenon
<1>6. from = seq
  <2>1. r.stacks[Server].seq_0s[Server] = Seq0 /\ Seq0 <= seq
    BY <1>1, <1>2, <1>3 DEF TellInv, ComeInv, ComingOK
  <2>2. Server \in r.ids
    BY <1>1, <1>3, RegistryParts
  <2> QED BY <1>1, <1>5, <2>1, <2>2 DEF SEQ_INVALID
<1>7. PICK w : w = [r.stacks EXCEPT ![Server] = new]
  OBVIOUS
<1>8. /\ w[Server] = new /\ \A o \in Node \ {Server} : w[o] = r.stacks[o]
      /\ \A o \in Node : \E N \in Nat : Fits(w[o], N)
      /\ r.ids \subseteq Node
  <2>1. Len(written[Server]) + NbMeta <= MaxSerial[Server]
    BY <1>2
  <2>2. PutMetas(r.stacks[Server], new, k, seq) /\ ComeInv
    BY <1>1, <1>5
  <2> DEFINE v == [r.stacks EXCEPT ![Server] = new]
  <2>3. /\ r.ids \subseteq Node /\ IsFiniteSet(r.ids)
        /\ v[Server] = new /\ \A o \in Node \ {Server} : v[o] = r.stacks[o]
        /\ \A o \in Node : /\ v[o].seq_0s = r.stacks[o].seq_0s
                           /\ v[o].seq_0s[o] \in Int /\ v[o].seq_0s[o] >= SEQ_INVALID
                           /\ \E N \in Nat : Fits(v[o], N)
    BY <2>1, <2>2, MetaSource
  <2>4. w = v
    BY <1>7
  <2> HIDE DEF v
  <2> QED BY <2>3, <2>4
<1>9. /\ \A o \in Node : InSeqOrder(written'[o], local_seq_last[o])
      /\ written' \in [Node -> Seq(Atom)]
  BY <1>2, WelcomeWrites DEF Writes
<1>10. ASSUME NEW o \in Node PROVE Holds(w[o], written'[o])
  <2>1. Holds(r.stacks[o], written[o])
    BY DEF RegistryOK
  <2>2. Holds(r.stacks[o], written'[o])
    <3>1. /\ written[o] \in Seq(Atom) /\ written'[o] \in Seq(Atom)
          /\ Len(written[o]) <= Len(written'[o])
          /\ \A t \in 1 .. Len(written[o]) : written'[o][t] = written[o][t]
      BY <1>1, <1>2, WritesOn
    <3> QED BY <2>1, <3>1, HoldsOn
  <2>3. CASE o # Server
    BY <1>8, <2>2, <2>3
  <2>4. CASE o = Server
    <3> SUFFICES ASSUME NEW t \in Present(new)
                 PROVE  t \in 1 .. Len(written'[Server]) /\ AtomAt(new, t) = written'[Server][t]
      BY <1>8, <2>4 DEF Holds
    <3>1. \/ t \in Present(r.stacks[Server]) /\ AtomAt(new, t) = AtomAt(r.stacks[Server], t)
          \/ /\ t \in r.stacks[Server].serial_max + 1 .. r.stacks[Server].serial_max + k
             /\ AtomAt(new, t) = [MetaAtom EXCEPT !.seq = seq]
      BY <1>5 DEF PutMetas
    <3>2. CASE t \in Present(r.stacks[Server]) /\ AtomAt(new, t) = AtomAt(r.stacks[Server], t)
      BY <2>2, <2>4, <3>2 DEF Holds
    <3>3. CASE /\ t \in Len(written[Server]) + 1 .. Len(written[Server]) + k
               /\ AtomAt(new, t) = [MetaAtom EXCEPT !.seq = seq]
      <4>1. Len(written[Server]) \in Nat
        BY <1>1
      <4>2. t \in 1 .. Len(written'[Server]) /\ t > Len(written[Server])
        BY <1>1, <1>2, <3>3, <4>1
      <4> QED BY <1>2, <3>3, <4>2
    <3> QED BY <1>3, <3>1, <3>2, <3>3
  <2> QED BY <2>3, <2>4
<1>11. Whom(meta'[s]) = r.ids
  <2>1. meta'[s] = {<<o, Seq2Serial(w[o], from), from>> : o \in r.ids}
    BY <1>5, <1>7
  <2>2. ASSUME NEW o \in r.ids PROVE \E x \in meta'[s] : x[1] = o
    <3>1. <<o, Seq2Serial(w[o], from), from>> \in meta'[s]
      BY <2>1
    <3> QED BY <3>1
  <2>3. ASSUME NEW x \in meta'[s] PROVE x[1] \in r.ids
    <3>1. PICK o \in r.ids : x = <<o, Seq2Serial(w[o], from), from>>
      BY <2>1
    <3> QED BY <3>1
  <2> QED BY <2>2, <2>3 DEF Whom
<1>12. ASSUME NEW x \in meta'[s]
       PROVE  /\ TellsOf(x, written', r.ids, seq)
              /\ x[1] = p.from => x[2] <= SERIAL_START
  <2>1. PICK o \in r.ids : x = <<o, Seq2Serial(w[o], seq), seq>>
    BY <1>5, <1>6, <1>7
  <2>2. o \in Node /\ written'[o] \in Seq(Atom)
    BY <1>8, <1>9
  <2>3. PICK N \in Nat : Fits(w[o], N)
    BY <1>8, <2>2
  <2>4. InSeqOrder(written'[o], local_seq_last[o]) /\ Holds(w[o], written'[o])
    BY <1>9, <1>10, <2>2
  <2>5. PICK serial \in Int : serial = Seq2Serial(w[o], seq)
    BY <2>2, <2>3, <2>4, SerialTold
  <2>6. /\ serial <= Len(written'[o]) /\ LaterFrom(written'[o], seq, serial)
        /\ Present(w[o]) = {} => serial = 0
    BY <2>2, <2>3, <2>4, <2>5, SerialTold
  <2>7. x[1] = o /\ x[2] = serial /\ x[3] = seq
    BY <2>1, <2>5
  <2>8. TellsOf(x, written', r.ids, seq)
    BY <2>6, <2>7 DEF TellsOf
  <2>9. x[1] = p.from => x[2] <= SERIAL_START
    <3> SUFFICES ASSUME o = p.from PROVE serial <= SERIAL_START
      BY <2>7
    <3>1. w[o] = r.stacks[o] /\ Present(r.stacks[o]) = {}
      BY <1>2, <1>3, <1>8
    <3> QED BY <2>6, <3>1 DEF SERIAL_START
  <2> QED BY <2>8, <2>9
<1> QED BY <1>3, <1>11, <1>12

\* META stays true when a newcomer is welcomed.
LEMMA WelcomeLists ==
  ASSUME TellInv, NEW p, p.serial <= 1, NEW r, NEW q, NEW seq \in Int, Welcomed(p, r, q, seq),
         RegistryOK(r, Server, written, seq),
         NEW first, NEW ids, ids = known[Server] \cup {p.from},
         \A t \in Node \ {p.from} : first[t] = First[t], first[p.from] = seq
  PROVE  ListsOK(meta', written', first, ids)
<1>1. /\ ComeInv /\ Server \in Node /\ written \in [Node -> Seq(Atom)]
      /\ seq = local_seq_last[Server] /\ NbMeta \in Nat
      /\ known[Server] \subseteq Node
      /\ p.from \in Client /\ p.from \in Node /\ p.from # Server /\ p.from \notin known[Server]
  BY ConfigAssumption, RegistryParts DEF TellInv, ComeInv, Shapes, Welcomed, Client
<1>2. /\ Writes(Server, written, written')
      /\ Len(written'[Server]) = Len(written[Server]) + NbMeta
      /\ DOMAIN meta' = 1 .. Len(written'[Server])
      /\ \A s \in DOMAIN meta' :
           \/ s \in DOMAIN meta /\ meta'[s] = meta[s]
           \/ s \notin DOMAIN meta /\ s <= Len(written[Server]) /\ meta'[s] = {}
           \/ s \notin DOMAIN meta /\ s > Len(written[Server])
  BY DEF Welcomed
<1>3. ListsOK(meta, written, First, known[Server])
  BY DEF TellInv
<1>4. \A s \in DOMAIN meta : /\ s \in 1 .. Len(written[Server]) /\ IsList(meta[s])
                             /\ s \in DOMAIN meta' /\ meta'[s] = meta[s]
  <2>1. \A s \in DOMAIN meta : s \in 1 .. Len(written[Server]) /\ IsList(meta[s])
    BY <1>1 DEF ComeInv, AuthorsOK
  <2>2. Len(written[Server]) \in Nat
    BY <1>1
  <2> QED BY <1>1, <1>2, <2>1, <2>2
<1>5. ASSUME NEW s \in DOMAIN meta', s \notin DOMAIN meta, s > Len(written[Server])
      PROVE  /\ Whom(meta'[s]) = ids
             /\ \A x \in meta'[s] : TellsOf(x, written', ids, seq) /\ (x[1] = p.from => x[2] <= SERIAL_START)
             /\ written'[Server][s].seq = seq
  <2>1. /\ Whom(meta'[s]) = known[Server] \cup {p.from}
        /\ \A x \in meta'[s] :
              /\ TellsOf(x, written', known[Server] \cup {p.from}, seq)
              /\ x[1] = p.from => x[2] <= SERIAL_START
    BY <1>5, NewListOK
  <2>2. written'[Server][s].seq = seq
    BY <1>2, <1>5, WelcomeWrites
  <2> QED BY <2>1, <2>2
<1>6. ASSUME NbMeta # 0 PROVE \E t \in DOMAIN meta' : Whom(meta'[t]) = ids
  <2>1. PICK t \in Nat : t = Len(written'[Server]) /\ t > Len(written[Server]) /\ t >= 1
    <3>1. Len(written[Server]) \in Nat
      BY <1>1
    <3> QED BY <1>1, <1>2, <1>6, <3>1
  <2>2. t \in DOMAIN meta'
    BY <1>2, <2>1
  <2>3. t \notin DOMAIN meta
    <3>1. Len(written[Server]) \in Nat
      BY <1>1
    <3> QED BY <1>4, <2>1, <3>1
  <2> QED BY <1>5, <2>1, <2>2, <2>3
<1>7. ASSUME NEW s \in DOMAIN meta', NEW x \in meta'[s]
      PROVE  TellsOf(x, written', ids, written'[Server][s].seq)
  <2>1. CASE s \in DOMAIN meta
    <3>1. x \in meta[s] /\ TellsOf(x, written, known[Server], written[Server][s].seq)
      BY <1>3, <1>4, <1>7, <2>1 DEF ListsOK
    <3>2. x[2] \in Int
      BY <1>4, <2>1, <3>1 DEF IsList
    <3>3. ids \subseteq Node /\ known[Server] \subseteq ids
      BY <1>1
    <3>4. TellsOf(x, written', ids, written[Server][s].seq)
      BY <1>1, <1>2, <3>1, <3>2, <3>3, TellsOfOn
    <3>5. written'[Server][s] = written[Server][s]
      BY <1>2, <1>4, <2>1 DEF Writes
    <3> QED BY <3>4, <3>5
  <2>2. CASE s \notin DOMAIN meta
    BY <1>2, <1>5, <1>7, <2>2
  <2> QED BY <2>1, <2>2
<1>8. ASSUME NEW s \in DOMAIN meta', NEW c \in Client \cap Whom(meta'[s]), NEW x \in meta'[s]
      PROVE  \/ TellsIn(c, x, first)
             \/ \E t \in DOMAIN meta' : t < s /\ {c, x[1]} \subseteq Whom(meta'[t])
  <2>1. CASE s \in DOMAIN meta
    <3>1. meta'[s] = meta[s]
      BY <1>4, <2>1
    <3>2. \/ TellsIn(c, x, First)
          \/ \E t \in DOMAIN meta : t < s /\ {c, x[1]} \subseteq Whom(meta[t])
      BY <1>3, <1>8, <2>1, <3>1 DEF ListsOK
    <3>3. c \in known[Server]
      <4>1. PICK y \in meta[s] : y[1] = c
        BY <3>1 DEF Whom
      <4> QED BY <1>3, <2>1, <4>1 DEF ListsOK, TellsOf
    <3>4. first[c] = First[c]
      BY <1>1, <3>3
    <3>5. CASE TellsIn(c, x, First)
      BY <3>4, <3>5 DEF TellsIn
    <3>6. CASE \E t \in DOMAIN meta : t < s /\ {c, x[1]} \subseteq Whom(meta[t])
      BY <1>4, <3>6
    <3> QED BY <3>2, <3>5, <3>6
  <2>2. CASE s \notin DOMAIN meta
    <3>1. s > Len(written[Server]) /\ s \in Int /\ Len(written[Server]) \in Nat
      BY <1>1, <1>2, <1>8, <2>2
    <3>2. /\ Whom(meta'[s]) = ids /\ TellsOf(x, written', ids, seq)
          /\ x[1] = p.from => x[2] <= SERIAL_START
      BY <1>5, <2>2, <3>1
    <3>3. x[1] \in ids /\ x[3] = seq /\ c \in ids
      BY <3>2 DEF TellsOf
    <3>4. CASE c = p.from
      BY <1>1, <3>3, <3>4 DEF TellsIn
    <3>5. CASE x[1] = p.from
      BY <3>2, <3>5 DEF TellsIn
    <3>6. CASE c # p.from /\ x[1] # p.from
      <4>1. c \in known[Server] /\ x[1] \in known[Server] /\ c # Server
        BY <3>3, <3>6 DEF Client
      <4>2. NbMeta # 0
        BY <1>1, <1>2, <3>1
      <4>3. PICK t \in DOMAIN meta : Whom(meta[t]) = known[Server]
        BY <1>3, <4>1, <4>2 DEF ListsOK
      <4>4. t < s /\ t \in DOMAIN meta' /\ meta'[t] = meta[t]
        BY <1>4, <3>1, <4>3
      <4> QED BY <4>1, <4>3, <4>4
    <3> QED BY <3>4, <3>5, <3>6
  <2> QED BY <2>1, <2>2
<1>9. ASSUME NEW m \in ids, NEW s \in DOMAIN meta'
      PROVE  meta'[s] = {} \/ m \in Whom(meta'[s]) \/ written'[Server][s].seq <= first[m]
  <2>1. CASE s \in DOMAIN meta
    <3>1. meta'[s] = meta[s] /\ written'[Server][s] = written[Server][s]
      BY <1>2, <1>4, <2>1 DEF Writes
    <3>2. CASE m = p.from
      <4>1. written[Server][s].seq <= local_seq_last[Server]
        BY <1>1, <1>4, <2>1 DEF TellInv, InSeqOrder
      <4> QED BY <1>1, <3>1, <3>2, <4>1
    <3>3. CASE m # p.from
      <4>1. m \in known[Server] /\ first[m] = First[m]
        BY <1>1, <3>3
      <4>2. meta[s] = {} \/ m \in Whom(meta[s]) \/ written[Server][s].seq <= First[m]
        BY <1>3, <2>1, <4>1 DEF ListsOK
      <4> QED BY <3>1, <4>1, <4>2
    <3> QED BY <3>2, <3>3
  <2>2. CASE s \notin DOMAIN meta
    BY <1>2, <1>5, <2>2
  <2> QED BY <2>1, <2>2
<1>10. ASSUME NEW s \in DOMAIN meta'
       PROVE  /\ \A x \in meta'[s] : TellsOf(x, written', ids, written'[Server][s].seq)
              /\ \A a \in Client \cap Whom(meta'[s]) : \A x \in meta'[s] :
                   \/ TellsIn(a, x, first)
                   \/ \E t \in DOMAIN meta' : t < s /\ {a, x[1]} \subseteq Whom(meta'[t])
              /\ \A n \in ids : meta'[s] = {} \/ n \in Whom(meta'[s])
                                  \/ written'[Server][s].seq <= first[n]
  BY <1>7, <1>8, <1>9
<1> QED BY <1>6, <1>10 DEF ListsOK

\* What is in flight stays true when a newcomer is welcomed.
LEMMA WelcomeFlies ==
  ASSUME TellInv, NEW p, p.serial <= 1, NEW r, NEW q, NEW seq \in Int, Welcomed(p, r, q, seq),
         NEW first, NEW ids, ids = known[Server] \cup {p.from},
         \A t \in Node \ {p.from} : first[t] = First[t], first[p.from] = seq,
         NEW a \in net'
  PROVE  TellsOK(a, written', first, ids)
<1>1. /\ ComeInv /\ Server \in Node /\ written \in [Node -> Seq(Atom)]
      /\ seq = local_seq_last[Server] /\ NbMeta \in Nat /\ 0 < Seq0 /\ Seq0 \in Int
      /\ known[Server] \subseteq Node /\ Seq0 <= seq
      /\ p.from \in Node /\ p.from # Server /\ p.from \notin known[Server]
  <2>1. Server \in Node /\ NbMeta \in Nat /\ 0 < Seq0 /\ Seq0 \in Int
    BY ConfigAssumption, WindowAssumption DEF SEQ_START
  <2>2. seq = local_seq_last[Server] /\ p.from \in Node /\ p.from # Server /\ p.from \notin known[Server]
    BY DEF Welcomed, Client
  <2>3. known[Server] \subseteq Node
    BY <2>1, RegistryParts DEF TellInv
  <2> QED BY <2>1, <2>2, <2>3 DEF TellInv, ComeInv, Shapes, ComingOK
<1>2. /\ Writes(Server, written, written')
      /\ Len(written'[Server]) = Len(written[Server]) + NbMeta
      /\ a \in net \/ a = JoinPacket(p.from, Server, seq, Len(written[Server]))
  BY DEF Welcomed
<1>3. CASE a \in net
  <2>1. Flies(a, written) /\ TellsOK(a, written, First, known[Server])
    BY <1>3 DEF TellInv, ComeInv
  <2>2. TellsOK(a, written', First, known[Server])
    BY <1>1, <1>2, <2>1, TellsOn
  <2>3. CASE a.cmd # "JOIN"
    BY <2>2, <2>3 DEF TellsOK
  <2>4. CASE a.cmd = "JOIN" /\ a.seq = 0
    BY <2>2, <2>4 DEF TellsOK
  <2>5. CASE a.cmd = "JOIN" /\ a.seq # 0
    <3>1. /\ a.to \in known[Server] /\ a.seq = First[a.to] /\ a.serial <= Len(written'[Server])
          /\ LaterFrom(written'[Server], a.seq, a.serial + 1)
      BY <2>2, <2>5 DEF TellsOK
    <3>2. first[a.to] = First[a.to]
      BY <1>1, <3>1
    <3> QED BY <2>5, <3>1, <3>2 DEF TellsOK
  <2> QED BY <2>3, <2>4, <2>5
<1>4. CASE a = JoinPacket(p.from, Server, seq, Len(written[Server]))
  <2>1. /\ a.cmd = "JOIN" /\ a.seq = seq /\ a.to = p.from /\ a.serial = Len(written[Server])
    BY <1>4 DEF JoinPacket
  <2>2. Len(written[Server]) \in Nat /\ written'[Server] \in Seq(Atom)
    BY <1>1, <1>2 DEF Writes
  <2>3. LaterFrom(written'[Server], seq, Len(written[Server]) + 1)
    <3> SUFFICES ASSUME NEW t \in 1 .. Len(written'[Server]), written'[Server][t].seq > seq
                 PROVE  FALSE
      BY DEF LaterFrom
    <3>1. written'[Server][t].seq <= seq
      BY <1>1, WelcomeWrites DEF InSeqOrder
    <3>2. written'[Server][t].seq \in Int
      BY <2>2, SeqIsInt
    <3> QED BY <3>1, <3>2
  <2>4. a.serial <= Len(written'[Server]) /\ a.seq # 0
    BY <1>1, <1>2, <2>1, <2>2
  <2> QED BY <2>1, <2>3, <2>4 DEF TellsOK
<1> QED BY <1>2, <1>3, <1>4

\* Whoever has begun to play is told nothing else by a newcomer.
LEMMA WelcomeTold ==
  ASSUME TellInv, NEW p, p.serial <= 1, NEW r, NEW q, NEW seq \in Int, Welcomed(p, r, q, seq),
         NEW first, NEW ids, ids = known[Server] \cup {p.from},
         \A t \in Node \ {p.from} : first[t] = First[t],
         NEW c \in Client
  PROVE  ToldOK(Registry(c), c, written', first, ids)
<1>1. /\ ComeInv /\ Server \in Node /\ written \in [Node -> Seq(Atom)] /\ c \in Node
      /\ p.from \in Client /\ p.from \in Node /\ p.from \notin known[Server]
      /\ Writes(Server, written, written')
  BY ConfigAssumption DEF TellInv, ComeInv, Shapes, Welcomed, Client
<1>2. PICK old : old = Registry(c)
  OBVIOUS
<1>3. old.stacks = stacks[c] /\ old.ids \subseteq Node
  BY <1>1, <1>2, RegistryParts
<1>4. ToldOK(old, c, written, First, known[Server])
  BY <1>2 DEF TellInv
<1>5. \A o \in Node : old.stacks[o].serial_0_real \in Int
  <2>1. \A o \in Node : IsStack(stacks[c][o])
    BY <1>1, RegistryParts
  <2> QED BY <1>3, <2>1, StackFields
<1>6. CASE c # p.from
  <2>1. ToldOK(old, c, written', First, known[Server])
    <3>1. \A o \in old.ids : /\ old.stacks[o].serial_0_real \in Int
                             /\ old.stacks[o].serial_0_real <= old.stacks[o].serial_0_real
      BY <1>3, <1>5
    <3> QED BY <1>1, <1>3, <1>4, <3>1, ToldOn
  <2>2. first[c] = First[c]
    BY <1>1, <1>6
  <2>3. c \notin ids => c \notin known[Server]
    OBVIOUS
  <2> QED BY <1>2, <2>1, <2>2, <2>3 DEF ToldOK
<1>7. CASE c = p.from
  <2>1. written[c] = <<>> /\ c # Server
    <3>1. status[c] # "in"
      BY <1>1, <1>7 DEF TellInv
    <3> QED BY <1>1, <3>1 DEF ComeInv, ComingOK, Client
  <2>2. old.ids = {c}
    BY <1>1, <1>4, <1>7 DEF ToldOK
  <2>3. written'[c] = <<>>
    BY <1>1, <2>1 DEF Writes
  <2>4. old.stacks[c].serial_0_real <= Len(written'[c]) + 1
    BY <1>4, <2>1, <2>2, <2>3 DEF ToldOK
  <2>5. LaterFrom(written'[c], first[c], old.stacks[c].serial_0_real)
    BY <2>3 DEF LaterFrom
  <2> QED BY <1>2, <1>7, <2>2, <2>4, <2>5 DEF ToldOK
<1> QED BY <1>6, <1>7

\* A newcomer is told of, and to the others the META messages tell the truth.
LEMMA WelcomeTells ==
  ASSUME OneWindow, TellInv, ComeInv', NEW p, p.serial <= 1, NEW r, NEW q, NEW seq \in Int,
         Welcomed(p, r, q, seq), RegistryOK(r, Server, written, seq)
  PROVE  TellInv'
<1>1. /\ ComeInv /\ Server \in Node /\ written \in [Node -> Seq(Atom)]
      /\ seq = local_seq_last[Server] /\ NbMeta \in Nat
      /\ known[Server] \subseteq Node
      /\ p.from \in Client /\ p.from \in Node /\ p.from # Server /\ p.from \notin known[Server]
      /\ stacks = [n \in Node |-> stacks[n]] /\ known = [n \in Node |-> known[n]]
  <2>1. Server \in Node /\ NbMeta \in Nat
    BY ConfigAssumption, WindowAssumption
  <2>2. seq = local_seq_last[Server] /\ p.from \in Client /\ p.from \in Node /\ p.from # Server
        /\ p.from \notin known[Server]
    BY DEF Welcomed, Client
  <2>3. known[Server] \subseteq Node
    BY <2>1, RegistryParts DEF TellInv
  <2> QED BY <2>1, <2>2, <2>3 DEF TellInv, ComeInv, Shapes
<1>2. /\ q.ids = r.ids /\ (\A o \in Node \ {Server} : q.stacks[o] = r.stacks[o])
      /\ PutMetas(r.stacks[Server], q.stacks[Server], NbMeta, seq)
      /\ stacks' = [stacks EXCEPT ![Server] = q.stacks]
      /\ known' = [known EXCEPT ![Server] = q.ids]
      /\ Writes(Server, written, written')
      /\ Len(written'[Server]) = Len(written[Server]) + NbMeta
      /\ Len(written'[Server]) <= MaxSerial[Server]
      /\ UNCHANGED <<local_seq_last, status>>
  BY DEF Welcomed, Record
<1>3. /\ r.ids = known[Server] \cup {p.from}
      /\ \A o \in Node : /\ Steady(r.stacks[o]) /\ r.stacks[o].serial_0_real \in Int
                         /\ r.stacks[o].serial_0_real <= 1
      /\ Present(r.stacks[p.from]) = {}
      /\ \A t \in Node \ {p.from} : r.stacks[Server].seq_0s[t] = First[t]
      /\ r.stacks[Server].seq_0s[p.from] = seq
      /\ r.stacks[Server].serial_max = Len(written[Server])
  BY NewcomerIs
<1>4. /\ stacks'[Server] = q.stacks /\ known'[Server] = known[Server] \cup {p.from}
      /\ \A o \in Node \ {Server} : stacks'[o] = stacks[o] /\ known'[o] = known[o]
  BY <1>1, <1>2, <1>3
<1>5. PICK first : first = First'
  OBVIOUS
<1>6. PICK ids : ids = known'[Server]
  OBVIOUS
<1>7. /\ ids = known[Server] \cup {p.from}
      /\ \A t \in Node \ {p.from} : first[t] = First[t]
      /\ first[p.from] = seq
  <2>1. first = q.stacks[Server].seq_0s
    BY <1>4, <1>5 DEF First
  <2>2. q.stacks[Server].seq_0s = r.stacks[Server].seq_0s
    BY <1>2 DEF PutMetas
  <2> QED BY <1>3, <1>4, <1>6, <2>1, <2>2
<1>8. ASSUME NEW o \in Node
      PROVE  Steady(q.stacks[o]) /\ q.stacks[o].serial_0_real <= 1
  <2>1. CASE o # Server
    BY <1>2, <1>3, <2>1
  <2>2. CASE o = Server
    <3>1. r.stacks[Server].serial_max + NbMeta <= SerialN1(SERIAL_START)
      <4>1. Len(written[Server]) + NbMeta <= MaxSerial[Server] /\ MaxSerial[Server] \in Int
        BY <1>1, <1>2, ConfigAssumption
      <4>2. MaxSerial[Server] < SerialN1(SERIAL_START)
        BY <1>1 DEF OneWindow
      <4>3. SerialN1(SERIAL_START) \in Int /\ Len(written[Server]) \in Nat
        BY <1>1, WindowAssumption DEF SerialN1, SERIAL_START
      <4> QED BY <1>1, <1>3, <4>1, <4>2, <4>3
    <3>2. Grows(r.stacks[Server], q.stacks[Server])
      BY <1>1, <1>2, <1>3, <3>1 DEF PutMetas
    <3>3. Steady(q.stacks[Server]) /\ q.stacks[Server].serial_0_real <= r.stacks[Server].serial_0_real
      BY <3>2 DEF Grows
    <3>4. q.stacks[Server].serial_0_real \in Int
      <4>1. IsStack(q.stacks[Server])
        BY <1>2 DEF PutMetas
      <4> QED BY <4>1, StackFields
    <3>5. r.stacks[Server].serial_0_real \in Int /\ r.stacks[Server].serial_0_real <= 1
      BY <1>1, <1>3
    <3> QED BY <2>2, <3>3, <3>4, <3>5
  <2> QED BY <2>1, <2>2
<1>9. \A o \in Node : InSeqOrder(written'[o], local_seq_last'[o])
  BY <1>2, WelcomeWrites
<1>10. first[Server] = Seq0 /\ \A o \in Node : first[o] <= local_seq_last'[Server]
  <2>1. First[Server] = Seq0 /\ \A o \in Node : First[o] <= local_seq_last[Server]
    BY DEF TellInv
  <2>2. seq <= seq
    OBVIOUS
  <2> QED BY <1>1, <1>2, <1>7, <2>1, <2>2
<1>11. ListsOK(meta', written', first, ids)
  BY <1>7, WelcomeLists
<1>12. \A n, o \in Node : Steady(stacks'[n][o])
  BY <1>4, <1>8 DEF TellInv
<1>13. \A o \in Node : stacks'[Server][o].serial_0_real <= 1
  BY <1>4, <1>8
<1>14. ASSUME NEW c \in Client PROVE ToldOK(Registry(c)', c, written', first, ids)
  <2>1. ToldOK(Registry(c), c, written', first, ids)
    BY <1>7, WelcomeTold
  <2>2. stacks'[c] = stacks[c] /\ known'[c] = known[c]
    BY <1>4 DEF Client
  <2>3. Registry(c)'.ids = Registry(c).ids /\ Registry(c)'.stacks = Registry(c).stacks
    BY <2>2 DEF Registry
  <2> QED BY <2>1, <2>3 DEF ToldOK
<1>15. ASSUME NEW c \in Client, status'[c] = "in"
       PROVE  c \in ids /\ stacks'[c][c].seq_0s[c] = first[c]
  <2>1. c \in known[Server] /\ stacks[c][c].seq_0s[c] = First[c]
    BY <1>2, <1>15 DEF TellInv
  <2>2. stacks'[c] = stacks[c] /\ c \in Node
    BY <1>4 DEF Client
  <2>3. first[c] = First[c]
    BY <1>1, <1>7, <2>1, <2>2
  <2> QED BY <1>7, <2>1, <2>2, <2>3
<1>16. \A a \in net' : TellsOK(a, written', first, ids)
  BY <1>7, WelcomeFlies
<1>17. ListsOK(meta', written', First', known'[Server])
  BY <1>5, <1>6, <1>11
<1>18. \A c \in Client : ToldOK(Registry(c)', c, written', First', known'[Server])
  BY <1>5, <1>6, <1>14
<1>19. \A c \in Client : status'[c] = "in" =>
          c \in known'[Server] /\ stacks'[c][c].seq_0s[c] = First'[c]
  BY <1>5, <1>6, <1>15
<1>20. \A a \in net' : TellsOK(a, written', First', known'[Server])
  BY <1>5, <1>6, <1>16
<1>21. First'[Server] = Seq0 /\ \A o \in Node : First'[o] <= local_seq_last'[Server]
  BY <1>5, <1>10
<1> QED BY <1>9, <1>12, <1>13, <1>17, <1>18, <1>19, <1>20, <1>21 DEF TellInv

\* A newcomer is registered and told of, or nothing happens.
LEMMA RecvJoinTells ==
  ASSUME OneWindow, TellInv, NEW p \in net, RecvJoin(p)
  PROVE  TellInv'
<1>1. ComeInv /\ ComeInv' /\ Server \in Node
  BY RecvJoinStep, ConfigAssumption DEF TellInv
<1>2. CASE p.from \in known[p.to]
  <2>1. /\ net' \subseteq net
        /\ UNCHANGED <<stacks, local_seq_last, written, known, seq_0, meta, status>>
    BY <1>2 DEF RecvJoin, Received
  <2>2. stacks' = [stacks EXCEPT ![Server] = stacks[Server]]
    BY <1>1, <2>1 DEF ComeInv, Shapes
  <2>3. \A o \in Node : Keeps(stacks[Server][o], stacks[Server][o])
    BY DEF SameAtoms, Keeps
  <2>4. /\ \A c \in Client : status'[c] = "in" => status[c] = "in"
        /\ \A a \in net' : a \in net \/ TellsOK(a, written, First, known[Server])
    BY <2>1
  <2> QED BY <1>1, <2>1, <2>2, <2>3, <2>4, BookTells
<1>3. CASE p.from \notin known[p.to]
  <2>1. PICK r, q, seq : Welcomed(p, r, q, seq)
    BY <1>1, <1>3, RecvJoinWelcomes
  <2>2. /\ seq = local_seq_last[Server] /\ seq \in Int
        /\ r = RegisterNode(Registry(Server), Server, p.from, p.serial, seq)
    BY <1>1, <2>1 DEF Welcomed, ComeInv, Shapes
  <2>3. RegistryOK(r, Server, written, seq)
    BY <1>1, <1>3, <2>2, RecvJoinWelcomes
  <2>4. p.serial <= 1
    <3>1. p.cmd = "JOIN" /\ p.seq = 0 /\ TellsOK(p, written, First, known[Server])
      BY DEF RecvJoin, TellInv
    <3> QED BY <3>1 DEF TellsOK
  <2> QED BY <1>1, <2>1, <2>2, <2>3, <2>4, WelcomeTells
<1> QED BY <1>2, <1>3

\* At first nobody has been told anything.
LEMMA JoinInitTells == JoinInit => TellInv
<1> SUFFICES ASSUME JoinInit PROVE TellInv
  OBVIOUS
<1>1. ComeInv /\ Server \in Node /\ Seq0 \in Nat /\ Seq0 > 0
  BY JoinInitCome, ConfigAssumption DEF SEQ_START
<1>2. /\ stacks = [n \in Node |->
           IF n = Server THEN SetLocalSeq0(Cleared(n), n, Seq0).stacks ELSE Cleared(n).stacks]
      /\ known = [n \in Node |-> Cleared(n).ids]
      /\ local_seq_last = [n \in Node |-> IF n = Server THEN Seq0 ELSE SEQ_START]
      /\ net = {} /\ written = [n \in Node |-> <<>>] /\ meta = <<>>
      /\ status = [c \in Client |-> "out"]
  BY DEF JoinInit
<1>3. PICK none : none = StackInit(1)
  OBVIOUS
<1>4. Steady(none) /\ none.serial_0_real = 1 /\ none.seq_0s = [t \in Node |-> SEQ_INVALID]
  BY <1>3, StackInitSteady, StackInitIs
<1>5. \A n, o \in Node : Cleared(n).stacks[o] = none /\ Cleared(n).ids = {n}
  BY <1>3 DEF Cleared, SERIAL_START
<1>6. PICK r : r = Cleared(Server)
  OBVIOUS
<1>7. PICK q : q = SetLocalSeq0(r, Server, Seq0)
  OBVIOUS
<1>8. /\ \A o \in Node : SameBody(r.stacks[o], q.stacks[o])
      /\ q.stacks[Server].seq_0s = [r.stacks[Server].seq_0s EXCEPT ![Server] = Seq0]
  <2>1. RegistryOK(r, Server, written, Seq0)
    <3>1. Len(written[Server]) = 0 /\ Seq0 \in Int /\ SEQ_INVALID <= Seq0
      BY <1>1, <1>2 DEF SEQ_INVALID
    <3> QED BY <1>1, <1>6, <3>1, ClearedIs
  <2>2. Sound(r) /\ Server \in r.ids /\ Seq0 \in Int /\ SEQ_INVALID <= Seq0
    BY <1>1, <2>1 DEF RegistryOK, SEQ_INVALID
  <2> QED BY <1>7, <2>2, SetLocalSeq0Does
<1>9. stacks[Server] = q.stacks /\ \A n, o \in Node : n # Server => stacks[n][o] = none
  BY <1>1, <1>2, <1>5, <1>6, <1>7
<1>10. \A o \in Node : r.stacks[o] = none
  BY <1>1, <1>5, <1>6
<1>11. \A o \in Node : Steady(q.stacks[o]) /\ q.stacks[o].serial_0_real = 1
  <2>1. \A o \in Node : SameBody(none, q.stacks[o])
    BY <1>8, <1>10
  <2> QED BY <1>4, <2>1, BodyKeeps DEF SameBody
<1>12. /\ \A n, o \in Node : Steady(stacks[n][o])
       /\ \A o \in Node : stacks[Server][o].serial_0_real <= 1
  BY <1>4, <1>9, <1>11
<1>13. First[Server] = Seq0 /\ \A o \in Node : First[o] <= local_seq_last[Server]
  <2>1. First = [[t \in Node |-> SEQ_INVALID] EXCEPT ![Server] = Seq0]
    BY <1>1, <1>4, <1>8, <1>9, <1>10 DEF First
  <2> QED BY <1>1, <1>2, <2>1 DEF SEQ_INVALID
<1>14. \A o \in Node : InSeqOrder(written[o], local_seq_last[o])
  BY <1>2 DEF InSeqOrder
<1>15. ListsOK(meta, written, First, known[Server])
  <2>1. known[Server] = {Server} /\ DOMAIN meta = {}
    BY <1>1, <1>2, <1>5
  <2> QED BY <2>1 DEF ListsOK
<1>16. ASSUME NEW c \in Client PROVE ToldOK(Registry(c), c, written, First, known[Server])
  <2>1. c \in Node /\ c # Server
    BY DEF Client
  <2>2. known[c] = {c} /\ stacks[c][c] = none /\ written[c] = <<>>
    BY <1>2, <1>5, <1>9, <2>1
  <2>3. Registry(c).ids = {c} /\ Registry(c).stacks[c] = none
    BY <2>2 DEF Registry
  <2>4. none.serial_0_real <= Len(written[c]) + 1
    BY <1>4, <2>2
  <2>5. LaterFrom(written[c], First[c], none.serial_0_real)
    BY <2>2 DEF LaterFrom
  <2> QED BY <2>3, <2>4, <2>5 DEF ToldOK
<1>17. \A c \in Client : status[c] # "in"
  BY <1>2
<1>18. net = {}
  BY <1>2
<1> QED BY <1>1, <1>12, <1>13, <1>14, <1>15, <1>16, <1>17, <1>18 DEF TellInv

\* Every step keeps it.
LEMMA JoinNextTells ==
  ASSUME OneWindow, ~Overtakes, TellInv, [JoinNext]_joinVars
  PROVE  TellInv'
<1>1. ASSUME NEW p \in net, RecvJoin(p) PROVE TellInv'
  BY <1>1, RecvJoinTells
<1>2. ASSUME NEW p \in net, RecvAnswer(p) PROVE TellInv'
  BY <1>2, RecvAnswerTells
<1>3. ASSUME NEW p \in net, RecvAtomOrRefuse(p) PROVE TellInv'
  BY <1>3, RecvAtomTells
<1>4. ASSUME NEW c \in Client, ClientJoin(c) PROVE TellInv'
  BY <1>4, ClientJoinTells
<1>5. ASSUME NEW c \in Client, AskToJoin(c) PROVE TellInv'
  BY <1>5, AskToJoinTells
<1>6. ASSUME NEW c \in Client, TimeOut(c) PROVE TellInv'
  BY <1>6, TimeOutTells
<1>7. ASSUME NEW n \in Node, WriteInGame(n) PROVE TellInv'
  BY <1>7, WriteInGameTells
<1>8. ASSUME NEW n \in Node, ReadInGame(n) PROVE TellInv'
  BY <1>8, ReadInGameTells
<1>9. ASSUME NEW n \in Node, NEW peer \in Node, SendToKnown(n, peer) PROVE TellInv'
  BY <1>9, SendToKnownTells
<1>10. CASE UNCHANGED joinVars
  <2>1. ComeInv' /\ ComeInv /\ Server \in Node
    BY JoinNextCome, ConfigAssumption DEF TellInv
  <2>2. UNCHANGED <<stacks, local_seq_last, net, written, known, seq_0, meta, status>>
    BY <1>10 DEF joinVars, vars, membership
  <2>3. stacks' = [stacks EXCEPT ![Server] = stacks[Server]]
    BY <2>1, <2>2 DEF ComeInv, Shapes
  <2>4. \A o \in Node : Keeps(stacks[Server][o], stacks[Server][o])
    BY DEF SameAtoms, Keeps
  <2>5. /\ \A c \in Client : status'[c] = "in" => status[c] = "in"
        /\ \A a \in net' : a \in net \/ TellsOK(a, written, First, known[Server])
    BY <2>2
  <2> QED BY <2>1, <2>2, <2>3, <2>4, <2>5, BookTells
<1> QED BY <1>1, <1>2, <1>3, <1>4, <1>5, <1>6, <1>7, <1>8, <1>9, <1>10 DEF JoinNext, JoinNetwork

\* What it says of the holes a node looks for.
LEMMA TellsEnough == TellInv => RefusedIsAskedFor
<1> SUFFICES ASSUME TellInv, NEW n \in InGame, NEW o \in known[n],
                    NEW s \in 1 .. Len(written[o]), written[o][s].seq > stacks[n][n].seq_0s[n]
             PROVE  s >= stacks[n][o].serial_0_real
  BY DEF RefusedIsAskedFor
<1>1. ComeInv /\ Server \in Node /\ n \in Node
  BY ConfigAssumption DEF TellInv, InGame, Client
<1>2. o \in Node /\ known[n] \subseteq Node /\ Registry(n).ids = known[n] /\ Registry(n).stacks = stacks[n]
  BY <1>1, RegistryParts
<1>3. stacks[n][o].serial_0_real \in Int
  <2>1. IsStack(stacks[n][o])
    BY <1>1, <1>2, RegistryParts
  <2> QED BY <2>1, StackFields
<1>4. CASE n = Server
  <2>1. stacks[n][o].serial_0_real <= 1
    BY <1>2, <1>4 DEF TellInv
  <2> QED BY <1>3, <2>1
<1>5. CASE n # Server
  <2>1. n \in Client /\ status[n] = "in"
    BY <1>5 DEF InGame
  <2>2. stacks[n][n].seq_0s[n] = First[n] /\ ToldOK(Registry(n), n, written, First, known[Server])
    BY <2>1 DEF TellInv
  <2>3. LaterFrom(written[o], First[n], stacks[n][o].serial_0_real)
    BY <1>2, <2>2 DEF ToldOK
  <2> QED BY <2>2, <2>3 DEF LaterFrom
<1> QED BY <1>4, <1>5

\* Whatever a node was told to begin with, by META or by the answer to its JOIN, and
\* although messages were refused before their writer was registered (serial_0 of
\* meta_get, of JOIN and of its answer): what is written for the rounds it plays lies
\* where it looks for holes, when no META overtakes another.
THEOREM JoinRefusedIsAskedFor ==
  ASSUME OneWindow, ~Overtakes
  PROVE  JoinSpec => []RefusedIsAskedFor
<1>1. JoinInit => TellInv
  BY JoinInitTells
<1>2. TellInv /\ [JoinNext]_joinVars => TellInv'
  BY JoinNextTells
<1>3. TellInv => RefusedIsAskedFor
  BY TellsEnough
<1> QED BY <1>1, <1>2, <1>3, PTL DEF JoinSpec

----------------------------------------------------------------------------
(* Rounds wait for those who come.                                         *)

\* p is a JOIN of c, or its answer.
About(p, c) == p.cmd = "JOIN" /\ c \in {p.from, p.to}

\* How far c is: one JOIN at most is about it, and it reads nothing before it is in.
JoinerOK(c) ==
  /\ status[c] \in {"out", "connecting"} => c \notin known[Server]
  /\ status[c] = "connecting" => local_seq_last[c] = SEQ_START
  /\ status[c] = "in" => Server \in known[c] /\ First[c] <= local_seq_last[c]
  /\ status[c] # "in" => /\ last_seq_reference[c] = SEQ_INVALID - 1
                         /\ \A o \in Node : chain[c][o] = 0
  /\ \A p \in net : About(p, c) =>
       /\ status[c] \in {"asking", "failed"} /\ local_seq_last[c] = SEQ_START
       /\ p.seq = 0 <=> c \notin known[Server]
       /\ \A q \in net : About(q, c) => q = p

\* The lists of META: the server is on each of them, and they only get longer.  Whoever
\* is told of somebody is told of a round that waits for both, unless it was told
\* before, and any two are told of each other in time.
NamesOK(lists, wr, first, ids) ==
  /\ \A s \in DOMAIN lists :
       /\ lists[s] # {} => wr[Server][s].type = META /\ Server \in Whom(lists[s])
       /\ \A t \in DOMAIN lists : s < t /\ lists[t] # {} => Whom(lists[s]) \subseteq Whom(lists[t])
       /\ \A x \in lists[s] :
            /\ x[1] = Server => x[2] <= s
            /\ \A a \in Client \cap Whom(lists[s]) :
                 \/ x[3] <= Max2(first[a], first[x[1]])
                 \/ \E t \in DOMAIN lists : t < s /\ {a, x[1]} \subseteq Whom(lists[t])
  /\ \A c \in Client \cap ids : \A o \in ids \ {c} : \E s \in DOMAIN lists :
       {c, o} \subseteq Whom(lists[s]) /\ wr[Server][s].seq <= Max2(first[o], first[c])

\* c knows whom the META messages it has list, and looks for holes from before any
\* that lists it.
AwaitsOK(c, ids, st, lists) ==
  \A s \in DOMAIN lists :
     /\ s \in Present(st) => Whom(lists[s]) \subseteq ids
     /\ Server \in ids /\ c \in Whom(lists[s]) => st.serial_0_real <= s

\* Nothing is held of those who are not known.
UnknownOK(n) ==
  \A o \in Node \ known[n] : Present(stacks[n][o]) = {} /\ chain[n][o] = 0

\* An answer tells of a serial before any META that lists whom it lets in.
AnswerOK(p, lists) ==
  p.cmd = "JOIN" /\ p.seq # 0 => \A s \in DOMAIN lists : p.to \in Whom(lists[s]) => p.serial < s

\* Who is silent is waited for no longer than META may tell.
LimitsOK(c) ==
  \A o \in Node \ {c} : stacks[c][c].seq_0s[o] <= Max2(First[o], First[c])

\* Nobody writes for a round before its first.
FirstsOK(first, ids, wr) ==
  /\ \A o \in ids : Seq0 <= first[o]
  /\ \A o \in Node : \A s \in 1 .. Len(wr[o]) : first[o] <= wr[o][s].seq

ReadShapes ==
  /\ last_seq_reference \in [Node -> Int]
  /\ chain \in [Node -> [Node -> Int]]
  /\ delivered = [n \in Node |-> delivered[n]]

WaitInv ==
  /\ TellInv /\ ReadShapes
  /\ \A c \in Client : JoinerOK(c)
  /\ NamesOK(meta, written, First, known[Server])
  /\ \A c \in Client : AwaitsOK(c, known[c], stacks[c][Server], meta)
  /\ \A n \in Node : UnknownOK(n)
  /\ \A p \in net : AnswerOK(p, meta)
  /\ \A c \in Client : LimitsOK(c)
  /\ FirstsOK(First, known[Server], written)
  /\ \A n, o \in Node : FollowedOK(stacks[n][o], chain[n][o])
  /\ \A o \in Node : Orderly(written[o])
  /\ RoundsWaitForNewcomers /\ NothingMissedByComing

\* The first seq of a node, and the round it plays, are numbers.
SeqsTyped ==
  \A n, o \in Node : /\ stacks[n][n].seq_0s[o] \in Int /\ stacks[n][n].seq_0s[o] >= SEQ_INVALID
                     /\ PlaysAt(o) \in Int

\* They are, while nodes come.
LEMMA SeqsAre == ComeInv => SeqsTyped
<1> SUFFICES ASSUME ComeInv, NEW n \in Node, NEW o \in Node
             PROVE  /\ stacks[n][n].seq_0s[o] \in Int
                    /\ stacks[n][n].seq_0s[o] >= SEQ_INVALID
                    /\ PlaysAt(o) \in Int
  BY DEF SeqsTyped
<1>1. \A m \in Node : Sound(Registry(m)) /\ Registry(m).stacks = stacks[m]
  BY RegistryParts DEF RegistryOK
<1>2. \A m \in Node : IsStack(stacks[m][m]) /\ \A t \in Node : stacks[m][m].seq_0s[t] >= SEQ_INVALID
  BY <1>1 DEF Sound
<1>3. \A m \in Node : stacks[m][m].seq_0s \in [Node -> Int]
  BY <1>2, StackFields
<1>4. local_seq_last[o] \in Int /\ Server \in Node
  BY ConfigAssumption DEF ComeInv, Shapes
<1> QED BY <1>2, <1>3, <1>4 DEF PlaysAt

\* The same in the next state.
LEMMA SeqsWillBe == ComeInv' => SeqsTyped'
BY SeqsAre, PTL

\* Rounds go on waiting, and nothing more is missed, when nobody reads.
LEMMA RoundsOn ==
  ASSUME WaitInv, ComeInv', ReadShapes',
         \A a \in InGame' :
           \/ /\ a \in InGame /\ last_seq_reference'[a] = last_seq_reference[a]
              /\ delivered'[a] = delivered[a]
              /\ stacks'[a][a].seq_0s[a] = stacks[a][a].seq_0s[a]
              /\ Follows(a)' => Follows(a)
           \/ last_seq_reference'[a] = SEQ_INVALID - 1,
         \A o \in known'[Server] : \E b \in known[Server] : PlaysAt(b) <= PlaysAt(o)',
         known'[Server] \subseteq Node, known[Server] \subseteq Node,
         \A o \in Node : \A s \in MessagesOf(o)' :
           \/ s \in MessagesOf(o) /\ written'[o][s].seq = written[o][s].seq
           \/ \E b \in known[Server] : PlaysAt(b) <= written'[o][s].seq,
         \A o \in Node : \A s \in MessagesOf(o)' : written'[o][s].seq \in Int
  PROVE  RoundsWaitForNewcomers' /\ NothingMissedByComing'
<1>1. ComeInv /\ ReadShapes /\ RoundsWaitForNewcomers /\ NothingMissedByComing
  BY DEF WaitInv, TellInv
<1>2. \A b \in known[Server] : PlaysAt(b) \in Int
  BY <1>1, SeqsAre DEF SeqsTyped
<1>3. \A o \in known'[Server] : PlaysAt(o)' \in Int
  BY SeqsWillBe DEF SeqsTyped
<1>4. \A a \in Node : stacks'[a][a].seq_0s[a] \in Int /\ stacks'[a][a].seq_0s[a] >= SEQ_INVALID
  BY SeqsWillBe DEF SeqsTyped
<1>5. InGame' \subseteq Node
  BY ConfigAssumption DEF InGame, Client
<1>6. ASSUME NEW a \in InGame', Follows(a)', NEW o \in known'[Server]
      PROVE  last_seq_reference'[a] < Max2(PlaysAt(o)', stacks'[a][a].seq_0s[a])
  <2>1. /\ stacks'[a][a].seq_0s[a] \in Int /\ stacks'[a][a].seq_0s[a] >= SEQ_INVALID
        /\ PlaysAt(o)' \in Int /\ last_seq_reference'[a] \in Int
    BY <1>3, <1>4, <1>5 DEF ReadShapes
  <2>2. CASE last_seq_reference'[a] = SEQ_INVALID - 1
    BY <2>1, <2>2 DEF Max2, SEQ_INVALID
  <2>3. CASE /\ a \in InGame /\ last_seq_reference'[a] = last_seq_reference[a]
             /\ stacks'[a][a].seq_0s[a] = stacks[a][a].seq_0s[a]
             /\ Follows(a)' => Follows(a)
    <3>1. PICK b \in known[Server] : PlaysAt(b) <= PlaysAt(o)'
      OBVIOUS
    <3>2. last_seq_reference[a] < Max2(PlaysAt(b), stacks[a][a].seq_0s[a])
      BY <1>1, <1>6, <2>3 DEF RoundsWaitForNewcomers
    <3>3. PlaysAt(b) \in Int
      BY <1>2
    <3> QED BY <2>1, <2>3, <3>1, <3>2, <3>3 DEF Max2
  <2> QED BY <2>2, <2>3
<1>7. ASSUME NEW a \in InGame', Follows(a)', NEW o \in Node, NEW s \in MessagesOf(o)',
             stacks'[a][a].seq_0s[a] < written'[o][s].seq,
             written'[o][s].seq <= last_seq_reference'[a]
      PROVE  <<o, s>> \in delivered'[a]
  <2>1. /\ stacks'[a][a].seq_0s[a] \in Int /\ stacks'[a][a].seq_0s[a] >= SEQ_INVALID
        /\ written'[o][s].seq \in Int /\ last_seq_reference'[a] \in Int
    BY <1>4, <1>5 DEF ReadShapes
  <2>2. CASE last_seq_reference'[a] = SEQ_INVALID - 1
    BY <1>7, <2>1, <2>2 DEF SEQ_INVALID
  <2>3. CASE /\ a \in InGame /\ last_seq_reference'[a] = last_seq_reference[a]
             /\ delivered'[a] = delivered[a]
             /\ stacks'[a][a].seq_0s[a] = stacks[a][a].seq_0s[a]
             /\ Follows(a)' => Follows(a)
    <3>1. CASE s \in MessagesOf(o) /\ written'[o][s].seq = written[o][s].seq
      BY <1>1, <1>7, <2>3, <3>1 DEF NothingMissedByComing
    <3>2. CASE \E b \in known[Server] : PlaysAt(b) <= written'[o][s].seq
      <4>1. PICK b \in known[Server] : PlaysAt(b) <= written'[o][s].seq
        BY <3>2
      <4>2. last_seq_reference[a] < Max2(PlaysAt(b), stacks[a][a].seq_0s[a])
        BY <1>1, <1>7, <2>3 DEF RoundsWaitForNewcomers
      <4>3. PlaysAt(b) \in Int
        BY <1>2
      <4> QED BY <1>7, <2>1, <2>3, <4>1, <4>2, <4>3 DEF Max2
    <3> QED BY <3>1, <3>2
  <2> QED BY <2>2, <2>3
<1>8. RoundsWaitForNewcomers'
  BY <1>6 DEF RoundsWaitForNewcomers
<1>9. NothingMissedByComing'
  BY <1>7 DEF NothingMissedByComing
<1> QED BY <1>8, <1>9

\* A joiner is where it was when no JOIN about it is sent.
LEMMA JoinerOn ==
  ASSUME NEW c \in Client, JoinerOK(c), status'[c] = status[c],
         First'[c] = First[c], c \in known'[Server] <=> c \in known[Server],
         known[c] \subseteq known'[c], local_seq_last[c] \in Int, First[c] \in Int,
         \/ /\ local_seq_last'[c] = local_seq_last[c]
            /\ last_seq_reference'[c] = last_seq_reference[c] /\ chain'[c] = chain[c]
         \/ /\ status[c] = "in" /\ local_seq_last'[c] \in Int
            /\ local_seq_last[c] <= local_seq_last'[c],
         \A p \in net' : About(p, c) => p \in net
  PROVE  JoinerOK(c)'
<1>1. ASSUME NEW p \in net', About(p, c)
      PROVE  /\ status'[c] \in {"asking", "failed"} /\ local_seq_last'[c] = SEQ_START
             /\ p.seq = 0 <=> c \notin known'[Server]
             /\ \A q \in net' : About(q, c) => q = p
  <2>1. p \in net
    BY <1>1
  <2>2. status[c] \in {"asking", "failed"} /\ local_seq_last[c] = SEQ_START
    BY <1>1, <2>1 DEF JoinerOK
  <2>3. local_seq_last'[c] = local_seq_last[c]
    BY <2>2
  <2>4. p.seq = 0 <=> c \notin known[Server]
    BY <1>1, <2>1 DEF JoinerOK
  <2>5. \A q \in net : About(q, c) => q = p
    BY <1>1, <2>1 DEF JoinerOK
  <2> QED BY <2>2, <2>3, <2>4, <2>5
<1>2. status'[c] \in {"out", "connecting"} => c \notin known'[Server]
  BY DEF JoinerOK
<1>3. status'[c] = "connecting" => local_seq_last'[c] = SEQ_START
  BY DEF JoinerOK
<1>4. status'[c] = "in" => Server \in known'[c] /\ First'[c] <= local_seq_last'[c]
  BY DEF JoinerOK
<1>5. status'[c] # "in" => /\ last_seq_reference'[c] = SEQ_INVALID - 1
                           /\ \A o \in Node : chain'[c][o] = 0
  BY DEF JoinerOK
<1>6. (\A p \in net : About(p, c) =>
         /\ status[c] \in {"asking", "failed"} /\ local_seq_last[c] = SEQ_START
         /\ p.seq = 0 <=> c \notin known[Server]
         /\ \A q \in net : About(q, c) => q = p)'
  BY <1>1 DEF About
<1> QED BY <1>2, <1>3, <1>4, <1>5, <1>6 DEF JoinerOK

\* META lists what it did when others write.
LEMMA NamesOn ==
  ASSUME NEW wr \in [Node -> Seq(Atom)], NEW later, NEW n \in Node, Writes(n, wr, later),
         NEW lists, \A s \in DOMAIN lists : s \in 1 .. Len(wr[Server]),
         NEW first, NEW ids, NamesOK(lists, wr, first, ids)
  PROVE  NamesOK(lists, later, first, ids)
<1>1. \A s \in DOMAIN lists : later[Server][s] = wr[Server][s]
  BY WritesOn, ConfigAssumption
<1> QED BY <1>1 DEF NamesOK

\* What the steps have in common when nobody is let in.
LEMMA NodeWaits ==
  ASSUME WaitInv, TellInv', ReadShapes', NEW n \in Node,
         \A a \in Node : a # n => /\ stacks'[a] = stacks[a] /\ known'[a] = known[a]
                                  /\ chain'[a] = chain[a],
         UNCHANGED meta, known'[Server] = known[Server], First' = First,
         Writes(n, written, written'),
         \A c \in Client : JoinerOK(c)',
         n \in Client => AwaitsOK(n, known'[n], stacks'[n][Server], meta),
         UnknownOK(n)',
         \A p \in net' : p \in net \/ AnswerOK(p, meta),
         n \in Client => LimitsOK(n)',
         \A s \in 1 .. Len(written'[n]) : s > Len(written[n]) => First[n] <= written'[n][s].seq,
         \A o \in Node : FollowedOK(stacks'[n][o], chain'[n][o]),
         Orderly(written'[n]),
         RoundsWaitForNewcomers', NothingMissedByComing'
  PROVE  WaitInv'
<1>1. /\ TellInv /\ ComeInv /\ written \in [Node -> Seq(Atom)]
      /\ \A s \in DOMAIN meta : s \in 1 .. Len(written[Server])
  BY DEF WaitInv, TellInv, ComeInv, Shapes, AuthorsOK
<1>2. NamesOK(meta, written, First, known[Server])'
  <2>1. NamesOK(meta, written', First, known[Server])
    BY <1>1, NamesOn DEF WaitInv
  <2> QED BY <2>1
<1>3. \A c \in Client : AwaitsOK(c, known[c], stacks[c][Server], meta)'
  <2> SUFFICES ASSUME NEW c \in Client
               PROVE  AwaitsOK(c, known'[c], stacks'[c][Server], meta)
    OBVIOUS
  <2>1. c \in Node /\ AwaitsOK(c, known[c], stacks[c][Server], meta)
    BY DEF WaitInv, Client
  <2> QED BY <2>1
<1>4. \A a \in Node : UnknownOK(a)'
  <2> SUFFICES ASSUME NEW a \in Node, a # n PROVE UnknownOK(a)'
    OBVIOUS
  <2>1. UnknownOK(a)
    BY DEF WaitInv
  <2> QED BY <2>1 DEF UnknownOK
<1>5. \A p \in net' : AnswerOK(p, meta')
  BY DEF WaitInv
<1>6. \A c \in Client : LimitsOK(c)'
  <2> SUFFICES ASSUME NEW c \in Client, c # n PROVE LimitsOK(c)'
    OBVIOUS
  <2>1. c \in Node /\ LimitsOK(c)
    BY DEF WaitInv, Client
  <2>2. stacks'[c] = stacks[c] /\ First'[c] = First[c] /\ \A o \in Node : First'[o] = First[o]
    BY <2>1
  <2> QED BY <2>1, <2>2 DEF LimitsOK
<1>7. FirstsOK(First, known[Server], written)'
  <2>1. FirstsOK(First, known[Server], written)
    BY DEF WaitInv
  <2>2. \A o \in Node : \A s \in 1 .. Len(written'[o]) : First[o] <= written'[o][s].seq
    <3> SUFFICES ASSUME NEW o \in Node, NEW s \in 1 .. Len(written'[o])
                 PROVE  First[o] <= written'[o][s].seq
      OBVIOUS
    <3>1. CASE o = n /\ s > Len(written[n])
      BY <3>1
    <3>2. CASE ~(o = n /\ s > Len(written[n]))
      <4>1. s \in 1 .. Len(written[o]) /\ written'[o][s] = written[o][s]
        BY <1>1, <3>2 DEF Writes
      <4> QED BY <2>1, <4>1 DEF FirstsOK
    <3> QED BY <3>1, <3>2
  <2> QED BY <2>1, <2>2 DEF FirstsOK
<1>8. \A a, o \in Node : FollowedOK(stacks'[a][o], chain'[a][o])
  <2> SUFFICES ASSUME NEW a \in Node, NEW o \in Node, a # n
               PROVE FollowedOK(stacks'[a][o], chain'[a][o])
    OBVIOUS
  <2>1. stacks'[a] = stacks[a] /\ chain'[a] = chain[a]
    OBVIOUS
  <2>2. FollowedOK(stacks[a][o], chain[a][o])
    BY DEF WaitInv
  <2> QED BY <2>1, <2>2
<1>9. \A o \in Node : Orderly(written'[o])
  <2> SUFFICES ASSUME NEW o \in Node, o # n PROVE Orderly(written'[o])
    OBVIOUS
  <2>1. written'[o] = written[o] /\ Orderly(written[o])
    BY DEF Writes, WaitInv
  <2> QED BY <2>1
<1> QED BY <1>2, <1>3, <1>4, <1>5, <1>6, <1>7, <1>8, <1>9 DEF WaitInv

\* Rounds go on waiting when nothing is read, written or begun.
LEMMA RoundsSame ==
  ASSUME WaitInv, ComeInv', ReadShapes', InGame' = InGame,
         UNCHANGED <<local_seq_last, written, last_seq_reference, delivered>>,
         known'[Server] = known[Server], First' = First,
         \A a \in InGame : /\ stacks'[a][a].seq_0s[a] = stacks[a][a].seq_0s[a]
                           /\ Follows(a)' => Follows(a)
  PROVE  RoundsWaitForNewcomers' /\ NothingMissedByComing'
<1>1. ComeInv /\ Server \in Node /\ written \in [Node -> Seq(Atom)]
  BY ConfigAssumption DEF WaitInv, TellInv, ComeInv, Shapes
<1>2. known[Server] \subseteq Node
  BY <1>1, RegistryParts
<1>3. \A o \in known[Server] : PlaysAt(o)' = PlaysAt(o) /\ PlaysAt(o) \in Int
  <2> SUFFICES ASSUME NEW o \in known[Server] PROVE PlaysAt(o)' = PlaysAt(o) /\ PlaysAt(o) \in Int
    OBVIOUS
  <2>1. PlaysAt(o) \in Int
    BY <1>1, <1>2, SeqsAre DEF SeqsTyped
  <2>2. stacks'[Server][Server].seq_0s[o] = stacks[Server][Server].seq_0s[o]
    BY DEF First
  <2> QED BY <2>1, <2>2 DEF PlaysAt
<1>4. \A o \in known'[Server] : \E b \in known[Server] : PlaysAt(b) <= PlaysAt(o)'
  BY <1>3
<1>5. \A o \in Node : \A s \in MessagesOf(o)' :
           \/ s \in MessagesOf(o) /\ written'[o][s].seq = written[o][s].seq
           \/ \E b \in known[Server] : PlaysAt(b) <= written'[o][s].seq
  BY DEF MessagesOf
<1>6. \A o \in Node : \A s \in MessagesOf(o)' : written'[o][s].seq \in Int
  BY <1>1, SeqIsInt DEF MessagesOf
<1>7. \A a \in InGame' :
           \/ /\ a \in InGame /\ last_seq_reference'[a] = last_seq_reference[a]
              /\ delivered'[a] = delivered[a]
              /\ stacks'[a][a].seq_0s[a] = stacks[a][a].seq_0s[a]
              /\ Follows(a)' => Follows(a)
           \/ last_seq_reference'[a] = SEQ_INVALID - 1
  OBVIOUS
<1>8. known'[Server] \subseteq Node
  BY <1>2
<1> QED BY <1>2, <1>4, <1>5, <1>6, <1>7, <1>8, RoundsOn

\* Bookkeeping in the stacks of one node.
LEMMA BookWaits ==
  ASSUME WaitInv, TellInv', NEW n \in Node, NEW w,
         \A o \in Node : SameAtoms(stacks[n][o], w[o]) /\ SameBounds(stacks[n][o], w[o]),
         stacks' = [stacks EXCEPT ![n] = w],
         UNCHANGED <<local_seq_last, last_seq_reference, written, delivered, chain, known, meta>>,
         \A c \in Client : status'[c] = "in" <=> status[c] = "in",
         \A c \in Client : JoinerOK(c)',
         \A p \in net' : p \in net \/ AnswerOK(p, meta)
  PROVE  WaitInv'
<1>1. /\ TellInv /\ ComeInv /\ Shapes /\ written \in [Node -> Seq(Atom)] /\ ReadShapes
      /\ ComeInv' /\ Server \in Node
  BY ConfigAssumption DEF WaitInv, TellInv, ComeInv, Shapes
<1>2. stacks'[n] = w /\ \A a \in Node : a # n => stacks'[a] = stacks[a]
  BY <1>1 DEF Shapes
<1>3. \A o \in Node : w[o].seq_0s = stacks[n][o].seq_0s
  BY DEF SameAtoms
<1>4. First' = First
  BY <1>1, <1>2, <1>3 DEF First
<1>5. ReadShapes'
  BY <1>1 DEF ReadShapes
<1>6. Writes(n, written, written')
  BY <1>1, WritesNothing
<1>7. n \in Client => AwaitsOK(n, known'[n], stacks'[n][Server], meta)
  <2>1. SameAtoms(stacks[n][Server], w[Server]) /\ SameBounds(stacks[n][Server], w[Server])
    BY <1>1
  <2>2. n \in Client => AwaitsOK(n, known[n], stacks[n][Server], meta)
    BY DEF WaitInv
  <2> QED BY <1>2, <2>1, <2>2 DEF AwaitsOK, SameAtoms, SameBounds
<1>8. UnknownOK(n)'
  <2>1. UnknownOK(n)
    BY DEF WaitInv
  <2>2. \A o \in Node : Present(w[o]) = Present(stacks[n][o])
    BY DEF SameAtoms
  <2> QED BY <1>2, <2>1, <2>2 DEF UnknownOK
<1>9. n \in Client => LimitsOK(n)'
  <2>1. n \in Client => LimitsOK(n)
    BY DEF WaitInv
  <2>2. stacks'[n][n].seq_0s = stacks[n][n].seq_0s
    BY <1>2, <1>3
  <2> QED BY <1>4, <2>1, <2>2 DEF LimitsOK
<1>10. \A o \in Node : FollowedOK(stacks'[n][o], chain'[n][o])
  <2> SUFFICES ASSUME NEW o \in Node PROVE FollowedOK(w[o], chain[n][o])
    BY <1>2
  <2>1. FollowedOK(stacks[n][o], chain[n][o])
    BY DEF WaitInv
  <2> QED BY <2>1, FollowedKept
<1>11. Orderly(written'[n])
  BY DEF WaitInv
<1>12. InGame' = InGame
  BY DEF InGame
<1>13. \A a \in InGame : /\ stacks'[a][a].seq_0s[a] = stacks[a][a].seq_0s[a]
                         /\ Follows(a)' => Follows(a)
  <2> SUFFICES ASSUME NEW a \in InGame
               PROVE  /\ stacks'[a][a].seq_0s[a] = stacks[a][a].seq_0s[a]
                      /\ Follows(a)' => Follows(a)
    OBVIOUS
  <2>1. a \in Node /\ known[a] \subseteq Node
    BY <1>1, RegistryParts DEF InGame, Client
  <2>2. \A o \in Node : /\ stacks'[a][o].seq_0s = stacks[a][o].seq_0s
                        /\ stacks'[a][o].serial_0_real = stacks[a][o].serial_0_real
    <3>1. CASE a = n
      BY <1>2, <1>3, <3>1 DEF SameBounds
    <3>2. CASE a # n
      BY <1>2, <2>1, <3>2
    <3> QED BY <3>1, <3>2
  <2> QED BY <2>1, <2>2 DEF Follows
<1>14. RoundsWaitForNewcomers' /\ NothingMissedByComing'
  BY <1>1, <1>4, <1>5, <1>12, <1>13, RoundsSame
<1>15. \A a \in Node : a # n => /\ stacks'[a] = stacks[a] /\ known'[a] = known[a]
                                /\ chain'[a] = chain[a]
  BY <1>2
<1>16. \A s \in 1 .. Len(written'[n]) : s > Len(written[n]) => First[n] <= written'[n][s].seq
  <2>1. Len(written[n]) \in Nat /\ written'[n] = written[n]
    BY <1>1
  <2> QED BY <2>1
<1> QED BY <1>4, <1>5, <1>6, <1>7, <1>8, <1>9, <1>10, <1>11, <1>14, <1>15, <1>16, NodeWaits

\* What is sent is no JOIN, and the stacks keep what they hold.
LEMMA SendToKnownWaits ==
  ASSUME WaitInv, TellInv', NEW n \in Node, NEW peer \in Node, SendToKnown(n, peer)
  PROVE  WaitInv'
<1> DEFINE v == [o \in Node |-> IF o = peer THEN stacks[n][o] ELSE Sent(stacks[n][o], peer)]
<1>1. PICK w : w = v
  OBVIOUS
<1>2. ComeInv /\ TellInv /\ ComeInv' /\ Server \in Node
  BY SendToKnownStep, ConfigAssumption DEF WaitInv, TellInv
<1>3. /\ stacks' = [stacks EXCEPT ![n] = w]
      /\ UNCHANGED <<local_seq_last, last_seq_reference, written, delivered, chain, known, meta,
                     status>>
  BY <1>1, <1>2, RegistryParts DEF SendToKnown, SendAtoms, membership, ComeInv, Shapes
<1>4. ASSUME NEW o \in Node
      PROVE  SameAtoms(stacks[n][o], w[o]) /\ SameBounds(stacks[n][o], w[o])
  <2>1. Fits(stacks[n][o], Last(o)) /\ Last(o) \in Nat /\ IsStack(stacks[n][o])
    BY <1>2, JoinFits, RegistryParts
  <2>2. CASE o = peer
    <3>1. w[o] = stacks[n][o]
      BY <1>1, <2>2
    <3> QED BY <2>1, <3>1 DEF SameAtoms, SameBounds
  <2>3. CASE o # peer
    <3>1. w[o] = Sent(stacks[n][o], peer)
      BY <1>1, <2>3
    <3> QED BY <2>1, <3>1, SentKeeps, SentBounds
  <2> QED BY <2>2, <2>3
<1>5. ASSUME NEW p \in net', p \notin net PROVE p.cmd # "JOIN"
  <2>1. AtomFlies(p, written)
    BY <1>2, <1>5, SendToKnownStep
  <2> QED BY <2>1 DEF AtomFlies, DATA, META
<1>6. First' = First
  <2>1. \A o \in Node : w[o].seq_0s = stacks[n][o].seq_0s
    BY <1>4 DEF SameAtoms
  <2> QED BY <1>2, <1>3, <2>1 DEF First, ComeInv, Shapes
<1>7. \A c \in Client : JoinerOK(c)'
  <2> SUFFICES ASSUME NEW c \in Client PROVE JoinerOK(c)'
    OBVIOUS
  <2>1. JoinerOK(c) /\ c \in Node
    BY DEF WaitInv, Client
  <2>2. \A p \in net' : About(p, c) => p \in net
    BY <1>5 DEF About
  <2>3. local_seq_last[c] \in Int /\ First[c] \in Int
    BY <1>2, <2>1, RegistryParts, SeqsAre DEF SeqsTyped, First
  <2> QED BY <1>3, <1>6, <2>1, <2>2, <2>3, JoinerOn
<1>8. \A p \in net' : p \in net \/ AnswerOK(p, meta)
  BY <1>5 DEF AnswerOK
<1> QED BY <1>3, <1>4, <1>7, <1>8, BookWaits

\* Nothing but the network and status moves.
LEMMA StatusWaits ==
  ASSUME WaitInv, TellInv',
         UNCHANGED <<stacks, local_seq_last, last_seq_reference, written, delivered, chain, known,
                     meta>>,
         \A c \in Client : status'[c] = "in" <=> status[c] = "in",
         \A c \in Client : JoinerOK(c)',
         \A p \in net' : p \in net \/ AnswerOK(p, meta)
  PROVE  WaitInv'
<1>1. ComeInv /\ Server \in Node
  BY ConfigAssumption DEF WaitInv, TellInv
<1>2. stacks' = [stacks EXCEPT ![Server] = stacks[Server]]
  BY <1>1 DEF ComeInv, Shapes
<1>3. \A o \in Node : SameAtoms(stacks[Server][o], stacks[Server][o])
                      /\ SameBounds(stacks[Server][o], stacks[Server][o])
  BY DEF SameAtoms, SameBounds
<1> QED BY <1>1, <1>2, <1>3, BookWaits

\* It asks to be let in: there is no other JOIN about it.
LEMMA AskToJoinWaits ==
  ASSUME WaitInv, TellInv', NEW c \in Client, AskToJoin(c)
  PROVE  WaitInv'
<1> DEFINE ask == JoinPacket(Server, c, 0, stacks[c][c].serial_max)
<1>1. ComeInv /\ c \in Node /\ Server \notin Client /\ status = [d \in Client |-> status[d]]
  BY DEF WaitInv, TellInv, ComeInv, ComingOK, Client
<1>2. /\ UNCHANGED <<stacks, local_seq_last, last_seq_reference, written, delivered, chain, known,
                     meta>>
      /\ net' = net \cup {ask} /\ status[c] = "connecting" /\ status'[c] = "asking"
      /\ \A d \in Client : d # c => status'[d] = status[d]
  BY <1>1 DEF AskToJoin
<1>3. \A d \in Client : status'[d] = "in" <=> status[d] = "in"
  BY <1>2
<1>4. ask.cmd = "JOIN" /\ ask.from = c /\ ask.to = Server /\ ask.seq = 0
  BY DEF JoinPacket
<1> HIDE DEF ask
<1>5. JoinerOK(c) /\ \A p \in net : ~About(p, c)
  BY <1>2 DEF WaitInv, JoinerOK
<1>6. First' = First
  BY <1>2 DEF First
<1>7. JoinerOK(c)'
  BY <1>2, <1>4, <1>5, <1>6 DEF JoinerOK, About
<1>8. \A d \in Client : JoinerOK(d)'
  <2> SUFFICES ASSUME NEW d \in Client, d # c PROVE JoinerOK(d)'
    BY <1>7
  <2>1. JoinerOK(d) /\ d \in Node
    BY DEF WaitInv, Client
  <2>2. \A p \in net' : About(p, d) => p \in net
    BY <1>1, <1>2, <1>4 DEF About
  <2>3. local_seq_last[d] \in Int /\ First[d] \in Int
    BY <1>1, <2>1, RegistryParts, SeqsAre, ConfigAssumption DEF SeqsTyped, First
  <2> QED BY <1>2, <1>6, <2>1, <2>2, <2>3, JoinerOn
<1>9. \A p \in net' : p \in net \/ AnswerOK(p, meta)
  BY <1>2, <1>4 DEF AnswerOK
<1> QED BY <1>2, <1>3, <1>8, <1>9, StatusWaits

\* It gives up.
LEMMA TimeOutWaits ==
  ASSUME WaitInv, TellInv', NEW c \in Client, TimeOut(c)
  PROVE  WaitInv'
<1>1. ComeInv /\ c \in Node /\ status = [d \in Client |-> status[d]]
  BY DEF WaitInv, TellInv, ComeInv, ComingOK, Client
<1>2. /\ UNCHANGED <<stacks, local_seq_last, last_seq_reference, written, delivered, chain, known,
                     meta, net>>
      /\ status[c] = "asking" /\ status'[c] = "failed"
      /\ \A d \in Client : d # c => status'[d] = status[d]
  BY <1>1 DEF TimeOut, vars
<1>3. \A d \in Client : status'[d] = "in" <=> status[d] = "in"
  BY <1>2
<1>4. First' = First
  BY <1>2 DEF First
<1>5. JoinerOK(c)'
  BY <1>2, <1>4 DEF WaitInv, JoinerOK
<1>6. \A d \in Client : JoinerOK(d)'
  <2> SUFFICES ASSUME NEW d \in Client, d # c PROVE JoinerOK(d)'
    BY <1>5
  <2>1. JoinerOK(d) /\ d \in Node
    BY DEF WaitInv, Client
  <2>2. local_seq_last[d] \in Int /\ First[d] \in Int
    BY <1>1, <2>1, RegistryParts, SeqsAre, ConfigAssumption DEF SeqsTyped, First
  <2> QED BY <1>2, <1>4, <2>1, <2>2, JoinerOn
<1> QED BY <1>2, <1>3, <1>6, StatusWaits

\* Who is known already is not answered.
LEMMA IgnoredWaits ==
  ASSUME ~Redundant, WaitInv, TellInv', NEW p \in net, RecvJoin(p), p.from \in known[p.to]
  PROVE  WaitInv'
<1>1. ComeInv
  BY DEF WaitInv, TellInv
<1>2. /\ UNCHANGED <<stacks, local_seq_last, last_seq_reference, written, delivered, chain, known,
                     meta, status>>
      /\ net' \subseteq net
  BY DEF RecvJoin, Received
<1>3. First' = First
  BY <1>2 DEF First
<1>4. \A d \in Client : JoinerOK(d)'
  <2> SUFFICES ASSUME NEW d \in Client PROVE JoinerOK(d)'
    OBVIOUS
  <2>1. JoinerOK(d) /\ d \in Node
    BY DEF WaitInv, Client
  <2>2. local_seq_last[d] \in Int /\ First[d] \in Int
    BY <1>1, <2>1, RegistryParts, SeqsAre, ConfigAssumption DEF SeqsTyped, First
  <2> QED BY <1>2, <1>3, <2>1, <2>2, JoinerOn
<1> QED BY <1>2, <1>4, StatusWaits

\* client_join begins: no JOIN is about it yet, and nothing is held.
LEMMA ClientJoinWaits ==
  ASSUME WaitInv, TellInv', NEW c \in Client, ClientJoin(c)
  PROVE  WaitInv'
<1>1. /\ ComeInv /\ ComeInv' /\ Shapes /\ ComingOK /\ ReadShapes /\ c \in Node /\ c # Server
      /\ Server \in Node /\ written \in [Node -> Seq(Atom)] /\ known[Server] \subseteq Node
  BY ConfigAssumption, RegistryParts DEF WaitInv, TellInv, ComeInv, Client, Shapes
<1>2. /\ status[c] = "out" /\ status' = [status EXCEPT ![c] = "connecting"]
      /\ Record(c, Cleared(c))
      /\ local_seq_last' = [local_seq_last EXCEPT ![c] = SEQ_START]
      /\ last_seq_reference' = [last_seq_reference EXCEPT ![c] = SEQ_INVALID - 1]
      /\ delivered' = [delivered EXCEPT ![c] = {}]
      /\ chain' = [chain EXCEPT ![c] = [o \in Node |-> SERIAL_INVALID]]
      /\ UNCHANGED <<net, written, meta>>
  BY DEF ClientJoin
<1>3. /\ known'[c] = {c} /\ \A o \in Node : stacks'[c][o] = StackInit(SERIAL_START)
      /\ local_seq_last'[c] = SEQ_START /\ last_seq_reference'[c] = SEQ_INVALID - 1
      /\ \A o \in Node : chain'[c][o] = 0
      /\ status'[c] = "connecting"
  BY <1>1, <1>2 DEF Record, Cleared, Shapes, ReadShapes, ComingOK, SERIAL_INVALID
<1>4. \A a \in Node : a # c =>
        /\ stacks'[a] = stacks[a] /\ known'[a] = known[a] /\ chain'[a] = chain[a]
        /\ local_seq_last'[a] = local_seq_last[a] /\ delivered'[a] = delivered[a]
        /\ last_seq_reference'[a] = last_seq_reference[a]
  BY <1>1, <1>2 DEF Record, Shapes, ReadShapes
<1>5. \A d \in Client : d # c => status'[d] = status[d]
  BY <1>1, <1>2 DEF ComingOK
<1>6. First' = First /\ known'[Server] = known[Server]
  BY <1>1, <1>4 DEF First
<1>7. ReadShapes'
  <2>1. \A a \in Node : /\ last_seq_reference'[a] \in Int
                        /\ chain'[a] \in [Node -> Int]
    <3> SUFFICES ASSUME NEW a \in Node
                 PROVE  last_seq_reference'[a] \in Int /\ chain'[a] \in [Node -> Int]
      OBVIOUS
    <3>1. CASE a = c
      <4>1. chain'[c] = [o \in Node |-> 0]
        BY <1>1, <1>2 DEF ReadShapes, SERIAL_INVALID
      <4> QED BY <1>3, <3>1, <4>1 DEF SEQ_INVALID
    <3>2. CASE a # c
      BY <1>1, <1>4, <3>2 DEF ReadShapes
    <3> QED BY <3>1, <3>2
  <2>2. /\ last_seq_reference' = [a \in Node |-> last_seq_reference'[a]]
        /\ chain' = [a \in Node |-> chain'[a]] /\ delivered' = [a \in Node |-> delivered'[a]]
    BY <1>1, <1>2 DEF ReadShapes
  <2> QED BY <2>1, <2>2 DEF ReadShapes
<1>8. Writes(c, written, written')
  BY <1>1, <1>2, WritesNothing
<1>9. /\ Present(StackInit(SERIAL_START)) = {} /\ StackInit(SERIAL_START).serial_reference = 0
      /\ StackInit(SERIAL_START).seq_0s = [t \in Node |-> SEQ_INVALID]
  BY StackInitIs DEF SERIAL_START
<1>10. JoinerOK(c)'
  <2>1. c \notin known[Server] /\ \A p \in net : ~About(p, c)
    BY <1>2 DEF WaitInv, JoinerOK
  <2>2. \A p \in net' : ~About(p, c)
    BY <1>2, <2>1
  <2> QED BY <1>3, <1>6, <2>1, <2>2 DEF JoinerOK, About
<1>11. \A d \in Client : JoinerOK(d)'
  <2> SUFFICES ASSUME NEW d \in Client, d # c PROVE JoinerOK(d)'
    BY <1>10
  <2>1. JoinerOK(d) /\ d \in Node
    BY DEF WaitInv, Client
  <2>2. local_seq_last[d] \in Int /\ First[d] \in Int
    BY <1>1, <2>1, RegistryParts, SeqsAre DEF SeqsTyped, First
  <2> QED BY <1>2, <1>4, <1>5, <1>6, <2>1, <2>2, JoinerOn
<1>12. AwaitsOK(c, known'[c], stacks'[c][Server], meta)
  BY <1>1, <1>3, <1>9 DEF AwaitsOK
<1>13. UnknownOK(c)'
  BY <1>3, <1>9 DEF UnknownOK
<1>14. LimitsOK(c)'
  <2> SUFFICES ASSUME NEW o \in Node
               PROVE  stacks'[c][c].seq_0s[o] <= Max2(First'[o], First'[c])
    BY DEF LimitsOK
  <2>1. stacks'[c][c].seq_0s[o] = SEQ_INVALID
    BY <1>1, <1>3, <1>9
  <2>2. /\ First[o] \in Int /\ First[o] >= SEQ_INVALID
        /\ First[c] \in Int /\ First[c] >= SEQ_INVALID
    BY <1>1, SeqsAre DEF SeqsTyped, First
  <2> QED BY <1>6, <2>1, <2>2 DEF Max2, SEQ_INVALID
<1>15. \A o \in Node : FollowedOK(stacks'[c][o], chain'[c][o])
  BY <1>3, <1>9, FollowedNot
<1>16. RoundsWaitForNewcomers' /\ NothingMissedByComing'
  <2>1. InGame' = InGame /\ c \notin InGame
    BY <1>1, <1>2, <1>3, <1>5 DEF InGame
  <2>2. c \notin known[Server]
    BY <1>2 DEF WaitInv, JoinerOK
  <2>3. \A o \in known'[Server] : \E b \in known[Server] : PlaysAt(b) <= PlaysAt(o)'
    <3> SUFFICES ASSUME NEW o \in known[Server] PROVE PlaysAt(o) <= PlaysAt(o)'
      BY <1>6
    <3>1. o \in Node /\ o # c
      BY <1>1, <2>2
    <3>2. PlaysAt(o)' = PlaysAt(o)
      BY <1>1, <1>4, <2>1, <3>1 DEF PlaysAt
    <3>3. PlaysAt(o) \in Int
      BY <1>1, <3>1, SeqsAre DEF SeqsTyped
    <3> QED BY <3>2, <3>3
  <2>4. \A a \in InGame' :
           \/ /\ a \in InGame /\ last_seq_reference'[a] = last_seq_reference[a]
              /\ delivered'[a] = delivered[a]
              /\ stacks'[a][a].seq_0s[a] = stacks[a][a].seq_0s[a]
              /\ Follows(a)' => Follows(a)
           \/ last_seq_reference'[a] = SEQ_INVALID - 1
    <3> SUFFICES ASSUME NEW a \in InGame
                 PROVE  /\ last_seq_reference'[a] = last_seq_reference[a]
                        /\ delivered'[a] = delivered[a]
                        /\ stacks'[a][a].seq_0s[a] = stacks[a][a].seq_0s[a]
                        /\ Follows(a)' => Follows(a)
      BY <2>1
    <3>1. a \in Node /\ a # c
      BY <1>1, <2>1 DEF InGame, Client
    <3> QED BY <1>4, <3>1 DEF Follows
  <2>5. \A o \in Node : \A s \in MessagesOf(o)' :
           \/ s \in MessagesOf(o) /\ written'[o][s].seq = written[o][s].seq
           \/ \E b \in known[Server] : PlaysAt(b) <= written'[o][s].seq
    BY <1>2 DEF MessagesOf
  <2>6. \A o \in Node : \A s \in MessagesOf(o)' : written'[o][s].seq \in Int
    BY <1>1, <1>2, SeqIsInt DEF MessagesOf
  <2>7. known'[Server] \subseteq Node
    BY <1>1, <1>6
  <2> QED BY <1>1, <1>7, <2>3, <2>4, <2>5, <2>6, <2>7, RoundsOn
<1>17. \A s \in 1 .. Len(written'[c]) : s > Len(written[c]) => First[c] <= written'[c][s].seq
  <2>1. Len(written[c]) \in Nat /\ written'[c] = written[c]
    BY <1>1, <1>2
  <2> QED BY <2>1
<1>18. \A p \in net' : p \in net \/ AnswerOK(p, meta)
  BY <1>2
<1>19. Orderly(written'[c])
  BY <1>1, <1>2 DEF WaitInv
<1>20. UNCHANGED meta
  BY <1>2
<1>21. \A a \in Node : a # c => /\ stacks'[a] = stacks[a] /\ known'[a] = known[a]
                                /\ chain'[a] = chain[a]
  BY <1>4
<1> QED BY <1>1, <1>6, <1>7, <1>8, <1>11, <1>12, <1>13, <1>14, <1>15, <1>16, <1>17, <1>18, <1>19,
           <1>20, <1>21, NodeWaits

\* What is written goes into the local stack, and takes nothing away.
LEMMA WritesGrow ==
  ASSUME OneWindow, TellInv, NEW n \in Node, WriteInGame(n)
  PROVE  /\ Grows(stacks[n][n], stacks'[n][n])
         /\ stacks'[n][n].seq_0s = stacks[n][n].seq_0s /\ IsStack(stacks'[n][n])
         /\ \A o \in Node \ {n} : stacks'[n][o] = stacks[n][o]
         /\ \A a \in Node \ {n} : stacks'[a] = stacks[a]
<1>1. ComeInv /\ Shapes
  BY DEF TellInv, ComeInv
<1>2. PICK seq \in Int, order_n \in Nat \ {0} : PutLocalMsg(n, seq, order_n) /\ order_n <= MaxOrder
  BY <1>1, WriteInGameStep
<1> DEFINE st  == stacks[n][n]
           put == PutMsg(st, n, DATA, seq, order_n, Node \ {n})
           len == Len(written[n])
<1>3. /\ seq >= local_seq_last[n] /\ len + order_n <= MaxSerial[n]
      /\ stacks' = [stacks EXCEPT ![n] = [stacks[n] EXCEPT ![n] = put]]
  BY <1>2 DEF PutLocalMsg
<1>4. /\ Fits(st, Last(n)) /\ Last(n) \in Nat
      /\ Local(st) /\ st.serial_max = len /\ IsStack(st) /\ Holds(st, written[n])
      /\ local_seq_last[n] \in Int /\ stacks[n] = [o \in Node |-> stacks[n][o]]
      /\ written[n] \in Seq(Atom) /\ MaxSerial[n] \in Int
  <2>1. Fits(st, Last(n)) /\ Last(n) \in Nat
    BY <1>1, JoinFits
  <2>2. /\ Local(st) /\ st.serial_max = len /\ IsStack(st) /\ Holds(st, written[n])
        /\ local_seq_last[n] \in Int /\ stacks[n] = [o \in Node |-> stacks[n][o]]
        /\ written[n] \in Seq(Atom)
    BY <1>1, RegistryParts
  <2>3. MaxSerial[n] \in Int
    BY ConfigAssumption
  <2> QED BY <2>1, <2>2, <2>3
<1>5. Steady(st) /\ SerialN1(SERIAL_START) \in Int
  BY WindowAssumption DEF TellInv, SerialN1, SERIAL_START
<1>6. st.seq_0s[n] <= local_seq_last[n] /\ st.seq_0s[n] \in Int
  <2>1. RegistryOK(Registry(n), n, written, local_seq_last[n]) /\ Registry(n).stacks = stacks[n]
    BY <1>1, RegistryParts
  <2> QED BY <1>4, <2>1, StackFields DEF RegistryOK
<1> HIDE DEF st
<1>7. len + order_n <= SerialN1(SERIAL_START) /\ len \in Nat
  BY <1>3, <1>4, <1>5 DEF OneWindow
<1>8. Grows(st, put)
  <2>1. Present(st) \subseteq 1 .. st.serial_max
    BY <1>4 DEF Holds
  <2> QED BY <1>4, <1>5, <1>7, <2>1, PutMsgSteady
<1>9. IsStack(put) /\ put.seq_0s = st.seq_0s
  <2>1. seq >= st.seq_0s[n]
    BY <1>3, <1>4, <1>6
  <2>2. DATA \in {DATA, META} /\ Node \ {n} \in SUBSET Node
    OBVIOUS
  <2>3. /\ MaxOrder \in Nat /\ MaxOrder <= (BLOCK_DELTA_MAX - 1) * NB_ATOMS_PER_BLOCK
        /\ (BLOCK_DELTA_MAX - 1) * NB_ATOMS_PER_BLOCK \in Int
    BY ConfigAssumption, WindowAssumption
  <2>4. order_n <= (BLOCK_DELTA_MAX - 1) * NB_ATOMS_PER_BLOCK
    BY <1>2, <2>3
  <2> QED BY <1>4, <2>1, <2>2, <2>4, PutMsgAppends
<1> HIDE DEF put
<1>10. stacks'[n][n] = put /\ \A o \in Node \ {n} : stacks'[n][o] = stacks[n][o]
  BY <1>1, <1>3, <1>4 DEF Shapes
<1>11. \A a \in Node \ {n} : stacks'[a] = stacks[a]
  BY <1>1, <1>3 DEF Shapes
<1> QED BY <1>8, <1>9, <1>10, <1>11 DEF st

\* Whoever is in the game was let in, and has gone on from its first seq.
LEMMA PlayersKnown ==
  ASSUME WaitInv, NEW n \in InGame
  PROVE  n \in Node /\ n \in known[Server] /\ First[n] <= local_seq_last[n]
         /\ PlaysAt(n) = local_seq_last[n]
<1>1. ComeInv /\ TellInv /\ Server \in Node
  BY ConfigAssumption DEF WaitInv, TellInv
<1>2. CASE n = Server
  <2>1. First[Server] = Seq0 /\ Seq0 <= local_seq_last[Server] /\ Server \in known[Server]
    BY <1>1, RegistryParts DEF TellInv, ComeInv, ComingOK
  <2> QED BY <1>1, <1>2, <2>1 DEF PlaysAt
<1>3. CASE n # Server
  <2>1. n \in Client /\ status[n] = "in" /\ n \in Node
    BY <1>3 DEF InGame, Client
  <2>2. JoinerOK(n) /\ n \in known[Server]
    BY <1>1, <2>1 DEF WaitInv, TellInv
  <2> QED BY <2>1, <2>2 DEF JoinerOK, PlaysAt
<1> QED BY <1>2, <1>3

\* Writing is for the round that is played, or a later one.
LEMMA WriteInGameWaits ==
  ASSUME OneWindow, WaitInv, TellInv', NEW n \in Node, WriteInGame(n)
  PROVE  WaitInv'
<1>1. /\ TellInv /\ ComeInv /\ ComeInv' /\ Shapes /\ ReadShapes /\ Server \in Node
      /\ Writes(n, written, written') /\ written \in [Node -> Seq(Atom)]
      /\ known[Server] \subseteq Node /\ local_seq_last \in [Node -> Int]
  BY WriteInGameStep, RegistryParts, ConfigAssumption DEF WaitInv, TellInv, ComeInv, Shapes
<1>2. PICK seq \in Int, order_n \in Nat \ {0} :
              /\ PutLocalMsg(n, seq, order_n) /\ order_n <= MaxOrder
              /\ Len(written'[n]) = Len(written[n]) + order_n
              /\ \A s \in Len(written[n]) + 1 .. Len(written[n]) + order_n :
                   written'[n][s] = [type |-> DATA, seq |-> seq,
                                     order_i |-> s - (Len(written[n]) + 1), order_n |-> order_n]
  BY <1>1, WriteInGameStep
<1>3. /\ n \in InGame /\ seq >= local_seq_last[n]
      /\ local_seq_last' = [local_seq_last EXCEPT ![n] = seq]
      /\ UNCHANGED <<net, known, seq_0, meta, status, last_seq_reference, delivered, chain>>
  BY <1>2 DEF PutLocalMsg, WriteInGame, membership
<1>4. /\ Grows(stacks[n][n], stacks'[n][n])
      /\ stacks'[n][n].seq_0s = stacks[n][n].seq_0s /\ IsStack(stacks'[n][n])
      /\ \A o \in Node \ {n} : stacks'[n][o] = stacks[n][o]
      /\ \A a \in Node \ {n} : stacks'[a] = stacks[a]
  BY <1>1, WritesGrow
<1>5. First' = First
  BY <1>1, <1>4 DEF First
<1>6. ReadShapes'
  BY <1>1, <1>3 DEF ReadShapes
<1>7. n \in known[Server] /\ First[n] <= local_seq_last[n] /\ PlaysAt(n) = local_seq_last[n]
  BY <1>3, PlayersKnown
<1>8. /\ local_seq_last'[n] = seq /\ seq \in Int /\ local_seq_last[n] \in Int
      /\ \A a \in Node : a # n => local_seq_last'[a] = local_seq_last[a]
  BY <1>1, <1>3
<1>9. \A s \in 1 .. Len(written'[n]) : s > Len(written[n]) => written'[n][s].seq = seq
  <2> SUFFICES ASSUME NEW s \in 1 .. Len(written'[n]), s > Len(written[n])
               PROVE  written'[n][s].seq = seq
    OBVIOUS
  <2>1. s \in Len(written[n]) + 1 .. Len(written[n]) + order_n
    BY <1>1, <1>2
  <2>2. written'[n][s] = [type |-> DATA, seq |-> seq, order_i |-> s - (Len(written[n]) + 1),
                          order_n |-> order_n]
    BY <1>2, <2>1, Zenon
  <2> QED BY <2>2
<1>10. First[n] \in Int
  BY <1>1, SeqsAre DEF SeqsTyped, First
<1>11. \A c \in Client : JoinerOK(c)'
  <2> SUFFICES ASSUME NEW c \in Client PROVE JoinerOK(c)'
    OBVIOUS
  <2>1. JoinerOK(c) /\ c \in Node
    BY DEF WaitInv, Client
  <2>2. local_seq_last[c] \in Int /\ First[c] \in Int
    BY <1>1, <2>1, SeqsAre DEF SeqsTyped, First
  <2>3. \/ /\ local_seq_last'[c] = local_seq_last[c]
           /\ last_seq_reference'[c] = last_seq_reference[c] /\ chain'[c] = chain[c]
        \/ /\ status[c] = "in" /\ local_seq_last'[c] \in Int
           /\ local_seq_last[c] <= local_seq_last'[c]
    <3>1. CASE c = n
      <4>1. status[c] = "in"
        BY <1>3, <3>1 DEF InGame, Client
      <4> QED BY <1>3, <1>8, <3>1, <4>1
    <3>2. CASE c # n
      BY <1>3, <1>8, <2>1, <3>2
    <3> QED BY <3>1, <3>2
  <2> QED BY <1>3, <1>5, <2>1, <2>2, <2>3, JoinerOn
<1>12. n \in Client => AwaitsOK(n, known'[n], stacks'[n][Server], meta)
  <2> SUFFICES ASSUME n \in Client PROVE AwaitsOK(n, known'[n], stacks'[n][Server], meta)
    OBVIOUS
  <2>1. stacks'[n][Server] = stacks[n][Server]
    BY <1>1, <1>4 DEF Client
  <2> QED BY <1>3, <2>1 DEF WaitInv
<1>13. UnknownOK(n)'
  <2>1. n \in known[n] /\ UnknownOK(n)
    BY <1>1, RegistryParts DEF WaitInv
  <2> QED BY <1>3, <1>4, <2>1 DEF UnknownOK
<1>14. n \in Client => LimitsOK(n)'
  <2>1. n \in Client => LimitsOK(n)
    BY DEF WaitInv
  <2> QED BY <1>4, <1>5, <2>1 DEF LimitsOK
<1>15. \A s \in 1 .. Len(written'[n]) : s > Len(written[n]) => First[n] <= written'[n][s].seq
  BY <1>3, <1>7, <1>8, <1>9, <1>10
<1>16. \A o \in Node : FollowedOK(stacks'[n][o], chain'[n][o])
  <2> SUFFICES ASSUME NEW o \in Node PROVE FollowedOK(stacks'[n][o], chain[n][o])
    BY <1>3
  <2>1. FollowedOK(stacks[n][o], chain[n][o])
    BY DEF WaitInv
  <2>2. CASE o = n
    BY <1>4, <2>1, <2>2, FollowedGrows DEF Grows
  <2>3. CASE o # n
    BY <1>4, <2>1, <2>3
  <2> QED BY <2>2, <2>3
<1>17. Orderly(written'[n])
  <2>1. written[n] \in Seq(Atom) /\ written'[n] \in Seq(Atom) /\ Orderly(written[n])
    BY <1>1 DEF Writes, WaitInv
  <2>2. \A s \in 1 .. Len(written[n]) : written[n][s].seq <= seq
    <3> SUFFICES ASSUME NEW s \in 1 .. Len(written[n]) PROVE written[n][s].seq <= seq
      OBVIOUS
    <3>1. written[n][s].seq \in Int /\ written[n][s].seq <= local_seq_last[n]
      BY <1>1, <2>1, SeqIsInt DEF TellInv, InSeqOrder
    <3> QED BY <1>3, <1>8, <3>1
  <2>3. \A s \in 1 .. Len(written[n]) : written'[n][s] = written[n][s]
    BY <1>1 DEF Writes
  <2>4. \A s \in Len(written[n]) + 1 .. Len(written[n]) + order_n :
           /\ written'[n][s].seq = seq /\ written'[n][s].order_i = s - Len(written[n]) - 1
           /\ written'[n][s].order_n = order_n
    <3> SUFFICES ASSUME NEW s \in Len(written[n]) + 1 .. Len(written[n]) + order_n
                 PROVE  /\ written'[n][s].seq = seq
                        /\ written'[n][s].order_i = s - Len(written[n]) - 1
                        /\ written'[n][s].order_n = order_n
      OBVIOUS
    <3>1. written'[n][s] = [type |-> DATA, seq |-> seq, order_i |-> s - (Len(written[n]) + 1),
                            order_n |-> order_n]
      BY <1>2, Zenon
    <3>2. s - (Len(written[n]) + 1) = s - Len(written[n]) - 1
      BY <2>1
    <3> QED BY <3>1, <3>2
  <2> QED BY <1>2, <2>1, <2>2, <2>3, <2>4, OrderlyAppend
<1>18. RoundsWaitForNewcomers' /\ NothingMissedByComing'
  <2>1. InGame' = InGame /\ InGame \subseteq Node
    BY <1>1, <1>3 DEF InGame, Client
  <2>2. \A o \in known'[Server] : \E b \in known[Server] : PlaysAt(b) <= PlaysAt(o)'
    <3> SUFFICES ASSUME NEW o \in known[Server] PROVE PlaysAt(o) <= PlaysAt(o)'
      BY <1>3
    <3>1. o \in Node /\ PlaysAt(o) \in Int
      BY <1>1, SeqsAre DEF SeqsTyped
    <3>2. First'[o] = First[o]
      BY <1>5
    <3>3. CASE o \in InGame
      <4>1. PlaysAt(o) = local_seq_last[o] /\ PlaysAt(o)' = local_seq_last'[o]
        BY <2>1, <3>3 DEF PlaysAt
      <4>2. CASE o = n
        BY <1>3, <1>8, <4>1, <4>2
      <4>3. CASE o # n
        BY <1>8, <3>1, <4>1, <4>3
      <4> QED BY <4>2, <4>3
    <3>4. CASE o \notin InGame
      <4>1. PlaysAt(o) = First[o] /\ PlaysAt(o)' = First'[o]
        BY <2>1, <3>4 DEF PlaysAt, First
      <4> QED BY <3>1, <3>2, <4>1
    <3> QED BY <3>3, <3>4
  <2>3. \A a \in InGame' :
           \/ /\ a \in InGame /\ last_seq_reference'[a] = last_seq_reference[a]
              /\ delivered'[a] = delivered[a]
              /\ stacks'[a][a].seq_0s[a] = stacks[a][a].seq_0s[a]
              /\ Follows(a)' => Follows(a)
           \/ last_seq_reference'[a] = SEQ_INVALID - 1
    <3> SUFFICES ASSUME NEW a \in InGame
                 PROVE  /\ stacks'[a][a].seq_0s[a] = stacks[a][a].seq_0s[a]
                        /\ Follows(a)' => Follows(a)
      BY <1>3, <2>1
    <3>1. a \in Node /\ known[a] \subseteq Node
      BY <1>1, <2>1, RegistryParts
    <3>2. CASE a # n
      BY <1>3, <1>4, <3>1, <3>2 DEF Follows
    <3>3. CASE a = n
      <4>1. \A o \in Node : /\ chain[n][o] \in Int /\ stacks[n][o].serial_0_real \in Int
                            /\ stacks'[n][o].serial_0_real \in Int
                            /\ stacks'[n][o].serial_0_real <= stacks[n][o].serial_0_real
        <5> SUFFICES ASSUME NEW o \in Node
                     PROVE  /\ chain[n][o] \in Int /\ stacks[n][o].serial_0_real \in Int
                            /\ stacks'[n][o].serial_0_real \in Int
                            /\ stacks'[n][o].serial_0_real <= stacks[n][o].serial_0_real
          OBVIOUS
        <5>1. chain[n][o] \in Int /\ stacks[n][o].serial_0_real \in Int
          <6>1. IsStack(stacks[n][o])
            BY <1>1, RegistryParts
          <6>2. stacks[n][o].serial_0_real \in Int
            BY <6>1, StackFields
          <6>3. chain[n] \in [Node -> Int]
            BY <1>1 DEF ReadShapes
          <6> QED BY <6>2, <6>3
        <5>2. CASE o = n
          BY <1>4, <5>1, <5>2, StackFields DEF Grows
        <5>3. CASE o # n
          BY <1>4, <5>1, <5>3
        <5> QED BY <5>1, <5>2, <5>3
      <4>2. Follows(n)' => Follows(n)
        BY <1>3, <3>1, <3>3, <4>1 DEF Follows
      <4> QED BY <1>4, <3>3, <4>2
    <3> QED BY <3>2, <3>3
  <2>4. \A o \in Node : \A s \in MessagesOf(o)' :
           \/ s \in MessagesOf(o) /\ written'[o][s].seq = written[o][s].seq
           \/ \E b \in known[Server] : PlaysAt(b) <= written'[o][s].seq
    <3> SUFFICES ASSUME NEW o \in Node, NEW s \in MessagesOf(o)'
                 PROVE  \/ s \in MessagesOf(o) /\ written'[o][s].seq = written[o][s].seq
                        \/ \E b \in known[Server] : PlaysAt(b) <= written'[o][s].seq
      OBVIOUS
    <3>1. s \in 1 .. Len(written'[o])
      BY DEF MessagesOf
    <3>2. CASE o = n /\ s > Len(written[n])
      <4>1. written'[n][s].seq = seq
        BY <1>9, <3>1, <3>2
      <4> QED BY <1>3, <1>7, <1>8, <3>2, <4>1
    <3>3. CASE ~(o = n /\ s > Len(written[n]))
      <4>1. s \in 1 .. Len(written[o]) /\ written'[o][s] = written[o][s]
        BY <1>1, <3>1, <3>3 DEF Writes
      <4> QED BY <4>1 DEF MessagesOf
    <3> QED BY <3>2, <3>3
  <2>5. \A o \in Node : \A s \in MessagesOf(o)' : written'[o][s].seq \in Int
    <3>1. written' \in [Node -> Seq(Atom)]
      BY <1>1 DEF Writes
    <3> QED BY <3>1, SeqIsInt DEF MessagesOf
  <2>6. known'[Server] \subseteq Node
    BY <1>1, <1>3
  <2> QED BY <1>1, <1>6, <2>2, <2>3, <2>4, <2>5, <2>6, RoundsOn
<1>19. /\ UNCHANGED meta /\ known'[Server] = known[Server]
       /\ \A p \in net' : p \in net \/ AnswerOK(p, meta)
       /\ \A a \in Node : a # n => /\ stacks'[a] = stacks[a] /\ known'[a] = known[a]
                                   /\ chain'[a] = chain[a]
  BY <1>3, <1>4
<1> QED BY <1>1, <1>5, <1>6, <1>11, <1>12, <1>13, <1>14, <1>15, <1>16, <1>17, <1>18, <1>19,
           NodeWaits

\* A stack that begins holds nothing new, and has no reference if it had none.
LEMMA BegunForgets ==
  ASSUME NEW r, Sound(r), NEW id \in Node, NEW serial \in Int, NEW seq,
         NEW N \in Nat, Present(r.stacks[id]) \subseteq 1 .. N
  PROVE  LET st == Begun(r, id, serial, seq)
         IN  /\ Present(st) \subseteq Present(r.stacks[id])
             /\ r.stacks[id].serial_reference = 0 => st.serial_reference = 0
<1> DEFINE serial_0 == Max2(serial, SERIAL_START)
<1>1. serial_0 \in Int /\ 1 <= serial_0
  BY Max2Type DEF SERIAL_START
<1> HIDE DEF serial_0
<1>2. CASE id \notin r.ids
  <2>1. Begun(r, id, serial, seq) = StackInit(serial_0)
    BY <1>2 DEF Begun, serial_0
  <2>2. Present(StackInit(serial_0)) = {} /\ StackInit(serial_0).serial_reference = 0
    BY <1>1, StackInitIs
  <2> QED BY <2>1, <2>2
<1>3. CASE id \in r.ids
  <2>1. PICK new : new = StackShift(r.stacks[id], r.seq_0[id], serial_0, seq)
    OBVIOUS
  <2>2. Begun(r, id, serial, seq) = new
    BY <1>3, <2>1 DEF Begun, serial_0
  <2>3. IsStack(r.stacks[id])
    BY DEF Sound
  <2>a. PICK st_seq_0 : st_seq_0 = r.seq_0[id]
    OBVIOUS
  <2>b. \/ new = r.stacks[id]
        \/ /\ IsStack(new) /\ Steady(new) /\ new.seq_0s = [t \in Node |-> SEQ_INVALID]
           /\ Present(new) \subseteq Present(r.stacks[id])
           /\ \A s \in Present(new) : AtomAt(new, s) = AtomAt(r.stacks[id], s)
           /\ new.serial_reference = 0 /\ new.serial_0_real = serial_0
    BY <1>1, <2>1, <2>3, <2>a, StackShiftIs
  <2>4. new = r.stacks[id] \/ (Present(new) \subseteq Present(r.stacks[id]) /\ new.serial_reference = 0)
    BY <2>b
  <2> QED BY <2>2, <2>4
<1> QED BY <1>2, <1>3

\* q is what p.to has registered once the answer p was received.
AnswerTaken(p, q) ==
  /\ stacks' = [stacks EXCEPT ![p.to] = q.stacks]
  /\ known' = [known EXCEPT ![p.to] = q.ids]
  /\ q.ids = known[p.to] \cup {Server}
  /\ \A o \in Node \ {Server} : SameBody(stacks[p.to][o], q.stacks[o])
  /\ Present(q.stacks[Server]) \subseteq Present(stacks[p.to][Server])
  /\ stacks[p.to][Server].serial_reference = 0 => q.stacks[Server].serial_reference = 0
  /\ \/ q.stacks[Server].serial_0_real = Max2(p.serial, SERIAL_START)
     \/ /\ Server \in known[p.to]
        /\ q.stacks[Server].serial_0_real = stacks[p.to][Server].serial_0_real
  /\ q.stacks[p.to].seq_0s[Server] =
       Max2(stacks[p.to][p.to].seq_0s[Server], local_seq_last[p.to])
  /\ \A t \in Node \ {Server, p.to} :
       q.stacks[p.to].seq_0s[t] = stacks[p.to][p.to].seq_0s[t]

\* The server is registered at its serial, and the first seq of p.to is set.
LEMMA AnswerDoes ==
  ASSUME TellInv, NEW p \in net, RecvAnswer(p)
  PROVE  /\ p.to \in Client /\ p.from = Server /\ p.serial \in Int /\ p.seq \in Int /\ p.seq > 0
         /\ p.to \in known[Server] /\ p.seq = First[p.to]
         /\ \E q : AnswerTaken(p, q)
<1>1. Flies(p, written) /\ p.cmd = "JOIN" /\ p.seq # 0 /\ ComeInv
  BY DEF TellInv, ComeInv, RecvAnswer
<1>2. Answers(p)
  BY <1>1 DEF Flies, AtomFlies, Asks, DATA, META
<1>3. PICK c \in Node : c = p.to /\ c \in Client /\ c # Server /\ Server \in Node
  BY <1>2, ConfigAssumption DEF Answers, Client
<1>4. p.from = Server /\ p.serial \in Int /\ p.seq \in Int /\ p.seq > 0
  BY <1>2 DEF Answers
<1>5. p.to \in known[Server] /\ p.seq = First[p.to]
  BY <1>1 DEF TellInv, TellsOK
<1>6. PICK seq \in Int : seq = local_seq_last[c]
  BY <1>1 DEF ComeInv, Shapes
<1>7. PICK old : old = Registry(c)
  OBVIOUS
<1>8. PICK r : r = RegisterNode(old, c, Server, p.serial, seq)
  OBVIOUS
<1>9. PICK q : q = SetLocalSeq0(r, c, p.seq)
  OBVIOUS
<1>10. /\ Sound(old) /\ c \in old.ids /\ old.ids = known[c] /\ old.stacks = stacks[c]
       /\ Present(old.stacks[Server]) \subseteq 1 .. Last(Server) /\ Last(Server) \in Nat
       /\ Steady(old.stacks[Server])
  <2>1. Sound(old) /\ c \in old.ids
    BY <1>1, <1>7 DEF ComeInv, RegistryOK
  <2>2. old.stacks = stacks[c] /\ old.ids = known[c]
    BY <1>7 DEF Registry
  <2>3. Present(old.stacks[Server]) \subseteq 1 .. Last(Server) /\ Last(Server) \in Nat
    BY <1>1, <1>3, <2>2, JoinFits DEF Fits
  <2> QED BY <1>3, <2>1, <2>2, <2>3 DEF TellInv
<1>11. PICK begun : begun = Begun(old, Server, p.serial, seq)
  OBVIOUS
<1>12. /\ IsStack(begun) /\ \A t \in Node : begun.seq_0s[t] >= SEQ_INVALID
       /\ begun.serial_0_real = Max2(p.serial, SERIAL_START)
          \/ (Server \in old.ids /\ begun.serial_0_real = old.stacks[Server].serial_0_real)
       /\ Present(begun) \subseteq Present(old.stacks[Server])
       /\ old.stacks[Server].serial_reference = 0 => begun.serial_reference = 0
  BY <1>3, <1>4, <1>10, <1>11, BegunIs, BegunBounds, BegunForgets
<1>13. /\ Sound(r) /\ r.ids = old.ids \cup {Server}
       /\ \A o \in Node \ {Server} : SameBody(old.stacks[o], r.stacks[o])
       /\ SameBody(begun, r.stacks[Server])
       /\ \A t \in Node \ {Server} : r.stacks[c].seq_0s[t] = old.stacks[c].seq_0s[t]
       /\ r.stacks[c].seq_0s[Server] = Max2(old.stacks[c].seq_0s[Server], seq)
  <2>1. IsStack(Begun(old, Server, p.serial, seq))
        /\ \A t \in Node : Begun(old, Server, p.serial, seq).seq_0s[t] >= SEQ_INVALID
    BY <1>11, <1>12
  <2>2. /\ Sound(r) /\ r.ids = old.ids \cup {Server}
        /\ \A o \in Node \ {Server} : SameBody(old.stacks[o], r.stacks[o])
        /\ \A o \in Node \ r.ids : r.stacks[o] = old.stacks[o]
        /\ SameBody(Begun(old, Server, p.serial, seq), r.stacks[Server])
        /\ \A t \in Node \ {Server} : r.stacks[c].seq_0s[t] = old.stacks[c].seq_0s[t]
        /\ r.stacks[c].seq_0s[Server] = Max2(old.stacks[c].seq_0s[Server], seq)
        /\ r.seq_0[c] = old.seq_0[c]
    <3>1. Sound(old) /\ c \in old.ids /\ Server # c /\ p.serial \in Int
      BY <1>3, <1>4, <1>10
    <3> QED BY <1>3, <1>8, <2>1, <3>1, RegisterNodeDoes
  <2> QED BY <1>11, <2>2
<1>14. /\ Sound(q) /\ q.ids = r.ids
       /\ \A o \in Node : SameBody(r.stacks[o], q.stacks[o])
       /\ q.stacks[c].seq_0s = [r.stacks[c].seq_0s EXCEPT ![c] = p.seq]
  <2>1. c \in r.ids /\ SEQ_INVALID <= p.seq
    BY <1>4, <1>10, <1>13 DEF SEQ_INVALID
  <2> QED BY <1>4, <1>9, <1>13, <2>1, SetLocalSeq0Does
<1>15. /\ stacks' = [stacks EXCEPT ![c] = q.stacks]
       /\ known' = [known EXCEPT ![c] = q.ids]
  BY <1>3, <1>4, <1>6, <1>7, <1>8, <1>9 DEF RecvAnswer, Record
<1>16. \A t \in Node \ {c} : q.stacks[c].seq_0s[t] = r.stacks[c].seq_0s[t]
  <2>1. r.stacks[c].seq_0s \in [Node -> Int]
    BY <1>13, StackFields DEF Sound
  <2> QED BY <1>14, <2>1
<1>17. \A o \in Node \ {Server} : SameBody(stacks[c][o], q.stacks[o])
  BY <1>10, <1>13, <1>14 DEF SameBody
<1>18. SameBody(begun, q.stacks[Server])
  BY <1>3, <1>13, <1>14 DEF SameBody
<1>19. /\ Present(q.stacks[Server]) = Present(begun)
       /\ q.stacks[Server].serial_reference = begun.serial_reference
       /\ q.stacks[Server].serial_0_real = begun.serial_0_real
  BY <1>18 DEF SameBody, Present
<1>20. AnswerTaken(p, q)
  BY <1>3, <1>6, <1>10, <1>12, <1>13, <1>14, <1>15, <1>16, <1>17, <1>19 DEF AnswerTaken
<1> QED BY <1>3, <1>4, <1>5, <1>20

\* The answer has come: the newcomer begins at the round it is waited for at.
LEMMA RecvAnswerWaits ==
  ASSUME ~Redundant, WaitInv, TellInv', NEW p \in net, RecvAnswer(p)
  PROVE  WaitInv'
<1>1. /\ TellInv /\ ComeInv /\ ComeInv' /\ Shapes /\ ComingOK /\ ReadShapes /\ Server \in Node
      /\ written \in [Node -> Seq(Atom)] /\ known[Server] \subseteq Node
      /\ local_seq_last \in [Node -> Int]
  BY RegistryParts, ConfigAssumption DEF WaitInv, TellInv, ComeInv, Shapes
<1>2. /\ p.to \in Client /\ p.from = Server /\ p.serial \in Int /\ p.seq \in Int /\ p.seq > 0
      /\ p.to \in known[Server] /\ p.seq = First[p.to]
      /\ \E q : AnswerTaken(p, q)
  BY <1>1, AnswerDoes
<1>3. PICK c \in Node : c = p.to /\ c \in Client /\ c # Server
  BY <1>2 DEF Client
<1>4. PICK q : AnswerTaken(p, q)
  BY <1>2
<1>5. /\ p.cmd = "JOIN"
      /\ local_seq_last' = [local_seq_last EXCEPT ![c] = Max2(p.seq, local_seq_last[c])]
      /\ status' = [status EXCEPT ![c] = Answered(c)]
      /\ net' = net \ {p}
      /\ UNCHANGED <<last_seq_reference, written, delivered, chain, meta>>
  BY <1>3 DEF RecvAnswer, Received
<1>6. /\ status[c] \in {"asking", "failed"} /\ local_seq_last[c] = SEQ_START
      /\ \A a \in net : About(a, c) => a = p
      /\ last_seq_reference[c] = SEQ_INVALID - 1 /\ \A o \in Node : chain[c][o] = 0
  <2>1. JoinerOK(c) /\ About(p, c)
    BY <1>3, <1>5 DEF WaitInv, About
  <2>2. status[c] \in {"asking", "failed"} /\ local_seq_last[c] = SEQ_START
        /\ \A a \in net : About(a, c) => a = p
    BY <2>1 DEF JoinerOK
  <2> QED BY <2>1, <2>2 DEF JoinerOK
<1>7. /\ stacks'[c] = q.stacks /\ known'[c] = q.ids /\ q.ids = known[c] \cup {Server}
      /\ \A a \in Node : a # c => /\ stacks'[a] = stacks[a] /\ known'[a] = known[a]
                                  /\ chain'[a] = chain[a]
  BY <1>1, <1>3, <1>4, <1>5 DEF AnswerTaken, Shapes
<1>8. /\ local_seq_last'[c] = p.seq /\ \A a \in Node : a # c => local_seq_last'[a] = local_seq_last[a]
  BY <1>1, <1>2, <1>3, <1>5, <1>6 DEF Max2, SEQ_START
<1>9. /\ status'[c] = "in" \/ (status'[c] = "failed" /\ status[c] = "failed")
      /\ \A d \in Client : d # c => status'[d] = status[d]
  BY <1>1, <1>3, <1>5, <1>6 DEF ComingOK, Answered
<1>10. First' = First /\ known'[Server] = known[Server]
  BY <1>1, <1>3, <1>7 DEF First
<1>11. ReadShapes'
  BY <1>1, <1>5 DEF ReadShapes
<1>12. JoinerOK(c)'
  <2>1. \A a \in net' : ~About(a, c)
    BY <1>5, <1>6
  <2>2. Server \in known'[c]
    BY <1>7
  <2>3. First'[c] <= local_seq_last'[c]
    BY <1>2, <1>3, <1>8, <1>10
  <2> QED BY <1>5, <1>6, <1>9, <2>1, <2>2, <2>3 DEF JoinerOK, About
<1>13. \A d \in Client : JoinerOK(d)'
  <2> SUFFICES ASSUME NEW d \in Client, d # c PROVE JoinerOK(d)'
    BY <1>12
  <2>1. JoinerOK(d) /\ d \in Node
    BY DEF WaitInv, Client
  <2>2. local_seq_last[d] \in Int /\ First[d] \in Int
    BY <1>1, <2>1, SeqsAre DEF SeqsTyped, First
  <2> QED BY <1>5, <1>7, <1>8, <1>9, <1>10, <2>1, <2>2, JoinerOn
<1>14. AwaitsOK(c, known'[c], stacks'[c][Server], meta)
  <2> SUFFICES ASSUME NEW s \in DOMAIN meta
               PROVE  /\ s \in Present(q.stacks[Server]) => Whom(meta[s]) \subseteq q.ids
                      /\ c \in Whom(meta[s]) => q.stacks[Server].serial_0_real <= s
    BY <1>7 DEF AwaitsOK
  <2>1. AwaitsOK(c, known[c], stacks[c][Server], meta)
    BY <1>3 DEF WaitInv
  <2>2. s \in Present(q.stacks[Server]) => Whom(meta[s]) \subseteq q.ids
    BY <1>3, <1>4, <1>7, <2>1 DEF AwaitsOK, AnswerTaken
  <2>3. ASSUME c \in Whom(meta[s]) PROVE q.stacks[Server].serial_0_real <= s
    <3>1. p.serial < s
      BY <1>2, <1>3, <1>5, <2>3 DEF WaitInv, AnswerOK
    <3>2. s \in 1 .. Len(written[Server])
      BY <1>1 DEF ComeInv, AuthorsOK
    <3>3. CASE q.stacks[Server].serial_0_real = Max2(p.serial, SERIAL_START)
      BY <1>2, <3>1, <3>2, <3>3 DEF Max2, SERIAL_START
    <3>4. CASE /\ Server \in known[c]
               /\ q.stacks[Server].serial_0_real = stacks[c][Server].serial_0_real
      BY <2>1, <2>3, <3>4 DEF AwaitsOK
    <3> QED BY <1>3, <1>4, <3>3, <3>4 DEF AnswerTaken
  <2> QED BY <2>2, <2>3
<1>15. UnknownOK(c)'
  <2> SUFFICES ASSUME NEW o \in Node \ q.ids
               PROVE  Present(q.stacks[o]) = {} /\ chain[c][o] = 0
    BY <1>5, <1>7 DEF UnknownOK
  <2>1. o # Server /\ o \notin known[c]
    BY <1>7
  <2>2. UnknownOK(c)
    BY <1>3 DEF WaitInv
  <2>3. SameBody(stacks[c][o], q.stacks[o])
    BY <1>3, <1>4, <2>1 DEF AnswerTaken
  <2> QED BY <2>1, <2>2, <2>3 DEF UnknownOK, SameBody, Present
<1>16. LimitsOK(c)'
  <2> SUFFICES ASSUME NEW o \in Node \ {c}
               PROVE  q.stacks[c].seq_0s[o] <= Max2(First[o], First[c])
    BY <1>7, <1>10 DEF LimitsOK
  <2>1. LimitsOK(c)
    BY <1>3 DEF WaitInv
  <2>2. CASE o # Server
    <3>1. q.stacks[c].seq_0s[o] = stacks[c][c].seq_0s[o]
      BY <1>3, <1>4, <2>2 DEF AnswerTaken
    <3> QED BY <2>1, <3>1 DEF LimitsOK
  <2>3. CASE o = Server
    <3>1. q.stacks[c].seq_0s[Server] = Max2(stacks[c][c].seq_0s[Server], SEQ_START)
      BY <1>3, <1>4, <1>6 DEF AnswerTaken
    <3>2. stacks[c][c].seq_0s[Server] <= Max2(First[Server], First[c])
      BY <1>1, <1>3, <2>1 DEF LimitsOK
    <3>3. First[Server] = Seq0 /\ Seq0 \in Nat
      BY <1>1, ConfigAssumption DEF TellInv
    <3>4. /\ stacks[c][c].seq_0s[Server] \in Int /\ First[c] \in Int
      BY <1>1, <1>3, SeqsAre DEF SeqsTyped, First
    <3> QED BY <2>3, <3>1, <3>2, <3>3, <3>4 DEF Max2, SEQ_START
  <2> QED BY <2>2, <2>3
<1>17. \A o \in Node : FollowedOK(stacks'[c][o], chain'[c][o])
  <2> SUFFICES ASSUME NEW o \in Node PROVE q.stacks[o].serial_reference = 0
    BY <1>3, <1>5, <1>6, <1>7, FollowedNot
  <2>1. stacks[c][o].serial_reference = 0
    BY <1>3, <1>6 DEF WaitInv, FollowedOK
  <2>2. CASE o = Server
    BY <1>3, <1>4, <2>1, <2>2 DEF AnswerTaken
  <2>3. CASE o # Server
    <3>1. SameBody(stacks[c][o], q.stacks[o])
      BY <1>3, <1>4, <2>3 DEF AnswerTaken
    <3> QED BY <2>1, <3>1 DEF SameBody
  <2> QED BY <2>2, <2>3
<1>18. RoundsWaitForNewcomers' /\ NothingMissedByComing'
  <2>1. c \notin InGame /\ InGame' \subseteq InGame \cup {c} /\ InGame \subseteq InGame'
    BY <1>3, <1>6, <1>9 DEF InGame, Client
  <2>2. \A o \in known'[Server] : \E b \in known[Server] : PlaysAt(b) <= PlaysAt(o)'
    <3> SUFFICES ASSUME NEW o \in known[Server] PROVE PlaysAt(o) <= PlaysAt(o)'
      BY <1>10
    <3>1. o \in Node /\ PlaysAt(o) \in Int
      BY <1>1, SeqsAre DEF SeqsTyped
    <3>2. stacks'[Server][Server].seq_0s[o] = stacks[Server][Server].seq_0s[o]
      BY <1>10 DEF First
    <3>3. CASE o # c
      <4>1. o \in InGame <=> o \in InGame'
        BY <2>1, <3>3
      <4> QED BY <1>8, <3>1, <3>2, <3>3, <4>1 DEF PlaysAt
    <3>4. CASE o = c
      <4>1. PlaysAt(c) = p.seq
        BY <1>2, <1>3, <2>1 DEF PlaysAt, First
      <4>2. PlaysAt(c)' = p.seq
        BY <1>2, <1>3, <1>8, <3>2, <3>4 DEF PlaysAt, First
      <4> QED BY <1>2, <3>4, <4>1, <4>2
    <3> QED BY <3>3, <3>4
  <2>3. \A a \in InGame' :
           \/ /\ a \in InGame /\ last_seq_reference'[a] = last_seq_reference[a]
              /\ delivered'[a] = delivered[a]
              /\ stacks'[a][a].seq_0s[a] = stacks[a][a].seq_0s[a]
              /\ Follows(a)' => Follows(a)
           \/ last_seq_reference'[a] = SEQ_INVALID - 1
    <3> SUFFICES ASSUME NEW a \in InGame', a # c
                 PROVE  /\ a \in InGame /\ stacks'[a][a].seq_0s[a] = stacks[a][a].seq_0s[a]
                        /\ Follows(a)' => Follows(a)
      BY <1>5, <1>6
    <3>1. a \in InGame /\ a \in Node
      BY <1>1, <2>1 DEF InGame, Client
    <3> QED BY <1>7, <3>1 DEF Follows
  <2>4. \A o \in Node : \A s \in MessagesOf(o)' :
           \/ s \in MessagesOf(o) /\ written'[o][s].seq = written[o][s].seq
           \/ \E b \in known[Server] : PlaysAt(b) <= written'[o][s].seq
    BY <1>5 DEF MessagesOf
  <2>5. \A o \in Node : \A s \in MessagesOf(o)' : written'[o][s].seq \in Int
    BY <1>1, <1>5, SeqIsInt DEF MessagesOf
  <2>6. known'[Server] \subseteq Node
    BY <1>1, <1>10
  <2> QED BY <1>1, <1>11, <2>2, <2>3, <2>4, <2>5, <2>6, RoundsOn
<1>19. Writes(c, written, written')
  BY <1>1, <1>5, WritesNothing
<1>20. /\ \A s \in 1 .. Len(written'[c]) : s > Len(written[c]) => First[c] <= written'[c][s].seq
       /\ Orderly(written'[c])
  <2>1. Len(written[c]) \in Nat /\ written'[c] = written[c] /\ Orderly(written[c])
    BY <1>1, <1>5 DEF WaitInv
  <2> QED BY <2>1
<1>21. /\ \A a \in net' : a \in net \/ AnswerOK(a, meta)
       /\ UNCHANGED meta
  BY <1>5
<1> QED BY <1>7, <1>10, <1>11, <1>13, <1>14, <1>15, <1>16, <1>17, <1>18, <1>19, <1>20, <1>21,
           NodeWaits

\* What p.to has registered once the atom p was received: r with the atom, q with
\* those META lists.
AtomTaken(p, r, q) ==
  /\ Sound(r) /\ r.ids = known[p.to] /\ p.to \in r.ids
  /\ \A o \in Node :
       /\ r.stacks[o].seq_0s = stacks[p.to][o].seq_0s
       /\ \/ r.stacks[o] = stacks[p.to][o]
          \/ /\ o = p.from /\ o \in known[p.to] /\ Grows(stacks[p.to][o], r.stacks[o])
             /\ Present(r.stacks[o]) \subseteq Present(stacks[p.to][o]) \cup {p.serial}
  /\ p.cmd # META => q = r
  /\ p.cmd = META => /\ p.to # Server /\ p.serial \in DOMAIN meta /\ IsList(meta[p.serial])
                     /\ Enlarged(r, p.to, meta[p.serial], q)
  /\ stacks' = [stacks EXCEPT ![p.to] = q.stacks]
  /\ known' = [known EXCEPT ![p.to] = q.ids]

\* The atom is stored, if its writer is known; then those it lists are registered.
LEMMA AtomDoes ==
  ASSUME OneWindow, TellInv, NEW p \in net, RecvAtomOrRefuse(p)
  PROVE  AtomFlies(p, written) /\ \E r, q : AtomTaken(p, r, q)
<1>1. Flies(p, written) /\ p.cmd \in {DATA, META} /\ ComeInv
  BY DEF TellInv, ComeInv, RecvAtomOrRefuse
<1>2. AtomFlies(p, written)
  BY <1>1 DEF Flies, Asks, Answers, DATA, META
<1>3. PICK n \in Node : n = p.to
  BY <1>2 DEF AtomFlies
<1>4. PICK r : r = [Registry(n) EXCEPT !.stacks = Kept(p)]
  OBVIOUS
<1>5. PICK q : q = IF p.cmd = META THEN RegisterNew(r, n, meta[p.serial]) ELSE r
  OBVIOUS
<1>6. /\ Sound(r) /\ n \in r.ids /\ r.ids = known[n]
      /\ \A o \in Node : r.stacks[o].seq_0s = stacks[n][o].seq_0s
  BY <1>2, <1>3, <1>4, KeptTells
<1>7. /\ RegistryOK(r, n, written, local_seq_last[n])
      /\ r = [ids |-> known[n], stacks |-> r.stacks, seq_0 |-> seq_0[n]]
      /\ r.stacks = Kept(p)
      /\ \A o \in Node \ {p.from} : Kept(p)[o] = stacks[n][o]
      /\ p.from \notin known[n] => Kept(p) = stacks[n]
      /\ p.from \in known[n] => Kept(p)[p.from] =
           PutAtom(stacks[n][p.from], n, p.serial, p.atom, Node \ {p.from})
      /\ \A o \in Node : Kept(p)[o].seq_0s = stacks[n][o].seq_0s
  BY <1>1, <1>2, <1>3, <1>4, KeptOK
<1>8. ASSUME NEW o \in Node
      PROVE  \/ r.stacks[o] = stacks[n][o]
             \/ /\ o = p.from /\ o \in known[n] /\ Grows(stacks[n][o], r.stacks[o])
                /\ Present(r.stacks[o]) \subseteq Present(stacks[n][o]) \cup {p.serial}
  <2>1. CASE o # p.from \/ p.from \notin known[n]
    BY <1>7, <2>1
  <2>2. CASE o = p.from /\ p.from \in known[n]
    <3> DEFINE st == stacks[n][o]
    <3>1. Fits(st, Last(o)) /\ Last(o) \in Nat
      BY <1>1, JoinFits
    <3>2. Holds(st, written[o]) /\ written[o] \in Seq(Atom)
      BY <1>1, RegistryParts
    <3>3. p.serial \in 1 .. Len(written[o]) /\ p.atom \in Atom
      BY <1>2, <2>2, <3>2 DEF AtomFlies
    <3>4. /\ Len(written[o]) <= SerialN1(SERIAL_START) /\ SerialN1(SERIAL_START) \in Int
          /\ Len(written[o]) \in Nat /\ Len(written[o]) <= Last(o)
      <4>1. Len(written[o]) <= MaxSerial[o]
        BY <1>1 DEF ComeInv, AuthorsOK
      <4>2. MaxSerial[o] \in Nat /\ SerialN1(SERIAL_START) \in Int
        BY ConfigAssumption, WindowAssumption DEF SerialN1, SERIAL_START
      <4>3. MaxOrder \in Nat /\ NbMeta \in Nat
        BY ConfigAssumption, WindowAssumption
      <4> QED BY <3>2, <4>1, <4>2, <4>3 DEF OneWindow, Last
    <3>5. r.stacks[o] = PutAtom(st, n, p.serial, p.atom, Node \ {p.from})
      BY <1>7, <2>2
    <3>6. Steady(st)
      BY DEF TellInv
    <3> HIDE DEF st
    <3>7. Present(st) \subseteq 1 .. SerialN1(SERIAL_START)
      BY <3>2, <3>4 DEF Holds
    <3>8. /\ p.serial \in 1 .. SerialN1(SERIAL_START) /\ p.serial \in 1 .. Last(o)
          /\ Node \ {p.from} \in SUBSET Node
      BY <3>1, <3>3, <3>4
    <3>9. Grows(st, r.stacks[o])
      BY <3>1, <3>3, <3>5, <3>6, <3>7, <3>8, PutAtomSteady
    <3>10. PICK new : new = PutAtom(st, n, p.serial, p.atom, Node \ {p.from})
      OBVIOUS
    <3>11. \A s \in Present(new) :
                  \/ s \in Present(st) /\ AtomAt(new, s) = AtomAt(st, s)
                  \/ s = p.serial /\ AtomAt(new, s) = p.atom
      BY <3>1, <3>3, <3>8, <3>10, PutAtomKeeps
    <3>12. Present(r.stacks[o]) \subseteq Present(st) \cup {p.serial}
      BY <3>5, <3>10, <3>11
    <3> QED BY <2>2, <3>9, <3>12 DEF st
  <2> QED BY <2>1, <2>2
<1>9. /\ stacks' = [stacks EXCEPT ![n] = q.stacks]
      /\ known' = [known EXCEPT ![n] = q.ids]
  BY <1>3, <1>4, <1>5 DEF RecvAtomOrRefuse, Record
<1>10. ASSUME p.cmd = META
       PROVE  /\ n # Server /\ p.serial \in DOMAIN meta /\ IsList(meta[p.serial])
              /\ Enlarged(r, n, meta[p.serial], q)
  <2>1. p.to # Server /\ IsList(meta[p.serial]) /\ p.serial \in DOMAIN meta
    BY <1>1, <1>2, <1>10, MetaIsList
  <2>2. q = RegisterNew(r, n, meta[p.serial])
    BY <1>5, <1>10
  <2> QED BY <1>3, <1>6, <2>1, <2>2, RegisterNewDoes
<1>11. AtomTaken(p, r, q)
  BY <1>3, <1>5, <1>6, <1>8, <1>9, <1>10 DEF AtomTaken
<1> QED BY <1>2, <1>11

\* An atom is received, META or not: who is told of somebody waits for it.
LEMMA RecvAtomWaits ==
  ASSUME OneWindow, ~Overtakes, WaitInv, TellInv', NEW p \in net, RecvAtomOrRefuse(p)
  PROVE  WaitInv'
<1>1. /\ TellInv /\ ComeInv /\ ComeInv' /\ Shapes /\ ReadShapes /\ Server \in Node
      /\ written \in [Node -> Seq(Atom)] /\ known[Server] \subseteq Node
  BY RegistryParts, ConfigAssumption DEF WaitInv, TellInv, ComeInv, Shapes
<1>2. AtomFlies(p, written) /\ \E r, q : AtomTaken(p, r, q)
  BY <1>1, AtomDoes
<1>3. PICK n \in Node : n = p.to
  BY <1>2 DEF AtomFlies
<1>4. PICK r, q : AtomTaken(p, r, q)
  BY <1>2
<1>5. /\ UNCHANGED <<local_seq_last, last_seq_reference, net, written, delivered, chain, meta, status>>
      /\ p.cmd = META => InOrder(p)
  BY DEF RecvAtomOrRefuse
<1>6. /\ stacks'[n] = q.stacks /\ known'[n] = q.ids
      /\ \A a \in Node : a # n => stacks'[a] = stacks[a] /\ known'[a] = known[a]
  BY <1>1, <1>3, <1>4 DEF AtomTaken, Shapes
<1>7. /\ Sound(r) /\ r.ids = known[n] /\ n \in r.ids /\ r.ids \subseteq Node
      /\ \A o \in Node : r.stacks[o].seq_0s = stacks[n][o].seq_0s
      /\ p.cmd # META => q = r
  BY <1>3, <1>4 DEF AtomTaken, Sound
<1>8. \A o \in Node :
        \/ r.stacks[o] = stacks[n][o]
        \/ /\ o = p.from /\ o \in known[n] /\ Grows(stacks[n][o], r.stacks[o])
           /\ Present(r.stacks[o]) \subseteq Present(stacks[n][o]) \cup {p.serial}
  BY <1>3, <1>4 DEF AtomTaken
<1>9. ASSUME p.cmd = META
      PROVE  /\ n # Server /\ p.from = Server /\ p.serial \in DOMAIN meta /\ IsList(meta[p.serial])
             /\ Enlarged(r, n, meta[p.serial], q)
             /\ \A t \in DOMAIN meta : t < p.serial /\ n \in Whom(meta[t]) => Whom(meta[t]) \subseteq known[n]
  <2>1. /\ n # Server /\ p.serial \in DOMAIN meta /\ IsList(meta[p.serial])
        /\ Enlarged(r, n, meta[p.serial], q)
    BY <1>3, <1>4, <1>9 DEF AtomTaken
  <2>2. \A t \in DOMAIN meta : t < p.serial /\ n \in Whom(meta[t]) => Whom(meta[t]) \subseteq known[n]
    BY <1>3, <1>5, <1>9 DEF InOrder, Listed, Whom
  <2>3. p.from = Server
    BY <1>1, <1>2, <1>9, MetaIsList
  <2> QED BY <2>1, <2>2, <2>3
<1>10. n \in known[Server]
  BY <1>1, <1>2, <1>3 DEF TellInv, TellsOK, AtomFlies, DATA, META
<1>11. \* what is not registered by META
       ASSUME NEW o \in Node, o \in r.ids \/ o \notin q.ids
       PROVE  /\ SameBody(r.stacks[o], q.stacks[o])
              /\ q.stacks[n].seq_0s[o] = stacks[n][n].seq_0s[o]
  <2>1. CASE p.cmd # META
    BY <1>7, <2>1 DEF SameBody
  <2>2. CASE p.cmd = META
    BY <1>7, <1>9, <1>11, <2>2 DEF Enlarged
  <2> QED BY <2>1, <2>2
<1>12. \* what is
       ASSUME NEW o \in q.ids \ r.ids
       PROVE  /\ p.cmd = META /\ o \in Node
              /\ \E x \in meta[p.serial] :
                   /\ x[1] = o /\ SameBody(StackInit(Max2(x[2], SERIAL_START)), q.stacks[o])
                   /\ q.stacks[n].seq_0s[o] = Max2(stacks[n][n].seq_0s[o], x[3])
                   /\ x[2] \in Int /\ x[3] \in Int
  <2>1. p.cmd = META
    BY <1>7, <1>12
  <2>2. Enlarged(r, n, meta[p.serial], q) /\ IsList(meta[p.serial])
    BY <1>9, <2>1
  <2>3. PICK x \in meta[p.serial] :
                   /\ x[1] = o /\ SameBody(StackInit(Max2(x[2], SERIAL_START)), q.stacks[o])
                   /\ q.stacks[n].seq_0s[o] = Max2(r.stacks[n].seq_0s[o], x[3])
    BY <1>12, <2>2 DEF Enlarged
  <2>4. x[1] \in Node /\ x[2] \in Int /\ x[3] \in Int
    BY <2>2 DEF IsList
  <2>5. r.stacks[n].seq_0s[o] = stacks[n][n].seq_0s[o]
    BY <1>7
  <2> QED BY <2>1, <2>3, <2>4, <2>5
<1>13. /\ r.ids \subseteq q.ids /\ q.ids \subseteq Node
       /\ n = Server => q.ids = known[n] /\ q.stacks[n].seq_0s = stacks[n][n].seq_0s
  <2>1. CASE p.cmd # META
    BY <1>7, <2>1
  <2>2. CASE p.cmd = META
    BY <1>7, <1>9, <2>2 DEF Enlarged, Sound
  <2> QED BY <2>1, <2>2
<1>14. First' = First /\ known'[Server] = known[Server]
  BY <1>1, <1>3, <1>6, <1>13 DEF First
<1>15. ReadShapes'
  BY <1>1, <1>5 DEF ReadShapes
<1>16. \A c \in Client : JoinerOK(c)'
  <2> SUFFICES ASSUME NEW c \in Client PROVE JoinerOK(c)'
    OBVIOUS
  <2>1. JoinerOK(c) /\ c \in Node
    BY DEF WaitInv, Client
  <2>2. local_seq_last[c] \in Int /\ First[c] \in Int
    BY <1>1, <2>1, RegistryParts, SeqsAre DEF SeqsTyped, First
  <2>3. known[c] \subseteq known'[c]
    BY <1>6, <1>7, <1>13, <2>1
  <2> QED BY <1>5, <1>14, <2>1, <2>2, <2>3, JoinerOn
<1>17. n \in Client => AwaitsOK(n, known'[n], stacks'[n][Server], meta)
  <2> SUFFICES ASSUME n \in Client, NEW s \in DOMAIN meta
               PROVE  /\ s \in Present(q.stacks[Server]) => Whom(meta[s]) \subseteq q.ids
                      /\ Server \in q.ids /\ n \in Whom(meta[s]) =>
                           q.stacks[Server].serial_0_real <= s
    BY <1>6 DEF AwaitsOK
  <2>1. AwaitsOK(n, known[n], stacks[n][Server], meta) /\ NamesOK(meta, written, First, known[Server])
    BY DEF WaitInv
  <2>2. ASSUME s \in Present(q.stacks[Server]) PROVE Whom(meta[s]) \subseteq q.ids
    <3>1. CASE Server \in q.ids \ r.ids
      <4>1. PICK x \in meta[p.serial] :
               /\ SameBody(StackInit(Max2(x[2], SERIAL_START)), q.stacks[Server]) /\ x[2] \in Int
        BY <1>12, <3>1
      <4>2. Present(StackInit(Max2(x[2], SERIAL_START))) = {}
        <5>1. PICK real \in Int : real = Max2(x[2], SERIAL_START)
          BY <4>1 DEF Max2, SERIAL_START
        <5> QED BY <5>1, StackInitIs
      <4> QED BY <2>2, <4>1, <4>2 DEF SameBody, Present
    <3>2. CASE Server \in r.ids \/ Server \notin q.ids
      <4>1. Present(q.stacks[Server]) = Present(r.stacks[Server])
        BY <1>1, <1>11, <3>2 DEF SameBody, Present
      <4>2. s \in Present(stacks[n][Server]) \/ (s = p.serial /\ p.from = Server)
        BY <1>1, <1>8, <2>2, <4>1
      <4>3. CASE s \in Present(stacks[n][Server])
        BY <1>7, <1>13, <2>1, <4>3 DEF AwaitsOK
      <4>4. CASE s = p.serial /\ p.from = Server /\ p.cmd = META
        BY <1>9, <4>4 DEF Enlarged, Whom
      <4>5. CASE s = p.serial /\ p.from = Server /\ p.cmd # META
        <5>1. written[Server][s].type # META
          BY <1>2, <4>5 DEF AtomFlies
        <5> QED BY <2>1, <5>1 DEF NamesOK, Whom
      <4> QED BY <4>2, <4>3, <4>4, <4>5
    <3> QED BY <3>1, <3>2
  <2>3. ASSUME Server \in q.ids, n \in Whom(meta[s])
        PROVE  q.stacks[Server].serial_0_real <= s
    <3>1. s \in 1 .. Len(written[Server])
      BY <1>1 DEF ComeInv, AuthorsOK
    <3>2. CASE Server \in r.ids
      <4>1. stacks[n][Server].serial_0_real <= s
        BY <1>7, <2>1, <2>3, <3>2 DEF AwaitsOK
      <4>2. r.stacks[Server].serial_0_real <= stacks[n][Server].serial_0_real
            /\ r.stacks[Server].serial_0_real \in Int /\ stacks[n][Server].serial_0_real \in Int
        <5>1. r.stacks[Server].serial_0_real \in Int /\ stacks[n][Server].serial_0_real \in Int
          BY <1>1, <1>7, RegistryParts, StackFields DEF Sound
        <5> QED BY <1>1, <1>8, <5>1 DEF Grows
      <4>3. q.stacks[Server].serial_0_real = r.stacks[Server].serial_0_real
        BY <1>1, <1>11, <3>2 DEF SameBody
      <4> QED BY <3>1, <4>1, <4>2, <4>3
    <3>3. CASE Server \notin r.ids
      <4>1. PICK x \in meta[p.serial] :
               /\ x[1] = Server /\ x[2] \in Int /\ p.cmd = META
               /\ SameBody(StackInit(Max2(x[2], SERIAL_START)), q.stacks[Server])
        BY <1>12, <2>3, <3>3
      <4>2. p.serial \in DOMAIN meta /\ p.serial \in 1 .. Len(written[Server])
        BY <1>1, <1>9, <4>1 DEF ComeInv, AuthorsOK
      <4>3. x[2] <= p.serial
        BY <2>1, <4>1, <4>2 DEF NamesOK
      <4>4. ~ (s < p.serial)
        <5> SUFFICES ASSUME s < p.serial PROVE FALSE
          OBVIOUS
        <5>1. Whom(meta[s]) \subseteq known[n]
          BY <1>9, <2>3, <4>1
        <5>2. meta[s] # {}
          BY <2>3 DEF Whom
        <5>3. Server \in Whom(meta[s])
          BY <2>1, <5>2 DEF NamesOK
        <5> QED BY <1>7, <3>3, <5>1, <5>3
      <4>5. PICK real \in Int : real = Max2(x[2], SERIAL_START) /\ (real = 1 \/ real = x[2])
        BY <4>1 DEF Max2, SERIAL_START
      <4>6. q.stacks[Server].serial_0_real = real
        BY <4>1, <4>5, StackInitIs DEF SameBody
      <4> QED BY <3>1, <4>1, <4>2, <4>3, <4>4, <4>5, <4>6
    <3> QED BY <3>2, <3>3
  <2> QED BY <2>2, <2>3
<1>18. UnknownOK(n)'
  <2> SUFFICES ASSUME NEW o \in Node \ q.ids
               PROVE  Present(q.stacks[o]) = {} /\ chain[n][o] = 0
    BY <1>5, <1>6 DEF UnknownOK
  <2>1. o \notin known[n]
    BY <1>7, <1>13
  <2>2. r.stacks[o] = stacks[n][o]
    BY <1>8, <2>1
  <2>3. SameBody(r.stacks[o], q.stacks[o])
    BY <1>11
  <2>4. Present(stacks[n][o]) = {} /\ chain[n][o] = 0
    BY <2>1 DEF WaitInv, UnknownOK
  <2> QED BY <2>2, <2>3, <2>4 DEF SameBody, Present
<1>19. n \in Client => LimitsOK(n)'
  <2> SUFFICES ASSUME n \in Client, NEW o \in Node \ {n}
               PROVE  q.stacks[n].seq_0s[o] <= Max2(First[o], First[n])
    BY <1>6, <1>14 DEF LimitsOK
  <2>1. stacks[n][n].seq_0s[o] <= Max2(First[o], First[n])
    BY DEF WaitInv, LimitsOK
  <2>2. CASE o \in r.ids \/ o \notin q.ids
    BY <1>11, <2>1, <2>2
  <2>3. CASE o \in q.ids \ r.ids
    <3>1. PICK x \in meta[p.serial] :
             /\ x[1] = o /\ x[2] \in Int /\ x[3] \in Int /\ p.cmd = META
             /\ q.stacks[n].seq_0s[o] = Max2(stacks[n][n].seq_0s[o], x[3])
      BY <1>12, <2>3
    <3>2. p.serial \in DOMAIN meta
      BY <1>9, <3>1
    <3>3. /\ First[o] \in Int /\ First[n] \in Int /\ stacks[n][n].seq_0s[o] \in Int
      BY <1>1, SeqsAre DEF SeqsTyped, First
    <3>4. x[3] <= Max2(First[o], First[n])
      <4>1. CASE n \in Whom(meta[p.serial])
        <5>1. \/ x[3] <= Max2(First[n], First[x[1]])
              \/ \E t \in DOMAIN meta : t < p.serial /\ {n, x[1]} \subseteq Whom(meta[t])
          BY <3>2, <4>1 DEF WaitInv, NamesOK
        <5>2. ~ \E t \in DOMAIN meta : t < p.serial /\ {n, x[1]} \subseteq Whom(meta[t])
          BY <1>7, <1>9, <2>3, <3>1
        <5> QED BY <3>1, <3>3, <5>1, <5>2 DEF Max2
      <4>2. CASE n \notin Whom(meta[p.serial])
        <5>1. ListsOK(meta, written, First, known[Server])
          BY <1>1 DEF TellInv
        <5>2. written[Server][p.serial].seq <= First[n]
          BY <1>10, <3>2, <4>2, <5>1 DEF ListsOK
        <5>3. x[3] = written[Server][p.serial].seq
          BY <3>2, <5>1 DEF ListsOK, TellsOf
        <5> QED BY <3>1, <3>3, <5>2, <5>3 DEF Max2
      <4> QED BY <4>1, <4>2
    <3> QED BY <2>1, <3>1, <3>3, <3>4 DEF Max2
  <2> QED BY <2>2, <2>3
<1>20. \A o \in Node : FollowedOK(stacks'[n][o], chain'[n][o])
  <2> SUFFICES ASSUME NEW o \in Node PROVE FollowedOK(q.stacks[o], chain[n][o])
    BY <1>5, <1>6
  <2>1. FollowedOK(stacks[n][o], chain[n][o])
    BY DEF WaitInv
  <2>2. CASE o \in r.ids \/ o \notin q.ids
    <3>1. SameBody(r.stacks[o], q.stacks[o])
      BY <1>11, <2>2
    <3>2. /\ r.stacks[o].serial_reference = stacks[n][o].serial_reference
          /\ \A s \in Present(stacks[n][o]) :
               s \in Present(r.stacks[o]) /\ AtomAt(r.stacks[o], s) = AtomAt(stacks[n][o], s)
      BY <1>8 DEF Grows
    <3>3. FollowedOK(r.stacks[o], chain[n][o])
      BY <2>1, <3>2, FollowedGrows
    <3>4. /\ q.stacks[o].serial_reference = r.stacks[o].serial_reference
          /\ \A s \in Present(r.stacks[o]) :
               s \in Present(q.stacks[o]) /\ AtomAt(q.stacks[o], s) = AtomAt(r.stacks[o], s)
      BY <3>1, BodyKeeps DEF SameBody
    <3> QED BY <3>3, <3>4, FollowedGrows
  <2>3. CASE o \in q.ids \ r.ids
    <3>1. PICK x \in meta[p.serial] :
             SameBody(StackInit(Max2(x[2], SERIAL_START)), q.stacks[o]) /\ x[2] \in Int
      BY <1>12, <2>3
    <3>2. PICK real \in Int : real = Max2(x[2], SERIAL_START)
      BY <3>1 DEF Max2, SERIAL_START
    <3>3. q.stacks[o].serial_reference = 0
      BY <3>1, <3>2, StackInitIs DEF SameBody
    <3>4. chain[n][o] = 0
      BY <1>7, <2>3 DEF WaitInv, UnknownOK
    <3> QED BY <3>3, <3>4, FollowedNot
  <2> QED BY <2>2, <2>3
<1>21. RoundsWaitForNewcomers' /\ NothingMissedByComing'
  <2>1. InGame' = InGame
    BY <1>5 DEF InGame
  <2>2. \A a \in InGame : /\ stacks'[a][a].seq_0s[a] = stacks[a][a].seq_0s[a]
                          /\ Follows(a)' => Follows(a)
    <3> SUFFICES ASSUME NEW a \in InGame
                 PROVE  /\ stacks'[a][a].seq_0s[a] = stacks[a][a].seq_0s[a]
                        /\ Follows(a)' => Follows(a)
      OBVIOUS
    <3>1. a \in Node
      BY <1>1 DEF InGame, Client
    <3>2. CASE a # n
      BY <1>5, <1>6, <3>1, <3>2 DEF Follows
    <3>3. CASE a = n
      <4>1. q.stacks[n].seq_0s[n] = stacks[n][n].seq_0s[n]
        BY <1>7, <1>11
      <4>2. ASSUME NEW o \in known[n]
            PROVE  /\ chain[n][o] \in Int /\ stacks[n][o].serial_0_real \in Int
                   /\ q.stacks[o].serial_0_real \in Int
                   /\ q.stacks[o].serial_0_real <= stacks[n][o].serial_0_real
        <5>1. o \in Node /\ o \in r.ids
          BY <1>7
        <5>2. IsStack(stacks[n][o]) /\ IsStack(r.stacks[o])
          BY <1>1, <1>7, <5>1, RegistryParts DEF Sound
        <5>3. stacks[n][o].serial_0_real \in Int /\ r.stacks[o].serial_0_real \in Int
          BY <5>2, StackFields
        <5>4. r.stacks[o].serial_0_real <= stacks[n][o].serial_0_real
          BY <1>8, <5>1, <5>3 DEF Grows
        <5>5. q.stacks[o].serial_0_real = r.stacks[o].serial_0_real
          BY <1>11, <5>1 DEF SameBody
        <5>6. chain[n] \in [Node -> Int]
          BY <1>1 DEF ReadShapes
        <5> QED BY <5>1, <5>3, <5>4, <5>5, <5>6
      <4>3. \A o \in known[n] : o \in q.ids
        BY <1>7, <1>13
      <4>4. Follows(n)' => Follows(n)
        BY <1>5, <1>6, <4>2, <4>3 DEF Follows
      <4> QED BY <1>6, <3>3, <4>1, <4>4
    <3> QED BY <3>2, <3>3
  <2>3. UNCHANGED <<local_seq_last, written, last_seq_reference, delivered>>
    BY <1>5
  <2> QED BY <1>1, <1>14, <1>15, <2>1, <2>2, <2>3, RoundsSame
<1>22. Writes(n, written, written')
  BY <1>1, <1>5, WritesNothing
<1>23. /\ \A s \in 1 .. Len(written'[n]) : s > Len(written[n]) => First[n] <= written'[n][s].seq
       /\ Orderly(written'[n])
  <2>1. Len(written[n]) \in Nat /\ written'[n] = written[n] /\ Orderly(written[n])
    BY <1>1, <1>5 DEF WaitInv
  <2> QED BY <2>1
<1>24. /\ \A a \in net' : a \in net \/ AnswerOK(a, meta)
       /\ UNCHANGED meta
       /\ \A a \in Node : a # n => /\ stacks'[a] = stacks[a] /\ known'[a] = known[a]
                                   /\ chain'[a] = chain[a]
  BY <1>5, <1>6
<1> QED BY <1>14, <1>15, <1>16, <1>17, <1>18, <1>19, <1>20, <1>21, <1>22, <1>23, <1>24, NodeWaits

----------------------------------------------------------------------------
(* Rounds wait for who is let in.                                          *)

\* The stacks of the server once a newcomer is registered.
LEMMA NewcomerBodies ==
  ASSUME TellInv, NEW p, p.serial <= 1, NEW r, NEW q, NEW seq \in Int, Welcomed(p, r, q, seq)
  PROVE  /\ \A o \in Node \ {p.from} : SameBody(stacks[Server][o], r.stacks[o])
         /\ SameBody(StackInit(1), r.stacks[p.from])
<1>1. ComeInv /\ Server \in Node
  BY ConfigAssumption DEF TellInv
<1>2. PICK a \in Node : a = p.from /\ a # Server /\ a \notin known[Server]
  BY DEF Welcomed, Client
<1>3. PICK old : old = Registry(Server)
  OBVIOUS
<1>4. PICK serial \in Int : serial = p.serial
  BY DEF Welcomed
<1>5. /\ seq = local_seq_last[Server]
      /\ r = RegisterNode(old, Server, a, serial, seq)
  BY <1>2, <1>3, <1>4 DEF Welcomed
<1>6. /\ Sound(old) /\ Server \in old.ids /\ old.ids = known[Server] /\ old.stacks = stacks[Server]
  BY <1>1, <1>3, RegistryParts DEF RegistryOK
<1>7. Max2(serial, SERIAL_START) = 1
  BY <1>4 DEF Max2, SERIAL_START
<1>8. PICK begun : begun = Begun(old, a, serial, seq)
  OBVIOUS
<1>9. begun = StackInit(1) /\ IsStack(begun) /\ \A t \in Node : begun.seq_0s[t] >= SEQ_INVALID
  BY <1>2, <1>6, <1>7, <1>8, StackInitSound
<1>10. /\ \A o \in Node \ {a} : SameBody(old.stacks[o], r.stacks[o])
       /\ SameBody(begun, r.stacks[a])
  <2>1. /\ IsStack(Begun(old, a, serial, seq))
        /\ \A t \in Node : Begun(old, a, serial, seq).seq_0s[t] >= SEQ_INVALID
    BY <1>8, <1>9
  <2>2. Sound(old) /\ Server \in old.ids /\ a # Server
    BY <1>2, <1>6
  <2> QED BY <1>5, <1>8, <2>1, <2>2, RegisterNodeDoes
<1> QED BY <1>2, <1>6, <1>9, <1>10

\* What is there once a newcomer is registered and told of.
LEMMA NewcomerDoes ==
  ASSUME OneWindow, TellInv, NEW p, p.serial <= 1, NEW r, NEW q, NEW seq \in Int,
         Welcomed(p, r, q, seq), RegistryOK(r, Server, written, seq)
  PROVE  /\ Server \in Node /\ p.from \in Client /\ p.from \in Node /\ p.from # Server
         /\ p.from \notin known[Server] /\ known[Server] \subseteq Node /\ Server \in known[Server]
         /\ seq = local_seq_last[Server] /\ Seq0 <= seq /\ Seq0 \in Int /\ 0 < Seq0
         /\ NbMeta \in Nat /\ Len(written[Server]) \in Nat
         /\ written \in [Node -> Seq(Atom)]
         /\ known'[Server] = known[Server] \cup {p.from}
         /\ \A o \in Node \ {Server} : stacks'[o] = stacks[o] /\ known'[o] = known[o]
         /\ \A t \in Node \ {p.from} : First'[t] = First[t]
         /\ First'[p.from] = seq
         /\ stacks'[Server] = q.stacks
         /\ \A o \in Node \ {Server, p.from} : SameBody(stacks[Server][o], stacks'[Server][o])
         /\ SameBody(StackInit(1), stacks'[Server][p.from])
         /\ Grows(stacks[Server][Server], stacks'[Server][Server])
<1>1. ComeInv /\ Server \in Node /\ written \in [Node -> Seq(Atom)]
      /\ stacks = [n \in Node |-> stacks[n]] /\ known = [n \in Node |-> known[n]]
      /\ NbMeta \in Nat /\ Seq0 \in Int /\ 0 < Seq0
  BY ConfigAssumption, WindowAssumption DEF TellInv, ComeInv, Shapes, SEQ_START
<1>2. /\ p.from \in Client /\ p.from \in Node /\ p.from # Server /\ p.from \notin known[Server]
      /\ seq = local_seq_last[Server]
  BY DEF Welcomed, Client
<1>3. known[Server] \subseteq Node /\ Server \in known[Server] /\ Len(written[Server]) \in Nat
  BY <1>1, RegistryParts
<1>4. Seq0 <= seq
  BY <1>1, <1>2 DEF ComeInv, ComingOK
<1>5. /\ q.ids = r.ids /\ (\A o \in Node \ {Server} : q.stacks[o] = r.stacks[o])
      /\ PutMetas(r.stacks[Server], q.stacks[Server], NbMeta, seq)
      /\ stacks' = [stacks EXCEPT ![Server] = q.stacks]
      /\ known' = [known EXCEPT ![Server] = q.ids]
      /\ Len(written'[Server]) = Len(written[Server]) + NbMeta
      /\ Len(written'[Server]) <= MaxSerial[Server]
  BY DEF Welcomed, Record
<1>6. /\ r.ids = known[Server] \cup {p.from}
      /\ \A o \in Node : /\ Steady(r.stacks[o]) /\ r.stacks[o].serial_0_real \in Int
                         /\ r.stacks[o].serial_0_real <= 1
      /\ Present(r.stacks[p.from]) = {}
      /\ \A t \in Node \ {p.from} : r.stacks[Server].seq_0s[t] = First[t]
      /\ r.stacks[Server].seq_0s[p.from] = seq
      /\ r.stacks[Server].serial_max = Len(written[Server])
  BY NewcomerIs
<1>7. /\ stacks'[Server] = q.stacks /\ known'[Server] = known[Server] \cup {p.from}
      /\ \A o \in Node \ {Server} : stacks'[o] = stacks[o] /\ known'[o] = known[o]
  BY <1>1, <1>5, <1>6
<1>8. First' = r.stacks[Server].seq_0s
  BY <1>5, <1>7 DEF PutMetas, First
<1>9. /\ \A o \in Node \ {p.from} : SameBody(stacks[Server][o], r.stacks[o])
      /\ SameBody(StackInit(1), r.stacks[p.from])
  BY NewcomerBodies
<1>10. Grows(stacks[Server][Server], stacks'[Server][Server])
  <2>1. r.stacks[Server].serial_max + NbMeta <= SerialN1(SERIAL_START)
    <3>1. Len(written[Server]) + NbMeta <= MaxSerial[Server] /\ MaxSerial[Server] \in Int
      BY <1>1, <1>5, ConfigAssumption
    <3>2. MaxSerial[Server] < SerialN1(SERIAL_START)
      BY <1>1 DEF OneWindow
    <3>3. SerialN1(SERIAL_START) \in Int /\ Len(written[Server]) \in Nat
      BY <1>1, WindowAssumption DEF SerialN1, SERIAL_START
    <3> QED BY <1>1, <1>6, <3>1, <3>2, <3>3
  <2>2. Grows(r.stacks[Server], q.stacks[Server])
    BY <1>1, <1>5, <1>6, <2>1 DEF PutMetas
  <2>3. SameBody(stacks[Server][Server], r.stacks[Server])
    BY <1>1, <1>2, <1>9
  <2>4. /\ Present(r.stacks[Server]) = Present(stacks[Server][Server])
        /\ \A s \in Present(stacks[Server][Server]) :
             AtomAt(r.stacks[Server], s) = AtomAt(stacks[Server][Server], s)
    BY <2>3, BodyKeeps
  <2> QED BY <1>7, <2>2, <2>3, <2>4 DEF Grows, SameBody
<1>11. /\ \A o \in Node \ {Server, p.from} : SameBody(stacks[Server][o], stacks'[Server][o])
       /\ SameBody(StackInit(1), stacks'[Server][p.from])
  BY <1>2, <1>5, <1>7, <1>9
<1> QED BY <1>1, <1>2, <1>3, <1>4, <1>6, <1>7, <1>8, <1>10, <1>11

\* What META tells of the server is a serial before the META itself.
LEMMA NewListServer ==
  ASSUME TellInv, NEW p, p.serial <= 1, NEW r, NEW q, NEW seq \in Int, Welcomed(p, r, q, seq),
         RegistryOK(r, Server, written, seq),
         NEW s \in DOMAIN meta', s \notin DOMAIN meta, s > Len(written[Server]),
         NEW x \in meta'[s], x[1] = Server
  PROVE  x[2] <= s
<1>1. /\ ComeInv /\ Server \in Node /\ Len(written[Server]) \in Nat /\ NbMeta \in Nat
  BY ConfigAssumption, WindowAssumption, RegistryParts DEF TellInv
<1>2. /\ Len(written'[Server]) = Len(written[Server]) + NbMeta
      /\ Len(written'[Server]) <= MaxSerial[Server]
      /\ DOMAIN meta' = 1 .. Len(written'[Server])
  BY DEF Welcomed
<1>3. r.stacks[Server].serial_max = Len(written[Server])
  BY NewcomerIs
<1>4. PICK k \in 0 .. NbMeta : k = s - Len(written[Server]) - 1 /\ s \in Int
  BY <1>1, <1>2
<1>5. PICK new, from :
        /\ PutMetas(r.stacks[Server], new, k, seq) /\ from \in Int
        /\ meta'[s] = {<<o, Seq2Serial([r.stacks EXCEPT ![Server] = new][o], from), from>> :
                          o \in r.ids}
        /\ \A o \in r.ids : (SEQ_INVALID < r.stacks[o].seq_0s[o] /\ r.stacks[o].seq_0s[o] <= seq)
                              => from = seq
  <2>1. /\ IsList(meta'[s])
        /\ \E new, from :
              /\ PutMetas(r.stacks[Server], new, s - Len(written[Server]) - 1, seq) /\ from \in Int
              /\ meta'[s] = {<<o, Seq2Serial([r.stacks EXCEPT ![Server] = new][o], from), from>> :
                                o \in r.ids}
              /\ \A o \in r.ids : (SEQ_INVALID < r.stacks[o].seq_0s[o] /\ r.stacks[o].seq_0s[o] <= seq)
                                    => from = seq
    BY <1>1, NewMetaLists
  <2> QED BY <1>4, <2>1, Zenon
<1>6. PICK w : w = [r.stacks EXCEPT ![Server] = new]
  OBVIOUS
<1>7. w[Server] = new /\ \E N \in Nat : Fits(w[Server], N)
  <2>1. Len(written[Server]) + NbMeta <= MaxSerial[Server]
    BY <1>2
  <2> DEFINE v == [r.stacks EXCEPT ![Server] = new]
  <2>2. /\ r.ids \subseteq Node /\ IsFiniteSet(r.ids)
        /\ v[Server] = new /\ \A o \in Node \ {Server} : v[o] = r.stacks[o]
        /\ \A o \in Node : /\ v[o].seq_0s = r.stacks[o].seq_0s
                           /\ v[o].seq_0s[o] \in Int /\ v[o].seq_0s[o] >= SEQ_INVALID
                           /\ \E N \in Nat : Fits(v[o], N)
    BY <1>1, <1>5, <2>1, MetaSource
  <2>3. w = v
    BY <1>6
  <2> HIDE DEF v
  <2> QED BY <1>1, <2>2, <2>3
<1>8. PICK N \in Nat : Fits(new, N)
  BY <1>7
<1>9. x = <<Server, Seq2Serial(new, from), from>>
  <2>1. PICK o \in r.ids : x = <<o, Seq2Serial(w[o], from), from>>
    BY <1>5, <1>6
  <2>2. o = Server
    BY <2>1
  <2> QED BY <1>7, <2>1, <2>2
<1>10. PICK serial \in Int : serial = Seq2Serial(new, from)
  BY <1>8, Seq2SerialIs
<1>11. serial = 0 \/ \E t \in Present(new) : serial <= t
  BY <1>8, <1>10, Seq2SerialIs
<1>12. \A t \in Present(new) : t \in Int /\ t < s
  <2> SUFFICES ASSUME NEW t \in Present(new) PROVE t \in Int /\ t < s
    OBVIOUS
  <2>1. \/ t \in Present(r.stacks[Server])
        \/ t \in r.stacks[Server].serial_max + 1 .. r.stacks[Server].serial_max + k
    BY <1>5 DEF PutMetas
  <2>2. CASE t \in Present(r.stacks[Server])
    <3>1. Holds(r.stacks[Server], written[Server])
      BY <1>1 DEF RegistryOK
    <3>2. t \in 1 .. Len(written[Server])
      BY <2>2, <3>1 DEF Holds
    <3> QED BY <1>1, <1>4, <3>2
  <2>3. CASE t \in Len(written[Server]) + 1 .. Len(written[Server]) + k
    BY <1>1, <1>4, <2>3
  <2> QED BY <1>3, <2>1, <2>2, <2>3
<1>13. s \in Int /\ s >= 1
  BY <1>1, <1>2
<1>14. serial <= s
  BY <1>11, <1>12, <1>13
<1> QED BY <1>9, <1>10, <1>14

\* Who comes is told of a round that waits for it, and so are the others.
LEMMA WelcomeNames ==
  ASSUME OneWindow, NbMeta # 0, WaitInv, NEW p, p.serial <= 1, NEW r, NEW q, NEW seq \in Int,
         Welcomed(p, r, q, seq), RegistryOK(r, Server, written, seq)
  PROVE  NamesOK(meta, written, First, known[Server])'
<1> DEFINE a == p.from
           len == Len(written[Server])
<1>1. PICK first : first = First'
  OBVIOUS
<1>2. PICK ids : ids = known'[Server]
  OBVIOUS
<1>3. TellInv /\ ComeInv
  BY DEF WaitInv, TellInv
<1>4. /\ Server \in Node /\ a \in Client /\ a \in Node /\ a # Server
      /\ a \notin known[Server] /\ known[Server] \subseteq Node /\ Server \in known[Server]
      /\ seq \in Int /\ len \in Nat /\ NbMeta \in Nat
      /\ ids = known[Server] \cup {a}
      /\ \A t \in Node \ {a} : first[t] = First[t]
      /\ first[a] = seq
  BY <1>1, <1>2, <1>3, NewcomerDoes
<1>5. /\ Writes(Server, written, written')
      /\ Len(written'[Server]) = len + NbMeta
      /\ DOMAIN meta' = 1 .. Len(written'[Server])
      /\ \A s \in DOMAIN meta' :
           \/ s \in DOMAIN meta /\ meta'[s] = meta[s]
           \/ s \notin DOMAIN meta /\ s <= len /\ meta'[s] = {}
           \/ s \notin DOMAIN meta /\ s > len
      /\ \A s \in 1 .. Len(written'[Server]) : s > len =>
           written'[Server][s] = [MetaAtom EXCEPT !.seq = seq]
  BY DEF Welcomed
<1>6. \A s \in DOMAIN meta : s \in 1 .. len /\ s \in DOMAIN meta' /\ meta'[s] = meta[s]
                             /\ written'[Server][s] = written[Server][s]
  <2>1. \A s \in DOMAIN meta : s \in 1 .. len
    BY <1>3 DEF ComeInv, AuthorsOK
  <2> QED BY <1>4, <1>5, <2>1 DEF Writes
<1>7. ListsOK(meta, written, First, known[Server]) /\ NamesOK(meta, written, First, known[Server])
  BY <1>3 DEF TellInv, WaitInv
<1>8. ASSUME NEW s \in DOMAIN meta PROVE Whom(meta[s]) \subseteq known[Server]
  <2> SUFFICES ASSUME NEW x \in meta[s] PROVE x[1] \in known[Server]
    BY DEF Whom
  <2> QED BY <1>7 DEF ListsOK, TellsOf
<1>9. ASSUME NEW s \in DOMAIN meta', s \notin DOMAIN meta, s > len
      PROVE  /\ Whom(meta'[s]) = ids /\ s \in Int
             /\ \A x \in meta'[s] : x[1] \in ids /\ x[3] = seq /\ (x[1] = Server => x[2] <= s)
             /\ written'[Server][s].type = META /\ written'[Server][s].seq = seq
  <2>1. /\ Whom(meta'[s]) = known[Server] \cup {p.from}
        /\ \A x \in meta'[s] :
              /\ TellsOf(x, written', known[Server] \cup {p.from}, seq)
              /\ x[1] = p.from => x[2] <= SERIAL_START
    BY <1>3, <1>9, NewListOK
  <2>2. \A x \in meta'[s] : x[1] = Server => x[2] <= s
    BY <1>3, <1>9, NewListServer
  <2>3. [MetaAtom EXCEPT !.seq = seq].seq = seq /\ [MetaAtom EXCEPT !.seq = seq].type = META
    BY DEF MetaAtom
  <2>4. s \in Int /\ written'[Server][s] = [MetaAtom EXCEPT !.seq = seq]
    BY <1>4, <1>5, <1>9
  <2> QED BY <1>4, <2>1, <2>2, <2>3, <2>4 DEF TellsOf
<1>10. PICK m \in DOMAIN meta' : m \notin DOMAIN meta /\ m > len
  <2>1. len + 1 \in DOMAIN meta'
    BY <1>4, <1>5
  <2>2. len + 1 \notin DOMAIN meta /\ len + 1 > len
    BY <1>4, <1>6
  <2> QED BY <2>1, <2>2
<1> HIDE DEF a, len
<1>11. ASSUME NEW s \in DOMAIN meta', meta'[s] # {}
       PROVE  written'[Server][s].type = META /\ Server \in Whom(meta'[s])
  <2>1. CASE s \in DOMAIN meta
    BY <1>6, <1>7, <1>11, <2>1 DEF NamesOK
  <2>2. CASE s \notin DOMAIN meta
    BY <1>4, <1>5, <1>9, <1>11, <2>2
  <2> QED BY <2>1, <2>2
<1>12. ASSUME NEW s \in DOMAIN meta', NEW t \in DOMAIN meta', s < t, meta'[t] # {}
       PROVE  Whom(meta'[s]) \subseteq Whom(meta'[t])
  <2>1. CASE meta'[s] = {}
    BY <2>1 DEF Whom
  <2>2. CASE s \in DOMAIN meta /\ t \in DOMAIN meta
    BY <1>6, <1>7, <1>12, <2>2 DEF NamesOK
  <2>3. CASE s \in DOMAIN meta /\ t \notin DOMAIN meta
    <3>1. Whom(meta'[t]) = ids
      BY <1>5, <1>9, <1>12, <2>3
    <3> QED BY <1>4, <1>6, <1>8, <2>3, <3>1
  <2>4. CASE s \notin DOMAIN meta /\ t \notin DOMAIN meta /\ meta'[s] # {}
    BY <1>5, <1>9, <1>12, <2>4
  <2>5. CASE s \notin DOMAIN meta /\ t \in DOMAIN meta /\ meta'[s] # {}
    <3>1. s > len /\ s \in Int
      BY <1>5, <1>9, <2>5
    <3>2. t \in 1 .. len
      BY <1>6, <2>5
    <3> QED BY <1>4, <1>12, <3>1, <3>2
  <2> QED BY <2>1, <2>2, <2>3, <2>4, <2>5
<1>13. ASSUME NEW s \in DOMAIN meta', NEW x \in meta'[s]
       PROVE  /\ x[1] = Server => x[2] <= s
              /\ \A c \in Client \cap Whom(meta'[s]) :
                   \/ x[3] <= Max2(first[c], first[x[1]])
                   \/ \E t \in DOMAIN meta' : t < s /\ {c, x[1]} \subseteq Whom(meta'[t])
  <2>1. CASE s \in DOMAIN meta
    <3>1. meta'[s] = meta[s] /\ x \in meta[s] /\ x[1] \in Whom(meta[s])
      BY <1>6, <1>13, <2>1 DEF Whom
    <3>2. x[1] = Server => x[2] <= s
      BY <1>7, <2>1, <3>1 DEF NamesOK
    <3>3. ASSUME NEW c \in Client \cap Whom(meta[s])
          PROVE  \/ x[3] <= Max2(first[c], first[x[1]])
                 \/ \E t \in DOMAIN meta' : t < s /\ {c, x[1]} \subseteq Whom(meta'[t])
      <4>1. c \in known[Server] /\ x[1] \in known[Server]
        BY <1>8, <2>1, <3>1
      <4>2. first[c] = First[c] /\ first[x[1]] = First[x[1]]
        BY <1>4, <4>1
      <4>3. \/ x[3] <= Max2(First[c], First[x[1]])
            \/ \E t \in DOMAIN meta : t < s /\ {c, x[1]} \subseteq Whom(meta[t])
        BY <1>7, <2>1, <3>1 DEF NamesOK
      <4> QED BY <1>6, <4>2, <4>3
    <3> QED BY <3>1, <3>2, <3>3
  <2>2. CASE s \notin DOMAIN meta
    <3>1. s > len /\ s \in Int /\ Whom(meta'[s]) = ids /\ x[1] \in ids /\ x[3] = seq
          /\ (x[1] = Server => x[2] <= s)
      BY <1>5, <1>9, <1>13, <2>2
    <3>2. ASSUME NEW c \in Client \cap ids
          PROVE  \/ x[3] <= Max2(first[c], first[x[1]])
                 \/ \E t \in DOMAIN meta' : t < s /\ {c, x[1]} \subseteq Whom(meta'[t])
      <4>1. CASE c = a \/ x[1] = a
        <5>1. first[c] \in Int /\ first[x[1]] \in Int
          <6>1. \A t \in Node : First[t] \in Int
            BY <1>3, <1>4, SeqsAre DEF SeqsTyped, First
          <6> QED BY <1>4, <3>1, <6>1
        <5> QED BY <1>4, <3>1, <4>1, <5>1 DEF Max2
      <4>2. CASE c # a /\ x[1] # a
        <5>1. c \in known[Server] /\ x[1] \in known[Server] /\ c # Server
          BY <1>4, <3>1, <4>2 DEF Client
        <5>2. PICK t \in DOMAIN meta : Whom(meta[t]) = known[Server]
          BY <1>7, <5>1 DEF ListsOK
        <5>3. t < s /\ t \in DOMAIN meta' /\ meta'[t] = meta[t]
          BY <1>4, <1>6, <3>1, <5>2
        <5> QED BY <5>1, <5>2, <5>3
      <4> QED BY <4>1, <4>2
    <3> QED BY <3>1, <3>2
  <2> QED BY <2>1, <2>2
<1>14. ASSUME NEW c \in Client \cap ids, NEW o \in ids \ {c}
       PROVE  \E s \in DOMAIN meta' :
                {c, o} \subseteq Whom(meta'[s]) /\ written'[Server][s].seq <= Max2(first[o], first[c])
  <2>1. CASE c \in known[Server] /\ o \in known[Server]
    <3>1. PICK s \in DOMAIN meta :
            {c, o} \subseteq Whom(meta[s]) /\ written[Server][s].seq <= Max2(First[o], First[c])
      BY <1>7, <1>14, <2>1 DEF NamesOK
    <3>2. first[c] = First[c] /\ first[o] = First[o]
      BY <1>4, <2>1
    <3> QED BY <1>6, <3>1, <3>2
  <2>2. CASE c = a \/ o = a
    <3>1. first[c] \in Int /\ first[o] \in Int
      <4>1. \A t \in Node : First[t] \in Int
        BY <1>3, <1>4, SeqsAre DEF SeqsTyped, First
      <4> QED BY <1>4, <1>14, <4>1
    <3>2. seq <= Max2(first[o], first[c])
      BY <1>4, <2>2, <3>1 DEF Max2
    <3>3. Whom(meta'[m]) = ids /\ written'[Server][m].seq = seq
      BY <1>9, <1>10
    <3> QED BY <1>14, <3>2, <3>3
  <2> QED BY <1>4, <1>14, <2>1, <2>2
<1>15. NamesOK(meta', written', first, ids)
  BY <1>11, <1>12, <1>13, <1>14 DEF NamesOK
<1> QED BY <1>1, <1>2, <1>15

\* The one JOIN about a newcomer is its answer.
LEMMA WelcomeJoiner ==
  ASSUME OneWindow, ~Redundant, WaitInv, NEW p \in net, RecvJoin(p), p.from \notin known[p.to],
         p.serial <= 1, NEW r, NEW q, NEW seq \in Int,
         Welcomed(p, r, q, seq), RegistryOK(r, Server, written, seq), NEW c \in Client
  PROVE  JoinerOK(c)'
<1>1. TellInv /\ ComeInv /\ JoinerOK(c) /\ c \in Node /\ c # Server
  BY DEF WaitInv, TellInv, Client
<1>2. /\ p.from \in Client /\ p.from \in Node /\ p.from # Server /\ p.from \notin known[Server]
      /\ Server \in Node /\ 0 < seq /\ known'[Server] = known[Server] \cup {p.from}
      /\ \A o \in Node \ {Server} : stacks'[o] = stacks[o] /\ known'[o] = known[o]
      /\ \A t \in Node \ {p.from} : First'[t] = First[t]
  BY <1>1, NewcomerDoes
<1>3. UNCHANGED <<local_seq_last, last_seq_reference, delivered, chain, status>>
  BY DEF Welcomed
<1>4. p.to = Server /\ p.cmd = "JOIN" /\ p.seq = 0
  BY DEF Welcomed, RecvJoin
<1>5. PICK ans : net' = (net \ {p}) \cup {ans} /\ ans.cmd = "JOIN" /\ ans.from = Server
                 /\ ans.to = p.from /\ ans.seq # 0
  <2> DEFINE it == JoinPacket(p.from, Server, seq, stacks[Server][Server].serial_max)
  <2>1. seq = local_seq_last[Server]
    BY DEF Welcomed
  <2>2. net' = (net \ {p}) \cup {it}
    BY <1>4, <2>1 DEF RecvJoin, Received
  <2>3. it.cmd = "JOIN" /\ it.from = Server /\ it.to = p.from /\ it.seq = seq
    BY DEF JoinPacket
  <2> HIDE DEF it
  <2> QED BY <1>2, <2>2, <2>3
<1>6. CASE c # p.from
  <2>1. \A a \in net' : About(a, c) => a \in net
    BY <1>1, <1>5, <1>6 DEF About
  <2>2. First'[c] = First[c] /\ (c \in known'[Server] <=> c \in known[Server])
        /\ known[c] \subseteq known'[c]
    BY <1>1, <1>2, <1>6
  <2>3. local_seq_last[c] \in Int /\ First[c] \in Int
    BY <1>1, <1>2, RegistryParts, SeqsAre DEF SeqsTyped, First
  <2>4. local_seq_last'[c] = local_seq_last[c] /\ last_seq_reference'[c] = last_seq_reference[c]
        /\ chain'[c] = chain[c] /\ status'[c] = status[c]
    BY <1>3
  <2> QED BY <1>1, <2>1, <2>2, <2>3, <2>4, JoinerOn
<1>7. CASE c = p.from
  <2>1. About(p, c)
    BY <1>4, <1>7 DEF About
  <2>2. /\ status[c] \in {"asking", "failed"} /\ local_seq_last[c] = SEQ_START
        /\ \A a \in net : About(a, c) => a = p
    BY <1>1, <2>1 DEF JoinerOK
  <2>3. \A a \in net' : About(a, c) => a = ans
    BY <1>5, <2>2
  <2>4. c \in known'[Server]
    BY <1>2, <1>7
  <2>5. /\ status'[c] \in {"asking", "failed"} /\ local_seq_last'[c] = SEQ_START
    BY <1>3, <2>2
  <2>6. /\ last_seq_reference'[c] = SEQ_INVALID - 1
        /\ \A o \in Node : chain'[c][o] = 0
    BY <1>1, <1>3, <2>2 DEF JoinerOK
  <2>7. ASSUME NEW a \in net', About(a, c)
        PROVE  /\ status'[c] \in {"asking", "failed"} /\ local_seq_last'[c] = SEQ_START
               /\ a.seq = 0 <=> c \notin known'[Server]
               /\ \A b \in net' : About(b, c) => b = a
    BY <1>5, <2>3, <2>4, <2>5, <2>7
  <2>8. (\A a \in net : About(a, c) =>
           /\ status[c] \in {"asking", "failed"} /\ local_seq_last[c] = SEQ_START
           /\ a.seq = 0 <=> c \notin known[Server]
           /\ \A b \in net : About(b, c) => b = a)'
    BY <2>7 DEF About
  <2> QED BY <2>5, <2>6, <2>8 DEF JoinerOK
<1> QED BY <1>6, <1>7

\* Who has not heard the new META looks for holes from before it.
LEMMA WelcomeAwaits ==
  ASSUME OneWindow, WaitInv, NEW p, p.serial <= 1, NEW r, NEW q, NEW seq \in Int,
         Welcomed(p, r, q, seq), RegistryOK(r, Server, written, seq), NEW c \in Client
  PROVE  AwaitsOK(c, known[c], stacks[c][Server], meta)'
<1>1. TellInv /\ ComeInv /\ c \in Node /\ c # Server
      /\ AwaitsOK(c, known[c], stacks[c][Server], meta)
  BY DEF WaitInv, TellInv, Client
<1>2. /\ Server \in Node /\ Len(written[Server]) \in Nat
      /\ \A o \in Node \ {Server} : stacks'[o] = stacks[o] /\ known'[o] = known[o]
  BY <1>1, NewcomerDoes
<1>3. /\ DOMAIN meta' = 1 .. Len(written'[Server])
      /\ Len(written'[Server]) = Len(written[Server]) + NbMeta
      /\ \A s \in DOMAIN meta' :
           \/ s \in DOMAIN meta /\ meta'[s] = meta[s]
           \/ s \notin DOMAIN meta /\ s <= Len(written[Server]) /\ meta'[s] = {}
           \/ s \notin DOMAIN meta /\ s > Len(written[Server])
  BY DEF Welcomed
<1>4. PICK st : st = stacks[c][Server]
  OBVIOUS
<1>5. IsStack(st) /\ Holds(st, written[Server])
  BY <1>1, <1>2, <1>4, RegistryParts
<1>6. st.serial_0_real \in Int
  BY <1>5, StackFields
<1>7. Server \in known[c] => st.serial_0_real <= Len(written[Server]) + 1
  <2>1. ToldOK(Registry(c), c, written, First, known[Server])
    BY <1>1 DEF TellInv
  <2>2. Registry(c).ids = known[c] /\ Registry(c).stacks = stacks[c]
    BY <1>1, RegistryParts
  <2> QED BY <1>4, <2>1, <2>2 DEF ToldOK
<1>8. ASSUME NEW s \in DOMAIN meta'
      PROVE  /\ s \in Present(st) => Whom(meta'[s]) \subseteq known[c]
             /\ Server \in known[c] /\ c \in Whom(meta'[s]) => st.serial_0_real <= s
  <2>1. CASE s \in DOMAIN meta /\ meta'[s] = meta[s]
    BY <1>1, <1>4, <2>1 DEF AwaitsOK
  <2>2. CASE meta'[s] = {}
    BY <2>2 DEF Whom
  <2>3. CASE s > Len(written[Server])
    <3>1. s \in Nat
      BY <1>3
    <3>2. s \notin Present(st)
      BY <1>2, <1>5, <2>3, <3>1 DEF Holds
    <3> QED BY <1>2, <1>6, <1>7, <2>3, <3>1, <3>2
  <2> QED BY <1>3, <2>1, <2>2, <2>3
<1>9. AwaitsOK(c, known'[c], stacks'[c][Server], meta')
  <2>1. stacks'[c][Server] = st /\ known'[c] = known[c]
    BY <1>1, <1>2, <1>4
  <2> QED BY <1>8, <2>1 DEF AwaitsOK
<1> QED BY <1>9

\* The answer tells of the serial before the new META, and no other META lists who
\* it goes to.
LEMMA WelcomeAnswers ==
  ASSUME OneWindow, WaitInv, NEW p, p.serial <= 1, NEW r, NEW q, NEW seq \in Int,
         Welcomed(p, r, q, seq), RegistryOK(r, Server, written, seq), NEW a \in net'
  PROVE  AnswerOK(a, meta')
<1>1. TellInv /\ ComeInv
  BY DEF WaitInv, TellInv
<1>2. /\ Server \in Node /\ Len(written[Server]) \in Nat /\ p.from \notin known[Server]
  BY <1>1, NewcomerDoes
<1>3. /\ DOMAIN meta' = 1 .. Len(written'[Server])
      /\ \A s \in DOMAIN meta' :
           \/ s \in DOMAIN meta /\ meta'[s] = meta[s]
           \/ s \notin DOMAIN meta /\ s <= Len(written[Server]) /\ meta'[s] = {}
           \/ s \notin DOMAIN meta /\ s > Len(written[Server])
      /\ a \in net \/ a = JoinPacket(p.from, Server, seq, Len(written[Server]))
  BY DEF Welcomed
<1>4. ASSUME a.cmd = "JOIN", a.seq # 0
      PROVE  /\ a.serial \in Int /\ a.serial <= Len(written[Server])
             /\ \A s \in DOMAIN meta : a.to \in Whom(meta[s]) => a.serial < s
  <2>1. CASE a \in net
    <3>1. Flies(a, written) /\ TellsOK(a, written, First, known[Server]) /\ AnswerOK(a, meta)
      BY <1>1, <2>1 DEF WaitInv, TellInv, ComeInv
    <3>2. Answers(a)
      BY <1>4, <3>1 DEF Flies, AtomFlies, Asks, DATA, META
    <3>3. a.serial \in Int /\ a.serial <= Len(written[Server])
      BY <1>4, <3>1, <3>2 DEF Answers, TellsOK
    <3> QED BY <1>4, <3>1, <3>3 DEF AnswerOK
  <2>2. CASE a = JoinPacket(p.from, Server, seq, Len(written[Server]))
    <3>1. a.to = p.from /\ a.serial = Len(written[Server])
      BY <2>2 DEF JoinPacket
    <3>2. ASSUME NEW s \in DOMAIN meta PROVE Whom(meta[s]) \subseteq known[Server]
      <4> SUFFICES ASSUME NEW x \in meta[s] PROVE x[1] \in known[Server]
        BY DEF Whom
      <4>1. ListsOK(meta, written, First, known[Server])
        BY <1>1 DEF TellInv
      <4> QED BY <4>1 DEF ListsOK, TellsOf
    <3> QED BY <1>2, <3>1, <3>2
  <2> QED BY <1>3, <2>1, <2>2
<1>5. ASSUME a.cmd = "JOIN", a.seq # 0, NEW s \in DOMAIN meta', a.to \in Whom(meta'[s])
      PROVE  a.serial < s
  <2>1. CASE s \in DOMAIN meta /\ meta'[s] = meta[s]
    BY <1>4, <1>5, <2>1
  <2>2. CASE meta'[s] = {}
    BY <1>5, <2>2 DEF Whom
  <2>3. CASE s > Len(written[Server])
    <3>1. s \in Nat
      BY <1>3
    <3> QED BY <1>2, <1>4, <1>5, <2>3, <3>1
  <2> QED BY <1>3, <2>1, <2>2, <2>3
<1> QED BY <1>5 DEF AnswerOK

\* The newcomer has written nothing, and the server writes for the round it is at.
LEMMA WelcomeFirsts ==
  ASSUME OneWindow, WaitInv, NEW p, p.serial <= 1, NEW r, NEW q, NEW seq \in Int,
         Welcomed(p, r, q, seq), RegistryOK(r, Server, written, seq)
  PROVE  FirstsOK(First, known[Server], written)'
<1>1. PICK first : first = First'
  OBVIOUS
<1>2. TellInv /\ ComeInv /\ FirstsOK(First, known[Server], written)
  BY DEF WaitInv, TellInv
<1>3. /\ Server \in Node /\ p.from \in Client /\ p.from \in Node /\ p.from # Server
      /\ p.from \notin known[Server] /\ Len(written[Server]) \in Nat
      /\ known'[Server] = known[Server] \cup {p.from} /\ Seq0 <= seq /\ Seq0 \in Int
      /\ known[Server] \subseteq Node
      /\ \A t \in Node \ {p.from} : first[t] = First[t]
      /\ first[p.from] = seq
  BY <1>1, <1>2, NewcomerDoes
<1>4. Writes(Server, written, written')
  BY DEF Welcomed
<1>5. \A o \in known'[Server] : Seq0 <= first[o]
  BY <1>2, <1>3 DEF FirstsOK
<1>6. ASSUME NEW o \in Node, NEW s \in 1 .. Len(written'[o]) PROVE first[o] <= written'[o][s].seq
  <2>1. CASE o = p.from
    <3>1. status[o] # "in"
      BY <1>2, <1>3, <2>1 DEF TellInv
    <3>2. written[o] = <<>>
      BY <1>2, <1>3, <2>1, <3>1 DEF ComeInv, ComingOK
    <3>3. written'[o] = written[o]
      BY <1>3, <1>4, <2>1 DEF Writes
    <3> QED BY <3>2, <3>3
  <2>2. CASE o = Server /\ s > Len(written[Server])
    <3>1. written'[Server][s].seq = seq
      BY <1>2, <1>6, <2>2, WelcomeWrites
    <3>2. first[Server] = Seq0
      BY <1>2, <1>3 DEF TellInv
    <3> QED BY <1>3, <2>2, <3>1, <3>2
  <2>3. CASE o # p.from /\ ~(o = Server /\ s > Len(written[Server]))
    <3>1. s \in 1 .. Len(written[o]) /\ written'[o][s] = written[o][s]
      BY <1>3, <1>4, <1>6, <2>3 DEF Writes
    <3> QED BY <1>2, <1>3, <2>3, <3>1 DEF FirstsOK
  <2> QED BY <2>1, <2>2, <2>3
<1>7. FirstsOK(first, known'[Server], written')
  BY <1>5, <1>6 DEF FirstsOK
<1> QED BY <1>1, <1>7

\* Messages of one atom put after whole messages, for a round no earlier than theirs.
LEMMA OrderlySingles ==
  ASSUME NEW w \in Seq(Atom), NEW v \in Seq(Atom), Orderly(w), Len(w) <= Len(v),
         \A s \in 1 .. Len(w) : v[s] = w[s],
         \A s \in 1 .. Len(v) : s > Len(w) => v[s].order_i = 0 /\ v[s].order_n = 1,
         \A s, t \in 1 .. Len(v) : s < t => v[s].seq <= v[t].seq
  PROVE  Orderly(v)
<1>1. Len(w) \in Nat /\ Len(v) \in Nat
  OBVIOUS
<1>2. ASSUME NEW s \in 1 .. Len(v)
      PROVE  /\ 1 <= HeadIn(v, s) /\ s <= EndIn(v, s) /\ EndIn(v, s) <= Len(v)
             /\ \A t \in HeadIn(v, s) .. EndIn(v, s) :
                  /\ HeadIn(v, t) = HeadIn(v, s)
                  /\ v[t].order_n = v[s].order_n /\ v[t].seq = v[s].seq
  <2>1. CASE s \in 1 .. Len(w)
    <3>1. /\ 1 <= HeadIn(w, s) /\ s <= EndIn(w, s) /\ EndIn(w, s) <= Len(w)
          /\ \A t \in HeadIn(w, s) .. EndIn(w, s) :
               /\ HeadIn(w, t) = HeadIn(w, s)
               /\ w[t].order_n = w[s].order_n /\ w[t].seq = w[s].seq
      BY <2>1 DEF Orderly
    <3>2. HeadIn(v, s) = HeadIn(w, s) /\ EndIn(v, s) = EndIn(w, s)
      BY <2>1 DEF HeadIn, EndIn
    <3>3. HeadIn(w, s) \in 1 .. Len(w) /\ EndIn(w, s) \in 1 .. Len(w)
      BY <2>1, MessageOf
    <3>4. \A t \in HeadIn(w, s) .. EndIn(w, s) : t \in 1 .. Len(w) /\ v[t] = w[t]
                                                 /\ HeadIn(v, t) = HeadIn(w, t)
      BY <1>1, <3>3 DEF HeadIn
    <3>5. v[s] = w[s]
      BY <2>1
    <3> QED BY <1>1, <3>1, <3>2, <3>3, <3>4, <3>5
  <2>2. CASE s > Len(w)
    <3>1. HeadIn(v, s) = s /\ EndIn(v, s) = s
      BY <2>2 DEF HeadIn, EndIn
    <3> QED BY <1>1, <3>1
  <2> QED BY <1>1, <2>1, <2>2
<1>3. ASSUME NEW s \in 1 .. Len(v), NEW t \in 1 .. Len(v), s <= t
      PROVE  v[s].seq <= v[t].seq
  <2>1. CASE s = t
    <3>1. v[s].seq \in Int
      BY SeqIsInt
    <3> QED BY <2>1, <3>1
  <2>2. CASE s # t
    BY <1>3, <2>2
  <2> QED BY <2>1, <2>2
<1> QED BY <1>2, <1>3 DEF Orderly

\* META are messages of one atom.
LEMMA WelcomeOrderly ==
  ASSUME OneWindow, WaitInv, NEW p, p.serial <= 1, NEW r, NEW q, NEW seq \in Int,
         Welcomed(p, r, q, seq), NEW o \in Node
  PROVE  Orderly(written'[o])
<1>1. TellInv /\ ComeInv /\ Orderly(written[o]) /\ written \in [Node -> Seq(Atom)] /\ Server \in Node
  BY ConfigAssumption DEF WaitInv, TellInv, ComeInv, Shapes
<1>2. /\ Writes(Server, written, written')
      /\ \A s \in 1 .. Len(written'[Server]) : s > Len(written[Server]) =>
           written'[Server][s] = [MetaAtom EXCEPT !.seq = seq]
  BY DEF Welcomed
<1>3. CASE o # Server
  BY <1>1, <1>2, <1>3 DEF Writes
<1>4. CASE o = Server
  <2>1. [MetaAtom EXCEPT !.seq = seq].order_i = 0 /\ [MetaAtom EXCEPT !.seq = seq].order_n = 1
    BY DEF MetaAtom
  <2>2. \A s \in 1 .. Len(written'[o]) : s > Len(written[o]) =>
          written'[o][s].order_i = 0 /\ written'[o][s].order_n = 1
    BY <1>2, <1>4, <2>1
  <2>3. InSeqOrder(written'[o], local_seq_last[o])
    BY <1>1, WelcomeWrites
  <2>4. \A s, t \in 1 .. Len(written'[o]) : s < t => written'[o][s].seq <= written'[o][t].seq
    BY <2>3 DEF InSeqOrder
  <2>5. /\ written[o] \in Seq(Atom) /\ written'[o] \in Seq(Atom)
        /\ Len(written[o]) <= Len(written'[o])
        /\ \A s \in 1 .. Len(written[o]) : written'[o][s] = written[o][s]
    BY <1>1, <1>2, <1>4, WritesOn
  <2> QED BY <1>1, <2>2, <2>4, <2>5, OrderlySingles
<1> QED BY <1>3, <1>4

\* The references of the server are what they were, and the newcomer has none.
LEMMA WelcomeFollowed ==
  ASSUME OneWindow, WaitInv, NEW p, p.serial <= 1, NEW r, NEW q, NEW seq \in Int,
         Welcomed(p, r, q, seq), RegistryOK(r, Server, written, seq)
  PROVE  /\ \A o \in Node : FollowedOK(stacks'[Server][o], chain'[Server][o])
         /\ UnknownOK(Server)'
         /\ Follows(Server)' => Follows(Server)
<1>1. TellInv /\ ComeInv /\ UnknownOK(Server) /\ Server \in Node
  BY ConfigAssumption DEF WaitInv, TellInv
<1>2. /\ p.from \in Node /\ p.from # Server
      /\ p.from \notin known[Server] /\ known[Server] \subseteq Node /\ Server \in known[Server]
      /\ known'[Server] = known[Server] \cup {p.from} /\ stacks'[Server] = q.stacks
      /\ \A o \in Node \ {Server, p.from} : SameBody(stacks[Server][o], stacks'[Server][o])
      /\ SameBody(StackInit(1), stacks'[Server][p.from])
      /\ Grows(stacks[Server][Server], stacks'[Server][Server])
  BY <1>1, NewcomerDoes
<1>3. chain' = chain
  BY DEF Welcomed
<1>4. chain[Server][p.from] = 0
  BY <1>1, <1>2 DEF UnknownOK
<1>5. ASSUME NEW o \in Node PROVE FollowedOK(stacks'[Server][o], chain[Server][o])
  <2>1. FollowedOK(stacks[Server][o], chain[Server][o])
    BY <1>1 DEF WaitInv
  <2>2. CASE o = p.from
    <3>1. StackInit(1).serial_reference = 0
      BY StackInitIs
    <3>2. stacks'[Server][o].serial_reference = 0
      BY <1>2, <2>2, <3>1 DEF SameBody
    <3> QED BY <1>4, <2>2, <3>2, FollowedNot
  <2>3. CASE o = Server
    <3>1. /\ stacks'[Server][o].serial_reference = stacks[Server][o].serial_reference
          /\ \A s \in Present(stacks[Server][o]) :
               s \in Present(stacks'[Server][o])
               /\ AtomAt(stacks'[Server][o], s) = AtomAt(stacks[Server][o], s)
      BY <1>2, <2>3 DEF Grows
    <3> QED BY <2>1, <3>1, FollowedGrows
  <2>4. CASE o # Server /\ o # p.from
    <3>1. SameBody(stacks[Server][o], stacks'[Server][o])
      BY <1>2, <2>4
    <3>2. /\ stacks'[Server][o].serial_reference = stacks[Server][o].serial_reference
          /\ \A s \in Present(stacks[Server][o]) :
               s \in Present(stacks'[Server][o])
               /\ AtomAt(stacks'[Server][o], s) = AtomAt(stacks[Server][o], s)
      BY <3>1, BodyKeeps DEF SameBody
    <3> QED BY <2>1, <3>2, FollowedGrows
  <2> QED BY <2>2, <2>3, <2>4
<1>6. ASSUME NEW o \in Node \ known'[Server]
      PROVE  Present(stacks'[Server][o]) = {} /\ chain'[Server][o] = 0
  <2>1. o \in Node \ known[Server] /\ SameBody(stacks[Server][o], stacks'[Server][o])
    BY <1>2, <1>6
  <2> QED BY <1>1, <1>3, <2>1, BodyKeeps DEF UnknownOK
<1>7. ASSUME \A o \in known'[Server] : chain'[Server][o] <= stacks'[Server][o].serial_0_real,
             NEW o \in known[Server]
      PROVE  chain[Server][o] <= stacks[Server][o].serial_0_real
  <2>1. chain[Server][o] <= stacks'[Server][o].serial_0_real
    BY <1>2, <1>3, <1>7
  <2>2. CASE o = Server
    <3>1. stacks'[Server][o].serial_0_real <= stacks[Server][o].serial_0_real
      BY <1>2, <2>2 DEF Grows
    <3>2. /\ stacks[Server][o].serial_0_real \in Int /\ stacks'[Server][o].serial_0_real \in Int
          /\ chain[Server][o] \in Int
      <4>1. IsStack(stacks[Server][o])
        BY <1>1, <1>2, RegistryParts
      <4>2. IsStack(stacks'[Server][o])
        <5>1. IsStack(q.stacks[Server])
          BY DEF Welcomed, PutMetas
        <5> QED BY <1>2, <2>2, <5>1
      <4>3. FollowedOK(stacks[Server][o], chain[Server][o])
        BY <1>1, <1>2 DEF WaitInv
      <4> QED BY <4>1, <4>2, <4>3, StackFields DEF FollowedOK
    <3> QED BY <2>1, <3>1, <3>2
  <2>3. CASE o # Server
    <3>1. o \in Node \ {Server, p.from}
      BY <1>2, <2>3
    <3> QED BY <1>2, <2>1, <3>1 DEF SameBody
  <2> QED BY <2>2, <2>3
<1>8. UnknownOK(Server)'
  BY <1>6 DEF UnknownOK
<1>9. Follows(Server)' => Follows(Server)
  BY <1>7 DEF Follows
<1> QED BY <1>3, <1>5, <1>8, <1>9

\* The newcomer plays from the round the server is at.
LEMMA WelcomeRounds ==
  ASSUME OneWindow, WaitInv, ComeInv', NEW p, p.serial <= 1, NEW r, NEW q, NEW seq \in Int,
         Welcomed(p, r, q, seq), RegistryOK(r, Server, written, seq)
  PROVE  RoundsWaitForNewcomers' /\ NothingMissedByComing'
<1>1. TellInv /\ ComeInv /\ written \in [Node -> Seq(Atom)] /\ ReadShapes
  BY DEF WaitInv, TellInv, ComeInv, Shapes
<1>2. /\ Server \in Node /\ p.from \in Client /\ p.from \in Node /\ p.from # Server
      /\ p.from \notin known[Server] /\ known[Server] \subseteq Node /\ Server \in known[Server]
      /\ seq = local_seq_last[Server]
      /\ known'[Server] = known[Server] \cup {p.from}
      /\ \A o \in Node \ {Server} : stacks'[o] = stacks[o] /\ known'[o] = known[o]
      /\ \A t \in Node \ {p.from} : First'[t] = First[t]
      /\ First'[p.from] = seq
  BY <1>1, NewcomerDoes
<1>3. /\ UNCHANGED <<local_seq_last, last_seq_reference, delivered, chain, status>>
      /\ Writes(Server, written, written')
      /\ \A s \in 1 .. Len(written'[Server]) : s > Len(written[Server]) =>
           written'[Server][s] = [MetaAtom EXCEPT !.seq = seq]
  BY DEF Welcomed
<1>4. ReadShapes'
  BY <1>1, <1>3 DEF ReadShapes
<1>5. InGame' = InGame /\ status[p.from] # "in" /\ InGame \subseteq Node
  BY <1>1, <1>2, <1>3 DEF InGame, TellInv, Client
<1>6. ASSUME NEW a \in InGame'
      PROVE  \/ /\ a \in InGame /\ last_seq_reference'[a] = last_seq_reference[a]
                /\ delivered'[a] = delivered[a]
                /\ stacks'[a][a].seq_0s[a] = stacks[a][a].seq_0s[a]
                /\ Follows(a)' => Follows(a)
             \/ last_seq_reference'[a] = SEQ_INVALID - 1
  <2>1. /\ a \in InGame /\ last_seq_reference'[a] = last_seq_reference[a] /\ a \in Node
        /\ delivered'[a] = delivered[a] /\ chain' = chain
    BY <1>3, <1>5
  <2>2. CASE a = Server
    <3>1. stacks'[a][a].seq_0s[a] = stacks[a][a].seq_0s[a]
      BY <1>2, <2>2 DEF First
    <3>2. Follows(a)' => Follows(a)
      BY <1>1, <2>2, WelcomeFollowed
    <3> QED BY <2>1, <3>1, <3>2
  <2>3. CASE a # Server
    <3>1. stacks'[a] = stacks[a] /\ known'[a] = known[a]
      BY <1>2, <2>1, <2>3
    <3>2. Follows(a)' => Follows(a)
      BY <2>1, <3>1 DEF Follows
    <3> QED BY <2>1, <3>1, <3>2
  <2> QED BY <2>2, <2>3
<1>7. ASSUME NEW o \in known'[Server]
      PROVE  \E b \in known[Server] : PlaysAt(b) <= PlaysAt(o)'
  <2>1. \A b \in known[Server] : PlaysAt(b) \in Int
    BY <1>1, <1>2, SeqsAre DEF SeqsTyped
  <2>2. CASE o \in known[Server]
    <3>1. First'[o] = First[o]
      BY <1>2, <2>2
    <3>2. PlaysAt(o)' = PlaysAt(o)
      BY <1>3, <1>5, <3>1 DEF PlaysAt, First
    <3> QED BY <2>1, <2>2, <3>2
  <2>3. CASE o = p.from
    <3>1. o \notin InGame'
      BY <1>2, <1>5, <2>3 DEF InGame, Client
    <3>2. PlaysAt(o)' = seq
      BY <1>2, <2>3, <3>1 DEF PlaysAt, First
    <3>3. PlaysAt(Server) = seq
      BY <1>2 DEF PlaysAt, InGame
    <3> QED BY <1>2, <3>2, <3>3
  <2> QED BY <1>2, <1>7, <2>2, <2>3
<1>8. ASSUME NEW o \in Node, NEW s \in MessagesOf(o)'
      PROVE  /\ s \in MessagesOf(o) /\ written'[o][s].seq = written[o][s].seq
             /\ written'[o][s].seq \in Int
  <2>1. s \in 1 .. Len(written'[o]) /\ written'[o][s].order_i = 0 /\ written'[o][s].type = DATA
    BY <1>8 DEF MessagesOf
  <2>2. ~(o = Server /\ s > Len(written[Server]))
    <3>1. [MetaAtom EXCEPT !.seq = seq].type = META
      BY DEF MetaAtom
    <3> QED BY <1>3, <2>1, <3>1 DEF DATA, META
  <2>3. s \in 1 .. Len(written[o]) /\ written'[o][s] = written[o][s]
    <3>1. CASE o # Server
      BY <1>3, <2>1, <3>1 DEF Writes
    <3>2. CASE o = Server
      <4>1. Len(written[Server]) \in Nat /\ s \in Int /\ 1 <= s
        BY <1>1, <1>2, <2>1
      <4>2. s \in 1 .. Len(written[Server])
        BY <2>2, <3>2, <4>1
      <4> QED BY <1>3, <3>2, <4>2 DEF Writes
    <3> QED BY <3>1, <3>2
  <2>4. written'[o][s].seq \in Int
    BY <1>1, <2>3, SeqIsInt
  <2> QED BY <2>1, <2>3, <2>4 DEF MessagesOf
<1>9. known'[Server] \subseteq Node
  BY <1>2
<1>10. \A o \in Node : \A s \in MessagesOf(o)' :
           \/ s \in MessagesOf(o) /\ written'[o][s].seq = written[o][s].seq
           \/ \E b \in known[Server] : PlaysAt(b) <= written'[o][s].seq
  BY <1>8
<1>11. \A o \in Node : \A s \in MessagesOf(o)' : written'[o][s].seq \in Int
  BY <1>8
<1> QED BY <1>2, <1>4, <1>6, <1>7, <1>9, <1>10, <1>11, RoundsOn

\* A newcomer is let in: rounds wait for it.
LEMMA WelcomeWaits ==
  ASSUME OneWindow, ~Redundant, NbMeta # 0, WaitInv, TellInv',
         NEW p \in net, RecvJoin(p), p.from \notin known[p.to],
         p.serial <= 1, NEW r, NEW q, NEW seq \in Int,
         Welcomed(p, r, q, seq), RegistryOK(r, Server, written, seq)
  PROVE  WaitInv'
<1>1. TellInv /\ ComeInv /\ ComeInv' /\ ReadShapes
  BY DEF WaitInv, TellInv
<1>2. /\ Server \in Node /\ p.from \in Node /\ p.from # Server
      /\ \A o \in Node \ {Server} : stacks'[o] = stacks[o] /\ known'[o] = known[o]
      /\ \A t \in Node \ {p.from} : First'[t] = First[t]
      /\ First'[p.from] = seq /\ seq = local_seq_last[Server]
  BY <1>1, NewcomerDoes
<1>3. UNCHANGED <<local_seq_last, last_seq_reference, delivered, chain, status>>
  BY DEF Welcomed
<1>4. ReadShapes'
  BY <1>1, <1>3 DEF ReadShapes
<1>5. \A c \in Client : JoinerOK(c)'
  <2> SUFFICES ASSUME NEW c \in Client PROVE JoinerOK(c)'
    OBVIOUS
  <2> QED BY WelcomeJoiner
<1>6. NamesOK(meta, written, First, known[Server])'
  BY WelcomeNames
<1>7. \A c \in Client : AwaitsOK(c, known[c], stacks[c][Server], meta)'
  <2> SUFFICES ASSUME NEW c \in Client
               PROVE  AwaitsOK(c, known[c], stacks[c][Server], meta)'
    OBVIOUS
  <2> QED BY WelcomeAwaits
<1>8. \A a \in Node : UnknownOK(a)'
  <2> SUFFICES ASSUME NEW a \in Node PROVE UnknownOK(a)'
    OBVIOUS
  <2>1. CASE a = Server
    BY <2>1, WelcomeFollowed
  <2>2. CASE a # Server
    <3>1. UnknownOK(a)
      BY DEF WaitInv
    <3> QED BY <1>2, <1>3, <2>2, <3>1 DEF UnknownOK
  <2> QED BY <2>1, <2>2
<1>9. \A a \in net' : AnswerOK(a, meta')
  BY WelcomeAnswers
<1>10. \A c \in Client : LimitsOK(c)'
  <2> SUFFICES ASSUME NEW c \in Client PROVE LimitsOK(c)'
    OBVIOUS
  <2>1. LimitsOK(c) /\ c \in Node /\ c # Server
    BY DEF WaitInv, Client
  <2>2. PICK first : first = First'
    OBVIOUS
  <2>3. \A o \in Node : First[o] \in Int /\ first[o] \in Int /\ First[o] <= first[o]
    <3>1. \A o \in Node : First[o] \in Int
      BY <1>1, <1>2, SeqsAre DEF SeqsTyped, First
    <3>2. First[p.from] <= seq
      BY <1>1, <1>2 DEF TellInv
    <3> QED BY <1>2, <2>2, <3>1, <3>2
  <2>4. \A o \in Node : stacks[c][c].seq_0s[o] \in Int
    BY <1>1, <2>1, SeqsAre DEF SeqsTyped
  <2>5. stacks'[c][c] = stacks[c][c]
    BY <1>2, <2>1
  <2>6. \A o \in Node \ {c} : stacks[c][c].seq_0s[o] <= Max2(first[o], first[c])
    <3> SUFFICES ASSUME NEW o \in Node \ {c}
                 PROVE  stacks[c][c].seq_0s[o] <= Max2(first[o], first[c])
      OBVIOUS
    <3>1. stacks[c][c].seq_0s[o] <= Max2(First[o], First[c])
      BY <2>1 DEF LimitsOK
    <3> QED BY <2>1, <2>3, <2>4, <3>1 DEF Max2
  <2> QED BY <2>2, <2>5, <2>6 DEF LimitsOK
<1>11. FirstsOK(First, known[Server], written)'
  BY WelcomeFirsts
<1>12. \A n, o \in Node : FollowedOK(stacks'[n][o], chain'[n][o])
  <2> SUFFICES ASSUME NEW n \in Node, NEW o \in Node
               PROVE  FollowedOK(stacks'[n][o], chain'[n][o])
    OBVIOUS
  <2>1. CASE n = Server
    BY <2>1, WelcomeFollowed
  <2>2. CASE n # Server
    <3>1. FollowedOK(stacks[n][o], chain[n][o])
      BY DEF WaitInv
    <3> QED BY <1>2, <1>3, <2>2, <3>1
  <2> QED BY <2>1, <2>2
<1>13. \A o \in Node : Orderly(written'[o])
  BY WelcomeOrderly
<1>14. RoundsWaitForNewcomers' /\ NothingMissedByComing'
  BY <1>1, WelcomeRounds
<1> QED BY <1>4, <1>5, <1>6, <1>7, <1>8, <1>9, <1>10, <1>11, <1>12, <1>13, <1>14 DEF WaitInv

\* JOIN is received.
LEMMA RecvJoinWaits ==
  ASSUME OneWindow, ~Redundant, NbMeta # 0, WaitInv, TellInv', NEW p \in net, RecvJoin(p)
  PROVE  WaitInv'
<1>1. ComeInv /\ TellInv
  BY DEF WaitInv, TellInv
<1>2. CASE p.from \in known[p.to]
  BY <1>2, IgnoredWaits
<1>3. CASE p.from \notin known[p.to]
  <2>1. PICK r, q, seq : Welcomed(p, r, q, seq)
    BY <1>1, <1>3, RecvJoinWelcomes
  <2>2. /\ seq = local_seq_last[Server] /\ seq \in Int
        /\ r = RegisterNode(Registry(Server), Server, p.from, p.serial, seq)
    BY <1>1, <2>1, ConfigAssumption DEF Welcomed, ComeInv, Shapes
  <2>3. RegistryOK(r, Server, written, seq)
    BY <1>1, <1>3, <2>2, RecvJoinWelcomes
  <2>4. p.serial <= 1
    <3>1. p.cmd = "JOIN" /\ p.seq = 0 /\ TellsOK(p, written, First, known[Server])
      BY <1>1 DEF RecvJoin, TellInv
    <3> QED BY <3>1 DEF TellsOK
  <2> QED BY <1>3, <2>1, <2>2, <2>3, <2>4, WelcomeWaits
<1> QED BY <1>2, <1>3

----------------------------------------------------------------------------
(* A node reads.                                                           *)

\* What the calculation does to what a node holds of o.
LEMMA ReadCalc ==
  ASSUME WaitInv, NEW n \in Node, NEW o \in Node, NEW calc, calc = Calc(stacks[n][o])
  PROVE  /\ CalcAll(stacks[n])[o] = calc /\ Fits(calc, Last(o)) /\ Last(o) \in Nat
         /\ IsStack(calc) /\ SameAtoms(stacks[n][o], calc)
         /\ calc.serial_min = stacks[n][o].serial_min
         /\ calc.serial_0_real = stacks[n][o].serial_0_real
         /\ Steady(calc) /\ Holds(calc, written[o]) /\ written[o] \in Seq(Atom)
         /\ FollowedOK(calc, ChainAfter(n, stacks[n])[o])
         /\ chain[n][o] # 0 => ChainAfter(n, stacks[n])[o] = chain[n][o]
<1>1. ComeInv /\ Steady(stacks[n][o]) /\ FollowedOK(stacks[n][o], chain[n][o])
  BY DEF WaitInv, TellInv
<1>2. /\ Fits(stacks[n][o], Last(o)) /\ Last(o) \in Nat /\ IsStack(stacks[n][o])
      /\ Holds(stacks[n][o], written[o]) /\ written[o] \in Seq(Atom)
  BY <1>1, JoinFits, RegistryParts
<1>3. IsStack(calc) /\ SameAtoms(stacks[n][o], calc)
  BY <1>2, CalcKeeps
<1>4. CalcAll(stacks[n])[o] = calc
  BY DEF CalcAll
<1>5. calc.serial_min = stacks[n][o].serial_min /\ calc.serial_0_real = stacks[n][o].serial_0_real
  BY <1>2, CalcBounds
<1>6. Fits(calc, Last(o))
  BY <1>2, <1>3, SameAtomsFits
<1>7. Steady(calc)
  BY <1>1, <1>3, <1>5, SteadyOn
<1>8. Holds(calc, written[o])
  BY <1>2, <1>3 DEF Holds, SameAtoms
<1>9. PICK from : from = chain[n][o]
  OBVIOUS
<1>10. ChainAfter(n, stacks[n])[o] = FollowedFrom(stacks[n][o], from)
  BY <1>9 DEF ChainAfter, FollowedFrom
<1>11. /\ FollowedOK(Calc(stacks[n][o]), FollowedFrom(stacks[n][o], from))
       /\ from # 0 => FollowedFrom(stacks[n][o], from) = from
  BY <1>1, <1>2, <1>9, CalcFollows
<1> QED BY <1>2, <1>3, <1>4, <1>5, <1>6, <1>7, <1>8, <1>9, <1>10, <1>11

\* The reference seq of a stack is the one before that of its reference.
LEMMA SeqReferenceIs ==
  ASSUME NEW w \in Seq(Atom), NEW st, Holds(st, w)
  PROVE  /\ SeqReference(st) \in Int /\ -1 <= SeqReference(st)
         /\ SeqReference(st) # -1 =>
              /\ st.serial_reference \in Present(st) /\ st.serial_0_real <= st.serial_reference
              /\ st.serial_reference \in 1 .. Len(w)
              /\ SeqReference(st) < w[st.serial_reference].seq
<1> DEFINE ref == st.serial_reference
<1>1. CASE ref \in Present(st) /\ ref >= st.serial_0_real
  <2>1. ref \in 1 .. Len(w) /\ AtomAt(st, ref) = w[ref]
    BY <1>1 DEF Holds
  <2>2. SeqAt(st, ref) = w[ref].seq
    BY <1>1, <2>1 DEF SeqAt
  <2>3. PICK q \in Int : q = w[ref].seq
    BY <2>1, SeqIsInt
  <2>4. SeqReference(st) = Max2(q - 1, -1)
    BY <2>2, <2>3 DEF SeqReference, SEQ_INVALID
  <2>5. SeqReference(st) \in Int /\ -1 <= SeqReference(st)
        /\ (SeqReference(st) # -1 => SeqReference(st) < q)
    BY <2>3, <2>4 DEF Max2
  <2>6. st.serial_0_real <= ref
    BY <1>1
  <2> QED BY <1>1, <2>1, <2>3, <2>5, <2>6
<1>2. CASE ~(ref \in Present(st) /\ ref >= st.serial_0_real)
  <2>1. SeqAt(st, ref) = -1
    BY <1>2 DEF SeqAt, SEQ_INVALID
  <2>2. SeqReference(st) = -1
    BY <2>1 DEF SeqReference, Max2, SEQ_INVALID
  <2> QED BY <2>2
<1> QED BY <1>1, <1>2

\* How far writer o lets n go.
KnownOf(n, o) ==
  IF SeqReference(Calc(stacks[n][o])) = SEQ_INVALID
  THEN stacks[n][n].seq_0s[o] - 1 ELSE SeqReference(Calc(stacks[n][o]))

\* The reference is as far as everybody n knows lets it go.
LEMMA KnownReferenceIs ==
  ASSUME WaitInv, NEW n \in Node
  PROVE  /\ KnownReference(n) \in Int /\ -1 <= KnownReference(n)
         /\ \A o \in known[n] : KnownOf(n, o) \in Int /\ KnownReference(n) <= Max2(KnownOf(n, o), -1)
<1> DEFINE ofs == {KnownOf(n, o) : o \in known[n]}
<1>1. ComeInv /\ n \in known[n] /\ known[n] \subseteq Node
  BY RegistryParts DEF WaitInv, TellInv
<1>2. ASSUME NEW o \in Node
      PROVE  /\ CalcAll(stacks[n])[o] = Calc(stacks[n][o])
             /\ KnownOf(n, o) \in Int /\ -2 <= KnownOf(n, o)
  <2>1. PICK calc : calc = Calc(stacks[n][o])
    OBVIOUS
  <2>2. Holds(calc, written[o]) /\ written[o] \in Seq(Atom) /\ CalcAll(stacks[n])[o] = calc
    BY <2>1, ReadCalc
  <2>3. SeqReference(calc) \in Int /\ -1 <= SeqReference(calc)
    BY <2>2, SeqReferenceIs
  <2>4. stacks[n][n].seq_0s[o] \in Int /\ stacks[n][n].seq_0s[o] >= -1
    BY <1>1, SeqsAre DEF SeqsTyped, SEQ_INVALID
  <2>5. KnownOf(n, o) = IF SeqReference(calc) = -1 THEN stacks[n][n].seq_0s[o] - 1
                        ELSE SeqReference(calc)
    BY <2>1 DEF KnownOf, SEQ_INVALID
  <2> QED BY <2>1, <2>2, <2>3, <2>4, <2>5
<1>3. CalcAll(stacks[n])[n].seq_0s = stacks[n][n].seq_0s
  <2>1. PICK calc : calc = Calc(stacks[n][n])
    OBVIOUS
  <2>2. SameAtoms(stacks[n][n], calc) /\ CalcAll(stacks[n])[n] = calc
    BY <2>1, ReadCalc
  <2> QED BY <2>2 DEF SameAtoms
<1>4. KnownReference(n) = Max2(Min(ofs), -1)
  <2>1. \A o \in known[n] :
           (IF SeqReference(CalcAll(stacks[n])[o]) = SEQ_INVALID
            THEN CalcAll(stacks[n])[n].seq_0s[o] - 1 ELSE SeqReference(CalcAll(stacks[n])[o]))
           = KnownOf(n, o)
    BY <1>1, <1>2, <1>3 DEF KnownOf
  <2>2. {IF SeqReference(CalcAll(stacks[n])[o]) = SEQ_INVALID
         THEN CalcAll(stacks[n])[n].seq_0s[o] - 1 ELSE SeqReference(CalcAll(stacks[n])[o]) :
            o \in known[n]} = ofs
    BY <2>1
  <2> QED BY <2>2 DEF KnownReference, SEQ_INVALID
<1>5. Min(ofs) \in Int /\ \A o \in known[n] : Min(ofs) <= KnownOf(n, o)
  <2>1. ofs \subseteq Int /\ (\A y \in ofs : -2 <= y) /\ ofs # {}
        /\ (\A o \in known[n] : KnownOf(n, o) \in ofs) /\ -2 \in Int
    BY <1>1, <1>2
  <2> HIDE DEF ofs
  <2>2. Min(ofs) \in ofs /\ \A y \in ofs : Min(ofs) <= y
    BY <2>1, MinIs, Zenon
  <2> QED BY <2>1, <2>2
<1> HIDE DEF ofs
<1> QED BY <1>1, <1>2, <1>4, <1>5 DEF Max2

\* n will follow everybody it knows once it has calculated.
FollowsAfter(n) == \A o \in known[n] : ChainAfter(n, stacks[n])[o] <= stacks[n][o].serial_0_real

\* Of whom nothing is read: not known to n, or known without a reference.
Unread(n, o) == o \notin known[n] \/ SeqReference(Calc(stacks[n][o])) = -1

\* The first seq of those who were let in.
LEMMA FirstsAre ==
  ASSUME WaitInv
  PROVE  /\ known[Server] \subseteq Node /\ Server \in known[Server]
         /\ \A o \in known[Server] : First[o] \in Int /\ 1 <= First[o]
         /\ First[Server] = Seq0 /\ \A o \in known[Server] : First[Server] <= First[o]
         /\ \A n \in InGame : /\ n \in Node /\ n \in known[Server] /\ First[n] \in Int
                              /\ stacks[n][n].seq_0s[n] = First[n]
<1>1. ComeInv /\ TellInv /\ Server \in Node /\ Seq0 \in Int /\ 1 <= Seq0
  BY ConfigAssumption DEF WaitInv, TellInv, SEQ_START
<1>2. known[Server] \subseteq Node /\ Server \in known[Server]
  BY <1>1, RegistryParts
<1>3. \A o \in Node : First[o] \in Int
  BY <1>1, SeqsAre DEF SeqsTyped, First
<1>4. \A o \in known[Server] : Seq0 <= First[o]
  BY DEF WaitInv, FirstsOK
<1>5. First[Server] = Seq0
  BY <1>1 DEF TellInv
<1>6. \A n \in InGame : n \in Node /\ n \in known[Server] /\ stacks[n][n].seq_0s[n] = First[n]
  <2> SUFFICES ASSUME NEW n \in InGame
               PROVE  n \in Node /\ n \in known[Server] /\ stacks[n][n].seq_0s[n] = First[n]
    OBVIOUS
  <2>1. CASE n = Server
    BY <1>1, <1>2, <2>1 DEF First
  <2>2. CASE n # Server
    <3>1. n \in Client /\ status[n] = "in"
      BY <2>2 DEF InGame
    <3> QED BY <1>1, <3>1 DEF TellInv, Client
  <2> QED BY <2>1, <2>2
<1>7. \A o \in known[Server] : First[o] \in Int /\ 1 <= First[o]
  BY <1>1, <1>2, <1>3, <1>4
<1> QED BY <1>2, <1>3, <1>4, <1>5, <1>6, <1>7

\* Who is known and was not read: its seq_0 holds n back.
LEMMA SilentHoldsBack ==
  ASSUME WaitInv, NEW n \in InGame, NEW o \in known[n],
         SeqReference(Calc(stacks[n][o])) = -1
  PROVE  o \in known[Server] /\ KnownReference(n) < Max2(First[o], First[n])
<1>1. /\ ComeInv /\ TellInv /\ n \in Node /\ n \in known[Server] /\ First[n] \in Int /\ 1 <= First[n]
      /\ stacks[n][n].seq_0s[n] = First[n]
  BY FirstsAre DEF WaitInv, TellInv
<1>2. o \in Node
  BY <1>1, RegistryParts
<1>3. o \in known[Server]
  <2>1. CASE n = Server
    BY <2>1
  <2>2. CASE n # Server
    <3>1. n \in Client /\ Registry(n).ids = known[n]
      BY <1>1, <2>2, RegistryParts DEF Client
    <3>2. ToldOK(Registry(n), n, written, First, known[Server])
      BY <1>1, <3>1 DEF TellInv
    <3> QED BY <1>1, <3>1, <3>2 DEF ToldOK
  <2> QED BY <2>1, <2>2
<1>4. First[o] \in Int /\ 1 <= First[o]
  BY <1>3, FirstsAre
<1>5. stacks[n][n].seq_0s[o] \in Int /\ stacks[n][n].seq_0s[o] <= Max2(First[o], First[n])
  <2>1. stacks[n][n].seq_0s[o] \in Int
    BY <1>1, <1>2, SeqsAre DEF SeqsTyped
  <2>2. CASE n = Server
    BY <1>1, <1>4, <2>1, <2>2 DEF First, Max2
  <2>3. CASE n # Server /\ o = n
    BY <1>1, <1>4, <2>1, <2>3 DEF Max2
  <2>4. CASE n # Server /\ o # n
    <3>1. n \in Client
      BY <1>1, <2>4 DEF Client
    <3>2. LimitsOK(n)
      BY <3>1 DEF WaitInv
    <3> QED BY <1>2, <2>1, <2>4, <3>2 DEF LimitsOK
  <2> QED BY <2>2, <2>3, <2>4
<1>6. /\ KnownReference(n) \in Int
      /\ KnownReference(n) <= Max2(stacks[n][n].seq_0s[o] - 1, -1)
  <2>1. KnownReference(n) \in Int /\ KnownReference(n) <= Max2(KnownOf(n, o), -1)
    BY <1>1, KnownReferenceIs
  <2>2. KnownOf(n, o) = stacks[n][n].seq_0s[o] - 1
    BY DEF KnownOf, SEQ_INVALID
  <2> QED BY <2>1, <2>2
<1> QED BY <1>1, <1>3, <1>4, <1>5, <1>6 DEF Max2

\* Who is known and was read holds n back below what it has written.
LEMMA ReaderHeldBack ==
  ASSUME WaitInv, NEW n \in Node, NEW o \in known[n],
         SeqReference(Calc(stacks[n][o])) # -1
  PROVE  LET r == Calc(stacks[n][o]).serial_reference
         IN  /\ r \in 1 .. Len(written[o]) /\ r \in Present(stacks[n][o])
             /\ stacks[n][o].serial_0_real <= r
             /\ written[o][r].seq \in Int /\ KnownReference(n) < written[o][r].seq
<1>1. ComeInv /\ o \in Node
  BY RegistryParts DEF WaitInv, TellInv
<1>2. PICK calc : calc = Calc(stacks[n][o])
  OBVIOUS
<1>3. /\ Holds(calc, written[o]) /\ written[o] \in Seq(Atom) /\ SameAtoms(stacks[n][o], calc)
      /\ calc.serial_0_real = stacks[n][o].serial_0_real
  BY <1>1, <1>2, ReadCalc
<1>4. /\ SeqReference(calc) \in Int /\ -1 <= SeqReference(calc)
      /\ calc.serial_reference \in Present(calc) /\ calc.serial_0_real <= calc.serial_reference
      /\ calc.serial_reference \in 1 .. Len(written[o])
      /\ SeqReference(calc) < written[o][calc.serial_reference].seq
  BY <1>2, <1>3, SeqReferenceIs
<1>5. written[o][calc.serial_reference].seq \in Int
  BY <1>3, <1>4, SeqIsInt
<1>6. KnownReference(n) \in Int /\ KnownReference(n) <= SeqReference(calc)
  <2>1. KnownReference(n) \in Int /\ KnownReference(n) <= Max2(KnownOf(n, o), -1)
    BY KnownReferenceIs
  <2>2. KnownOf(n, o) = SeqReference(calc)
    BY <1>2 DEF KnownOf, SEQ_INVALID
  <2> QED BY <1>4, <2>1, <2>2 DEF Max2
<1>7. calc.serial_reference \in Present(stacks[n][o])
  BY <1>3, <1>4 DEF SameAtoms
<1>8. KnownReference(n) < written[o][calc.serial_reference].seq
  BY <1>4, <1>5, <1>6
<1> QED BY <1>2, <1>3, <1>4, <1>5, <1>7, <1>8

\* Who is not known: a META that was not read yet holds n back.
LEMMA UntoldHoldsBack ==
  ASSUME WaitInv, NEW n \in InGame, FollowsAfter(n), NEW o \in known[Server], o \notin known[n]
  PROVE  KnownReference(n) < Max2(First[o], First[n])
<1>1. /\ ComeInv /\ TellInv /\ n \in Node /\ n \in known[Server] /\ First[n] \in Int
      /\ Server \in Node /\ First[o] \in Int /\ First[Server] \in Int /\ First[Server] <= First[o]
  BY FirstsAre, ConfigAssumption DEF WaitInv, TellInv
<1>2. n \in Client /\ n # o /\ n # Server /\ status[n] = "in"
  <2>1. n # Server /\ n \in known[n]
    BY <1>1, RegistryParts
  <2> QED BY <1>1, <2>1 DEF InGame, Client
<1>3. Server \in known[n]
  BY <1>2 DEF WaitInv, JoinerOK
<1>4. PICK s \in DOMAIN meta :
             {n, o} \subseteq Whom(meta[s]) /\ written[Server][s].seq <= Max2(First[o], First[n])
  <2>1. NamesOK(meta, written, First, known[Server])
    BY DEF WaitInv
  <2>2. n \in Client \cap known[Server] /\ o \in known[Server] \ {n}
    BY <1>1, <1>2
  <2> QED BY <2>1, <2>2 DEF NamesOK
<1>5. s \notin Present(stacks[n][Server]) /\ stacks[n][Server].serial_0_real <= s
  <2>1. AwaitsOK(n, known[n], stacks[n][Server], meta)
    BY <1>2 DEF WaitInv
  <2> QED BY <1>3, <1>4, <2>1 DEF AwaitsOK
<1>6. s \in 1 .. Len(written[Server]) /\ Len(written[Server]) \in Nat
      /\ written[Server] \in Seq(Atom)
  <2>1. AuthorsOK(written, meta) /\ written[Server] \in Seq(Atom)
    BY <1>1, RegistryParts DEF ComeInv
  <2> QED BY <2>1 DEF AuthorsOK
<1>7. written[Server][s].seq \in Int
  BY <1>6, SeqIsInt
<1>8. CASE SeqReference(Calc(stacks[n][Server])) = -1
  <2>1. KnownReference(n) < Max2(First[Server], First[n]) /\ KnownReference(n) \in Int
    BY <1>1, <1>3, <1>8, SilentHoldsBack, KnownReferenceIs
  <2> QED BY <1>1, <2>1 DEF Max2
<1>9. CASE SeqReference(Calc(stacks[n][Server])) # -1
  <2>1. PICK calc : calc = Calc(stacks[n][Server])
    OBVIOUS
  <2>2. PICK r : r = calc.serial_reference
    OBVIOUS
  <2>3. /\ r \in 1 .. Len(written[Server]) /\ r \in Present(stacks[n][Server])
        /\ written[Server][r].seq \in Int /\ KnownReference(n) < written[Server][r].seq
    BY <1>1, <1>3, <1>9, <2>1, <2>2, ReaderHeldBack
  <2>4. PICK from : from = ChainAfter(n, stacks[n])[Server]
    OBVIOUS
  <2>5. FollowedOK(calc, from) /\ SameAtoms(stacks[n][Server], calc) /\ IsStack(calc)
    BY <1>1, <2>1, <2>4, ReadCalc
  <2>6. /\ from \in Nat /\ from .. LastOf(calc, r) \subseteq Present(calc)
    BY <2>2, <2>3, <2>5 DEF FollowedOK
  <2>7. stacks[n][Server].serial_0_real \in Int /\ from <= stacks[n][Server].serial_0_real
    <3>1. IsStack(stacks[n][Server])
      BY <1>1, RegistryParts
    <3> QED BY <1>3, <2>4, <3>1, StackFields DEF FollowsAfter
  <2>8. Present(calc) = Present(stacks[n][Server])
    BY <2>5 DEF SameAtoms
  <2>9. LastOf(calc, r) \in Int /\ r - 1 <= LastOf(calc, r)
    <3>1. AtomAt(calc, r).order_n \in Nat
      BY <2>3, <2>5, <2>8, AtomFields
    <3> QED BY <2>3, <3>1 DEF LastOf
  <2>10. r < s
    <3> SUFFICES ASSUME s <= r PROVE FALSE
      BY <1>6, <2>3
    <3>1. s # r
      BY <1>5, <2>3
    <3>2. s \in from .. LastOf(calc, r)
      BY <1>5, <1>6, <2>3, <2>6, <2>7, <2>9, <3>1
    <3> QED BY <1>5, <2>6, <2>8, <3>2
  <2>11. written[Server][r].seq <= written[Server][s].seq
    <3>1. InSeqOrder(written[Server], local_seq_last[Server])
      BY <1>1 DEF TellInv
    <3> QED BY <1>6, <2>3, <2>10, <3>1 DEF InSeqOrder
  <2>12. KnownReference(n) \in Int
    BY <1>1, KnownReferenceIs
  <2> QED BY <1>1, <1>4, <1>7, <2>3, <2>11, <2>12 DEF Max2
<1> QED BY <1>8, <1>9

\* A round is reference at n when nobody is below it.
LEMMA ReferenceWaits ==
  ASSUME WaitInv, NEW n \in InGame, FollowsAfter(n), NEW o \in known[Server]
  PROVE  KnownReference(n) < Max2(PlaysAt(o), First[n])
<1>1. /\ ComeInv /\ TellInv /\ n \in Node /\ First[n] \in Int /\ o \in Node
      /\ First[o] \in Int /\ PlaysAt(o) \in Int /\ KnownReference(n) \in Int
  BY FirstsAre, KnownReferenceIs, SeqsAre DEF WaitInv, TellInv, SeqsTyped
<1>2. First[o] <= PlaysAt(o)
  <2>1. CASE o \in InGame
    BY <2>1, PlayersKnown
  <2>2. CASE o \notin InGame
    BY <1>1, <2>2 DEF PlaysAt, First
  <2> QED BY <2>1, <2>2
<1>3. CASE o \in known[n] /\ SeqReference(Calc(stacks[n][o])) # -1
  <2>1. PICK r : r = Calc(stacks[n][o]).serial_reference
    OBVIOUS
  <2>2. /\ r \in 1 .. Len(written[o]) /\ written[o][r].seq \in Int
        /\ KnownReference(n) < written[o][r].seq
    BY <1>1, <1>3, <2>1, ReaderHeldBack
  <2>3. written[o][r].seq <= local_seq_last[o] /\ local_seq_last[o] \in Int
    <3>1. InSeqOrder(written[o], local_seq_last[o]) /\ local_seq_last[o] \in Int
      BY <1>1, RegistryParts DEF TellInv
    <3> QED BY <2>2, <3>1 DEF InSeqOrder
  <2>4. o \in InGame
    <3>1. written[o] # <<>>
      BY <2>2
    <3> QED BY <1>1, <3>1 DEF ComeInv, ComingOK, InGame, Client
  <2>5. PlaysAt(o) = local_seq_last[o]
    BY <2>4 DEF PlaysAt
  <2> QED BY <1>1, <2>2, <2>3, <2>5 DEF Max2
<1>4. CASE Unread(n, o)
  <2>1. KnownReference(n) < Max2(First[o], First[n])
    BY <1>4, SilentHoldsBack, UntoldHoldsBack DEF Unread
  <2> QED BY <1>1, <1>2, <2>1 DEF Max2
<1> QED BY <1>3, <1>4 DEF Unread

\* A message of a round that is over, and that n plays, is read.
LEMMA ReadGives ==
  ASSUME WaitInv, NEW n \in InGame, FollowsAfter(n), NEW o \in Node, NEW s \in MessagesOf(o),
         First[n] < written[o][s].seq, written[o][s].seq <= KnownReference(n),
         NEW cl, cl = ClearRecent(Calc(stacks[n][o]), KnownReference(n))
  PROVE  s \in Given(cl, written[o][s].seq, TRUE) /\ AtomAt(cl, s).type = DATA
<1>1. /\ ComeInv /\ TellInv /\ n \in Node /\ First[n] \in Int /\ 1 <= First[n]
      /\ KnownReference(n) \in Int /\ stacks[n][n].seq_0s[n] = First[n]
  <2>1. n \in Node /\ n \in known[Server] /\ First[n] \in Int /\ stacks[n][n].seq_0s[n] = First[n]
    BY FirstsAre
  <2> QED BY <2>1, FirstsAre, KnownReferenceIs DEF WaitInv, TellInv
<1>2. PICK w : w = written[o]
  OBVIOUS
<1>3. /\ w \in Seq(Atom) /\ s \in 1 .. Len(w) /\ w[s].order_i = 0 /\ w[s].type = DATA
  BY <1>1, <1>2, RegistryParts DEF MessagesOf
<1>4. PICK q \in Int : q = w[s].seq
  BY <1>3, SeqIsInt
<1>5. q \in Nat /\ First[n] < q /\ q <= KnownReference(n)
  BY <1>1, <1>2, <1>4
<1>6. o \in known[Server]
  <2>1. o \in InGame
    <3>1. written[o] # <<>>
      BY <1>2, <1>3
    <3> QED BY <1>1, <3>1 DEF ComeInv, ComingOK, InGame, Client
  <2> QED BY <2>1, FirstsAre
<1>7. ~Unread(n, o)
  <2> SUFFICES ASSUME Unread(n, o) PROVE FALSE
    OBVIOUS
  <2>1. KnownReference(n) < Max2(First[o], First[n])
    BY <1>6, SilentHoldsBack, UntoldHoldsBack DEF Unread
  <2>2. First[o] \in Int /\ First[o] <= q
    <3>1. FirstsOK(First, known[Server], written)
      BY DEF WaitInv
    <3> QED BY <1>2, <1>3, <1>4, <1>6, <3>1, FirstsAre DEF FirstsOK
  <2> QED BY <1>1, <1>5, <2>1, <2>2 DEF Max2
<1>8. PICK calc : calc = Calc(stacks[n][o])
  OBVIOUS
<1>9. PICK r : r = calc.serial_reference
  OBVIOUS
<1>10. /\ o \in known[n] /\ r \in 1 .. Len(w) /\ r \in Present(stacks[n][o])
       /\ stacks[n][o].serial_0_real <= r /\ w[r].seq \in Int /\ KnownReference(n) < w[r].seq
  <2>1. o \in known[n] /\ SeqReference(Calc(stacks[n][o])) # -1
    BY <1>7 DEF Unread
  <2> QED BY <1>1, <1>2, <1>8, <1>9, <2>1, ReaderHeldBack
<1>11. PICK from : from = ChainAfter(n, stacks[n])[o]
  OBVIOUS
<1>12. /\ IsStack(calc) /\ SameAtoms(stacks[n][o], calc) /\ Steady(calc) /\ Holds(calc, w)
       /\ calc.serial_0_real = stacks[n][o].serial_0_real /\ FollowedOK(calc, from)
  BY <1>1, <1>2, <1>8, <1>11, ReadCalc
<1>13. from <= calc.serial_0_real /\ calc.serial_0_real \in Int
  BY <1>10, <1>11, <1>12, StackFields DEF FollowsAfter
<1>14. /\ IsStack(cl) /\ SameAtoms(calc, cl) /\ SameBounds(calc, cl)
  BY <1>8, <1>12, ClearRecentKeeps, ClearRecentBounds
<1>15. Present(cl) = Present(calc) /\ r \in Present(calc)
       /\ cl.serial_0_real = calc.serial_0_real /\ cl.serial_min = calc.serial_min
  BY <1>10, <1>12, <1>14 DEF SameAtoms, SameBounds
<1>16. Steady(cl) /\ Holds(cl, w)
  <2>1. Steady(cl)
    BY <1>12, <1>14, <1>15, SteadyOn
  <2>2. Holds(cl, w)
    BY <1>12, <1>14 DEF Holds, SameAtoms
  <2> QED BY <2>1, <2>2
<1>17. cl.serial_0_real .. r \subseteq Present(cl)
  <2>1. from \in Nat /\ from .. LastOf(calc, r) \subseteq Present(calc)
    BY <1>9, <1>10, <1>12 DEF FollowedOK
  <2>2. LastOf(calc, r) \in Int /\ r - 1 <= LastOf(calc, r)
    <3>1. AtomAt(calc, r).order_n \in Nat
      BY <1>12, <1>15, AtomFields
    <3> QED BY <1>10, <3>1 DEF LastOf
  <2>3. ASSUME NEW t \in calc.serial_0_real .. r PROVE t \in Present(calc)
    <3>1. t = r \/ t \in from .. LastOf(calc, r)
      BY <1>10, <1>13, <2>1, <2>2, <2>3
    <3> QED BY <1>15, <2>1, <3>1
  <2> QED BY <1>15, <2>3
<1>18. \A t \in 1 .. Len(w) : w[t].seq = q => cl.serial_0_real <= t
  <2>1. RefusedIsAskedFor
    BY <1>1, TellsEnough
  <2>2. \A t \in 1 .. Len(w) : w[t].seq > First[n] => t >= stacks[n][o].serial_0_real
    BY <1>1, <1>2, <1>10, <2>1 DEF RefusedIsAskedFor
  <2> QED BY <1>1, <1>5, <1>12, <1>13, <1>15, <2>2
<1>19. Orderly(w)
  BY <1>2 DEF WaitInv
<1>20. q < w[r].seq
  BY <1>1, <1>5, <1>10
<1>21. r \in Present(cl) /\ cl.serial_0_real <= r /\ w[s].seq = q
  BY <1>4, <1>10, <1>12, <1>15
<1>22. s \in Given(cl, q, TRUE)
  BY <1>3, <1>5, <1>14, <1>16, <1>17, <1>18, <1>19, <1>20, <1>21, RoundGiven
<1>23. s \in Present(cl)
  <2>1. PICK all : all = TRUE
    OBVIOUS
  <2>2. s \in Given(cl, q, all)
    BY <1>22, <2>1
  <2> QED BY <1>3, <1>14, <1>16, <1>19, <2>2, GivenIs
<1>24. AtomAt(cl, s).type = DATA
  BY <1>3, <1>16, <1>23 DEF Holds
<1> QED BY <1>2, <1>4, <1>22, <1>24

----------------------------------------------------------------------------
\* What reading does, whether or not there was something new: the reference moves to
\* what KnownReference says, or not at all, and what was read is handed over.
ReadDoes(n, ref) ==
  /\ stacks' = [stacks EXCEPT ![n] = [o \in Node |-> stacks'[n][o]]]
  /\ \A o \in Node : /\ SameAtoms(Calc(stacks[n][o]), stacks'[n][o])
                     /\ SameBounds(Calc(stacks[n][o]), stacks'[n][o])
  /\ chain' = [chain EXCEPT ![n] = ChainAfter(n, stacks[n])]
  /\ UNCHANGED <<local_seq_last, net, written, known, seq_0, meta, status>>

\* What ReadInGame does, in the words of ReadDoes.
LEMMA ReadInGameDoes ==
  ASSUME WaitInv, NEW n \in Node, ReadInGame(n), NEW ref, ref = KnownReference(n)
  PROVE  /\ ReadDoes(n, ref) /\ n \in InGame
         /\ \/ UNCHANGED <<last_seq_reference, delivered>>
            \/ /\ last_seq_reference[n] < ref
               /\ last_seq_reference' = [last_seq_reference EXCEPT ![n] = ref]
               /\ delivered' = [delivered EXCEPT ![n] = delivered'[n]]
               /\ delivered[n] \subseteq delivered'[n]
               /\ \A o \in Node :
                    \A h \in MsgList(ClearRecent(Calc(stacks[n][o]), ref),
                                     last_seq_reference[n] + 1 .. ref, TRUE) :
                       <<o, h>> \in delivered'[n]
<1> DEFINE calc == CalcAll(stacks[n])
<1>1. HandOver(n, ref) \/ NothingNew(n, ref)
  BY DEF ReadInGame
<1>2. /\ n \in InGame
      /\ UNCHANGED <<local_seq_last, net, written, known, seq_0, meta, status>>
      /\ chain' = [chain EXCEPT ![n] = ChainAfter(n, stacks[n])]
  BY <1>1 DEF ReadInGame, HandOver, NothingNew, membership
<1>3. /\ stacks = [a \in Node |-> stacks[a]] /\ delivered = [a \in Node |-> delivered[a]]
  BY DEF WaitInv, TellInv, ComeInv, Shapes, ReadShapes
<1>4. ASSUME NEW o \in Node
      PROVE  /\ calc[o] = Calc(stacks[n][o]) /\ Fits(calc[o], Last(o)) /\ Last(o) \in Nat
             /\ IsStack(calc[o])
  <2>1. PICK c : c = Calc(stacks[n][o])
    OBVIOUS
  <2>2. CalcAll(stacks[n])[o] = c /\ Fits(c, Last(o)) /\ Last(o) \in Nat /\ IsStack(c)
    BY <2>1, ReadCalc
  <2> QED BY <2>1, <2>2
<1>5. CASE HandOver(n, ref)
  <2> DEFINE new == last_seq_reference[n] + 1 .. ref
             cleared(o) == ClearRecent(calc[o], ref)
             v == [o \in Node |-> Popped(cleared(o), new, TRUE)]
             more == UNION {{<<o, h>> : h \in MsgList(cleared(o), new, TRUE)} : o \in Node}
  <2>1. /\ stacks' = [stacks EXCEPT ![n] = v] /\ last_seq_reference[n] < ref
        /\ last_seq_reference' = [last_seq_reference EXCEPT ![n] = ref]
    BY <1>5 DEF HandOver
  <2>2. delivered' = [delivered EXCEPT ![n] = delivered[n] \cup more]
    BY <1>3, <1>5 DEF HandOver
  <2>3. stacks'[n] = v
    BY <1>3, <2>1
  <2>4. ASSUME NEW o \in Node
        PROVE  /\ SameAtoms(Calc(stacks[n][o]), stacks'[n][o])
               /\ SameBounds(Calc(stacks[n][o]), stacks'[n][o])
    <3> DEFINE cl == ClearRecent(calc[o], ref)
               popped == Popped(cl, new, TRUE)
    <3>1. stacks'[n][o] = popped
      BY <2>3
    <3> HIDE DEF calc
    <3>2. IsStack(cl) /\ SameAtoms(calc[o], cl) /\ SameBounds(calc[o], cl)
      BY <1>4, ClearRecentKeeps, ClearRecentBounds
    <3> HIDE DEF cl, new, v, more
    <3>3. Fits(cl, Last(o))
      BY <1>4, <3>2, SameAtomsFits
    <3>4. SameAtoms(cl, popped) /\ SameBounds(cl, popped)
      BY <1>4, <3>2, <3>3, PoppedKeeps, PoppedBounds
    <3> HIDE DEF popped
    <3>5. SameAtoms(calc[o], popped)
      BY <3>2, <3>4, SameAtomsTrans
    <3>6. SameBounds(calc[o], popped)
      BY <3>2, <3>4 DEF SameBounds
    <3> QED BY <1>4, <3>1, <3>5, <3>6
  <2>5. stacks' = [stacks EXCEPT ![n] = [o \in Node |-> stacks'[n][o]]]
    <3>1. v = [o \in Node |-> v[o]]
      OBVIOUS
    <3> HIDE DEF v
    <3> QED BY <1>3, <2>1, <2>3, <3>1
  <2>6. ASSUME NEW o \in Node, NEW h \in MsgList(ClearRecent(Calc(stacks[n][o]), ref), new, TRUE)
        PROVE  <<o, h>> \in more
    <3>1. cleared(o) = ClearRecent(Calc(stacks[n][o]), ref)
      BY <1>4
    <3> HIDE DEF cleared, new
    <3>2. <<o, h>> \in {<<o, k>> : k \in MsgList(cleared(o), new, TRUE)}
      BY <2>6, <3>1
    <3> QED BY <3>2
  <2> HIDE DEF more, v
  <2>7. delivered'[n] = delivered[n] \cup more
    BY <1>3, <2>2
  <2>8. delivered' = [delivered EXCEPT ![n] = delivered'[n]]
    BY <2>2, <2>7
  <2>9. \A o \in Node : \A h \in MsgList(ClearRecent(Calc(stacks[n][o]), ref), new, TRUE) :
          <<o, h>> \in delivered'[n]
    BY <2>6, <2>7
  <2>10. delivered[n] \subseteq delivered'[n]
    BY <2>7
  <2>11. ReadDoes(n, ref)
    BY <1>2, <2>4, <2>5 DEF ReadDoes
  <2> QED BY <1>2, <2>1, <2>8, <2>9, <2>10, <2>11
<1>6. CASE NothingNew(n, ref)
  <2>1. stacks' = [stacks EXCEPT ![n] = calc] /\ UNCHANGED <<last_seq_reference, delivered>>
    BY <1>6 DEF NothingNew
  <2>2. stacks'[n] = calc /\ calc = [o \in Node |-> calc[o]]
    BY <1>3, <2>1 DEF CalcAll
  <2>3. \A o \in Node : /\ SameAtoms(Calc(stacks[n][o]), stacks'[n][o])
                        /\ SameBounds(Calc(stacks[n][o]), stacks'[n][o])
    <3> SUFFICES ASSUME NEW o \in Node
                 PROVE  /\ SameAtoms(Calc(stacks[n][o]), stacks'[n][o])
                        /\ SameBounds(Calc(stacks[n][o]), stacks'[n][o])
      OBVIOUS
    <3>1. stacks'[n][o] = Calc(stacks[n][o]) /\ IsStack(stacks'[n][o])
      BY <1>4, <2>2
    <3> QED BY <3>1 DEF SameAtoms, SameBounds
  <2> HIDE DEF calc
  <2>4. ReadDoes(n, ref)
    BY <1>2, <2>1, <2>2, <2>3 DEF ReadDoes
  <2> QED BY <1>2, <2>1, <2>4
<1> QED BY <1>1, <1>5, <1>6

\* What is kept when a node reads.
LEMMA ReadKeeps ==
  ASSUME WaitInv, NEW n \in Node, NEW ref, ReadDoes(n, ref), NEW o \in Node
  PROVE  /\ Keeps(stacks[n][o], stacks'[n][o])
         /\ stacks'[n][o].seq_0s = stacks[n][o].seq_0s
         /\ stacks'[n][o].serial_0_real = stacks[n][o].serial_0_real
         /\ stacks[n][o].serial_0_real \in Int
         /\ chain'[n][o] = ChainAfter(n, stacks[n])[o]
         /\ FollowedOK(stacks'[n][o], chain'[n][o])
         /\ o \notin known[n] => chain'[n][o] = 0
         /\ chain[n][o] # 0 => chain'[n][o] = chain[n][o]
<1>1. PICK calc : calc = Calc(stacks[n][o])
  OBVIOUS
<1>2. /\ IsStack(calc) /\ SameAtoms(stacks[n][o], calc)
      /\ calc.serial_min = stacks[n][o].serial_min
      /\ calc.serial_0_real = stacks[n][o].serial_0_real
      /\ FollowedOK(calc, ChainAfter(n, stacks[n])[o])
      /\ chain[n][o] # 0 => ChainAfter(n, stacks[n])[o] = chain[n][o]
  BY <1>1, ReadCalc
<1>3. SameAtoms(calc, stacks'[n][o]) /\ SameBounds(calc, stacks'[n][o])
  BY <1>1 DEF ReadDoes
<1>4. chain'[n][o] = ChainAfter(n, stacks[n])[o]
  <2>1. chain = [a \in Node |-> chain[a]]
    BY DEF WaitInv, ReadShapes
  <2> QED BY <2>1 DEF ReadDoes
<1>5. SameAtoms(stacks[n][o], stacks'[n][o])
  BY <1>2, <1>3, SameAtomsTrans
<1>6. Keeps(stacks[n][o], stacks'[n][o])
  BY <1>2, <1>3, <1>5 DEF Keeps, SameBounds
<1>7. FollowedOK(stacks'[n][o], chain'[n][o])
  BY <1>2, <1>3, <1>4, FollowedKept
<1>8. stacks[n][o].serial_0_real \in Int
  <2>1. IsStack(stacks[n][o])
    BY RegistryParts DEF WaitInv, TellInv
  <2> QED BY <2>1, StackFields
<1>9. o \notin known[n] => chain'[n][o] = 0
  <2> SUFFICES ASSUME o \notin known[n] PROVE chain'[n][o] = 0
    OBVIOUS
  <2>1. Present(stacks[n][o]) = {} /\ chain[n][o] = 0
    BY DEF WaitInv, UnknownOK
  <2>2. NoHoleHeads(stacks[n][o]) = {}
    BY <2>1 DEF NoHoleHeads, CompleteHeads
  <2> QED BY <1>4, <2>1, <2>2 DEF ChainAfter
<1>10. stacks'[n][o].seq_0s = stacks[n][o].seq_0s
       /\ stacks'[n][o].serial_0_real = stacks[n][o].serial_0_real
  BY <1>6 DEF Keeps, SameAtoms
<1> QED BY <1>2, <1>4, <1>6, <1>7, <1>8, <1>9, <1>10

\* Reading makes nobody miss anything.
LEMMA ReadRounds ==
  ASSUME WaitInv, ComeInv', ReadShapes', NEW n \in Node, ReadInGame(n)
  PROVE  RoundsWaitForNewcomers' /\ NothingMissedByComing'
<1>1. PICK ref : ref = KnownReference(n)
  OBVIOUS
<1>2. /\ ReadDoes(n, ref) /\ n \in InGame
      /\ \/ UNCHANGED <<last_seq_reference, delivered>>
         \/ /\ last_seq_reference[n] < ref
            /\ last_seq_reference' = [last_seq_reference EXCEPT ![n] = ref]
            /\ delivered' = [delivered EXCEPT ![n] = delivered'[n]]
            /\ delivered[n] \subseteq delivered'[n]
            /\ \A o \in Node :
                 \A h \in MsgList(ClearRecent(Calc(stacks[n][o]), ref),
                                  last_seq_reference[n] + 1 .. ref, TRUE) :
                    <<o, h>> \in delivered'[n]
  BY <1>1, ReadInGameDoes
<1>3. /\ ComeInv /\ TellInv /\ Shapes /\ ReadShapes /\ Server \in Node /\ InGame \subseteq Node
      /\ written \in [Node -> Seq(Atom)] /\ ref \in Int
      /\ RoundsWaitForNewcomers /\ NothingMissedByComing
  BY <1>1, KnownReferenceIs, ConfigAssumption DEF WaitInv, TellInv, ComeInv, Shapes, InGame, Client
<1>4. /\ UNCHANGED <<local_seq_last, net, written, known, seq_0, meta, status>>
      /\ \A a \in Node : a # n => stacks'[a] = stacks[a] /\ chain'[a] = chain[a]
  <2>1. UNCHANGED <<local_seq_last, net, written, known, seq_0, meta, status>>
    BY <1>2 DEF ReadDoes
  <2>2. \A a \in Node : a # n => stacks'[a] = stacks[a]
    <3>1. stacks = [a \in Node |-> stacks[a]]
      BY <1>3 DEF Shapes
    <3> QED BY <1>2, <3>1 DEF ReadDoes
  <2>3. \A a \in Node : a # n => chain'[a] = chain[a]
    <3>1. chain \in [Node -> [Node -> Int]]
      BY <1>3 DEF ReadShapes
    <3> QED BY <1>2, <3>1 DEF ReadDoes
  <2> QED BY <2>1, <2>2, <2>3
<1>5. \A o \in Node : /\ stacks'[n][o].seq_0s = stacks[n][o].seq_0s
                      /\ stacks'[n][o].serial_0_real = stacks[n][o].serial_0_real
                      /\ stacks[n][o].serial_0_real \in Int
                      /\ chain'[n][o] = ChainAfter(n, stacks[n])[o]
                      /\ chain[n][o] # 0 => chain'[n][o] = chain[n][o]
  BY <1>2, ReadKeeps
<1>6. InGame' = InGame /\ First' = First
  BY <1>3, <1>4, <1>5 DEF InGame, First
<1>7. known[n] \subseteq Node /\ \A a \in Node : known[a] \subseteq Node
  BY <1>3, RegistryParts
<1>8. Follows(n)' => Follows(n) /\ FollowsAfter(n)
  <2> SUFFICES ASSUME Follows(n)' PROVE Follows(n) /\ FollowsAfter(n)
    OBVIOUS
  <2>1. FollowsAfter(n)
    BY <1>4, <1>5, <1>7 DEF Follows, FollowsAfter
  <2>2. ASSUME NEW o \in known[n] PROVE chain[n][o] <= stacks[n][o].serial_0_real
    <3>1. CASE chain[n][o] # 0
      BY <1>5, <1>7, <2>1, <3>1 DEF FollowsAfter
    <3>2. CASE chain[n][o] = 0
      <4>1. Steady(stacks[n][o]) /\ IsStack(stacks[n][o])
        BY <1>3, <1>7, RegistryParts DEF TellInv
      <4>2. 1 <= stacks[n][o].serial_0_base /\ stacks[n][o].serial_0_base \in Int
            /\ stacks[n][o].serial_0_base <= stacks[n][o].serial_0_real
        <5>1. PICK k \in Nat : stacks[n][o].serial_0_base = SERIAL_START + k * NB_ATOMS_PER_BLOCK
          BY <4>1 DEF Steady
        <5>2. k * NB_ATOMS_PER_BLOCK \in Nat
          BY WindowAssumption
        <5> QED BY <4>1, <5>1, <5>2 DEF Steady, SERIAL_START
      <4> QED BY <1>5, <1>7, <3>2, <4>2
    <3> QED BY <3>1, <3>2
  <2> QED BY <2>1, <2>2 DEF Follows
<1>9. \A a \in InGame : /\ stacks'[a][a].seq_0s[a] = stacks[a][a].seq_0s[a]
                        /\ Follows(a)' => Follows(a)
  <2> SUFFICES ASSUME NEW a \in InGame
               PROVE  /\ stacks'[a][a].seq_0s[a] = stacks[a][a].seq_0s[a]
                      /\ Follows(a)' => Follows(a)
    OBVIOUS
  <2>1. CASE a = n
    BY <1>5, <1>8, <2>1
  <2>2. CASE a # n
    BY <1>3, <1>4, <2>2 DEF Follows
  <2> QED BY <2>1, <2>2
<1>10. CASE UNCHANGED <<last_seq_reference, delivered>>
  BY <1>4, <1>6, <1>9, <1>10, RoundsSame
<1>11. CASE /\ last_seq_reference[n] < ref
            /\ last_seq_reference' = [last_seq_reference EXCEPT ![n] = ref]
            /\ delivered' = [delivered EXCEPT ![n] = delivered'[n]]
            /\ delivered[n] \subseteq delivered'[n]
            /\ \A o \in Node :
                 \A h \in MsgList(ClearRecent(Calc(stacks[n][o]), ref),
                                  last_seq_reference[n] + 1 .. ref, TRUE) :
                    <<o, h>> \in delivered'[n]
  <2>1. /\ last_seq_reference'[n] = ref /\ last_seq_reference[n] \in Int
        /\ \A a \in Node : a # n => /\ last_seq_reference'[a] = last_seq_reference[a]
                                    /\ delivered'[a] = delivered[a]
    BY <1>3, <1>11 DEF ReadShapes
  <2>2. \A o \in Node : PlaysAt(o)' = PlaysAt(o)
    <3>1. \A o \in Node : stacks'[Server][Server].seq_0s[o] = stacks[Server][Server].seq_0s[o]
      BY <1>6 DEF First
    <3> QED BY <1>4, <1>6, <3>1 DEF PlaysAt
  <2>3. stacks[n][n].seq_0s[n] = First[n] /\ First[n] \in Int
    BY <1>2, FirstsAre
  <2>4. RoundsWaitForNewcomers'
    <3> SUFFICES ASSUME NEW a \in InGame, Follows(a)', NEW o \in known[Server]
                 PROVE  last_seq_reference'[a] < Max2(PlaysAt(o)', stacks'[a][a].seq_0s[a])
      BY <1>4, <1>6 DEF RoundsWaitForNewcomers
    <3>1. PlaysAt(o)' = PlaysAt(o) /\ stacks'[a][a].seq_0s[a] = stacks[a][a].seq_0s[a]
      BY <1>3, <1>7, <1>9, <2>2
    <3>2. CASE a = n
      <4>1. ref < Max2(PlaysAt(o), First[n])
        BY <1>1, <1>2, <1>8, <3>2, ReferenceWaits
      <4> QED BY <2>1, <2>3, <3>1, <3>2, <4>1
    <3>3. CASE a # n
      <4>1. last_seq_reference[a] < Max2(PlaysAt(o), stacks[a][a].seq_0s[a])
        BY <1>3, <1>9 DEF RoundsWaitForNewcomers
      <4> QED BY <1>3, <2>1, <3>1, <3>3, <4>1
    <3> QED BY <3>2, <3>3
  <2>5. NothingMissedByComing'
    <3> SUFFICES ASSUME NEW a \in InGame, Follows(a)', NEW o \in Node, NEW s \in MessagesOf(o),
                        stacks'[a][a].seq_0s[a] < written[o][s].seq,
                        written[o][s].seq <= last_seq_reference'[a]
                 PROVE  <<o, s>> \in delivered'[a]
      BY <1>4, <1>6 DEF NothingMissedByComing, MessagesOf
    <3>1. Follows(a) /\ stacks[a][a].seq_0s[a] < written[o][s].seq
      BY <1>9
    <3>2. CASE a # n
      <4>1. written[o][s].seq <= last_seq_reference[a]
        BY <1>3, <2>1, <3>2
      <4>2. <<o, s>> \in delivered[a]
        BY <1>3, <3>1, <4>1 DEF NothingMissedByComing
      <4> QED BY <1>3, <2>1, <3>2, <4>2
    <3>3. CASE a = n /\ written[o][s].seq <= last_seq_reference[n]
      <4>1. <<o, s>> \in delivered[n]
        BY <1>3, <3>1, <3>3 DEF NothingMissedByComing
      <4> QED BY <1>11, <3>3, <4>1
    <3>4. CASE a = n /\ ~(written[o][s].seq <= last_seq_reference[n])
      <4>1. PICK cl : cl = ClearRecent(Calc(stacks[n][o]), ref)
        OBVIOUS
      <4>2. First[n] < written[o][s].seq /\ written[o][s].seq <= ref
        BY <2>1, <2>3, <3>1, <3>4
      <4>3. s \in Given(cl, written[o][s].seq, TRUE) /\ AtomAt(cl, s).type = DATA
        <5>1. FollowsAfter(n) /\ s \in MessagesOf(o)
          BY <1>8, <3>4
        <5>2. written[o][s].seq <= KnownReference(n)
          BY <1>1, <4>2
        <5>3. cl = ClearRecent(Calc(stacks[n][o]), KnownReference(n))
          BY <1>1, <4>1
        <5>4. n \in InGame /\ First[n] < written[o][s].seq
          BY <1>2, <4>2
        <5> QED BY <5>1, <5>2, <5>3, <5>4, ReadGives
      <4>4. PICK q \in Int : q = written[o][s].seq
        BY <1>3, SeqIsInt DEF MessagesOf
      <4>5. q \in last_seq_reference[n] + 1 .. ref
        BY <1>3, <2>1, <3>4, <4>2, <4>4
      <4> DEFINE new == last_seq_reference[n] + 1 .. ref
      <4> HIDE DEF new
      <4>6. s \in MsgList(cl, new, TRUE)
        BY <4>3, <4>4, <4>5 DEF MsgList, new
      <4> QED BY <1>11, <3>4, <4>1, <4>6 DEF new
    <3> QED BY <3>2, <3>3, <3>4
  <2> QED BY <2>4, <2>5
<1> QED BY <1>2, <1>10, <1>11

\* Reading moves the reference of n no further than everybody it waits for.
LEMMA ReadInGameWaits ==
  ASSUME WaitInv, TellInv', NEW n \in Node, ReadInGame(n)
  PROVE  WaitInv'
<1>1. PICK ref : ref = KnownReference(n)
  OBVIOUS
<1>2. /\ ReadDoes(n, ref) /\ n \in InGame
      /\ \/ UNCHANGED <<last_seq_reference, delivered>>
         \/ /\ last_seq_reference[n] < ref
            /\ last_seq_reference' = [last_seq_reference EXCEPT ![n] = ref]
            /\ delivered' = [delivered EXCEPT ![n] = delivered'[n]]
            /\ delivered[n] \subseteq delivered'[n]
            /\ \A o \in Node :
                 \A h \in MsgList(ClearRecent(Calc(stacks[n][o]), ref),
                                  last_seq_reference[n] + 1 .. ref, TRUE) :
                    <<o, h>> \in delivered'[n]
  BY <1>1, ReadInGameDoes
<1>3. /\ ComeInv /\ TellInv /\ Shapes /\ ReadShapes /\ ComeInv' /\ Server \in Node
      /\ written \in [Node -> Seq(Atom)] /\ ref \in Int /\ known[n] \subseteq Node
  BY <1>1, KnownReferenceIs, ConfigAssumption, RegistryParts DEF WaitInv, TellInv, ComeInv, Shapes
<1>4. /\ UNCHANGED <<local_seq_last, net, written, known, seq_0, meta, status>>
      /\ \A a \in Node : a # n => stacks'[a] = stacks[a]
      /\ \A a \in Node : a # n => chain'[a] = chain[a]
  <2>1. UNCHANGED <<local_seq_last, net, written, known, seq_0, meta, status>>
    BY <1>2 DEF ReadDoes
  <2>2. \A a \in Node : a # n => stacks'[a] = stacks[a]
    <3>1. stacks = [a \in Node |-> stacks[a]]
      BY <1>3 DEF Shapes
    <3> QED BY <1>2, <3>1 DEF ReadDoes
  <2>3. \A a \in Node : a # n => chain'[a] = chain[a]
    <3>1. chain \in [Node -> [Node -> Int]]
      BY <1>3 DEF ReadShapes
    <3> QED BY <1>2, <3>1 DEF ReadDoes
  <2> QED BY <2>1, <2>2, <2>3
<1>5. \A o \in Node : /\ Keeps(stacks[n][o], stacks'[n][o])
                      /\ stacks'[n][o].seq_0s = stacks[n][o].seq_0s
                      /\ stacks'[n][o].serial_0_real = stacks[n][o].serial_0_real
                      /\ chain'[n][o] = ChainAfter(n, stacks[n])[o]
                      /\ FollowedOK(stacks'[n][o], chain'[n][o])
                      /\ o \notin known[n] => chain'[n][o] = 0
  BY <1>2, ReadKeeps
<1>6. First' = First
  BY <1>3, <1>4, <1>5 DEF First
<1>7. last_seq_reference' \in [Node -> Int]
      /\ \A a \in Node : a # n => last_seq_reference'[a] = last_seq_reference[a]
  BY <1>2, <1>3 DEF ReadShapes
<1>8. chain' \in [Node -> [Node -> Int]]
  <2>1. ChainAfter(n, stacks[n]) \in [Node -> Int]
    <3>1. ChainAfter(n, stacks[n]) = [o \in Node |-> ChainAfter(n, stacks[n])[o]]
      BY DEF ChainAfter
    <3>2. \A o \in Node : ChainAfter(n, stacks[n])[o] \in Int
      BY <1>5 DEF FollowedOK
    <3> QED BY <3>1, <3>2
  <2>2. chain \in [Node -> [Node -> Int]]
    BY <1>3 DEF ReadShapes
  <2> QED BY <1>2, <2>1, <2>2 DEF ReadDoes
<1>9. delivered' = [a \in Node |-> delivered'[a]]
  <2>1. delivered = [a \in Node |-> delivered[a]]
    BY <1>3 DEF ReadShapes
  <2> QED BY <1>2, <2>1
<1>10. ReadShapes'
  BY <1>7, <1>8, <1>9 DEF ReadShapes
<1>11. RoundsWaitForNewcomers' /\ NothingMissedByComing'
  BY <1>3, <1>10, ReadRounds
<1>12. \A c \in Client : JoinerOK(c)'
  <2> SUFFICES ASSUME NEW c \in Client PROVE JoinerOK(c)'
    OBVIOUS
  <2>1. JoinerOK(c) /\ c \in Node
    BY DEF WaitInv, Client
  <2>2. CASE c # n
    <3>1. local_seq_last[c] \in Int /\ First[c] \in Int
      BY <1>3, <2>1, RegistryParts, SeqsAre DEF SeqsTyped, First
    <3>2. /\ last_seq_reference'[c] = last_seq_reference[c] /\ chain'[c] = chain[c]
      BY <1>4, <1>7, <2>1, <2>2
    <3> QED BY <1>4, <1>6, <2>1, <3>1, <3>2, JoinerOn
  <2>3. CASE c = n
    <3>1. status[c] = "in"
      BY <1>2, <2>3 DEF InGame, Client
    <3>2. local_seq_last[c] \in Int /\ First[c] \in Int
      BY <1>3, <2>1, RegistryParts, SeqsAre DEF SeqsTyped, First
    <3>3. local_seq_last'[c] \in Int /\ local_seq_last[c] <= local_seq_last'[c]
      BY <1>4, <3>2
    <3> QED BY <1>4, <1>6, <2>1, <3>1, <3>2, <3>3, JoinerOn
  <2> QED BY <2>2, <2>3
<1>13. n \in Client => AwaitsOK(n, known'[n], stacks'[n][Server], meta)
  <2>1. n \in Client => AwaitsOK(n, known[n], stacks[n][Server], meta)
    BY DEF WaitInv
  <2>2. /\ Present(stacks'[n][Server]) = Present(stacks[n][Server])
        /\ stacks'[n][Server].serial_0_real = stacks[n][Server].serial_0_real
    BY <1>3, <1>5 DEF Keeps, SameAtoms
  <2> QED BY <1>4, <2>1, <2>2 DEF AwaitsOK
<1>14. UnknownOK(n)'
  <2>1. \A o \in Node \ known[n] : Present(stacks[n][o]) = {}
    BY DEF WaitInv, UnknownOK
  <2>2. \A o \in Node : Present(stacks'[n][o]) = Present(stacks[n][o])
    BY <1>5 DEF Keeps, SameAtoms
  <2> QED BY <1>4, <1>5, <2>1, <2>2 DEF UnknownOK
<1>15. n \in Client => LimitsOK(n)'
  <2>1. n \in Client => LimitsOK(n)
    BY DEF WaitInv
  <2>2. stacks'[n][n].seq_0s = stacks[n][n].seq_0s
    BY <1>5
  <2> QED BY <1>6, <2>1, <2>2 DEF LimitsOK
<1>16. \A p \in net' : p \in net \/ AnswerOK(p, meta)
  BY <1>4
<1>17. Writes(n, written, written')
  BY <1>3, <1>4, WritesNothing
<1>18. \A s \in 1 .. Len(written'[n]) : s > Len(written[n]) => First[n] <= written'[n][s].seq
  <2>1. Len(written[n]) \in Nat /\ written'[n] = written[n]
    BY <1>3, <1>4
  <2> QED BY <2>1
<1>19. Orderly(written'[n])
  BY <1>4 DEF WaitInv
<1>20. \A a \in Node : a # n => /\ stacks'[a] = stacks[a] /\ known'[a] = known[a]
                                /\ chain'[a] = chain[a]
  BY <1>4
<1>21. UNCHANGED meta /\ known'[Server] = known[Server]
  BY <1>4
<1>22. \A o \in Node : FollowedOK(stacks'[n][o], chain'[n][o])
  BY <1>5
<1> QED BY <1>6, <1>10, <1>11, <1>12, <1>13, <1>14, <1>15, <1>16, <1>17, <1>18, <1>19, <1>20,
           <1>21, <1>22, NodeWaits

----------------------------------------------------------------------------
(* All the steps.                                                          *)

\* At first nobody waits for anybody.
LEMMA JoinInitWaits == JoinInit => WaitInv
<1> SUFFICES ASSUME JoinInit PROVE WaitInv
  OBVIOUS
<1>1. TellInv /\ ComeInv /\ Server \in Node
  BY JoinInitTells, ConfigAssumption DEF TellInv
<1>2. /\ known = [n \in Node |-> Cleared(n).ids]
      /\ last_seq_reference = [n \in Node |-> SEQ_INVALID - 1]
      /\ net = {} /\ written = [n \in Node |-> <<>>] /\ meta = <<>>
      /\ delivered = [n \in Node |-> {}]
      /\ chain = [n \in Node |-> [o \in Node |-> SERIAL_INVALID]]
      /\ status = [c \in Client |-> "out"]
  BY DEF JoinInit
<1>3. \A n \in Node : known[n] = {n}
  BY <1>2 DEF Cleared
<1>4. \A n, o \in Node : /\ chain[n][o] = 0 /\ written[o] = <<>>
                         /\ last_seq_reference[n] = SEQ_INVALID - 1
  BY <1>2 DEF SERIAL_INVALID
<1>5. \A c \in Client : status[c] = "out" /\ c \in Node /\ c # Server
  BY <1>2 DEF Client
<1>6. DOMAIN meta = {}
  BY <1>2
<1>7. \A n, o \in Node : stacks[n][o].serial_reference = 0 /\ Present(stacks[n][o]) = {}
  <2>1. PICK none : none = StackInit(1)
    OBVIOUS
  <2>2. none.serial_reference = 0 /\ Present(none) = {}
    BY <2>1, StackInitIs DEF StackInit, SERIAL_INVALID, Present
  <2>3. \A n, o \in Node : Cleared(n).stacks[o] = none /\ Cleared(n).ids = {n}
    BY <2>1 DEF Cleared, SERIAL_START
  <2>4. \A o \in Node : /\ SetLocalSeq0(Cleared(Server), Server, Seq0).stacks[o].serial_reference = 0
                        /\ Present(SetLocalSeq0(Cleared(Server), Server, Seq0).stacks[o]) = {}
    BY <1>1, <2>2, <2>3 DEF SetLocalSeq0, Cleared, StackInit, Present
  <2> QED BY <1>1, <2>2, <2>3, <2>4 DEF JoinInit
<1>8. ReadShapes
  <2>1. last_seq_reference \in [Node -> Int] /\ delivered = [n \in Node |-> delivered[n]]
    BY <1>2 DEF SEQ_INVALID
  <2>2. chain \in [Node -> [Node -> Int]]
    BY <1>2 DEF SERIAL_INVALID
  <2> QED BY <2>1, <2>2 DEF ReadShapes
<1>9. \A c \in Client : JoinerOK(c)
  BY <1>1, <1>2, <1>3, <1>4, <1>5 DEF JoinerOK
<1>10. NamesOK(meta, written, First, known[Server])
  <2>1. known[Server] = {Server} /\ Server \notin Client
    BY <1>1, <1>3 DEF Client
  <2> QED BY <1>6, <2>1 DEF NamesOK
<1>11. \A c \in Client : AwaitsOK(c, known[c], stacks[c][Server], meta)
  BY <1>6 DEF AwaitsOK
<1>12. \A n \in Node : UnknownOK(n)
  BY <1>4, <1>7 DEF UnknownOK
<1>13. \A p \in net : AnswerOK(p, meta)
  BY <1>2
<1>14. \A c \in Client : LimitsOK(c)
  <2>1. PICK none : none = StackInit(1)
    OBVIOUS
  <2>2. none.seq_0s = [t \in Node |-> SEQ_INVALID]
    BY <2>1, StackInitIs
  <2>3. \A c \in Client : stacks[c][c] = none
    <3>1. \A n, o \in Node : Cleared(n).stacks[o] = none
      BY <2>1 DEF Cleared, SERIAL_START
    <3> QED BY <1>5, <3>1 DEF JoinInit
  <2>4. \A o \in Node : First[o] \in Int /\ SEQ_INVALID <= First[o]
    BY <1>1, SeqsAre DEF SeqsTyped, First
  <2> QED BY <1>5, <2>2, <2>3, <2>4 DEF LimitsOK, Max2, SEQ_INVALID
<1>15. FirstsOK(First, known[Server], written)
  <2>1. First[Server] = Seq0 /\ Seq0 \in Int
    BY <1>1, ConfigAssumption DEF TellInv
  <2> QED BY <1>1, <1>3, <1>4, <2>1 DEF FirstsOK
<1>16. \A n, o \in Node : FollowedOK(stacks[n][o], chain[n][o])
  BY <1>4, <1>7 DEF FollowedOK
<1>17. \A o \in Node : Orderly(written[o])
  BY <1>4 DEF Orderly
<1>18. RoundsWaitForNewcomers
  <2> SUFFICES ASSUME NEW n \in InGame, NEW o \in known[Server]
               PROVE  last_seq_reference[n] < Max2(PlaysAt(o), stacks[n][n].seq_0s[n])
    BY DEF RoundsWaitForNewcomers
  <2>1. n \in Node /\ o \in Node
    BY <1>1, <1>3 DEF InGame, Client
  <2>2. /\ stacks[n][n].seq_0s[n] \in Int /\ stacks[n][n].seq_0s[n] >= SEQ_INVALID
        /\ PlaysAt(o) \in Int
    BY <1>1, <2>1, SeqsAre DEF SeqsTyped
  <2> QED BY <1>4, <2>1, <2>2 DEF Max2, SEQ_INVALID
<1>19. NothingMissedByComing
  BY <1>4 DEF NothingMissedByComing, MessagesOf
<1> QED BY <1>1, <1>8, <1>9, <1>10, <1>11, <1>12, <1>13, <1>14, <1>15, <1>16, <1>17, <1>18,
           <1>19 DEF WaitInv

\* Every step keeps it.
LEMMA JoinNextWaits ==
  ASSUME OneWindow, ~Overtakes, ~Redundant, NbMeta # 0, WaitInv, [JoinNext]_joinVars
  PROVE  WaitInv'
<1>1. TellInv' /\ TellInv /\ ComeInv
  BY JoinNextTells DEF WaitInv, TellInv
<1>2. ASSUME NEW p \in net, RecvJoin(p) PROVE WaitInv'
  BY <1>1, <1>2, RecvJoinWaits
<1>3. ASSUME NEW p \in net, RecvAnswer(p) PROVE WaitInv'
  BY <1>1, <1>3, RecvAnswerWaits
<1>4. ASSUME NEW p \in net, RecvAtomOrRefuse(p) PROVE WaitInv'
  BY <1>1, <1>4, RecvAtomWaits
<1>5. ASSUME NEW c \in Client, ClientJoin(c) PROVE WaitInv'
  BY <1>1, <1>5, ClientJoinWaits
<1>6. ASSUME NEW c \in Client, AskToJoin(c) PROVE WaitInv'
  BY <1>1, <1>6, AskToJoinWaits
<1>7. ASSUME NEW c \in Client, TimeOut(c) PROVE WaitInv'
  BY <1>1, <1>7, TimeOutWaits
<1>8. ASSUME NEW n \in Node, WriteInGame(n) PROVE WaitInv'
  BY <1>1, <1>8, WriteInGameWaits
<1>9. ASSUME NEW n \in Node, ReadInGame(n) PROVE WaitInv'
  BY <1>1, <1>9, ReadInGameWaits
<1>10. ASSUME NEW n \in Node, NEW peer \in Node, SendToKnown(n, peer) PROVE WaitInv'
  BY <1>1, <1>10, SendToKnownWaits
<1>11. CASE UNCHANGED joinVars
  <2>1. /\ UNCHANGED <<stacks, local_seq_last, last_seq_reference, written, delivered, chain,
                       known, meta>>
        /\ status' = status /\ net' = net
    BY <1>11 DEF joinVars, vars, membership
  <2>2. First' = First
    BY <2>1 DEF First
  <2>3. \A c \in Client : JoinerOK(c)'
    <3> SUFFICES ASSUME NEW c \in Client PROVE JoinerOK(c)'
      OBVIOUS
    <3>1. JoinerOK(c) /\ c \in Node
      BY DEF WaitInv, Client
    <3>2. local_seq_last[c] \in Int /\ First[c] \in Int
      BY <1>1, <3>1, RegistryParts, SeqsAre, ConfigAssumption DEF SeqsTyped, First
    <3> QED BY <2>1, <2>2, <3>1, <3>2, JoinerOn
  <2> QED BY <1>1, <2>1, <2>3, StatusWaits
<1> QED BY <1>2, <1>3, <1>4, <1>5, <1>6, <1>7, <1>8, <1>9, <1>10, <1>11 DEF JoinNext, JoinNetwork

\* While players come in, no round becomes reference, anywhere, that somebody the server
\* has let in still plays: the server knows of a newcomer before its first round, and a
\* node that was not told of it yet is held back by the META it has not read, whichever
\* the order of answers, META and messages (seq_register, lw6dat_warehouse_meta_put).
THEOREM JoinRoundsWait ==
  ASSUME OneWindow, ~Overtakes, ~Redundant, NbMeta # 0
  PROVE  JoinSpec => []RoundsWaitForNewcomers
<1>1. JoinInit => WaitInv
  BY JoinInitWaits
<1>2. WaitInv /\ [JoinNext]_joinVars => WaitInv'
  BY JoinNextWaits
<1>3. WaitInv => RoundsWaitForNewcomers
  BY DEF WaitInv
<1> QED BY <1>1, <1>2, <1>3, PTL DEF JoinSpec

\* Nor is any message of those rounds left out when they are read, although what came
\* before its writer was registered was refused (_lw6dat_warehouse_put_atom_str).
THEOREM JoinNothingMissed ==
  ASSUME OneWindow, ~Overtakes, ~Redundant, NbMeta # 0
  PROVE  JoinSpec => []NothingMissedByComing
<1>1. JoinInit => WaitInv
  BY JoinInitWaits
<1>2. WaitInv /\ [JoinNext]_joinVars => WaitInv'
  BY JoinNextWaits
<1>3. WaitInv => NothingMissedByComing
  BY DEF WaitInv
<1> QED BY <1>1, <1>2, <1>3, PTL DEF JoinSpec
=============================================================================
