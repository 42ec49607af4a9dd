------------------------- MODULE ReferenceTheorems -------------------------
(***************************************************************************)
(* What the warehouses promise the game loop, for every set of nodes and   *)
(* every topology, as long as no node writes more atoms than a window of   *)
(* blocks holds (a million in the code): a round that is reference has all *)
(* its messages (ReferenceComplete), what is read blindly is empty         *)
(* (BlindReadIsEmpty), a MISS asks for what is missing (MissIsRight), and  *)
(* the warehouses implement Lockstep.                                      *)
(*                                                                         *)
(* The last sections are lemmas about stacks that begin at any serial      *)
(* (Steady), how far they are followed and what is read of them: the games *)
(* nodes come into need them (JoinTheorems).                               *)
(***************************************************************************)
EXTENDS WarehouseTheorems

----------------------------------------------------------------------------
(* The inductive invariant.                                                *)

\* The message the atom at serial s of w is of: its first and last serials.
HeadIn(w, s) == s - w[s].order_i
EndIn(w, s)  == HeadIn(w, s) + w[s].order_n - 1

\* A sequence of whole messages, of rounds that never go down.
Orderly(w) ==
  /\ \A s \in 1 .. Len(w) :
       /\ 1 <= HeadIn(w, s) /\ s <= EndIn(w, s) /\ EndIn(w, s) <= Len(w)
       /\ \A t \in HeadIn(w, s) .. EndIn(w, s) :
            /\ HeadIn(w, t) = HeadIn(w, s)
            /\ w[t].order_n = w[s].order_n /\ w[t].seq = w[s].seq
  /\ \A s, t \in 1 .. Len(w) : s <= t => w[s].seq <= w[t].seq

\* What a node writes fits in one window.
WrittenOK ==
  \A o \in Node :
    /\ Len(written[o]) < SerialN1(SERIAL_START)
    /\ Orderly(written[o])
    /\ \A s \in 1 .. Len(written[o]) : Seq0 <= written[o][s].seq

\* The window has not moved, and serial_min and serial_max bound what it holds.
Exact(st) ==
  /\ st.serial_0_base = SERIAL_START /\ st.serial_0_real = SERIAL_START
  /\ Present(st) = {} => st.serial_min = INT_MAX /\ st.serial_max = SERIAL_INVALID
  /\ Present(st) # {} =>
       /\ st.serial_min \in Present(st) /\ st.serial_max \in Present(st)
       /\ \A s \in Present(st) : st.serial_min <= s /\ s <= st.serial_max

\* Nothing beyond what was written, len atoms, is asked for (serial_miss_max
\* is 1 at first).
MissBounded(st, len) == 1 <= st.serial_miss_min /\ st.serial_miss_max <= Max2(1, len)

\* The reference of a stack is a whole message; when the stack was followed
\* from its first serial, all up to there is present.
ReferenceHeld(st, from) ==
  /\ from \in Nat
  /\ (from = 0 <=> st.serial_reference = 0)
  /\ from # 0 => CompleteAt(st, st.serial_reference)
  /\ from = 1 => 1 .. LastOf(st, st.serial_reference) \subseteq Present(st)

\* What was handed over are messages of rounds that were handed over.
DeliveredOK ==
  \A n \in Node : \A m \in delivered[n] :
    /\ m[2] \in MessagesOf(m[1])
    /\ written[m[1]][m[2]].seq <= last_seq_reference[n]

WindowStackOK(n, o) ==
  /\ Exact(stacks[n][o])
  /\ MissBounded(stacks[n][o], Len(written[o]))
  /\ ReferenceHeld(stacks[n][o], chain[n][o])

WInv == IInv /\ WrittenOK /\ (\A n, o \in Node : WindowStackOK(n, o))
             /\ DeliveredOK /\ ReferenceComplete

----------------------------------------------------------------------------
(* Bookkeeping.                                                            *)

\* Bookkeeping that keeps the bounds keeps what they bound.
LEMMA ExactKept ==
  ASSUME NEW st, NEW new, SameAtoms(st, new), SameBounds(st, new), Exact(st)
  PROVE  Exact(new)
BY DEF SameAtoms, SameBounds, Exact

LEMMA CompleteKept ==
  ASSUME NEW st, NEW new, SameAtoms(st, new), NEW h, IsStack(st)
  PROVE  /\ (CompleteAt(new, h) <=> CompleteAt(st, h))
         /\ h \in Present(st) => LastOf(new, h) = LastOf(st, h)
BY DEF SameAtoms, CompleteAt, LastOf

LEMMA HeldKept ==
  ASSUME NEW st, NEW new, SameAtoms(st, new), SameBounds(st, new), IsStack(st),
         NEW from, ReferenceHeld(st, from)
  PROVE  ReferenceHeld(new, from)
BY CompleteKept DEF SameAtoms, SameBounds, ReferenceHeld, CompleteAt
----------------------------------------------------------------------------
(* Writing in a window that does not move.                                 *)

\* A serial of the first window moves nothing.
LEMMA NoShift ==
  ASSUME NEW st, IsStack(st), st.serial_0_base = SERIAL_START,
         NEW serial \in 1 .. SerialN1(SERIAL_START)
  PROVE  Shifted(st, serial) = st
<1> DEFINE A == NB_ATOMS_PER_BLOCK
           M == MAX_NB_BLOCKS
           b == (serial - 1) \div NB_ATOMS_PER_BLOCK
<1>1. A \in Nat \ {0} /\ M \in Nat \ {0} /\ serial \in Int /\ serial - 1 \in Int
  BY WindowAssumption
<1>2. b \in Int /\ b * A <= serial - 1 /\ serial - 1 < b * A + A
  BY <1>1, BlockDivision
<1>3. 0 <= serial - 1 /\ serial - 1 < M * A /\ M * A \in Int /\ b * A \in Int
  BY <1>1, <1>2, WindowFacts
<1>4. BlockIndex(st, serial) = b
  BY DEF BlockIndex, SERIAL_START
<1> HIDE DEF b
<1>5. 0 <= b
  <2>1. ASSUME b <= -1 PROVE FALSE
    <3>1. b * A <= (-1) * A
      BY <1>2, <2>1, BlocksGrow
    <3>2. (-1) * A = -A
      BY <1>1
    <3> HIDE DEF A
    <3> QED BY <1>1, <1>2, <1>3, <3>1, <3>2
  <2> QED BY <1>2, <2>1
<1>6. b <= M - 1
  <2>1. ASSUME M <= b PROVE FALSE
    <3>1. M * A <= b * A
      BY <1>1, <1>2, <2>1, BlocksGrow
    <3> HIDE DEF A, M
    <3> QED BY <1>1, <1>2, <1>3, <3>1
  <2> QED BY <1>1, <1>2, <2>1
<1> QED BY <1>1, <1>2, <1>4, <1>5, <1>6 DEF Shifted

\* An atom is stored where it belongs, and the bounds follow.
LEMMA PutAtomInWindow ==
  ASSUME NEW st, NEW N \in Nat, Fits(st, N), Exact(st), NEW n \in Node,
         NEW serial \in 1 .. N, serial <= SerialN1(SERIAL_START),
         SerialN1(SERIAL_START) < INT_MAX,
         NEW atom \in Atom, NEW send_flag \in SUBSET Node
  PROVE  LET new == PutAtom(st, n, serial, atom, send_flag)
         IN  /\ Exact(new) /\ SameMiss(st, new)
             /\ new.serial_reference = st.serial_reference
             /\ \A s \in Present(st) : s \in Present(new) /\ AtomAt(new, s) = AtomAt(st, s)
<1> DEFINE cells == Stored(st, serial, atom, send_flag)
           min   == Min2(st.serial_min, serial)
           max   == Max2(st.serial_max, serial)
           new   == [st EXCEPT !.atoms = cells, !.serial_min = min, !.serial_max = max]
<1>1. IsStack(st) /\ Present(st) \subseteq 1 .. N /\ serial \in Int /\ INT_MAX \in Int
  BY IntMaxType DEF Fits
<1>2. Shifted(st, serial) = st
  BY <1>1, NoShift, WindowFacts DEF Exact
<1>3. PutAtom(st, n, serial, atom, send_flag) \in {st, new}
  BY <1>1, <1>2 DEF PutAtom, IsStack
<1>4. /\ st.serial_min \in Int /\ st.serial_max \in Int
      /\ st.atoms \in [Present(st) -> Cell]
  BY <1>1, StackFields
<1>5. /\ DOMAIN cells = Present(st) \cup {serial}
      /\ \A s \in Present(st) : cells[s] = st.atoms[s]
  BY <1>4 DEF Stored, Present
<1> HIDE DEF cells
<1>6. /\ new.atoms = cells /\ new.serial_min = min /\ new.serial_max = max
      /\ new.serial_0_base = st.serial_0_base /\ new.serial_0_real = st.serial_0_real
      /\ new.serial_reference = st.serial_reference /\ SameMiss(st, new)
  BY <1>1 DEF IsStack, SameMiss
<1> HIDE DEF new
<1>7. Present(new) = Present(st) \cup {serial}
      /\ \A s \in Present(st) : AtomAt(new, s) = AtomAt(st, s)
  BY <1>5, <1>6 DEF Present, AtomAt
<1>8. Exact(new)
  <2>1. CASE Present(st) = {}
    <3>1. st.serial_min = INT_MAX /\ st.serial_max = 0 /\ Present(new) = {serial}
      BY <1>7, <2>1 DEF Exact, SERIAL_INVALID
    <3>2. min = serial /\ max = serial
      BY <1>1, <3>1, WindowFacts DEF Min2, Max2
    <3> QED BY <1>1, <1>6, <3>1, <3>2 DEF Exact
  <2>2. CASE Present(st) # {}
    <3>1. /\ st.serial_min \in Present(st) /\ st.serial_max \in Present(st)
          /\ \A s \in Present(st) : s \in Int /\ st.serial_min <= s /\ s <= st.serial_max
      BY <1>1, <2>2 DEF Exact
    <3>2. \A s \in Present(new) : min <= s /\ s <= max
      BY <1>1, <1>4, <1>7, <3>1 DEF Min2, Max2
    <3>3. min \in Present(new) /\ max \in Present(new)
      BY <1>7, <3>1 DEF Min2, Max2
    <3> QED BY <1>6, <3>2, <3>3 DEF Exact
  <2> QED BY <2>1, <2>2
<1>9. SameMiss(st, st)
  BY DEF SameMiss
<1> QED BY <1>3, <1>6, <1>7, <1>8, <1>9

\* A local message is put after what is there, and the bounds follow.
LEMMA PutMsgInWindow ==
  ASSUME NEW st, NEW N \in Nat, Fits(st, N), Exact(st), NEW n \in Node,
         NEW type, NEW seq \in Int, seq >= st.seq_0s[n],
         NEW order_n \in Nat \ {0}, 0 <= st.serial_max,
         st.serial_max + order_n <= SerialN1(SERIAL_START),
         SerialN1(SERIAL_START) < INT_MAX,
         NEW send_flag
  PROVE  LET new == PutMsg(st, n, type, seq, order_n, send_flag)
         IN  /\ Exact(new) /\ SameMiss(st, new)
             /\ new.serial_reference = st.serial_reference
             /\ \A s \in Present(st) : s \in Present(new) /\ AtomAt(new, s) = AtomAt(st, s)
<1> DEFINE first == st.serial_max + 1
           last  == st.serial_max + order_n
           fresh == (first .. last) \cap Window(st.serial_0_base)
           Put(s) == [atom |-> [type |-> type, seq |-> seq,
                                order_i |-> s - first, order_n |-> order_n],
                      send_flag |-> send_flag, sent_status |-> {},
                      update_msg_called |-> FALSE]
           cells == [s \in DOMAIN st.atoms \cup fresh |->
                       IF s \in fresh THEN Put(s) ELSE st.atoms[s]]
           min   == Min2(st.serial_min, Min(fresh))
           new   == [st EXCEPT !.atoms = cells, !.serial_min = min, !.serial_max = last]
<1>1. /\ IsStack(st) /\ Present(st) \subseteq 1 .. N /\ INT_MAX \in Int
      /\ st.serial_0_base = 1 /\ SerialN1(1) \in Int
      /\ st.serial_max \in Int /\ st.serial_min \in Int /\ st.seq_0s[n] \in Int
      /\ st.atoms \in [Present(st) -> Cell]
  BY IntMaxType, StackFields, SerialN1Type DEF Fits, Exact, SERIAL_START
<1>2. first \in Int /\ last \in Int /\ 1 <= first /\ first <= last /\ last <= SerialN1(1)
  BY <1>1 DEF SERIAL_START
<1>3. Shifted(st, last) = st
  <2>1. last \in 1 .. SerialN1(SERIAL_START)
    BY <1>1, <1>2 DEF SERIAL_START
  <2> QED BY <1>1, <2>1, NoShift DEF SERIAL_START
<1>4. fresh = first .. last
  BY <1>1, <1>2 DEF Window
<1>5. PutMsg(st, n, type, seq, order_n, send_flag) = new
  <2>1. ~(seq < st.seq_0s[n] \/ last \notin Window(st.serial_0_base))
    BY <1>1, <1>2 DEF Window
  <2>2. PutMsg(st, n, type, seq, order_n, send_flag) =
          [st EXCEPT !.atoms = cells, !.serial_min = Min2(@, Min(fresh)), !.serial_max = last]
    BY <1>1, <1>3, <2>1 DEF PutMsg, IsStack
  <2> QED BY <1>1, <2>2 DEF IsStack
<1>6. Min(fresh) = first
  <2>1. fresh \subseteq Int /\ (\A y \in fresh : first <= y) /\ fresh # {} /\ first \in fresh
    BY <1>2, <1>4
  <2> HIDE DEF fresh, first
  <2>2. Min(fresh) \in fresh /\ \A y \in fresh : Min(fresh) <= y
    BY <1>2, <2>1, MinIs
  <2>3. Min(fresh) \in Int /\ first <= Min(fresh) /\ Min(fresh) <= first
    BY <2>1, <2>2
  <2> QED BY <1>2, <2>3
<1>7. /\ DOMAIN cells = Present(st) \cup first .. last
      /\ \A s \in Present(st) : s \notin first .. last => cells[s] = st.atoms[s]
  BY <1>1, <1>4 DEF Present
<1> HIDE DEF cells, fresh
<1>8. /\ new.atoms = cells /\ new.serial_min = min /\ new.serial_max = last
      /\ new.serial_0_base = st.serial_0_base /\ new.serial_0_real = st.serial_0_real
      /\ new.serial_reference = st.serial_reference /\ SameMiss(st, new)
  BY <1>1 DEF IsStack, SameMiss
<1> HIDE DEF new
<1>9. \A s \in Present(st) : s \in Int /\ s <= st.serial_max
  BY <1>1 DEF Exact
<1>10. /\ Present(new) = Present(st) \cup first .. last
       /\ \A s \in Present(st) : AtomAt(new, s) = AtomAt(st, s)
  BY <1>1, <1>7, <1>8, <1>9 DEF Present, AtomAt
<1>11. Exact(new)
  <2>1. CASE Present(st) = {}
    <3>1. st.serial_min = INT_MAX /\ Present(new) = first .. last
      BY <1>10, <2>1 DEF Exact
    <3>2. min = first
      BY <1>1, <1>2, <1>6, <3>1 DEF Min2, SERIAL_START
    <3> QED BY <1>2, <1>8, <3>1, <3>2 DEF Exact
  <2>2. CASE Present(st) # {}
    <3>1. /\ st.serial_min \in Present(st)
          /\ \A s \in Present(st) : s \in Int /\ st.serial_min <= s /\ s <= st.serial_max
      BY <1>1, <2>2 DEF Exact
    <3>2. min = st.serial_min
      BY <1>1, <1>2, <1>6, <3>1 DEF Min2
    <3>3. \A s \in Present(new) : min <= s /\ s <= last
      BY <1>1, <1>2, <1>10, <3>1, <3>2
    <3> QED BY <1>2, <1>8, <1>10, <3>1, <3>2, <3>3 DEF Exact
  <2> QED BY <2>1, <2>2
<1> QED BY <1>5, <1>8, <1>10, <1>11

----------------------------------------------------------------------------
(* Sequences of whole messages.                                            *)

\* A message put after whole messages, for a round no earlier than theirs.
LEMMA OrderlyAppend ==
  ASSUME NEW w \in Seq(Atom), NEW v \in Seq(Atom), Orderly(w),
         NEW seq \in Int, \A s \in 1 .. Len(w) : w[s].seq <= seq,
         NEW order_n \in Nat \ {0}, Len(v) = Len(w) + order_n,
         \A s \in 1 .. Len(w) : v[s] = w[s],
         \A s \in Len(w) + 1 .. Len(w) + order_n :
           v[s].seq = seq /\ v[s].order_i = s - Len(w) - 1 /\ v[s].order_n = order_n
  PROVE  Orderly(v)
<1> DEFINE len == Len(w)
<1>1. len \in Nat /\ \A s \in 1 .. len : /\ w[s].order_i \in Nat /\ w[s].order_n \in Nat
                                          /\ w[s].seq \in Int
  <2>1. len \in Nat /\ \A s \in 1 .. len : w[s] \in Atom
    OBVIOUS
  <2>2. \A a \in Atom : a.order_i \in Nat /\ a.order_n \in Nat /\ a.seq \in Int
    BY DEF Atom
  <2> QED BY <2>1, <2>2
<1> HIDE DEF len
<1>2. ASSUME NEW s \in 1 .. len
      PROVE  /\ 1 <= HeadIn(v, s) /\ s <= EndIn(v, s) /\ EndIn(v, s) <= len
             /\ \A t \in HeadIn(v, s) .. EndIn(v, s) :
                  /\ HeadIn(v, t) = HeadIn(v, s)
                  /\ v[t].order_n = v[s].order_n /\ v[t].seq = v[s].seq
  <2>1. v[s] = w[s]
    BY DEF len
  <2>2. HeadIn(v, s) = HeadIn(w, s) /\ EndIn(v, s) = EndIn(w, s)
    BY <2>1 DEF HeadIn, EndIn
  <2>3. /\ 1 <= HeadIn(w, s) /\ s <= EndIn(w, s) /\ EndIn(w, s) <= len
        /\ \A t \in HeadIn(w, s) .. EndIn(w, s) :
             /\ HeadIn(w, t) = HeadIn(w, s)
             /\ w[t].order_n = w[s].order_n /\ w[t].seq = w[s].seq
    BY DEF Orderly, len
  <2>4. HeadIn(w, s) \in Int /\ EndIn(w, s) \in Int
    <3>1. s \in Int /\ w[s].order_i \in Int /\ w[s].order_n \in Int
      BY <1>1
    <3>2. HeadIn(w, s) \in Int
      BY <3>1 DEF HeadIn
    <3> QED BY <3>1, <3>2 DEF EndIn
  <2>5. ASSUME NEW t \in HeadIn(w, s) .. EndIn(w, s)
        PROVE  v[t] = w[t] /\ HeadIn(v, t) = HeadIn(w, t)
    <3>1. t \in 1 .. len
      BY <1>1, <2>3, <2>4
    <3>2. v[t] = w[t]
      BY <3>1 DEF len
    <3> QED BY <3>2 DEF HeadIn
  <2> QED BY <2>1, <2>2, <2>3, <2>5
<1>3. ASSUME NEW s \in len + 1 .. len + order_n
      PROVE  HeadIn(v, s) = len + 1 /\ EndIn(v, s) = len + order_n
             /\ v[s].order_n = order_n /\ v[s].seq = seq
  <2>1. v[s].order_i = s - len - 1 /\ v[s].order_n = order_n /\ v[s].seq = seq
    BY DEF len
  <2> QED BY <1>1, <2>1 DEF HeadIn, EndIn
<1>4. Len(v) = len + order_n
  BY DEF len
<1>5. ASSUME NEW s \in 1 .. Len(v)
      PROVE  /\ 1 <= HeadIn(v, s) /\ s <= EndIn(v, s) /\ EndIn(v, s) <= Len(v)
             /\ \A t \in HeadIn(v, s) .. EndIn(v, s) :
                  /\ HeadIn(v, t) = HeadIn(v, s)
                  /\ v[t].order_n = v[s].order_n /\ v[t].seq = v[s].seq
  <2>1. CASE s \in 1 .. len
    <3>1. s <= len /\ EndIn(v, s) <= len /\ EndIn(v, s) \in Int
      <4>1. v[s] = w[s]
        BY <2>1 DEF len
      <4> QED BY <1>1, <1>2, <2>1, <4>1 DEF HeadIn, EndIn
    <3>2. EndIn(v, s) <= Len(v)
      BY <1>1, <1>4, <3>1
    <3> QED BY <1>2, <2>1, <3>2
  <2>2. CASE s \notin 1 .. len
    <3>1. s \in len + 1 .. len + order_n
      BY <1>1, <1>4, <2>2
    <3>2. HeadIn(v, s) = len + 1 /\ EndIn(v, s) = len + order_n
      BY <1>3, <3>1
    <3>3. \A t \in HeadIn(v, s) .. EndIn(v, s) :
            /\ HeadIn(v, t) = HeadIn(v, s)
            /\ v[t].order_n = v[s].order_n /\ v[t].seq = v[s].seq
      BY <1>3, <3>1, <3>2
    <3> QED BY <1>1, <1>4, <3>1, <3>2, <3>3
  <2> QED BY <2>1, <2>2
<1>6. ASSUME NEW s \in 1 .. Len(v), NEW t \in 1 .. Len(v), s <= t
      PROVE  v[s].seq <= v[t].seq
  <2>1. \A a \in 1 .. len : v[a].seq = w[a].seq /\ w[a].seq <= seq
    BY DEF len
  <2>2. \A a \in 1 .. Len(v) : a \notin 1 .. len => v[a].seq = seq
    BY <1>1, <1>3, <1>4
  <2>3. \A a, b \in 1 .. len : a <= b => w[a].seq <= w[b].seq
    BY DEF Orderly, len
  <2>4. t \in 1 .. len => s \in 1 .. len
    BY <1>1, <1>4, <1>6
  <2> QED BY <1>6, <2>1, <2>2, <2>3, <2>4
<1> QED BY <1>5, <1>6 DEF Orderly

\* The message a serial belongs to, in a sequence of whole messages.
LEMMA MessageOf ==
  ASSUME NEW w \in Seq(Atom), Orderly(w), NEW s \in 1 .. Len(w)
  PROVE  /\ HeadIn(w, s) \in 1 .. Len(w) /\ EndIn(w, s) \in 1 .. Len(w)
         /\ HeadIn(w, s) <= s /\ s <= EndIn(w, s)
         /\ w[s] \in Atom /\ w[s].order_n \in Nat \ {0}
         /\ w[HeadIn(w, s)].order_i = 0
         /\ w[s].order_i = 0 <=> HeadIn(w, s) = s
         /\ \A t \in HeadIn(w, s) .. EndIn(w, s) :
              /\ t \in 1 .. Len(w)
              /\ HeadIn(w, t) = HeadIn(w, s) /\ EndIn(w, t) = EndIn(w, s)
              /\ w[t].order_n = w[s].order_n /\ w[t].seq = w[s].seq
<1> DEFINE h == HeadIn(w, s)
           e == EndIn(w, s)
<1>1. Len(w) \in Nat /\ \A t \in 1 .. Len(w) :
        w[t] \in Atom /\ w[t].order_i \in Nat /\ w[t].order_n \in Nat
  <2>1. \A t \in 1 .. Len(w) : w[t] \in Atom
    OBVIOUS
  <2> QED BY <2>1 DEF Atom
<1>2. /\ 1 <= h /\ s <= e /\ e <= Len(w)
      /\ \A t \in h .. e : /\ HeadIn(w, t) = h
                           /\ w[t].order_n = w[s].order_n /\ w[t].seq = w[s].seq
  BY DEF Orderly
<1>3. /\ h = s - w[s].order_i /\ e = h + w[s].order_n - 1
      /\ h \in Int /\ e \in Int /\ h <= s
  BY <1>1 DEF HeadIn, EndIn
<1>4. w[s].order_n \in Nat \ {0} /\ h \in 1 .. Len(w) /\ e \in 1 .. Len(w)
  BY <1>1, <1>2, <1>3
<1>5. w[h].order_i = 0
  <2>1. h \in h .. e
    BY <1>2, <1>3
  <2>2. HeadIn(w, h) = h
    BY <1>2, <2>1
  <2>3. h - w[h].order_i = h /\ w[h].order_i \in Nat
    BY <1>1, <1>4, <2>2 DEF HeadIn
  <2> HIDE DEF h
  <2> QED BY <1>4, <2>3
<1>6. w[s].order_i = 0 <=> h = s
  BY <1>1, <1>3
<1>7. ASSUME NEW t \in h .. e
      PROVE  t \in 1 .. Len(w) /\ EndIn(w, t) = e
  <2>1. HeadIn(w, t) = h /\ w[t].order_n = w[s].order_n
    BY <1>2
  <2> QED BY <1>1, <1>2, <1>3, <2>1 DEF EndIn
<1> QED BY <1>1, <1>2, <1>3, <1>4, <1>5, <1>6, <1>7

\* After a message comes the first atom of another.
LEMMA MessageAfter ==
  ASSUME NEW w \in Seq(Atom), Orderly(w), NEW s \in 1 .. Len(w), EndIn(w, s) < Len(w)
  PROVE  /\ EndIn(w, s) + 1 \in 1 .. Len(w)
         /\ HeadIn(w, EndIn(w, s) + 1) = EndIn(w, s) + 1
<1> DEFINE e == EndIn(w, s)
           h == HeadIn(w, e + 1)
<1>1. e \in 1 .. Len(w) /\ Len(w) \in Nat /\ HeadIn(w, s) <= e /\ HeadIn(w, s) \in Int
  <2>1. HeadIn(w, s) \in 1 .. Len(w) /\ e \in 1 .. Len(w) /\ HeadIn(w, s) <= s /\ s <= e
    BY MessageOf
  <2> QED BY <2>1
<1>2. e + 1 \in 1 .. Len(w)
  BY <1>1
<1>3. h \in 1 .. Len(w) /\ h <= e + 1 /\ e + 1 <= EndIn(w, e + 1) /\ EndIn(w, e + 1) \in 1 .. Len(w)
  BY <1>2, MessageOf
<1>4. ASSUME h <= e PROVE FALSE
  <2>1. e \in h .. EndIn(w, e + 1)
    BY <1>1, <1>3, <1>4
  <2>2. EndIn(w, e) = EndIn(w, e + 1)
    BY <1>2, <2>1, MessageOf
  <2>3. e \in HeadIn(w, s) .. e
    BY <1>1
  <2>4. EndIn(w, e) = e
    BY <2>3, MessageOf
  <2> HIDE DEF e
  <2> QED BY <1>1, <1>3, <2>2, <2>4
<1> HIDE DEF h
<1>5. h = e + 1
  BY <1>1, <1>3, <1>4
<1> QED BY <1>2, <1>5 DEF h

----------------------------------------------------------------------------
(* A stack that holds some of what was written, w.                         *)

Holds(st, w) == \A s \in Present(st) : s \in 1 .. Len(w) /\ AtomAt(st, s) = w[s]

\* A message is complete when all of it is there.
LEMMA CompleteIs ==
  ASSUME NEW w \in Seq(Atom), Orderly(w), NEW st, Holds(st, w), NEW h \in Present(st)
  PROVE  /\ h \in 1 .. Len(w)
         /\ w[h].order_i = 0 => LastOf(st, h) = EndIn(w, h)
         /\ CompleteAt(st, h) <=> w[h].order_i = 0 /\ h .. EndIn(w, h) \subseteq Present(st)
<1>1. h \in 1 .. Len(w) /\ AtomAt(st, h) = w[h]
  BY DEF Holds
<1>2. /\ w[h].order_n \in Nat \ {0} /\ (w[h].order_i = 0 <=> HeadIn(w, h) = h)
      /\ \A t \in HeadIn(w, h) .. EndIn(w, h) :
              /\ t \in 1 .. Len(w)
              /\ HeadIn(w, t) = HeadIn(w, h)
              /\ w[t].order_n = w[h].order_n /\ w[t].seq = w[h].seq
  BY <1>1, MessageOf
<1>3. ASSUME w[h].order_i = 0
      PROVE  EndIn(w, h) = h + w[h].order_n - 1 /\ LastOf(st, h) = EndIn(w, h)
  BY <1>1, <1>2, <1>3 DEF EndIn, LastOf
<1>4. ASSUME CompleteAt(st, h)
      PROVE  w[h].order_i = 0 /\ h .. EndIn(w, h) \subseteq Present(st)
  <2>1. w[h].order_i = 0
    BY <1>1, <1>4 DEF CompleteAt
  <2>2. \A i \in 1 .. w[h].order_n - 1 : h + i \in Present(st)
    BY <1>1, <1>4 DEF CompleteAt
  <2>3. ASSUME NEW t \in h .. EndIn(w, h) PROVE t \in Present(st)
    <3>1. CASE t = h
      BY <3>1
    <3>2. CASE t # h
      <4>1. t - h \in 1 .. w[h].order_n - 1 /\ t = h + (t - h)
        BY <1>1, <1>2, <1>3, <2>1, <3>2
      <4> QED BY <2>2, <4>1
    <3> QED BY <3>1, <3>2
  <2> QED BY <2>1, <2>3
<1>5. ASSUME w[h].order_i = 0, h .. EndIn(w, h) \subseteq Present(st)
      PROVE  CompleteAt(st, h)
  <2>1. ASSUME NEW i \in 1 .. w[h].order_n - 1
        PROVE  /\ h + i \in Present(st) /\ AtomAt(st, h + i).seq = w[h].seq
               /\ AtomAt(st, h + i).order_i = i
    <3>1. h + i \in h .. EndIn(w, h) /\ HeadIn(w, h) = h
      BY <1>1, <1>2, <1>3, <1>5
    <3>2. h + i \in Present(st) /\ h + i \in 1 .. Len(w)
          /\ HeadIn(w, h + i) = h /\ w[h + i].seq = w[h].seq
      BY <1>2, <1>5, <3>1
    <3>3. AtomAt(st, h + i) = w[h + i]
      BY <3>2 DEF Holds
    <3>4. h + i - w[h + i].order_i = h /\ w[h + i].order_i \in Nat
      <4>1. w[h + i] \in Atom
        BY <3>2
      <4> QED BY <3>2, <4>1 DEF HeadIn, Atom
    <3>5. w[h + i].order_i = i
      BY <1>1, <3>4
    <3> QED BY <3>2, <3>3, <3>5
  <2> QED BY <1>1, <1>5, <2>1 DEF CompleteAt
<1> QED BY <1>1, <1>3, <1>4, <1>5

\* The first atoms of the messages of a round, and the sizes of these messages.
LEMMA HeadsAre ==
  ASSUME NEW w \in Seq(Atom), Orderly(w), NEW st, Holds(st, w), NEW q,
         NEW h \in Heads(st, q)
  PROVE  /\ h \in 1 .. Len(w) /\ w[h].order_i = 0 /\ w[h].seq = q
         /\ HeadIn(w, h) = h /\ EndIn(w, h) \in h .. Len(w)
         /\ SizeFrom(st, q, h) \in Nat \ {0}
         /\ h + SizeFrom(st, q, h) - 1 = EndIn(w, h)
<1>1. \A t \in Having(st, q) :
        t \in 1 .. Len(w) /\ AtomAt(st, t) = w[t] /\ w[t].seq = q /\ HeadOf(st, t) = HeadIn(w, t)
  BY DEF Having, Holds, HeadOf, HeadIn
<1>2. \E t \in Having(st, q) : HeadOf(st, t) = h
  BY DEF Heads
<1>3. PICK c \in Having(st, q) : HeadOf(st, c) = h /\ SizeFrom(st, q, h) = AtomAt(st, c).order_n
  BY <1>2, Zenon DEF SizeFrom
<1>4. /\ c \in 1 .. Len(w) /\ AtomAt(st, c) = w[c] /\ w[c].seq = q /\ HeadIn(w, c) = h
  BY <1>1, <1>3
<1>5. /\ h \in 1 .. Len(w) /\ EndIn(w, c) \in 1 .. Len(w) /\ h <= c /\ c <= EndIn(w, c)
      /\ w[c].order_n \in Nat \ {0} /\ w[h].order_i = 0
      /\ \A u \in h .. EndIn(w, c) : /\ HeadIn(w, u) = h /\ EndIn(w, u) = EndIn(w, c)
                                     /\ w[u].order_n = w[c].order_n /\ w[u].seq = w[c].seq
  <2>1. EndIn(w, c) \in 1 .. Len(w)
    BY <1>4, MessageOf
  <2>2. h <= c /\ c <= EndIn(w, c) /\ w[c].order_n \in Nat \ {0}
    BY <1>4, MessageOf
  <2>3. h \in 1 .. Len(w) /\ w[h].order_i = 0
    BY <1>4, MessageOf
  <2>4. \A u \in h .. EndIn(w, c) : /\ HeadIn(w, u) = h /\ EndIn(w, u) = EndIn(w, c)
                                     /\ w[u].order_n = w[c].order_n /\ w[u].seq = w[c].seq
    BY <1>4, MessageOf
  <2> QED BY <2>1, <2>2, <2>3, <2>4
<1>6. h \in h .. EndIn(w, c)
  BY <1>4, <1>5
<1>7. /\ HeadIn(w, h) = h /\ EndIn(w, h) = EndIn(w, c) /\ w[h].seq = q
      /\ w[h].order_n = w[c].order_n
  BY <1>4, <1>5, <1>6
<1>8. SizeFrom(st, q, h) = w[h].order_n
  BY <1>3, <1>4, <1>7
<1>9. EndIn(w, h) = h + w[h].order_n - 1
  BY <1>7 DEF EndIn
<1> QED BY <1>4, <1>5, <1>7, <1>8, <1>9

\* What is given is complete, and was written.
LEMMA GivenIs ==
  ASSUME NEW w \in Seq(Atom), Orderly(w), NEW st, Holds(st, w), NEW q, NEW get_all,
         NEW h \in Given(st, q, get_all)
  PROVE  /\ h \in 1 .. Len(w) /\ w[h].order_i = 0 /\ w[h].seq = q
         /\ h \in Present(st) /\ CompleteAt(st, h) /\ h >= st.serial_min
<1>1. h \in Heads(st, q) /\ h >= st.serial_min
  BY DEF Given, Visited
<1>2. /\ h \in 1 .. Len(w) /\ w[h].order_i = 0 /\ w[h].seq = q
      /\ HeadIn(w, h) = h /\ EndIn(w, h) \in h .. Len(w)
      /\ h + SizeFrom(st, q, h) - 1 = EndIn(w, h)
  BY <1>1, HeadsAre
<1>3. h .. EndIn(w, h) \subseteq Present(st)
  BY <1>2 DEF Given, SerialsOf
<1>4. h \in Present(st)
  BY <1>2, <1>3
<1> QED BY <1>1, <1>2, <1>3, <1>4, CompleteIs

\* What a visited message lacks was written.
LEMMA VisitedWritten ==
  ASSUME NEW w \in Seq(Atom), Orderly(w), NEW st, Holds(st, w), NEW q
  PROVE  SerialsOf(st, q, Visited(st, q)) \subseteq 1 .. Len(w)
<1> SUFFICES ASSUME NEW s \in SerialsOf(st, q, Visited(st, q)) PROVE s \in 1 .. Len(w)
  OBVIOUS
<1>1. PICK h \in Visited(st, q) : s \in h .. h + SizeFrom(st, q, h) - 1
  BY DEF SerialsOf
<1>2. h \in Heads(st, q)
  BY DEF Visited
<1>3. h \in 1 .. Len(w) /\ EndIn(w, h) \in h .. Len(w) /\ h + SizeFrom(st, q, h) - 1 = EndIn(w, h)
  BY <1>2, HeadsAre
<1> QED BY <1>1, <1>3

----------------------------------------------------------------------------
(* The reference of a stack.                                               *)

\* Where a stack is followed from once the reference has been computed.
FollowedFrom(st, from) ==
  IF st.serial_min > st.serial_reference /\ NoHoleHeads(st) # {} THEN st.serial_min ELSE from

\* All of a complete message is present.
LEMMA Within ==
  ASSUME NEW st, IsStack(st), NEW h, CompleteAt(st, h)
  PROVE  h .. LastOf(st, h) \subseteq Present(st)
<1>1. h \in Present(st) /\ h \in Int /\ AtomAt(st, h).order_n \in Nat
  BY StackFields, AtomFields DEF CompleteAt
<1> SUFFICES ASSUME NEW s \in h .. LastOf(st, h) PROVE s \in Present(st)
  OBVIOUS
<1>2. CASE s = h
  BY <1>1, <1>2
<1>3. CASE s # h
  <2>1. s - h \in 1 .. AtomAt(st, h).order_n - 1 /\ s = h + (s - h)
    BY <1>1, <1>3 DEF LastOf
  <2> QED BY <2>1 DEF CompleteAt
<1> QED BY <1>2, <1>3

\* The calculation finds complete messages, without a hole since the last one.
LEMMA CalcHolds ==
  ASSUME NEW st, NEW N \in Nat, Fits(st, N), Exact(st), NEW from, ReferenceHeld(st, from)
  PROVE  /\ Exact(Calc(st)) /\ SameMiss(st, Calc(st))
         /\ ReferenceHeld(Calc(st), FollowedFrom(st, from))
         /\ FollowedFrom(st, from) <= SERIAL_START => from <= SERIAL_START
<1> DEFINE new  == Calc(st)
           ref  == st.serial_reference
           min  == st.serial_min
           good == NoHoleHeads(st)
           last == MaxOr(good, ref)
           to   == FollowedFrom(st, from)
<1>1. /\ IsStack(st) /\ Present(st) \subseteq 1 .. N
      /\ ref \in Int /\ min \in Int
  BY StackFields DEF Fits
<1>2. /\ new.serial_min = min /\ new.serial_0_real = st.serial_0_real
      /\ new.serial_reference = last /\ SameMiss(st, new)
      /\ SameAtoms(st, new) /\ IsStack(new)
  BY <1>1, CalcBounds, CalcKeeps
<1> HIDE DEF new
<1>3. /\ Present(new) = Present(st)
      /\ \A h : CompleteAt(new, h) <=> CompleteAt(st, h)
      /\ \A h \in Present(st) : LastOf(new, h) = LastOf(st, h)
  BY <1>1, <1>2, CompleteKept DEF SameAtoms
<1>4. Exact(new)
  BY <1>2, <1>3 DEF Exact, SameAtoms
<1>5. /\ from \in Nat /\ (from = 0 <=> ref = 0)
      /\ from # 0 => CompleteAt(st, ref)
      /\ from = 1 => 1 .. LastOf(st, ref) \subseteq Present(st)
  BY DEF ReferenceHeld
<1>6. from # 0 => ref \in Present(st) /\ min <= ref
  BY <1>5 DEF CompleteAt, Exact
<1>7. CASE good = {}
  <2>1. last = ref /\ to = from
    BY <1>7 DEF MaxOr, FollowedFrom
  <2>2. ReferenceHeld(new, from)
    <3>1. from = 1 => 1 .. LastOf(new, ref) \subseteq Present(new)
      BY <1>3, <1>5, <1>6
    <3> QED BY <1>2, <1>3, <1>5, <2>1, <3>1 DEF ReferenceHeld
  <2> QED BY <1>2, <1>4, <2>1, <2>2 DEF new
<1>8. CASE good # {}
  <2>1. good \subseteq Present(st) /\ \A h \in good : CompleteAt(st, h)
    BY DEF NoHoleHeads, CompleteHeads
  <2>2. last \in good
    <3>1. good \subseteq Int /\ \A y \in good : y <= N
      BY <1>1, <2>1
    <3>2. Max(good) \in good
      BY <1>8, <3>1, MaxIs
    <3> QED BY <1>8, <3>2 DEF MaxOr
  <2> HIDE DEF last
  <2>3. last \in 1 .. N /\ last \in Present(st) /\ CompleteAt(st, last)
    BY <1>1, <2>1, <2>2
  <2>4. CalcStart(st) .. last \subseteq Present(st)
    <3> SUFFICES ASSUME NEW s \in CalcStart(st) .. last PROVE s \in Present(st)
      OBVIOUS
    <3>1. PICK g \in CompleteHeads(st) : s \in g .. LastOf(st, g)
      BY <2>2 DEF NoHoleHeads
    <3>2. CompleteAt(st, g) /\ g \in Present(st)
      BY <3>1 DEF CompleteHeads
    <3> QED BY <1>1, <3>1, <3>2, Within
  <2>5. last .. LastOf(st, last) \subseteq Present(st)
    BY <1>1, <2>3, Within
  <2>6. LastOf(st, last) \in Int
    BY <1>1, <2>3, AtomFields DEF LastOf
  <2>7. /\ to \in Nat /\ to # 0
        /\ to = 1 => 1 .. last \subseteq Present(st)
        /\ to <= 1 => from <= 1
    <3>1. CASE min > ref
      <4>1. to = min /\ CalcStart(st) = min
        BY <1>1, <1>8, <3>1 DEF FollowedFrom, CalcStart, Max2
      <4>2. min \in Present(st)
        BY <2>3 DEF Exact
      <4>3. from = 0
        BY <1>1, <1>5, <1>6, <3>1
      <4> QED BY <1>1, <2>4, <4>1, <4>2, <4>3
    <3>2. CASE min <= ref
      <4>1. to = from /\ CalcStart(st) = ref
        BY <1>1, <3>2 DEF FollowedFrom, CalcStart, Max2
      <4>2. min \in Present(st) /\ min >= 1
        BY <1>1, <2>3 DEF Exact
      <4>3. from # 0
        BY <1>1, <1>5, <3>2, <4>2
      <4>4. from = 1 => 1 .. ref \subseteq Present(st)
        <5>1. ref \in Present(st) /\ CompleteAt(st, ref)
          BY <1>5, <1>6, <4>3
        <5>2. LastOf(st, ref) \in Int /\ LastOf(st, ref) >= ref - 1
          BY <1>1, <5>1, AtomFields DEF LastOf
        <5>3. ASSUME from = 1, NEW s \in 1 .. ref PROVE s \in Present(st)
          <6>1. CASE s = ref
            BY <5>1, <6>1
          <6>2. CASE s # ref
            BY <1>1, <1>5, <5>2, <5>3, <6>2
          <6> QED BY <6>1, <6>2
        <5> QED BY <5>3
      <4>5. ASSUME from = 1, NEW s \in 1 .. last PROVE s \in Present(st)
        <5>1. s \in 1 .. ref \/ s \in ref .. last
          BY <1>1, <2>3
        <5> QED BY <2>4, <4>1, <4>4, <4>5, <5>1
      <4> QED BY <1>5, <4>1, <4>3, <4>5
    <3> QED BY <1>1, <3>1, <3>2
  <2> HIDE DEF to
  <2>8. ReferenceHeld(new, to)
    <3>1. LastOf(new, last) = LastOf(st, last) /\ CompleteAt(new, last) /\ last # 0
      BY <1>3, <2>3
    <3>2. to = 1 => 1 .. LastOf(st, last) \subseteq Present(st)
      <4>1. ASSUME to = 1, NEW s \in 1 .. LastOf(st, last) PROVE s \in Present(st)
        <5>1. s \in 1 .. last \/ s \in last .. LastOf(st, last)
          BY <2>3, <2>6
        <5> QED BY <2>5, <2>7, <4>1, <5>1
      <4> QED BY <4>1
    <3> QED BY <1>2, <1>3, <2>7, <3>1, <3>2 DEF ReferenceHeld
  <2> QED BY <1>2, <1>4, <2>7, <2>8 DEF to, new, SERIAL_START
<1> QED BY <1>7, <1>8

\* A round that is over at a writer followed from its first serial: a message
\* of it lies before the reference, and all of the round is read.
LEMMA RoundIsRead ==
  ASSUME NEW w \in Seq(Atom), Orderly(w), NEW st, IsStack(st), Holds(st, w), Exact(st),
         NEW ref \in Present(st), 1 .. ref \subseteq Present(st),
         NEW q \in Nat, q < w[ref].seq,
         NEW s \in 1 .. Len(w), w[s].order_i = 0, w[s].seq = q
  PROVE  s \in Given(st, q, TRUE)
<1> DEFINE having == Having(st, q)
           from   == Seq2Serial(st, q)
           heads  == {h \in Heads(st, q) : h >= st.serial_min}
           After(h) == h + SizeFrom(st, q, h)
<1>1. /\ ref \in 1 .. Len(w) /\ Len(w) \in Nat /\ \A t \in 1 .. Len(w) : w[t].seq \in Int
      /\ \A t, u \in 1 .. Len(w) : t <= u => w[t].seq <= w[u].seq
  <2>1. ref \in 1 .. Len(w) /\ Len(w) \in Nat
    BY DEF Holds
  <2>2. \A t \in 1 .. Len(w) : w[t] \in Atom
    OBVIOUS
  <2>3. \A a \in Atom : a.seq \in Int
    BY DEF Atom
  <2>4. \A t, u \in 1 .. Len(w) : t <= u => w[t].seq <= w[u].seq
    BY DEF Orderly
  <2> QED BY <2>1, <2>2, <2>3, <2>4
<1>2. ASSUME NEW t \in 1 .. Len(w), w[t].seq <= q
      PROVE  t < ref /\ t \in Present(st) /\ AtomAt(st, t) = w[t]
  <2>1. t < ref
    BY <1>1, <1>2
  <2>2. t \in Present(st)
    BY <1>1, <2>1
  <2> QED BY <2>1, <2>2 DEF Holds
<1>3. having = {t \in 1 .. Len(w) : w[t].seq = q}
  <2>1. \A t \in 1 .. Len(w) : w[t].seq = q => t \in Present(st) /\ AtomAt(st, t) = w[t]
    BY <1>2
  <2>2. \A t \in Present(st) : t \in 1 .. Len(w) /\ AtomAt(st, t) = w[t]
    BY DEF Holds
  <2> QED BY <2>1, <2>2 DEF Having
<1>4. st.serial_min = 1 /\ st.serial_max >= 1 /\ st.serial_0_real = 1 /\ st.serial_max \in Int
  <2>1. 1 \in Present(st)
    BY <1>1
  <2>2. st.serial_min \in Int /\ st.serial_max \in Int
    BY StackFields
  <2>3. /\ st.serial_min \in Present(st) /\ st.serial_0_real = 1
        /\ st.serial_min <= 1 /\ 1 <= st.serial_max
    BY <2>1 DEF Exact, SERIAL_START
  <2>4. st.serial_min >= 1
    BY <2>3 DEF Holds
  <2> QED BY <2>2, <2>3, <2>4
<1>5. ASSUME NEW h \in Heads(st, q)
      PROVE  /\ h \in 1 .. Len(w) /\ w[h].order_i = 0 /\ w[h].seq = q
             /\ HeadIn(w, h) = h /\ EndIn(w, h) \in h .. Len(w)
             /\ SizeFrom(st, q, h) \in Nat \ {0}
             /\ h + SizeFrom(st, q, h) - 1 = EndIn(w, h)
             /\ After(h) = EndIn(w, h) + 1 /\ h \in heads
             /\ h .. EndIn(w, h) \subseteq Present(st)
             /\ h \in Present(st) /\ EndIn(w, h) \in Present(st)
  <2>1. /\ h \in 1 .. Len(w) /\ w[h].order_i = 0 /\ w[h].seq = q
        /\ HeadIn(w, h) = h /\ EndIn(w, h) \in h .. Len(w)
        /\ SizeFrom(st, q, h) \in Nat \ {0}
        /\ h + SizeFrom(st, q, h) - 1 = EndIn(w, h)
    BY <1>5, HeadsAre
  <2>2. After(h) = EndIn(w, h) + 1 /\ h \in heads
    BY <1>4, <1>5, <2>1
  <2>3. \A t \in h .. EndIn(w, h) : t \in Present(st)
    <3> TAKE t \in h .. EndIn(w, h)
    <3>1. w[t].seq = w[h].seq /\ t \in 1 .. Len(w)
      BY <2>1, MessageOf
    <3> QED BY <1>1, <1>2, <2>1, <3>1
  <2>4. h \in h .. EndIn(w, h) /\ EndIn(w, h) \in h .. EndIn(w, h)
    BY <2>1
  <2> QED BY <2>1, <2>2, <2>3, <2>4
<1>6. \A t \in having : HeadOf(st, t) \in Heads(st, q)
  BY DEF Heads
<1>7. from \in Heads(st, q)
  <2>1. having # {} /\ having \subseteq Int /\ 1 \in Int /\ Len(w) \in Int
        /\ (\A y \in having : 1 <= y) /\ (\A y \in having : y <= Len(w))
    BY <1>1, <1>3
  <2> HIDE DEF having
  <2>2. Min(having) \in having
    BY <2>1, MinIs, Zenon
  <2>3. Max(having) \in having
    BY <2>1, MaxIs, Zenon
  <2>4. from = HeadOf(st, IF ScanFromMin(st, q) THEN Min(having) ELSE Max(having))
    BY <1>4, <2>1 DEF Seq2Serial, having
  <2> QED BY <1>6, <2>2, <2>3, <2>4
<1>8. q # SEQ_INVALID /\ ~(q < SeqMin(st))
  <2>1. 1 \in 1 .. Len(w) /\ 1 <= s
    BY <1>1
  <2>2. w[1].seq <= q /\ w[1].seq \in Int
    BY <1>1, <2>1
  <2>3. 1 \in Present(st) /\ AtomAt(st, 1) = w[1]
    BY <1>2, <2>1, <2>2
  <2>4. SeqMin(st) = w[1].seq
    BY <1>4, <2>3 DEF SeqMin, SeqAt
  <2> QED BY <2>2, <2>4 DEF SEQ_INVALID
<1>9. ASSUME NEW h \in heads, NEW b \in heads, h < b
      PROVE  After(h) \in heads
  <2> DEFINE e == EndIn(w, h)
  <2>1. /\ h \in 1 .. Len(w) /\ w[h].seq = q /\ HeadIn(w, h) = h /\ e \in h .. Len(w)
        /\ After(h) = e + 1
    BY <1>5
  <2>2. b \in 1 .. Len(w) /\ w[b].seq = q /\ HeadIn(w, b) = b
    BY <1>5
  <2>3. e < b
    <3>1. ASSUME b <= e PROVE FALSE
      <4>1. b \in HeadIn(w, h) .. EndIn(w, h)
        BY <1>9, <2>1, <2>2, <3>1
      <4>2. HeadIn(w, b) = HeadIn(w, h)
        BY <2>1, <4>1, MessageOf
      <4> QED BY <1>9, <2>1, <2>2, <4>2
    <3> QED BY <2>1, <2>2, <3>1
  <2>4. e + 1 \in 1 .. Len(w) /\ HeadIn(w, e + 1) = e + 1
    <3>1. EndIn(w, h) < Len(w)
      BY <1>1, <2>1, <2>2, <2>3
    <3> QED BY <2>1, <3>1, MessageAfter
  <2> HIDE DEF e
  <2>5. w[e + 1].seq = q
    BY <1>1, <2>1, <2>2, <2>3, <2>4
  <2>6. e + 1 \in having
    BY <1>3, <2>4, <2>5
  <2>7. HeadOf(st, e + 1) = e + 1
    <3>1. AtomAt(st, e + 1) = w[e + 1]
      BY <1>1, <1>2, <2>4, <2>5
    <3> QED BY <2>4, <3>1 DEF HeadOf, HeadIn
  <2>8. e + 1 \in Heads(st, q)
    BY <1>6, <2>6, <2>7
  <2> QED BY <1>5, <2>1, <2>8
<1>10. s \in Heads(st, q)
  <2>1. s \in having /\ AtomAt(st, s) = w[s]
    BY <1>1, <1>2, <1>3
  <2>2. HeadOf(st, s) = s
    BY <2>1 DEF HeadOf
  <2> QED BY <1>6, <2>1, <2>2
<1>11. s \in Visited(st, q)
  <2> DEFINE Linked(a, b) == \A h \in heads : a <= h /\ h < b => After(h) \in heads
             Upward(h)   == /\ from <= h /\ Linked(from, h)
                            /\ \A g \in heads : from < g /\ g <= h => g \in Present(st)
             Downward(h) == /\ h <= from /\ Linked(h, from)
                            /\ \A g \in heads : h <= g /\ g < from =>
                                  After(g) - 1 \in Present(st)
  <2>1. from \in heads \cap Present(st)
    BY <1>5, <1>7
  <2>2. s \in heads /\ s \in Int /\ from \in Int
    BY <1>5, <1>7, <1>10
  <2>3. Linked(from, s) /\ Linked(s, from)
    BY <1>9, <2>1, <2>2
  <2>4. \A g \in heads : g \in Present(st) /\ After(g) - 1 \in Present(st)
    <3> TAKE g \in heads
    <3>1. After(g) = EndIn(w, g) + 1 /\ EndIn(w, g) \in Present(st) /\ g \in Present(st)
          /\ EndIn(w, g) \in g .. Len(w)
      BY <1>5
    <3>2. After(g) - 1 = EndIn(w, g)
      BY <3>1
    <3> QED BY <3>1, <3>2
  <2> HIDE DEF heads, from, After
  <2>5. Upward(s) \/ Downward(s)
    BY <2>2, <2>3, <2>4
  <2> USE DEF heads, from, After
  <2>6. Visited(st, q) = {h \in heads : Upward(h) \/ Downward(h)}
    BY <1>8, <2>1, Zenon DEF Visited
  <2> HIDE DEF heads, Upward, Downward
  <2> QED BY <2>2, <2>5, <2>6
<1>12. SerialsOf(st, q, {s}) \subseteq Present(st)
  BY <1>5, <1>10 DEF SerialsOf
<1> QED BY <1>11, <1>12 DEF Given

----------------------------------------------------------------------------
(* The range to ask for.                                                   *)

\* Reading widens the range to atoms that were written.
LEMMA PoppedHolds ==
  ASSUME NEW w \in Seq(Atom), Orderly(w), NEW st, IsStack(st), Holds(st, w),
         MissBounded(st, Len(w)), NEW seqs, NEW get_all
  PROVE  LET new == Popped(st, seqs, get_all)
         IN  SameBounds(st, new) /\ MissBounded(new, Len(w))
<1> DEFINE new == Popped(st, seqs, get_all)
           lacked == (UNION {SerialsOf(st, q, Visited(st, q)) : q \in seqs}) \ Present(st)
           lo  == st.serial_miss_min
           hi  == st.serial_miss_max
<1>1. /\ lacked \subseteq 1 .. Len(w) /\ Len(w) \in Nat
      /\ lo \in Int /\ hi \in Int /\ 1 <= lo /\ hi <= Max2(1, Len(w))
  <2>1. lacked \subseteq 1 .. Len(w)
    BY VisitedWritten
  <2> HIDE DEF lacked
  <2> QED BY <2>1, StackFields DEF MissBounded
<1>2. /\ SameBounds(st, new)
      /\ new.serial_miss_min = Min2(lo, MinOr(lacked, lo))
      /\ new.serial_miss_max = Max2(hi, MaxOr(lacked, hi))
  BY DEF Popped, IsStack, SameBounds
<1> HIDE DEF new, lacked
<1>3. /\ lacked \subseteq Int /\ 1 \in Int /\ Len(w) \in Int
      /\ (\A y \in lacked : 1 <= y) /\ (\A y \in lacked : y <= Len(w))
  BY <1>1
<1>4. MinOr(lacked, lo) \in Int /\ (MinOr(lacked, lo) \in lacked \/ MinOr(lacked, lo) = lo)
  BY <1>1, <1>3, MinOrType, Zenon
<1>5. MaxOr(lacked, hi) \in Int /\ (MaxOr(lacked, hi) \in lacked \/ MaxOr(lacked, hi) = hi)
  BY <1>1, <1>3, MaxOrType, Zenon
<1>6. 1 <= new.serial_miss_min
  BY <1>1, <1>2, <1>3, <1>4 DEF Min2
<1>7. new.serial_miss_max <= Max2(1, Len(w))
  BY <1>1, <1>2, <1>3, <1>5 DEF Max2
<1> QED BY <1>2, <1>6, <1>7 DEF MissBounded, new

\* What is asked for was written, and its ends are missing.
LEMMA GetMissHolds ==
  ASSUME NEW w \in Seq(Atom), NEW st, IsStack(st), Holds(st, w), Exact(st),
         MissBounded(st, Len(w)), Len(w) < SerialN1(SERIAL_START)
  PROVE  LET new == GetMiss(st)
         IN  /\ SameBounds(st, new) /\ MissBounded(new, Len(w))
             /\ HasMiss(new) =>
                  /\ new.serial_miss_min .. new.serial_miss_max \subseteq 1 .. Len(w)
                  /\ {new.serial_miss_min, new.serial_miss_max} \cap Present(st) = {}
<1> DEFINE new   == GetMiss(st)
           len   == Len(w)
           n_1   == SerialN1(st.serial_0_base)
           zone  == MissZone(st)
           holes == zone \ Present(st)
           first == IF \E s \in holes : s < n_1 THEN Min(holes) ELSE MaxOr(holes, n_1)
           reached == {s \in holes : first <= s /\ s <= first + MISS_MAX_RANGE}
           last  == IF first < n_1 THEN Max(reached) ELSE st.serial_miss_max
<1>1. /\ len \in Nat /\ n_1 \in Int /\ len < n_1 /\ 1 <= n_1 /\ MISS_MAX_RANGE \in Nat
      /\ st.serial_miss_min \in Int /\ st.serial_miss_max \in Int
      /\ st.serial_max \in Int /\ st.serial_0_real = 1
      /\ 1 <= st.serial_miss_min /\ st.serial_miss_max <= Max2(1, len)
  BY StackFields, WindowFacts, WindowAssumption DEF Exact, MissBounded, SERIAL_START
<1>2. CASE ~MissSearches(st)
  <2>1. new = st
    BY <1>2 DEF GetMiss
  <2> QED BY <1>2, <2>1 DEF HasMiss, SameBounds
<1>3. CASE MissSearches(st)
  <2>1. Present(st) # {} /\ st.serial_max \in 1 .. len /\ 1 <= len /\ Max2(1, len) = len
    <3>1. st.serial_max \in 1 .. n_1
      BY <1>1, <1>3 DEF MissSearches
    <3>2. Present(st) # {}
      BY <3>1 DEF Exact, SERIAL_INVALID
    <3>3. st.serial_max \in 1 .. len
      BY <3>2 DEF Exact, Holds
    <3>4. 1 <= len
      BY <1>1, <3>3
    <3>5. Max2(1, len) = len
      <4>1. len \in Int
        BY <1>1
      <4> HIDE DEF len
      <4> QED BY <3>4, <4>1 DEF Max2
    <3> QED BY <3>2, <3>3, <3>4, <3>5
  <2>2. holes \subseteq 1 .. len /\ holes \cap Present(st) = {}
    <3>1. Max2(st.serial_max, st.serial_miss_max) <= len
      BY <1>1, <2>1 DEF Max2
    <3>2. Max2(st.serial_max, st.serial_miss_max) \in Int
      BY <1>1 DEF Max2
    <3>3. zone \subseteq 1 .. len
      BY <1>1, <2>1, <3>1, <3>2 DEF MissZone
    <3> QED BY <3>3
  <2>3. /\ new.serial_miss_min = first /\ new.serial_miss_max = last /\ SameBounds(st, new)
        /\ new.serial_max = st.serial_max /\ new.serial_0_base = st.serial_0_base
        /\ new.serial_0_real = st.serial_0_real
    <3>1. new = [st EXCEPT !.serial_miss_min = first,
                           !.serial_miss_max = IF first < n_1 THEN Max(reached) ELSE @]
      BY <1>3, Zenon DEF GetMiss
    <3> HIDE DEF new, first, reached
    <3> QED BY <3>1 DEF IsStack, SameBounds
  <2> HIDE DEF new, zone, holes
  <2>4. CASE holes = {}
    <3>1. first = n_1
      BY <2>4 DEF MaxOr
    <3>2. last = st.serial_miss_max
      BY <1>1, <3>1
    <3>3. MissBounded(new, len)
      BY <1>1, <2>3, <3>1, <3>2 DEF MissBounded
    <3>4. ~HasMiss(new)
      BY <1>1, <2>1, <2>3, <3>1, <3>2 DEF HasMiss
    <3> QED BY <2>3, <3>3, <3>4 DEF new
  <2>5. CASE holes # {}
    <3>1. /\ holes \subseteq Int /\ 1 \in Int /\ len \in Int
          /\ (\A y \in holes : 1 <= y) /\ (\A y \in holes : y <= len)
      BY <1>1, <2>2
    <3>2. Min(holes) \in holes
      BY <2>5, <3>1, MinIs, Zenon
    <3> DEFINE least == Min(holes)
    <3> HIDE DEF least
    <3>3. least \in holes /\ least \in 1 .. len /\ least < n_1
      <4>1. least \in holes
        BY <3>2 DEF least
      <4>2. least \in 1 .. len
        BY <2>2, <4>1
      <4> HIDE DEF len, n_1
      <4> QED BY <1>1, <4>1, <4>2
    <3>4. first \in holes /\ first \in 1 .. len /\ first < n_1
      <4>1. first = least
        BY <3>3, Zenon DEF least
      <4> HIDE DEF first
      <4> QED BY <3>3, <4>1
    <3> HIDE DEF first
    <3>5. /\ reached # {} /\ reached \subseteq Int /\ reached \subseteq holes
          /\ (\A y \in reached : y <= len)
      <4>1. first \in reached
        BY <1>1, <3>4
      <4> QED BY <3>1, <4>1
    <3> HIDE DEF reached
    <3>6. Max(reached) \in reached
      BY <3>1, <3>5, MaxIs, Zenon
    <3>7. last \in holes /\ last \in 1 .. len
      BY <2>2, <3>4, <3>5, <3>6
    <3> HIDE DEF last
    <3>8. MissBounded(new, len)
      BY <1>1, <2>1, <2>3, <3>4, <3>7 DEF MissBounded
    <3>9. /\ first .. last \subseteq 1 .. len
          /\ {first, last} \cap Present(st) = {}
      BY <2>2, <3>4, <3>7
    <3> QED BY <2>3, <3>8, <3>9 DEF new
  <2> QED BY <2>4, <2>5
<1> QED BY <1>2, <1>3

----------------------------------------------------------------------------
(* The steps.                                                              *)

\* What the invariant says of one stack.
LEMMA StackFacts ==
  ASSUME WInv, NEW n \in Node, NEW o \in Node
  PROVE  /\ IsStack(stacks[n][o]) /\ Fits(stacks[n][o], Last(o)) /\ Last(o) \in Nat
         /\ Exact(stacks[n][o]) /\ Holds(stacks[n][o], written[o])
         /\ MissBounded(stacks[n][o], Len(written[o]))
         /\ ReferenceHeld(stacks[n][o], chain[n][o])
         /\ written[o] \in Seq(Atom) /\ Orderly(written[o]) /\ Len(written[o]) \in Nat
         /\ Len(written[o]) < SerialN1(SERIAL_START)
<1>1. TypeOK /\ WritersOK /\ StacksOK /\ WrittenOK /\ WindowStackOK(n, o)
  BY DEF WInv, IInv
<1>2. Fits(stacks[n][o], Last(o)) /\ Last(o) \in Nat /\ IsStack(stacks[n][o])
  BY <1>1, StackFits, StackType, LastType
<1>3. Holds(stacks[n][o], written[o])
  BY <1>1 DEF StacksOK, StackOK, Holds
<1>4. written[o] \in Seq(Atom) /\ Len(written[o]) \in Nat
  BY <1>1, WrittenType
<1> QED BY <1>1, <1>2, <1>3, <1>4 DEF WindowStackOK, WrittenOK

\* A stack that only keeps its books.
LEMMA KeepsBooks ==
  ASSUME WInv, NEW n \in Node, NEW o \in Node, NEW new,
         SameAtoms(stacks[n][o], new), SameBounds(stacks[n][o], new),
         MissBounded(new, Len(written[o]))
  PROVE  /\ Exact(new) /\ ReferenceHeld(new, chain[n][o])
         /\ MissBounded(new, Len(written[o]))
BY StackFacts, ExactKept, HeldKept

\* More atoms do no harm to the reference.
LEMMA HeldGrows ==
  ASSUME NEW st, NEW new, new.serial_reference = st.serial_reference,
         \A s \in Present(st) : s \in Present(new) /\ AtomAt(new, s) = AtomAt(st, s),
         NEW from, ReferenceHeld(st, from)
  PROVE  ReferenceHeld(new, from)
<1> DEFINE ref == st.serial_reference
<1>1. from # 0 => CompleteAt(st, ref) /\ ref \in Present(st)
  BY DEF ReferenceHeld, CompleteAt
<1>2. CompleteAt(st, ref) => CompleteAt(new, ref)
  BY DEF CompleteAt
<1>3. from # 0 => LastOf(new, ref) = LastOf(st, ref)
  BY <1>1 DEF LastOf
<1> QED BY <1>1, <1>2, <1>3 DEF ReferenceHeld

\* A step that touches neither what was written nor what was handed over.
LEMMA QuietStep ==
  ASSUME WInv, IInv', UNCHANGED <<written, delivered, chain, last_seq_reference>>,
         \A a, b \in Node : \/ stacks'[a][b] = stacks[a][b]
                            \/ /\ Exact(stacks'[a][b])
                               /\ MissBounded(stacks'[a][b], Len(written[b]))
                               /\ ReferenceHeld(stacks'[a][b], chain[a][b])
  PROVE  WInv'
<1>1. WrittenOK' /\ DeliveredOK' /\ ReferenceComplete'
  BY DEF WInv, WrittenOK, DeliveredOK, ReferenceComplete, MessagesOf
<1>2. ASSUME NEW a \in Node, NEW b \in Node PROVE WindowStackOK(a, b)'
  BY DEF WInv, WindowStackOK
<1> QED BY <1>1, <1>2 DEF WInv

LEMMA SendWindow ==
  ASSUME WInv, NEW n \in Node, NEW peer \in Node, SendAtoms(n, peer)
  PROVE  WInv'
<1> DEFINE w == [o \in Node |-> IF o = peer THEN stacks[n][o] ELSE Sent(stacks[n][o], peer)]
<1>1. IInv /\ IInv'
  BY SendStep DEF WInv
<1>2. UNCHANGED <<written, delivered, chain, last_seq_reference>>
  BY DEF SendAtoms
<1>3. ASSUME NEW a \in Node, NEW b \in Node
      PROVE  \/ stacks'[a][b] = stacks[a][b]
             \/ /\ Exact(stacks'[a][b])
                /\ MissBounded(stacks'[a][b], Len(written[b]))
                /\ ReferenceHeld(stacks'[a][b], chain[a][b])
  <2>1. stacks'[a][b] = IF a = n /\ b # peer THEN Sent(stacks[a][b], peer) ELSE stacks[a][b]
    <3>1. stacks = [x \in Node |-> [y \in Node |-> stacks[x][y]]]
      BY <1>1, StacksShape DEF IInv
    <3> QED BY <3>1 DEF SendAtoms
  <2> DEFINE st  == stacks[a][b]
             new == Sent(stacks[a][b], peer)
  <2>2. /\ IsStack(st) /\ Fits(st, Last(b)) /\ Last(b) \in Nat
        /\ MissBounded(st, Len(written[b]))
    BY StackFacts
  <2>3. SameAtoms(st, new) /\ SameBounds(st, new) /\ SameMiss(st, new)
    BY <2>2, SentBounds, SentKeeps
  <2> HIDE DEF new
  <2>4. MissBounded(new, Len(written[b]))
    BY <2>2, <2>3 DEF MissBounded, SameMiss
  <2>5. /\ Exact(new) /\ ReferenceHeld(new, chain[a][b])
        /\ MissBounded(new, Len(written[b]))
    BY <2>3, <2>4, KeepsBooks
  <2> QED BY <2>1, <2>5 DEF new
<1> QED BY <1>1, <1>2, <1>3, QuietStep

LEMMA RecvMissWindow ==
  ASSUME WInv, NEW p \in net, RecvMiss(p)
  PROVE  WInv'
<1>1. IInv /\ IInv'
  BY RecvMissStep DEF WInv
<1>2. UNCHANGED <<written, delivered, chain, last_seq_reference>>
  BY DEF RecvMiss
<1>3. p.to \in Node /\ p.id_to \in Node /\ p.serial_min \in Int /\ p.serial_max \in Int
  BY <1>1 DEF RecvMiss, IInv, TypeOK, Packet, DATA, META
<1>4. ASSUME NEW a \in Node, NEW b \in Node
      PROVE  \/ stacks'[a][b] = stacks[a][b]
             \/ /\ Exact(stacks'[a][b])
                /\ MissBounded(stacks'[a][b], Len(written[b]))
                /\ ReferenceHeld(stacks'[a][b], chain[a][b])
  <2> DEFINE st  == stacks[a][b]
             new == MissInvalidate(stacks[a][b], p.id_to, p.serial_min, p.serial_max)
  <2>1. stacks'[a][b] = IF a = p.to /\ b # p.id_to THEN new ELSE st
    <3>1. stacks = [x \in Node |-> [y \in Node |-> stacks[x][y]]]
      BY <1>1, StacksShape DEF IInv
    <3> QED BY <1>3, <3>1 DEF RecvMiss
  <2>2. IsStack(st) /\ MissBounded(st, Len(written[b]))
    BY StackFacts
  <2>3. SameAtoms(st, new) /\ SameBounds(st, new) /\ SameMiss(st, new)
    BY <1>3, <2>2, MissInvalidateBounds, MissInvalidateKeeps
  <2> HIDE DEF new
  <2>4. MissBounded(new, Len(written[b]))
    BY <2>2, <2>3 DEF MissBounded, SameMiss
  <2>5. /\ Exact(new) /\ ReferenceHeld(new, chain[a][b])
        /\ MissBounded(new, Len(written[b]))
    BY <2>3, <2>4, KeepsBooks
  <2> QED BY <2>1, <2>5
<1> QED BY <1>1, <1>2, <1>4, QuietStep

LEMMA HearWindow ==
  ASSUME WInv, NEW n \in Node, NEW peer \in Node, NEW serial \in Int,
         HearSerial(n, peer, serial)
  PROVE  WInv'
<1>1. IInv /\ IInv'
  BY HearSerialStep DEF WInv
<1>2. /\ UNCHANGED <<written, delivered, chain, last_seq_reference>>
      /\ serial \in 0 .. Len(written[peer])
  BY DEF HearSerial
<1>3. ASSUME NEW a \in Node, NEW b \in Node
      PROVE  \/ stacks'[a][b] = stacks[a][b]
             \/ /\ Exact(stacks'[a][b])
                /\ MissBounded(stacks'[a][b], Len(written[b]))
                /\ ReferenceHeld(stacks'[a][b], chain[a][b])
  <2> DEFINE st  == stacks[a][b]
             new == UpdateSerialMissMax(st, serial)
  <2>1. stacks'[a][b] = IF a = n /\ b = peer THEN new ELSE st
    <3>1. stacks = [x \in Node |-> [y \in Node |-> stacks[x][y]]]
      BY <1>1, StacksShape DEF IInv
    <3> QED BY <3>1 DEF HearSerial
  <2>2. /\ IsStack(st) /\ MissBounded(st, Len(written[b])) /\ Len(written[b]) \in Nat
        /\ st.serial_miss_max \in Int
    BY StackFacts, StackFields
  <2>3. /\ SameAtoms(st, new) /\ SameBounds(st, new)
        /\ new.serial_miss_min = st.serial_miss_min
        /\ new.serial_miss_max = Max2(st.serial_miss_max, serial)
    BY <2>2, UpdateSerialMissMaxBounds, UpdateSerialMissMaxKeeps
  <2>4. CASE b = peer
    <3>1. Max2(st.serial_miss_max, serial) <= Max2(1, Len(written[b]))
      BY <1>2, <2>2, <2>4 DEF MissBounded, Max2
    <3> HIDE DEF new
    <3>2. MissBounded(new, Len(written[b]))
      BY <2>2, <2>3, <3>1 DEF MissBounded
    <3>3. /\ Exact(new) /\ ReferenceHeld(new, chain[a][b])
          /\ MissBounded(new, Len(written[b]))
      BY <2>3, <3>2, KeepsBooks
    <3> QED BY <2>1, <3>3
  <2>5. CASE b # peer
    BY <2>1, <2>5
  <2> QED BY <2>4, <2>5
<1> QED BY <1>1, <1>2, <1>3, QuietStep

\* The searched stacks of PollMiss, and what a MISS carries.
LEMMA SearchedStack ==
  ASSUME WInv, NEW n \in Node, NEW o \in Node
  PROVE  LET new == GetMiss(stacks[n][o])
         IN  /\ Exact(new) /\ ReferenceHeld(new, chain[n][o])
             /\ MissBounded(new, Len(written[o]))
             /\ HasMiss(new) =>
                  /\ new.serial_miss_min .. new.serial_miss_max \subseteq 1 .. Len(written[o])
                  /\ {new.serial_miss_min, new.serial_miss_max} \cap Present(stacks[n][o]) = {}
<1> DEFINE st  == stacks[n][o]
           new == GetMiss(st)
<1>1. /\ IsStack(st) /\ Exact(st) /\ Holds(st, written[o]) /\ written[o] \in Seq(Atom)
      /\ MissBounded(st, Len(written[o])) /\ Len(written[o]) < SerialN1(SERIAL_START)
  BY StackFacts
<1>2. SameAtoms(st, new)
  BY <1>1, GetMissKeeps
<1>3. /\ SameBounds(st, new) /\ MissBounded(new, Len(written[o]))
      /\ HasMiss(new) =>
           /\ new.serial_miss_min .. new.serial_miss_max \subseteq 1 .. Len(written[o])
           /\ {new.serial_miss_min, new.serial_miss_max} \cap Present(st) = {}
  <2> HIDE DEF st
  <2> QED BY <1>1, GetMissHolds
<1> HIDE DEF new
<1>4. Exact(new) /\ ReferenceHeld(new, chain[n][o])
  BY <1>2, <1>3, KeepsBooks
<1> QED BY <1>3, <1>4 DEF new

LEMMA PollMissWindow ==
  ASSUME WInv, NEW n \in Node, NEW heldback \in SUBSET Node, PollMiss(n, heldback)
  PROVE  WInv'
<1>1. IInv /\ IInv'
  BY PollMissStep DEF WInv
<1>2. UNCHANGED <<written, delivered, chain, last_seq_reference>>
  BY DEF PollMiss
<1>3. ASSUME NEW a \in Node, NEW b \in Node
      PROVE  \/ stacks'[a][b] = stacks[a][b]
             \/ /\ Exact(stacks'[a][b])
                /\ MissBounded(stacks'[a][b], Len(written[b]))
                /\ ReferenceHeld(stacks'[a][b], chain[a][b])
  <2>1. stacks'[a][b] = IF a = n /\ b # n THEN GetMiss(stacks[a][b]) ELSE stacks[a][b]
    <3>1. stacks = [x \in Node |-> [y \in Node |-> stacks[x][y]]]
      BY <1>1, StacksShape DEF IInv
    <3> QED BY <3>1 DEF PollMiss
  <2> QED BY <2>1, SearchedStack
<1> QED BY <1>1, <1>2, <1>3, QuietStep

LEMMA LoseWindow ==
  ASSUME WInv, NEW p \in net, Lose(p)
  PROVE  WInv'
<1>1. IInv'
  BY LoseStep DEF WInv
<1>2. UNCHANGED <<stacks, written, delivered, chain, last_seq_reference>>
  BY DEF Lose
<1> QED BY <1>1, <1>2, QuietStep

LEMMA RecvAtomWindow ==
  ASSUME OneWindow, WInv, NEW p \in net, RecvAtom(p)
  PROVE  WInv'
<1>1. IInv /\ IInv'
  BY RecvAtomStep DEF WInv
<1>2. /\ p.cmd \in {DATA, META}
      /\ UNCHANGED <<written, delivered, chain, last_seq_reference>>
  BY DEF RecvAtom
<1>3. /\ p.to \in Node /\ p.from \in Node
      /\ p.serial \in 1 .. Len(written[p.from]) /\ p.atom = written[p.from][p.serial]
  <2>1. p \in Packet /\ p.cmd # "MISS"
    BY <1>1, <1>2 DEF IInv, TypeOK, DATA, META
  <2> QED BY <1>1, <2>1 DEF IInv, PacketsOK, Packet
<1> DEFINE n   == p.to
           o   == p.from
           st  == stacks[n][o]
           new == PutAtom(st, n, p.serial, p.atom, Node \ {o})
<1>4. ASSUME NEW a \in Node, NEW b \in Node
      PROVE  stacks'[a][b] = IF a = n /\ b = o THEN new ELSE stacks[a][b]
  <2>1. stacks = [x \in Node |-> [y \in Node |-> stacks[x][y]]]
    BY <1>1, StacksShape DEF IInv
  <2> QED BY <1>3, <2>1 DEF RecvAtom
<1>5. /\ Fits(st, Last(o)) /\ Last(o) \in Nat /\ Exact(st)
      /\ MissBounded(st, Len(written[o])) /\ ReferenceHeld(st, chain[n][o])
      /\ written[o] \in Seq(Atom) /\ Len(written[o]) \in Nat
      /\ Len(written[o]) < SerialN1(SERIAL_START)
  BY <1>3, StackFacts
<1>6. p.serial \in 1 .. Last(o) /\ p.serial <= SerialN1(SERIAL_START)
  <2>1. Len(written[o]) <= NbMeta + MaxSerial[o]
    BY <1>1, <1>3 DEF IInv, WritersOK
  <2>2. NbMeta \in Nat /\ MaxSerial[o] \in Nat /\ MaxOrder \in Nat
    BY <1>3, ConfigAssumption, WindowAssumption
  <2> DEFINE len == Len(written[o])
             n_1 == SerialN1(SERIAL_START)
             max == MaxSerial[o]
  <2>3. n_1 \in Nat /\ len \in Nat /\ p.serial \in 1 .. len /\ len < n_1 /\ len <= NbMeta + max
    BY <1>3, <1>5, <2>1, WindowFacts
  <2>4. Last(o) = NbMeta + max + MaxOrder + 1
    BY DEF Last
  <2> HIDE DEF len, n_1, max, o
  <2>5. p.serial \in 1 .. NbMeta + max + MaxOrder + 1 /\ p.serial <= n_1
    BY <2>2, <2>3 DEF max
  <2> QED BY <2>4, <2>5 DEF n_1
<1>7. p.atom \in Atom /\ Node \ {o} \in SUBSET Node
  BY <1>3, <1>5
<1>8. SerialN1(SERIAL_START) < INT_MAX
  BY DEF OneWindow
<1>9. /\ Exact(new) /\ SameMiss(st, new)
      /\ new.serial_reference = st.serial_reference
      /\ \A s \in Present(st) : s \in Present(new) /\ AtomAt(new, s) = AtomAt(st, s)
  <2> HIDE DEF st
  <2> QED BY <1>3, <1>5, <1>6, <1>7, <1>8, PutAtomInWindow
<1> HIDE DEF new
<1>10. MissBounded(new, Len(written[o])) /\ ReferenceHeld(new, chain[n][o])
  BY <1>5, <1>9, HeldGrows DEF MissBounded, SameMiss
<1> QED BY <1>1, <1>2, <1>4, <1>9, <1>10, QuietStep

LEMMA GetNothingWindow ==
  ASSUME WInv, NEW n \in Node, GetNothing(n)
  PROVE  WInv'
<1> DEFINE all == WarehouseSeqMin(stacks[n]) .. WarehouseSeqMax(stacks[n])
<1>1. IInv /\ IInv'
  BY GetNothingStep DEF WInv
<1>2. UNCHANGED <<written, delivered, chain, last_seq_reference>>
  BY DEF GetNothing
<1>3. ASSUME NEW a \in Node, NEW b \in Node
      PROVE  \/ stacks'[a][b] = stacks[a][b]
             \/ /\ Exact(stacks'[a][b])
                /\ MissBounded(stacks'[a][b], Len(written[b]))
                /\ ReferenceHeld(stacks'[a][b], chain[a][b])
  <2> DEFINE st  == stacks[a][b]
             new == Popped(st, all, FALSE)
  <2>1. stacks'[a][b] = IF a = n THEN new ELSE st
    <3>1. stacks = [x \in Node |-> [y \in Node |-> stacks[x][y]]]
      BY <1>1, StacksShape DEF IInv
    <3> QED BY <3>1 DEF GetNothing
  <2>2. /\ IsStack(st) /\ Fits(st, Last(b)) /\ Last(b) \in Nat /\ Holds(st, written[b])
        /\ MissBounded(st, Len(written[b]))
        /\ written[b] \in Seq(Atom) /\ Orderly(written[b])
    BY StackFacts
  <2> HIDE DEF all
  <2>3. SameAtoms(st, new) /\ SameBounds(st, new) /\ MissBounded(new, Len(written[b]))
    <3> HIDE DEF st
    <3> QED BY <2>2, PoppedHolds, PoppedKeeps
  <2> HIDE DEF new
  <2>4. /\ Exact(new) /\ ReferenceHeld(new, chain[a][b])
        /\ MissBounded(new, Len(written[b]))
    BY <2>3, KeepsBooks
  <2> QED BY <2>1, <2>4
<1> QED BY <1>1, <1>2, <1>3, QuietStep

\* What a node has written grows by one message.
LEMMA WriteGrows ==
  ASSUME TypeOK, NEW n \in Node, NEW seq \in Int, NEW order_n \in 1 .. MaxOrder,
         PutLocalMsg(n, seq, order_n)
  PROVE  LET len == Len(written[n])
         IN  /\ written'[n] \in Seq(Atom) /\ Len(written'[n]) = len + order_n
             /\ \A s \in 1 .. len : written'[n][s] = written[n][s]
             /\ \A s \in len + 1 .. len + order_n :
                  /\ written'[n][s].type = DATA /\ written'[n][s].seq = seq
                  /\ written'[n][s].order_i = s - len - 1
                  /\ written'[n][s].order_n = order_n
             /\ \A o \in Node \ {n} : written'[o] = written[o]
<1> DEFINE len == Len(written[n])
           msg == [i \in 1 .. order_n |->
                     [type |-> DATA, seq |-> seq, order_i |-> i - 1, order_n |-> order_n]]
<1>1. written[n] \in Seq(Atom) /\ len \in Nat /\ order_n \in Nat \ {0} /\ MaxOrder \in Nat
  BY WrittenType, ConfigAssumption, WindowAssumption
<1>2. /\ written'[n] = written[n] \o msg
      /\ \A o \in Node \ {n} : written'[o] = written[o]
  <2>1. written \in [Node -> Seq(Atom)]
    BY DEF TypeOK
  <2> QED BY <2>1 DEF PutLocalMsg
<1>3. msg \in Seq(Atom) /\ Len(msg) = order_n
  <2>1. \A i \in 1 .. order_n : msg[i] \in Atom
    BY DEF Atom
  <2> QED BY <1>1, <2>1
<1>4. \A i \in 1 .. order_n : msg[i] = [type |-> DATA, seq |-> seq, order_i |-> i - 1,
                                        order_n |-> order_n]
  OBVIOUS
<1> HIDE DEF msg
<1>5. /\ written[n] \o msg \in Seq(Atom) /\ Len(written[n] \o msg) = len + order_n
      /\ \A s \in 1 .. len : (written[n] \o msg)[s] = written[n][s]
      /\ \A s \in len + 1 .. len + order_n : (written[n] \o msg)[s] = msg[s - len]
  <2>1. /\ written[n] \o msg \in Seq(Atom) /\ Len(written[n] \o msg) = len + Len(msg)
        /\ \A s \in 1 .. len : (written[n] \o msg)[s] = written[n][s]
        /\ \A s \in len + 1 .. len + Len(msg) : (written[n] \o msg)[s] = msg[s - len]
    <3> DEFINE old == written[n]
    <3>1. old \in Seq(Atom)
      BY <1>1
    <3> HIDE DEF old
    <3>2. /\ old \o msg \in Seq(Atom) /\ Len(old \o msg) = Len(old) + Len(msg)
          /\ \A s \in 1 .. Len(old) : (old \o msg)[s] = old[s]
          /\ \A s \in Len(old) + 1 .. Len(old) + Len(msg) : (old \o msg)[s] = msg[s - Len(old)]
      BY <1>3, <3>1, Appended
    <3> QED BY <3>2 DEF old
  <2> QED BY <1>3, <2>1, Zenon
<1>6. ASSUME NEW s \in len + 1 .. len + order_n
      PROVE  /\ written'[n][s].type = DATA /\ written'[n][s].seq = seq
             /\ written'[n][s].order_i = s - len - 1
             /\ written'[n][s].order_n = order_n
  <2> HIDE DEF len
  <2>1. s - len \in 1 .. order_n
    BY <1>1
  <2>2. msg[s - len] = [type |-> DATA, seq |-> seq, order_i |-> s - len - 1,
                        order_n |-> order_n]
    BY <1>4, <2>1
  <2>3. written'[n][s] = msg[s - len]
    BY <1>2, <1>5
  <2> QED BY <2>2, <2>3
<1> QED BY <1>2, <1>5, <1>6

\* Writing: the message is of a round nobody has handed over yet.
LEMMA PutLocalMsgWindow ==
  ASSUME OneWindow, WInv, NEW n \in Node, NEW seq \in Int, NEW order_n \in 1 .. MaxOrder,
         PutLocalMsg(n, seq, order_n)
  PROVE  WInv'
<1> DEFINE len == Len(written[n])
           st  == stacks[n][n]
           new == PutMsg(st, n, DATA, seq, order_n, Node \ {n})
           n_1 == SerialN1(SERIAL_START)
<1>1. IInv /\ IInv' /\ TypeOK /\ WritersOK /\ NoLateMessage /\ StackOK(n, n)
      /\ WrittenOK /\ DeliveredOK /\ ReferenceComplete
  BY PutLocalMsgStep DEF WInv, IInv, StacksOK
<1>2. /\ written[n] \in Seq(Atom) /\ len \in Nat /\ Orderly(written[n]) /\ len < n_1
      /\ Fits(st, Last(n)) /\ Last(n) \in Nat /\ Exact(st)
      /\ MissBounded(st, len) /\ ReferenceHeld(st, chain[n][n])
  BY StackFacts
<1>3. /\ written'[n] \in Seq(Atom) /\ Len(written'[n]) = len + order_n
      /\ \A s \in 1 .. len : written'[n][s] = written[n][s]
      /\ \A s \in len + 1 .. len + order_n :
           /\ written'[n][s].type = DATA /\ written'[n][s].seq = seq
           /\ written'[n][s].order_i = s - len - 1
           /\ written'[n][s].order_n = order_n
      /\ \A o \in Node \ {n} : written'[o] = written[o]
  BY <1>1, WriteGrows
<1>4. /\ seq >= local_seq_last[n] /\ local_seq_last[n] \in Int /\ Seq0 <= local_seq_last[n]
      /\ Seq0 \in Nat /\ order_n \in Nat \ {0} /\ len + order_n <= MaxSerial[n]
      /\ MaxSerial[n] \in Nat /\ MaxSerial[n] < n_1 /\ n_1 \in Nat /\ n_1 < INT_MAX
      /\ UNCHANGED <<delivered, chain, last_seq_reference>>
  <2>1. MaxOrder \in Nat /\ Seq0 \in Nat /\ MaxSerial[n] \in Nat
    BY ConfigAssumption, WindowAssumption
  <2>2. local_seq_last[n] \in Int /\ Seq0 <= local_seq_last[n]
    BY <1>1, SeqsType DEF WritersOK
  <2> QED BY <2>1, <2>2, WindowFacts DEF PutLocalMsg, OneWindow
<1>5. \A o \in Node : \A s \in 1 .. Len(written[o]) :
        s \in 1 .. Len(written'[o]) /\ written'[o][s] = written[o][s]
  <2> TAKE o \in Node
  <2>1. CASE o = n
    <3>1. \A s \in 1 .. len : s \in 1 .. Len(written'[n]) /\ written'[n][s] = written[n][s]
      BY <1>2, <1>3, <1>4
    <3> QED BY <2>1, <3>1
  <2>2. CASE o # n
    BY <1>3, <2>2
  <2> QED BY <2>1, <2>2
<1>6. WrittenOK'
  <2>1. Orderly(written'[n])
    <3>1. \A s \in 1 .. len : written[n][s].seq <= seq
      <4>1. \A s \in 1 .. len : /\ written[n][s].seq <= local_seq_last[n]
                                /\ written[n][s].seq \in Int
        BY <1>1, WrittenType DEF WritersOK, Atom
      <4> QED BY <1>4, <4>1
    <3>2. \A s \in len + 1 .. len + order_n :
            /\ written'[n][s].seq = seq /\ written'[n][s].order_i = s - len - 1
            /\ written'[n][s].order_n = order_n
      BY <1>3
    <3> QED BY <1>2, <1>3, <1>4, <3>1, <3>2, OrderlyAppend
  <2>2. Len(written'[n]) < n_1
    BY <1>2, <1>3, <1>4
  <2>3. ASSUME NEW s \in 1 .. Len(written'[n]) PROVE Seq0 <= written'[n][s].seq
    <3>1. CASE s \in 1 .. len
      BY <1>1, <1>3, <3>1 DEF WrittenOK
    <3>2. CASE s \notin 1 .. len
      <4>1. s \in len + 1 .. len + order_n
        <5> HIDE DEF len
        <5> QED BY <1>2, <1>3, <1>4, <3>2
      <4>2. written'[n][s].seq = seq
        BY <1>3, <4>1
      <4> QED BY <1>4, <4>2
    <3> QED BY <3>1, <3>2
  <2>4. ASSUME NEW o \in Node
        PROVE  /\ Len(written'[o]) < n_1
               /\ Orderly(written'[o])
               /\ \A s \in 1 .. Len(written'[o]) : Seq0 <= written'[o][s].seq
    <3>1. CASE o = n
      BY <2>1, <2>2, <2>3, <3>1
    <3>2. CASE o # n
      BY <1>1, <1>3, <3>2 DEF WrittenOK
    <3> QED BY <3>1, <3>2
  <2> QED BY <2>4 DEF WrittenOK
<1>7. \A a, b \in Node : stacks'[a][b] = IF a = n /\ b = n THEN new ELSE stacks[a][b]
  <2>1. stacks = [x \in Node |-> [y \in Node |-> stacks[x][y]]]
    BY <1>1, StacksShape
  <2> QED BY <2>1 DEF PutLocalMsg
<1>8. /\ Exact(new) /\ SameMiss(st, new)
      /\ new.serial_reference = st.serial_reference
      /\ \A s \in Present(st) : s \in Present(new) /\ AtomAt(new, s) = AtomAt(st, s)
  <2>1. st.serial_max = len
    BY <1>1 DEF StackOK
  <2>2. seq >= st.seq_0s[n]
    <3>1. st.seq_0s[n] \in 0 .. Seq0
      BY <1>1 DEF StackOK
    <3> QED BY <1>4, <3>1
  <2>3. 0 <= st.serial_max /\ st.serial_max + order_n <= n_1
    BY <1>2, <1>4, <2>1
  <2> HIDE DEF st
  <2>4. Fits(st, Last(n)) /\ Last(n) \in Nat /\ Exact(st) /\ n_1 < INT_MAX
        /\ order_n \in Nat \ {0}
    BY <1>2, <1>4
  <2>5. n_1 = SerialN1(SERIAL_START) /\ new = PutMsg(st, n, DATA, seq, order_n, Node \ {n})
    OBVIOUS
  <2> HIDE DEF n_1, new
  <2>6. /\ Exact(PutMsg(st, n, DATA, seq, order_n, Node \ {n}))
        /\ SameMiss(st, PutMsg(st, n, DATA, seq, order_n, Node \ {n}))
        /\ PutMsg(st, n, DATA, seq, order_n, Node \ {n}).serial_reference = st.serial_reference
        /\ \A s \in Present(st) :
             /\ s \in Present(PutMsg(st, n, DATA, seq, order_n, Node \ {n}))
             /\ AtomAt(PutMsg(st, n, DATA, seq, order_n, Node \ {n}), s) = AtomAt(st, s)
    BY <2>2, <2>3, <2>4, <2>5, PutMsgInWindow
  <2> QED BY <2>5, <2>6
<1> HIDE DEF new
<1>9. ASSUME NEW a \in Node, NEW b \in Node PROVE WindowStackOK(a, b)'
  <2>1. /\ Exact(stacks[a][b]) /\ MissBounded(stacks[a][b], Len(written[b]))
        /\ ReferenceHeld(stacks[a][b], chain[a][b]) /\ Len(written[b]) \in Nat
        /\ stacks[a][b].serial_miss_max \in Int
    BY StackFacts, StackFields
  <2>2. Len(written'[b]) \in Nat /\ Len(written[b]) <= Len(written'[b])
    <3>1. CASE b = n
      BY <1>2, <1>3, <1>4, <3>1
    <3>2. CASE b # n
      BY <1>3, <2>1, <3>2
    <3> QED BY <3>1, <3>2
  <2>3. MissBounded(stacks[a][b], Len(written'[b]))
    <3>1. Max2(1, Len(written[b])) <= Max2(1, Len(written'[b]))
      BY <2>1, <2>2 DEF Max2
    <3>2. Max2(1, Len(written[b])) \in Int /\ Max2(1, Len(written'[b])) \in Int
      <4>1. 1 \in Int /\ Len(written[b]) \in Int /\ Len(written'[b]) \in Int
        BY <2>1, <2>2
      <4> QED BY <4>1, Max2Type, Zenon
    <3> QED BY <2>1, <3>1, <3>2 DEF MissBounded
  <2>4. /\ Exact(stacks'[a][b]) /\ MissBounded(stacks'[a][b], Len(written'[b]))
        /\ ReferenceHeld(stacks'[a][b], chain[a][b])
    <3>1. CASE a = n /\ b = n
      <4>1. MissBounded(new, Len(written'[b])) /\ ReferenceHeld(new, chain[a][b])
        BY <1>8, <2>1, <2>3, <3>1, HeldGrows DEF MissBounded, SameMiss
      <4> QED BY <1>7, <1>8, <3>1, <4>1
    <3>2. CASE ~(a = n /\ b = n)
      BY <1>7, <2>1, <2>3, <3>2
    <3> QED BY <3>1, <3>2
  <2> QED BY <1>4, <2>4 DEF WindowStackOK
<1>10. \A o \in Node : MessagesOf(o) \subseteq MessagesOf(o)'
  BY <1>5 DEF MessagesOf
<1>11. DeliveredOK'
  <2>1. delivered \in [Node -> SUBSET (Node \X Int)]
    BY <1>1 DEF TypeOK
  <2> SUFFICES ASSUME NEW a \in Node, NEW m \in delivered[a]
               PROVE  /\ m[2] \in MessagesOf(m[1])'
                      /\ written'[m[1]][m[2]].seq <= last_seq_reference[a]
    BY <1>4 DEF DeliveredOK
  <2>2. m[1] \in Node /\ m[2] \in MessagesOf(m[1])
        /\ written[m[1]][m[2]].seq <= last_seq_reference[a]
    BY <1>1, <2>1 DEF DeliveredOK
  <2>3. written'[m[1]][m[2]] = written[m[1]][m[2]]
    BY <1>5, <2>2 DEF MessagesOf
  <2> QED BY <1>10, <2>2, <2>3
<1>12. ReferenceComplete'
  <2> SUFFICES ASSUME NEW a \in Node, NEW o \in Node, chain[a][o] <= SERIAL_START,
                      NEW s \in MessagesOf(o)', written'[o][s].seq <= last_seq_reference[a]
               PROVE  <<o, s>> \in delivered[a]
    BY <1>4 DEF ReferenceComplete
  <2>1. s \in 1 .. Len(written'[o]) /\ written'[o][s].order_i = 0
        /\ written'[o][s].type = DATA
    BY DEF MessagesOf
  <2>2. ASSUME s \in 1 .. Len(written[o]) PROVE <<o, s>> \in delivered[a]
    <3>1. written'[o][s] = written[o][s]
      BY <1>5, <2>2
    <3>2. s \in MessagesOf(o)
      BY <2>1, <2>2, <3>1 DEF MessagesOf
    <3> QED BY <1>1, <3>1, <3>2 DEF ReferenceComplete
  <2>3. ASSUME s \notin 1 .. Len(written[o]) PROVE FALSE
    <3>1. o = n
      BY <1>3, <2>1, <2>3
    <3>2. s \in len + 1 .. len + order_n
      <4> HIDE DEF len
      <4> QED BY <1>2, <1>3, <1>4, <2>1, <2>3, <3>1 DEF len
    <3>3. written'[o][s].seq = seq
      BY <1>3, <3>1, <3>2
    <3>4. last_seq_reference[a] < local_seq_last[n] /\ last_seq_reference[a] \in Int
      BY <1>1, SeqsType DEF NoLateMessage
    <3> QED BY <1>4, <3>3, <3>4
  <2> QED BY <2>2, <2>3
<1> QED BY <1>1, <1>6, <1>9, <1>11, <1>12 DEF WInv

\* A stack as it is when its node has just been registered.
LEMMA RegisteredIs ==
  ASSUME NEW n \in Node
  PROVE  LET reg == Registered(n)
         IN  /\ IsStack(reg) /\ Exact(reg) /\ Present(reg) = {} /\ reg.serial_reference = 0
             /\ reg.serial_miss_min = SerialN1(1) /\ reg.serial_miss_max = 1
             /\ reg.serial_0_base = 1 /\ reg.serial_0_real = 1
<1> USE DEF SERIAL_START, SERIAL_INVALID
<1>1. ((1 - 1) \div NB_ATOMS_PER_BLOCK) * NB_ATOMS_PER_BLOCK + 1 = 1
  <2>1. (1 - 1) \div NB_ATOMS_PER_BLOCK = 0
    BY WindowAssumption
  <2> QED BY <2>1, WindowAssumption
<1> DEFINE seqs == [o \in Node |-> Seq0Of(n, o)]
           none == [s \in {} |-> {}]
           n_1  == SerialN1(1)
           reg  == [serial_0_base |-> 1, serial_0_real |-> 1,
                    serial_min |-> INT_MAX, serial_max |-> 0,
                    serial_draft |-> 0, serial_reference |-> 0,
                    serial_miss_min |-> n_1, serial_miss_max |-> 1,
                    serial_min_to_send |-> [t \in Node |-> 1],
                    seq_0s |-> seqs, atoms |-> none]
<1>2. Registered(n) = reg
  BY <1>1 DEF Registered, StackInit
<1>3. n_1 \in Int /\ INT_MAX \in Int
  BY SerialN1Type, IntMaxType
<1>4. seqs \in [Node -> Int]
  BY ConfigAssumption DEF Seq0Of, SEQ_START
<1>5. DOMAIN none = {} /\ none \in [DOMAIN none -> Cell]
  OBVIOUS
<1> HIDE DEF seqs, n_1, none
<1>6. IsStack(reg)
  BY <1>3, <1>4, <1>5 DEF IsStack
<1>7. Exact(reg) /\ Present(reg) = {}
  BY <1>5 DEF Exact, Present
<1> QED BY <1>2, <1>6, <1>7 DEF n_1

\* Initially there are at most the META messages of the server.
LEMMA InitWindow == OneWindow /\ Init => WInv
<1> SUFFICES ASSUME OneWindow, Init PROVE WInv
  OBVIOUS
<1> USE DEF SERIAL_START, SERIAL_INVALID
<1> DEFINE n_1 == SerialN1(1)
<1>1. /\ IInv /\ Seq0 \in Nat /\ Seq0 > 0 /\ NbMeta \in Nat /\ NbMeta < n_1 /\ n_1 \in Nat /\ 1 <= n_1
      /\ chain = [n \in Node |-> [o \in Node |-> 0]]
      /\ delivered = [n \in Node |-> {}]
      /\ last_seq_reference = [n \in Node |-> -2]
  BY InitIInv, ConfigAssumption, WindowAssumption, WindowFacts
     DEF OneWindow, Init, SEQ_INVALID, SEQ_START
<1>2. /\ MetaAtom.order_i = 0 /\ MetaAtom.order_n = 1 /\ MetaAtom.seq = Seq0
      /\ MetaAtom.type # DATA
  BY DEF MetaAtom, META, DATA
<1>3. ASSUME NEW o \in Node
      PROVE  /\ Len(written[o]) \in 0 .. NbMeta
             /\ \A s \in 1 .. Len(written[o]) : written[o][s] = MetaAtom
  <2>1. CASE o = Server
    <3>1. written[o] = [s \in 1 .. NbMeta |-> MetaAtom]
      BY <2>1 DEF Init
    <3>2. Len([s \in 1 .. NbMeta |-> MetaAtom]) = NbMeta
      BY <1>1
    <3> QED BY <1>1, <3>1, <3>2
  <2>2. CASE o # Server
    BY <1>1, <2>2 DEF Init
  <2> QED BY <2>1, <2>2
<1>4. WrittenOK
  <2> SUFFICES ASSUME NEW o \in Node
               PROVE  /\ Len(written[o]) < n_1
                      /\ Orderly(written[o])
                      /\ \A s \in 1 .. Len(written[o]) : Seq0 <= written[o][s].seq
    BY DEF WrittenOK
  <2>1. Len(written[o]) < n_1 /\ \A s \in 1 .. Len(written[o]) : Seq0 <= written[o][s].seq
    BY <1>1, <1>2, <1>3
  <2>2. ASSUME NEW s \in 1 .. Len(written[o])
        PROVE  HeadIn(written[o], s) = s /\ EndIn(written[o], s) = s
    BY <1>2, <1>3 DEF HeadIn, EndIn
  <2>3. Orderly(written[o])
    BY <1>1, <1>2, <1>3, <2>2 DEF Orderly
  <2> QED BY <2>1, <2>3
<1>6. ASSUME NEW n \in Node, NEW o \in Node PROVE WindowStackOK(n, o)
  <2> DEFINE st  == stacks[n][o]
             reg == Registered(n)
             new == Joined(n, NbMeta, Node \ {o})
             cell == [atom |-> MetaAtom, send_flag |-> Node \ {o}, sent_status |-> {},
                      update_msg_called |-> FALSE]
             cells == [s \in 1 .. NbMeta |-> cell]
  <2>1. /\ Exact(reg) /\ Present(reg) = {} /\ reg.serial_reference = 0
        /\ reg.serial_miss_min = n_1 /\ reg.serial_miss_max = 1
        /\ reg.serial_0_base = 1 /\ reg.serial_0_real = 1 /\ chain[n][o] = 0
    BY <1>1, RegisteredIs
  <2>2. st = reg \/ (NbMeta # 0 /\ st = new)
    BY DEF Init, Joined
  <2>3. CASE st = reg
    <3>1. Exact(st) /\ ReferenceHeld(st, chain[n][o])
      BY <2>1, <2>3 DEF ReferenceHeld
    <3>2. MissBounded(st, Len(written[o]))
      BY <1>1, <1>3, <2>1, <2>3 DEF MissBounded, Max2
    <3> QED BY <3>1, <3>2 DEF WindowStackOK
  <2>4. CASE NbMeta # 0 /\ st = new
    <3>1. st = [reg EXCEPT !.atoms = cells, !.serial_min = 1, !.serial_max = NbMeta]
      BY <2>4 DEF Joined
    <3>2. IsStack(reg)
      BY RegisteredIs
    <3> HIDE DEF reg, cells, st
    <3>3. /\ st.atoms = cells /\ st.serial_min = 1 /\ st.serial_max = NbMeta
          /\ st.serial_0_base = reg.serial_0_base /\ st.serial_0_real = reg.serial_0_real
          /\ st.serial_reference = reg.serial_reference
          /\ st.serial_miss_min = reg.serial_miss_min
          /\ st.serial_miss_max = reg.serial_miss_max
      BY <3>1, <3>2 DEF IsStack
    <3>4. Present(st) = 1 .. NbMeta
      BY <3>3 DEF Present, cells
    <3>5. Exact(st) /\ ReferenceHeld(st, chain[n][o])
      <4>1. 1 \in 1 .. NbMeta /\ NbMeta \in 1 .. NbMeta
            /\ \A s \in 1 .. NbMeta : 1 <= s /\ s <= NbMeta
        BY <1>1, <2>4
      <4>2. st.serial_0_base = 1 /\ st.serial_0_real = 1 /\ 1 .. NbMeta # {}
        BY <2>1, <3>3, <4>1
      <4>3. Exact(st)
        BY <3>3, <3>4, <4>1, <4>2 DEF Exact
      <4>4. ReferenceHeld(st, chain[n][o])
        BY <2>1, <3>3 DEF ReferenceHeld
      <4> QED BY <4>3, <4>4
    <3>6. MissBounded(st, Len(written[o]))
      BY <1>1, <1>3, <2>1, <3>3 DEF MissBounded, Max2
    <3> QED BY <3>5, <3>6 DEF WindowStackOK, st
  <2> QED BY <2>2, <2>3, <2>4
<1>7. DeliveredOK
  BY <1>1 DEF DeliveredOK
<1>8. ReferenceComplete
  <2>1. \A o \in Node : MessagesOf(o) = {}
    BY <1>2, <1>3 DEF MessagesOf
  <2> QED BY <2>1 DEF ReferenceComplete
<1> QED BY <1>1, <1>4, <1>6, <1>7, <1>8 DEF WInv

----------------------------------------------------------------------------
(* Reading.                                                                *)

\* The stack a calculation leaves, but for marks.
Calculated(st, cl) ==
  IsStack(cl) /\ SameAtoms(Calc(st), cl) /\ SameBounds(Calc(st), cl) /\ SameMiss(Calc(st), cl)

\* What is known of a stack once the calculation is made.
LEMMA CalculatedHolds ==
  ASSUME WInv, NEW n \in Node, NEW o \in Node, NEW cl, Calculated(stacks[n][o], cl)
  PROVE  LET from == ChainAfter(n, stacks[n])[o]
         IN  /\ Fits(cl, Last(o)) /\ Exact(cl) /\ Holds(cl, written[o])
             /\ MissBounded(cl, Len(written[o])) /\ ReferenceHeld(cl, from)
             /\ from <= SERIAL_START => chain[n][o] <= SERIAL_START
             /\ SameAtoms(stacks[n][o], cl)
<1> DEFINE st   == stacks[n][o]
           new  == Calc(st)
           from == ChainAfter(n, stacks[n])[o]
<1>1. /\ Fits(st, Last(o)) /\ Last(o) \in Nat /\ Exact(st) /\ Holds(st, written[o])
      /\ MissBounded(st, Len(written[o])) /\ ReferenceHeld(st, chain[n][o])
  BY StackFacts
<1>2. from = FollowedFrom(st, chain[n][o])
  BY DEF ChainAfter, FollowedFrom
<1>3. IsStack(new) /\ SameAtoms(st, new)
  BY <1>1, CalcKeeps
<1>4. /\ Exact(new) /\ SameMiss(st, new) /\ ReferenceHeld(new, from)
      /\ from <= SERIAL_START => chain[n][o] <= SERIAL_START
  <2> HIDE DEF st
  <2> QED BY <1>1, <1>2, CalcHolds
<1>5. /\ IsStack(cl) /\ SameAtoms(new, cl) /\ SameBounds(new, cl) /\ SameMiss(new, cl)
  BY DEF Calculated
<1> HIDE DEF st, new, from
<1>6. SameAtoms(st, cl)
  BY <1>3, <1>5, SameAtomsTrans
<1>7. Exact(cl) /\ ReferenceHeld(cl, from)
  BY <1>3, <1>4, <1>5, ExactKept, HeldKept
<1>8. Holds(cl, written[o])
  BY <1>1, <1>6 DEF Holds, SameAtoms
<1>9. MissBounded(cl, Len(written[o]))
  BY <1>1, <1>4, <1>5 DEF MissBounded, SameMiss
<1>10. Fits(cl, Last(o))
  BY <1>1, <1>5, <1>6, SameAtomsFits
<1> QED BY <1>4, <1>6, <1>7, <1>8, <1>9, <1>10 DEF from, st

\* What reading leaves.
LEMMA PoppedStack ==
  ASSUME WInv, NEW n \in Node, NEW o \in Node, NEW cl, Calculated(stacks[n][o], cl),
         NEW seqs, NEW get_all
  PROVE  LET new  == Popped(cl, seqs, get_all)
             from == ChainAfter(n, stacks[n])[o]
         IN  /\ Exact(new) /\ MissBounded(new, Len(written[o]))
             /\ ReferenceHeld(new, from)
             /\ from <= SERIAL_START => chain[n][o] <= SERIAL_START
<1> DEFINE new  == Popped(cl, seqs, get_all)
           from == ChainAfter(n, stacks[n])[o]
<1>1. /\ Fits(cl, Last(o)) /\ Exact(cl) /\ Holds(cl, written[o])
      /\ MissBounded(cl, Len(written[o])) /\ ReferenceHeld(cl, from)
      /\ from <= SERIAL_START => chain[n][o] <= SERIAL_START
  BY CalculatedHolds
<1>2. written[o] \in Seq(Atom) /\ Orderly(written[o]) /\ Last(o) \in Nat
  BY StackFacts
<1>3. IsStack(cl)
  BY DEF Calculated
<1> HIDE DEF from
<1>4. SameAtoms(cl, new)
  BY <1>1, <1>2, PoppedKeeps
<1>5. SameBounds(cl, new) /\ MissBounded(new, Len(written[o]))
  BY <1>1, <1>2, <1>3, PoppedHolds
<1> HIDE DEF new
<1>6. Exact(new) /\ ReferenceHeld(new, from)
  BY <1>1, <1>3, <1>4, <1>5, ExactKept, HeldKept
<1> QED BY <1>1, <1>5, <1>6 DEF new, from

\* The message of a round that is reference, by a writer followed from its
\* first serial, is read.
LEMMA ReadByReference ==
  ASSUME WInv, NEW n \in Node, NEW o \in Node, NEW cl, Calculated(stacks[n][o], cl),
         ChainAfter(n, stacks[n])[o] <= SERIAL_START,
         NEW s \in MessagesOf(o),
         written[o][s].seq <= WarehouseSeqReference(n, CalcAll(stacks[n]))
  PROVE  /\ s \in Given(cl, written[o][s].seq, TRUE)
         /\ AtomAt(cl, s).type = DATA
<1> DEFINE w    == written[o]
           q    == w[s].seq
           from == ChainAfter(n, stacks[n])[o]
           calc == Calc(stacks[n][o])
           ref  == calc.serial_reference
           round == WarehouseSeqReference(n, CalcAll(stacks[n]))
<1>1. /\ w \in Seq(Atom) /\ Orderly(w) /\ Len(w) \in Nat
      /\ s \in 1 .. Len(w) /\ w[s].order_i = 0 /\ w[s].type = DATA
  BY StackFacts DEF MessagesOf
<1>2. Seq0 \in Nat /\ Seq0 > 0 /\ Seq0 <= q /\ q \in Nat
  <2>1. Seq0 \in Nat /\ Seq0 > 0
    BY ConfigAssumption DEF SEQ_START
  <2>2. Seq0 <= q
    BY <1>1 DEF WInv, WrittenOK
  <2>3. q \in Int
    BY <1>1, MessageOf DEF Atom
  <2> HIDE DEF q
  <2> QED BY <2>1, <2>2, <2>3
<1>3. /\ TypeOK /\ WritersOK /\ StacksOK
  BY DEF WInv, IInv
<1>4. round \in Int /\ round <= ReferenceOf(n, CalcAll(stacks[n]), o) /\ q <= round
  BY <1>3, ReferenceBelow
<1>5. CalcAll(stacks[n])[o] = calc /\ IsStack(calc) /\ SameAtoms(stacks[n][o], calc)
  BY <1>3, CalcAllKeeps
<1>6. Calculated(stacks[n][o], calc)
  BY <1>5 DEF Calculated, SameAtoms, SameBounds, SameMiss
<1>7. /\ ReferenceHeld(calc, from) /\ Exact(calc) /\ Holds(calc, w)
      /\ from \in Nat /\ from \in {0, 1}
  <2>1. ReferenceHeld(calc, from) /\ Exact(calc) /\ Holds(calc, w)
    BY <1>6, CalculatedHolds
  <2>2. from \in Nat /\ from <= 1
    BY <2>1 DEF ReferenceHeld, SERIAL_START
  <2> HIDE DEF from
  <2> QED BY <2>1, <2>2
<1>8. /\ IsStack(cl) /\ Holds(cl, w) /\ Exact(cl) /\ Present(cl) = Present(calc)
      /\ \A t \in Present(calc) : AtomAt(cl, t) = AtomAt(calc, t)
  <2>1. Holds(cl, w) /\ Exact(cl)
    BY CalculatedHolds
  <2> QED BY <2>1 DEF Calculated, SameAtoms
<1> HIDE DEF calc, from, round
<1>9. CASE from = 0
  <2>1. ref = 0 /\ ref \notin Present(calc)
    BY <1>7, <1>9 DEF ReferenceHeld, Holds
  <2>2. SeqReference(calc) = -1
    BY <2>1 DEF SeqReference, SeqAt, Max2, SEQ_INVALID
  <2>3. CalcAll(stacks[n])[n].seq_0s[o] \in 0 .. Seq0
    <3>1. CalcAll(stacks[n])[n].seq_0s = stacks[n][n].seq_0s
      BY <1>3, CalcAllKeeps DEF SameAtoms
    <3>2. stacks[n][n].seq_0s \in [Node -> 0 .. Seq0]
      BY <1>3 DEF StacksOK, StackOK
    <3> QED BY <3>1, <3>2
  <2>4. ReferenceOf(n, CalcAll(stacks[n]), o) = CalcAll(stacks[n])[n].seq_0s[o] - 1
    BY <1>5, <2>2 DEF ReferenceOf, SEQ_INVALID
  <2> HIDE DEF q
  <2>5. FALSE
    BY <1>2, <1>4, <2>3, <2>4
  <2> QED BY <2>5
<1>10. CASE from = 1
  <2>1. CompleteAt(calc, ref) /\ 1 .. LastOf(calc, ref) \subseteq Present(calc)
    BY <1>7, <1>10 DEF ReferenceHeld
  <2>2. ref \in Present(calc) /\ ref \in 1 .. Len(w) /\ AtomAt(calc, ref) = w[ref]
    BY <1>7, <2>1 DEF CompleteAt, Holds
  <2>3. 1 .. ref \subseteq Present(calc)
    <3>1. ref <= LastOf(calc, ref) + 1 /\ LastOf(calc, ref) \in Int
      BY <1>5, <2>2, AtomFields DEF LastOf
    <3>2. ASSUME NEW t \in 1 .. ref PROVE t \in Present(calc)
      <4>1. t = ref \/ t \in 1 .. LastOf(calc, ref)
        BY <2>2, <3>1
      <4> QED BY <2>1, <2>2, <4>1
    <3> QED BY <3>2
  <2>4. w[ref].seq \in Int /\ Seq0 <= w[ref].seq
    <3>1. Seq0 <= w[ref].seq
      BY <2>2 DEF WInv, WrittenOK
    <3>2. w[ref].seq \in Int
      BY <1>1, <2>2, MessageOf DEF Atom
    <3> QED BY <3>1, <3>2
  <2>5. q < w[ref].seq
    <3>1. SeqAt(calc, ref) = w[ref].seq
      <4>1. ref >= calc.serial_0_real
        BY <1>7, <2>2 DEF Exact, SERIAL_START
      <4> QED BY <2>2, <4>1 DEF SeqAt
    <3>2. SeqReference(calc) = w[ref].seq - 1
      BY <1>2, <2>4, <3>1 DEF SeqReference, Max2, SEQ_INVALID
    <3>3. ReferenceOf(n, CalcAll(stacks[n]), o) = w[ref].seq - 1
      BY <1>2, <1>5, <2>4, <3>2 DEF ReferenceOf, SEQ_INVALID
    <3> HIDE DEF q
    <3> QED BY <1>2, <1>4, <2>4, <3>3
  <2>6. ref \in Present(cl) /\ 1 .. ref \subseteq Present(cl)
    BY <1>8, <2>2, <2>3
  <2> HIDE DEF ref, w
  <2>7. s \in Given(cl, q, TRUE)
    BY <1>1, <1>2, <1>8, <2>5, <2>6, RoundIsRead
  <2>8. s \in Present(cl)
    BY <1>1, <1>8, <2>7, GivenIs
  <2>9. AtomAt(cl, s).type = DATA
    BY <1>1, <1>8, <2>8 DEF Holds
  <2> QED BY <2>7, <2>9 DEF w
<1> QED BY <1>7, <1>9, <1>10

\* A step that reads without handing anything over.
LEMMA ReadWindow ==
  ASSUME WInv, IInv', NEW n \in Node,
         UNCHANGED <<written, delivered, last_seq_reference>>,
         chain' = [chain EXCEPT ![n] = ChainAfter(n, stacks[n])],
         \A a, b \in Node : a # n => stacks'[a][b] = stacks[a][b],
         \A b \in Node : /\ Exact(stacks'[n][b])
                         /\ MissBounded(stacks'[n][b], Len(written[b]))
                         /\ ReferenceHeld(stacks'[n][b], ChainAfter(n, stacks[n])[b])
                         /\ ChainAfter(n, stacks[n])[b] <= SERIAL_START =>
                              chain[n][b] <= SERIAL_START
  PROVE  WInv'
<1>1. WrittenOK' /\ DeliveredOK'
  BY DEF WInv, WrittenOK, DeliveredOK, MessagesOf
<1>2. \A a, b \in Node :
        chain'[a][b] = IF a = n THEN ChainAfter(n, stacks[n])[b] ELSE chain[a][b]
  <2>1. chain \in [Node -> [Node -> Int]]
    BY DEF WInv, IInv, TypeOK
  <2> QED BY <2>1
<1>3. ASSUME NEW a \in Node, NEW b \in Node PROVE WindowStackOK(a, b)'
  BY <1>2 DEF WInv, WindowStackOK
<1>4. ReferenceComplete'
  <2>1. \A a, b \in Node : chain'[a][b] <= SERIAL_START => chain[a][b] <= SERIAL_START
    BY <1>2
  <2> QED BY <2>1 DEF WInv, ReferenceComplete, MessagesOf
<1> QED BY <1>1, <1>3, <1>4 DEF WInv

LEMMA NoReferenceMsgsWindow ==
  ASSUME WInv, NEW n \in Node, NoReferenceMsgs(n)
  PROVE  WInv'
<1>1. IInv /\ IInv' /\ TypeOK /\ WritersOK /\ StacksOK
  BY NoReferenceMsgsStep DEF WInv, IInv
<1>2. /\ UNCHANGED <<written, delivered, last_seq_reference>>
      /\ chain' = [chain EXCEPT ![n] = ChainAfter(n, stacks[n])]
      /\ stacks' = [stacks EXCEPT ![n] = CalcAll(stacks[n])]
  BY DEF NoReferenceMsgs, NothingNew
<1>3. /\ \A a, b \in Node : a # n => stacks'[a][b] = stacks[a][b]
      /\ \A b \in Node : stacks'[n][b] = Calc(stacks[n][b])
  <2>1. stacks = [x \in Node |-> [y \in Node |-> stacks[x][y]]]
    BY <1>1, StacksShape
  <2> QED BY <1>2, <2>1 DEF CalcAll
<1>4. ASSUME NEW b \in Node
      PROVE  /\ Exact(stacks'[n][b])
             /\ MissBounded(stacks'[n][b], Len(written[b]))
             /\ ReferenceHeld(stacks'[n][b], ChainAfter(n, stacks[n])[b])
             /\ ChainAfter(n, stacks[n])[b] <= SERIAL_START =>
                  chain[n][b] <= SERIAL_START
  <2>1. Calculated(stacks[n][b], Calc(stacks[n][b]))
    BY <1>1, CalcAllKeeps DEF Calculated, SameAtoms, SameBounds, SameMiss
  <2> QED BY <1>3, <2>1, CalculatedHolds
<1> QED BY <1>1, <1>2, <1>3, <1>4, ReadWindow

LEMMA GetDraftMsgsWindow ==
  ASSUME WInv, NEW n \in Node, GetDraftMsgs(n)
  PROVE  WInv'
<1> DEFINE draft == last_seq_reference[n] + 1 .. WarehouseSeqDraft(CalcAll(stacks[n]))
<1>1. IInv /\ IInv' /\ TypeOK /\ WritersOK /\ StacksOK
  BY GetDraftMsgsStep DEF WInv, IInv
<1>2. /\ UNCHANGED <<written, delivered, last_seq_reference>>
      /\ chain' = [chain EXCEPT ![n] = ChainAfter(n, stacks[n])]
      /\ stacks' = [stacks EXCEPT ![n] =
                      [o \in Node |-> Popped(CalcAll(stacks[n])[o], draft, FALSE)]]
  BY DEF GetDraftMsgs
<1> HIDE DEF draft
<1>3. /\ \A a, b \in Node : a # n => stacks'[a][b] = stacks[a][b]
      /\ \A b \in Node : stacks'[n][b] = Popped(Calc(stacks[n][b]), draft, FALSE)
  <2>1. stacks = [x \in Node |-> [y \in Node |-> stacks[x][y]]]
    BY <1>1, StacksShape
  <2> QED BY <1>2, <2>1 DEF CalcAll
<1>4. ASSUME NEW b \in Node
      PROVE  /\ Exact(stacks'[n][b])
             /\ MissBounded(stacks'[n][b], Len(written[b]))
             /\ ReferenceHeld(stacks'[n][b], ChainAfter(n, stacks[n])[b])
             /\ ChainAfter(n, stacks[n])[b] <= SERIAL_START =>
                  chain[n][b] <= SERIAL_START
  <2>1. Calculated(stacks[n][b], Calc(stacks[n][b]))
    BY <1>1, CalcAllKeeps DEF Calculated, SameAtoms, SameBounds, SameMiss
  <2> QED BY <1>3, <2>1, PoppedStack
<1> QED BY <1>1, <1>2, <1>3, <1>4, ReadWindow

\* What GetReferenceMsgs does to the stacks of n and to the histories.
ClearedAt(n, o) ==
  ClearRecent(CalcAll(stacks[n])[o], WarehouseSeqReference(n, CalcAll(stacks[n])))

NewRounds(n) ==
  last_seq_reference[n] + 1 .. WarehouseSeqReference(n, CalcAll(stacks[n]))

LEMMA GetReferenceMsgsDoes ==
  ASSUME IInv, NEW n \in Node, GetReferenceMsgs(n)
  PROVE  /\ \A o \in Node : Calculated(stacks[n][o], ClearedAt(n, o))
         /\ \A a, b \in Node :
              stacks'[a][b] = IF a = n THEN Popped(ClearedAt(n, b), NewRounds(n), TRUE)
                              ELSE stacks[a][b]
         /\ \A a, b \in Node :
              chain'[a][b] = IF a = n THEN ChainAfter(n, stacks[n])[b] ELSE chain[a][b]
         /\ \A a \in Node : a # n => /\ delivered'[a] = delivered[a]
                                     /\ last_seq_reference'[a] = last_seq_reference[a]
         /\ delivered'[n] = delivered[n] \cup
              UNION {{<<o, h>> : h \in MsgList(ClearedAt(n, o), NewRounds(n), TRUE)} : o \in Node}
         /\ last_seq_reference'[n] = WarehouseSeqReference(n, CalcAll(stacks[n]))
         /\ last_seq_reference'[n] > last_seq_reference[n]
         /\ last_seq_reference[n] \in Int /\ last_seq_reference'[n] \in Int
         /\ \A o \in Node : last_seq_reference'[n] < local_seq_last[o]
         /\ UNCHANGED <<local_seq_last, net, written>>
<1> DEFINE ref == WarehouseSeqReference(n, CalcAll(stacks[n]))
<1>1. TypeOK /\ WritersOK /\ StacksOK
  BY DEF IInv
<1>2. ref \in Int /\ \A o \in Node : ref < local_seq_last[o]
  BY <1>1, ReferenceBelow
<1>3. \A o \in Node : CalcAll(stacks[n])[o] = Calc(stacks[n][o])
  BY DEF CalcAll
<1>4. ASSUME NEW o \in Node PROVE Calculated(stacks[n][o], ClearedAt(n, o))
  <2> DEFINE calc == Calc(stacks[n][o])
  <2>1. IsStack(calc)
    BY <1>1, CalcAllKeeps
  <2>2. ClearedAt(n, o) = ClearRecent(calc, ref)
    BY <1>3 DEF ClearedAt
  <2> HIDE DEF ref, calc
  <2>3. /\ IsStack(ClearRecent(calc, ref)) /\ SameAtoms(calc, ClearRecent(calc, ref))
        /\ SameBounds(calc, ClearRecent(calc, ref)) /\ SameMiss(calc, ClearRecent(calc, ref))
    BY <2>1, ClearRecentBounds, ClearRecentKeeps
  <2> QED BY <2>2, <2>3 DEF Calculated, calc
<1>5. /\ stacks' = [stacks EXCEPT ![n] =
            [o \in Node |-> Popped(ClearedAt(n, o), NewRounds(n), TRUE)]]
      /\ delivered' = [delivered EXCEPT ![n] = delivered[n] \cup
            UNION {{<<o, h>> : h \in MsgList(ClearedAt(n, o), NewRounds(n), TRUE)} : o \in Node}]
      /\ last_seq_reference' = [last_seq_reference EXCEPT ![n] = ref]
      /\ ref > last_seq_reference[n]
      /\ chain' = [chain EXCEPT ![n] = ChainAfter(n, stacks[n])]
      /\ UNCHANGED <<local_seq_last, net, written>>
  <2>1. delivered \in [Node -> SUBSET (Node \X Int)]
    BY <1>1 DEF TypeOK
  <2> QED BY <2>1 DEF GetReferenceMsgs, HandOver, ClearedAt, NewRounds
<1> HIDE DEF ref
<1>6. stacks = [x \in Node |-> [y \in Node |-> stacks[x][y]]]
  BY <1>1, StacksShape
<1>7. \A a, b \in Node :
        stacks'[a][b] = IF a = n THEN Popped(ClearedAt(n, b), NewRounds(n), TRUE)
                        ELSE stacks[a][b]
  BY <1>5, <1>6
<1>8. /\ \A a, b \in Node :
           chain'[a][b] = IF a = n THEN ChainAfter(n, stacks[n])[b] ELSE chain[a][b]
      /\ \A a \in Node : a # n => /\ delivered'[a] = delivered[a]
                                  /\ last_seq_reference'[a] = last_seq_reference[a]
      /\ last_seq_reference'[n] = ref /\ last_seq_reference[n] \in Int
  BY <1>1, <1>5 DEF TypeOK
<1>9. delivered'[n] = delivered[n] \cup
        UNION {{<<o, h>> : h \in MsgList(ClearedAt(n, o), NewRounds(n), TRUE)} : o \in Node}
  <2> DEFINE more == UNION {{<<o, h>> : h \in MsgList(ClearedAt(n, o), NewRounds(n), TRUE)} :
                              o \in Node}
  <2>1. delivered \in [Node -> SUBSET (Node \X Int)]
    BY <1>1 DEF TypeOK
  <2>2. delivered' = [delivered EXCEPT ![n] = delivered[n] \cup more]
    BY <1>5
  <2> HIDE DEF more
  <2>3. delivered'[n] = delivered[n] \cup more
    BY <2>1, <2>2
  <2> QED BY <2>3 DEF more
<1> QED BY <1>2, <1>4, <1>5, <1>7, <1>8, <1>9 DEF ref

\* What is handed over: messages of the new rounds, and of the writers followed
\* from their first serial, all of them.
LEMMA HandedOver ==
  ASSUME WInv, NEW n \in Node, GetReferenceMsgs(n)
  PROVE  /\ \A m \in delivered'[n] : m \in delivered[n] \/
              /\ m \in Node \X Int /\ m[2] \in MessagesOf(m[1])
              /\ last_seq_reference[n] < written[m[1]][m[2]].seq
              /\ written[m[1]][m[2]].seq <= last_seq_reference'[n]
         /\ \A o \in Node : ChainAfter(n, stacks[n])[o] <= SERIAL_START =>
              \A s \in MessagesOf(o) :
                (/\ last_seq_reference[n] < written[o][s].seq
                 /\ written[o][s].seq <= last_seq_reference'[n])
                  => <<o, s>> \in delivered'[n]
<1> DEFINE more == UNION {{<<o, h>> : h \in MsgList(ClearedAt(n, o), NewRounds(n), TRUE)} :
                            o \in Node}
           lo == last_seq_reference[n]
           hi == last_seq_reference'[n]
<1>1. /\ \A o \in Node : Calculated(stacks[n][o], ClearedAt(n, o))
      /\ delivered'[n] = delivered[n] \cup more
      /\ lo \in Int /\ hi \in Int /\ NewRounds(n) = lo + 1 .. hi
      /\ hi = WarehouseSeqReference(n, CalcAll(stacks[n]))
  BY GetReferenceMsgsDoes DEF WInv, NewRounds
<1>2. ASSUME NEW o \in Node
      PROVE  /\ written[o] \in Seq(Atom) /\ Orderly(written[o]) /\ Holds(ClearedAt(n, o), written[o])
             /\ \A s \in 1 .. Len(written[o]) : written[o][s].seq \in Int
  <2>1. written[o] \in Seq(Atom) /\ Orderly(written[o])
    BY StackFacts
  <2>2. Holds(ClearedAt(n, o), written[o])
    BY <1>1, CalculatedHolds
  <2>3. \A s \in 1 .. Len(written[o]) : written[o][s].seq \in Int
    BY WrittenType DEF WInv, IInv, Atom
  <2> QED BY <2>1, <2>2, <2>3
<1>3. ASSUME NEW m \in more
      PROVE  /\ m \in Node \X Int /\ m[2] \in MessagesOf(m[1])
             /\ lo < written[m[1]][m[2]].seq /\ written[m[1]][m[2]].seq <= hi
  <2>1. PICK o \in Node : m \in {<<o, h>> : h \in MsgList(ClearedAt(n, o), NewRounds(n), TRUE)}
    OBVIOUS
  <2>2. PICK h \in MsgList(ClearedAt(n, o), NewRounds(n), TRUE) : m = <<o, h>>
    BY <2>1
  <2>3. AtomAt(ClearedAt(n, o), h).type = DATA
    BY <2>2 DEF MsgList
  <2>4. PICK q \in NewRounds(n) : h \in Given(ClearedAt(n, o), q, TRUE)
    BY <2>2 DEF MsgList
  <2>5. /\ h \in 1 .. Len(written[o]) /\ written[o][h].order_i = 0
        /\ written[o][h].seq = q /\ h \in Present(ClearedAt(n, o))
    <3> DEFINE w   == written[o]
               cl  == ClearedAt(n, o)
               all == TRUE
    <3>1. w \in Seq(Atom) /\ Orderly(w) /\ Holds(cl, w) /\ h \in Given(cl, q, all)
      BY <1>2, <2>4
    <3> HIDE DEF w, cl, all
    <3>2. h \in 1 .. Len(w) /\ w[h].order_i = 0
      BY <3>1, GivenIs
    <3>3. w[h].seq = q
      BY <3>1, GivenIs
    <3>4. h \in Present(cl)
      BY <3>1, GivenIs
    <3> QED BY <3>2, <3>3, <3>4 DEF w, cl
  <2>6. written[o][h].type = DATA
    BY <1>2, <2>3, <2>5 DEF Holds
  <2>7. h \in MessagesOf(o) /\ h \in Int
    BY <2>5, <2>6 DEF MessagesOf
  <2>8. lo < q /\ q <= hi
    BY <1>1, <2>4
  <2>9. m \in Node \X Int /\ m[1] = o /\ m[2] = h
    BY <2>2, <2>7
  <2> HIDE DEF lo, hi
  <2> QED BY <2>5, <2>7, <2>8, <2>9
<1>4. ASSUME NEW o \in Node, ChainAfter(n, stacks[n])[o] <= SERIAL_START,
             NEW s \in MessagesOf(o), lo < written[o][s].seq, written[o][s].seq <= hi
      PROVE  <<o, s>> \in more
  <2>1. s \in Given(ClearedAt(n, o), written[o][s].seq, TRUE)
        /\ AtomAt(ClearedAt(n, o), s).type = DATA
    <3> DEFINE cl == ClearedAt(n, o)
               to == WarehouseSeqReference(n, CalcAll(stacks[n]))
    <3>1. Calculated(stacks[n][o], cl)
      BY <1>1
    <3>2. written[o][s].seq <= to
      BY <1>1, <1>4
    <3> HIDE DEF cl, lo, hi, more
    <3>3. s \in Given(cl, written[o][s].seq, TRUE)
      BY <1>4, <3>1, <3>2, ReadByReference
    <3>4. AtomAt(cl, s).type = DATA
      BY <1>4, <3>1, <3>2, ReadByReference
    <3> QED BY <3>3, <3>4 DEF cl
  <2>2. written[o][s].seq \in NewRounds(n)
    <3>1. written[o][s].seq \in Int
      BY <1>2 DEF MessagesOf
    <3> QED BY <1>1, <1>4, <3>1
  <2>3. s \in MsgList(ClearedAt(n, o), NewRounds(n), TRUE)
    BY <2>1, <2>2 DEF MsgList
  <2>4. <<o, s>> \in {<<o, h>> : h \in MsgList(ClearedAt(n, o), NewRounds(n), TRUE)}
    BY <2>3
  <2> QED BY <2>4
<1> HIDE DEF more
<1> QED BY <1>1, <1>3, <1>4

LEMMA GetReferenceMsgsWindow ==
  ASSUME WInv, NEW n \in Node, GetReferenceMsgs(n)
  PROVE  WInv'
<1> DEFINE lo == last_seq_reference[n]
           hi == last_seq_reference'[n]
<1>1. IInv /\ IInv' /\ DeliveredOK /\ ReferenceComplete /\ WrittenOK
  BY GetReferenceMsgsStep DEF WInv
<1>2. /\ \A o \in Node : Calculated(stacks[n][o], ClearedAt(n, o))
      /\ \A a, b \in Node :
           stacks'[a][b] = IF a = n THEN Popped(ClearedAt(n, b), NewRounds(n), TRUE)
                           ELSE stacks[a][b]
      /\ \A a, b \in Node :
           chain'[a][b] = IF a = n THEN ChainAfter(n, stacks[n])[b] ELSE chain[a][b]
      /\ \A a \in Node : a # n => /\ delivered'[a] = delivered[a]
                                  /\ last_seq_reference'[a] = last_seq_reference[a]
      /\ delivered[n] \subseteq delivered'[n]
      /\ lo < hi /\ lo \in Int /\ hi \in Int
      /\ written' = written
  BY <1>1, GetReferenceMsgsDoes
<1>3. /\ \A m \in delivered'[n] : m \in delivered[n] \/
           /\ m \in Node \X Int /\ m[2] \in MessagesOf(m[1])
           /\ lo < written[m[1]][m[2]].seq
           /\ written[m[1]][m[2]].seq <= hi
      /\ \A o \in Node : ChainAfter(n, stacks[n])[o] <= SERIAL_START =>
           \A s \in MessagesOf(o) :
             (lo < written[o][s].seq /\ written[o][s].seq <= hi) => <<o, s>> \in delivered'[n]
  BY HandedOver
<1>4. \A b \in Node : /\ Exact(stacks'[n][b])
                      /\ MissBounded(stacks'[n][b], Len(written[b]))
                      /\ ReferenceHeld(stacks'[n][b], ChainAfter(n, stacks[n])[b])
                      /\ ChainAfter(n, stacks[n])[b] <= SERIAL_START =>
                           chain[n][b] <= SERIAL_START
  <2> TAKE b \in Node
  <2>1. stacks'[n][b] = Popped(ClearedAt(n, b), NewRounds(n), TRUE)
        /\ Calculated(stacks[n][b], ClearedAt(n, b))
    BY <1>2
  <2> QED BY <2>1, PoppedStack
<1>5. \A a, b \in Node : WindowStackOK(a, b)'
  BY <1>2, <1>4 DEF WInv, WindowStackOK
<1>6. \A o \in Node : MessagesOf(o)' = MessagesOf(o)
  BY <1>2 DEF MessagesOf
<1>7. WrittenOK'
  BY <1>1, <1>2 DEF WrittenOK
<1>8. \A o \in Node : \A s \in MessagesOf(o) : written[o][s].seq \in Int
  BY <1>1, WrittenType DEF IInv, Atom, MessagesOf
<1>9. DeliveredOK'
  <2> SUFFICES ASSUME NEW a \in Node, NEW m \in delivered'[a]
               PROVE  /\ m[2] \in MessagesOf(m[1])'
                      /\ written'[m[1]][m[2]].seq <= last_seq_reference'[a]
    BY DEF DeliveredOK
  <2>1. delivered \in [Node -> SUBSET (Node \X Int)]
    BY <1>1 DEF IInv, TypeOK
  <2>2. ASSUME NEW d \in Node, m \in delivered[d]
        PROVE  /\ m[1] \in Node /\ m[2] \in MessagesOf(m[1])
               /\ written[m[1]][m[2]].seq <= last_seq_reference[d]
               /\ written[m[1]][m[2]].seq \in Int
    <3>1. m[1] \in Node
      BY <2>1, <2>2
    <3>2. m[2] \in MessagesOf(m[1]) /\ written[m[1]][m[2]].seq <= last_seq_reference[d]
      BY <1>1, <2>2 DEF DeliveredOK
    <3> QED BY <1>8, <3>1, <3>2
  <2>3. CASE a # n
    BY <1>2, <1>6, <2>2, <2>3
  <2>4. CASE a = n /\ m \in delivered[n]
    <3>1. written[m[1]][m[2]].seq <= hi
      BY <1>2, <2>2, <2>4
    <3> QED BY <1>2, <1>6, <2>2, <2>4, <3>1
  <2>5. CASE a = n /\ m \notin delivered[n]
    <3>1. /\ m \in Node \X Int /\ m[2] \in MessagesOf(m[1])
          /\ written[m[1]][m[2]].seq <= hi
      BY <1>3, <2>5
    <3> QED BY <1>2, <1>6, <2>5, <3>1
  <2> QED BY <2>3, <2>4, <2>5
<1>10. ReferenceComplete'
  <2> SUFFICES ASSUME NEW a \in Node, NEW o \in Node, chain'[a][o] <= SERIAL_START,
                      NEW s \in MessagesOf(o), written[o][s].seq <= last_seq_reference'[a]
               PROVE  <<o, s>> \in delivered'[a]
    BY <1>2, <1>6 DEF ReferenceComplete
  <2>1. CASE a # n
    BY <1>1, <1>2, <2>1 DEF ReferenceComplete
  <2>2. CASE a = n /\ written[o][s].seq <= lo
    <3>1. chain[n][o] <= SERIAL_START
      BY <1>2, <1>4, <2>2
    <3>2. <<o, s>> \in delivered[n]
      BY <1>1, <2>2, <3>1 DEF ReferenceComplete
    <3> QED BY <1>2, <2>2, <3>2
  <2>3. CASE a = n /\ ~(written[o][s].seq <= lo)
    <3>1. lo < written[o][s].seq
      BY <1>2, <1>8, <2>3
    <3> QED BY <1>2, <1>3, <2>3, <3>1
  <2> QED BY <2>1, <2>2, <2>3
<1> QED BY <1>1, <1>5, <1>7, <1>9, <1>10 DEF WInv

LEMMA NextWindow == OneWindow /\ WInv /\ [Next]_vars => WInv'
<1> SUFFICES ASSUME OneWindow, WInv, [Next]_vars PROVE WInv'
  OBVIOUS
<1>1. CASE Network
  <2> PICK p \in net : RecvAtom(p) \/ RecvMiss(p) \/ Lose(p)
    BY <1>1 DEF Network
  <2> QED BY RecvAtomWindow, RecvMissWindow, LoseWindow
<1>2. ASSUME NEW n \in Node, Write(n) PROVE WInv'
  <2>1. Seq0 \in Nat /\ MaxSeq \in Nat
    BY ConfigAssumption
  <2> PICK seq \in Seq0 .. MaxSeq, order_n \in 1 .. MaxOrder : PutLocalMsg(n, seq, order_n)
    BY <1>2 DEF Write
  <2> QED BY <2>1, PutLocalMsgWindow
<1>3. ASSUME NEW n \in Node, Send(n) PROVE WInv'
  BY <1>3, SendWindow DEF Send
<1>4. ASSUME NEW n \in Node, Ask(n) PROVE WInv'
  BY <1>4, PollMissWindow DEF Ask
<1>5. ASSUME NEW n \in Node, Hear(n) PROVE WInv'
  <2>1. PICK peer \in Node : \E serial \in 0 .. Len(written[peer]) : HearSerial(n, peer, serial)
    BY <1>5 DEF Hear
  <2> PICK serial \in 0 .. Len(written[peer]) : HearSerial(n, peer, serial)
    BY <2>1
  <2>2. serial \in Int
    OBVIOUS
  <2> QED BY <2>2, HearWindow
<1>6. ASSUME NEW n \in Node, Read(n) PROVE WInv'
  BY <1>6, GetReferenceMsgsWindow, NoReferenceMsgsWindow, GetDraftMsgsWindow, GetNothingWindow
     DEF Read
<1>7. CASE UNCHANGED vars
  <2>1. UNCHANGED <<stacks, written, delivered, chain, last_seq_reference>>
    BY <1>7 DEF vars
  <2>2. IInv'
    BY NextIInv DEF WInv
  <2> QED BY <2>1, <2>2, QuietStep
<1> QED BY <1>1, <1>2, <1>3, <1>4, <1>5, <1>6, <1>7 DEF Next

LEMMA WindowInvariance == ASSUME OneWindow PROVE Spec => []WInv
<1>1. Init => WInv
  BY InitWindow
<1>2. WInv /\ [Next]_vars => WInv'
  BY NextWindow
<1> QED BY <1>1, <1>2, PTL DEF Spec

----------------------------------------------------------------------------
(* The theorems.                                                           *)

\* A round is reference somewhere only when all the messages anyone wrote for
\* it were handed over there, for the writers followed from their first atom
\* on (get_seq_reference, get_msg_list_by_seq).
THEOREM AlwaysReferenceComplete == ASSUME OneWindow PROVE Spec => []ReferenceComplete
<1>1. WInv => ReferenceComplete
  BY DEF WInv
<1> QED BY <1>1, WindowInvariance, PTL

\* A message that is given from a stack would make its calculation find one.
LEMMA GivenIsFound ==
  ASSUME WInv, NEW n \in Node, NEW o \in Node, NEW q, NEW get_all,
         NEW h \in Given(stacks[n][o], q, get_all)
  PROVE  CalcFinds(stacks[n][o])
<1> DEFINE st   == stacks[n][o]
           w    == written[o]
           from == chain[n][o]
           ref  == st.serial_reference
<1>1. /\ Exact(st) /\ Holds(st, w) /\ ReferenceHeld(st, from)
      /\ w \in Seq(Atom) /\ Orderly(w) /\ Len(w) \in Nat
  BY StackFacts
<1>2. h \in Given(st, q, get_all)
  OBVIOUS
<1> HIDE DEF st, w, from
<1>3. h \in Present(st) /\ CompleteAt(st, h) /\ h >= st.serial_min
  BY <1>1, <1>2, GivenIs
<1>4. h \in 1 .. Len(w) /\ st.serial_min \in 1 .. Len(w)
  BY <1>1, <1>3 DEF Exact, Holds
<1>5. CASE from = 0
  <2>1. ref = 0
    BY <1>1, <1>5 DEF ReferenceHeld
  <2>2. h >= CalcStart(st)
    BY <1>1, <1>3, <1>4, <2>1 DEF CalcStart, Max2
  <2>3. h \in CompleteHeads(st)
    BY <1>3, <2>2 DEF CompleteHeads
  <2> QED BY <2>3 DEF CalcFinds, st
<1>6. CASE from # 0
  <2>1. CompleteAt(st, ref)
    BY <1>1, <1>6 DEF ReferenceHeld
  <2>2. ref \in Present(st) /\ ref \in 1 .. Len(w) /\ st.serial_min <= ref
    BY <1>1, <2>1 DEF CompleteAt, Exact, Holds
  <2>3. CalcStart(st) = ref
    BY <1>1, <1>4, <2>2 DEF CalcStart, Max2
  <2>4. ref >= ref
    BY <1>1, <2>2
  <2> HIDE DEF ref
  <2>5. ref \in CompleteHeads(st)
    BY <2>1, <2>2, <2>3, <2>4 DEF CompleteHeads
  <2> QED BY <2>5 DEF CalcFinds, st
<1> QED BY <1>5, <1>6 DEF st

\* The list that is read when the calculation finds no whole message anywhere,
\* to be thrown away, is empty (lw6p2p_node_get_next_draft_msg).
THEOREM BlindReadAlwaysEmpty == ASSUME OneWindow PROVE Spec => []BlindReadIsEmpty
<1>1. WInv => BlindReadIsEmpty
  <2> SUFFICES ASSUME WInv, NEW n \in Node, NEW o \in Node, ~SomethingComplete(stacks[n]),
                      NEW h \in MsgList(stacks[n][o],
                        WarehouseSeqMin(stacks[n]) .. WarehouseSeqMax(stacks[n]), FALSE)
               PROVE  FALSE
    BY DEF BlindReadIsEmpty
  <2> DEFINE all  == WarehouseSeqMin(stacks[n]) .. WarehouseSeqMax(stacks[n])
             some == FALSE
  <2>1. h \in MsgList(stacks[n][o], all, some)
    OBVIOUS
  <2> HIDE DEF all, some
  <2>2. PICK q \in all : h \in Given(stacks[n][o], q, some)
    BY <2>1 DEF MsgList
  <2>3. CalcFinds(stacks[n][o])
    BY <2>2, GivenIsFound
  <2> QED BY <2>3 DEF SomethingComplete
<1> QED BY <1>1, WindowInvariance, PTL

\* Only the search for what is missing adds a MISS to the network.
LEMMA MissFrom ==
  ASSUME TypeOK, [Next]_vars, NEW p \in net' \ net, p.cmd = "MISS"
  PROVE  \E n \in Node : \E heldback \in SUBSET (Node \ {n}) : PollMiss(n, heldback)
<1>1. CASE Network
  BY <1>1 DEF Network, RecvAtom, RecvMiss, Lose
<1>2. ASSUME NEW n \in Node, Write(n) PROVE FALSE
  BY <1>2 DEF Write, PutLocalMsg
<1>3. ASSUME NEW n \in Node, Send(n) PROVE FALSE
  <2>1. PICK peer \in Node : SendAtoms(n, peer)
    BY <1>3 DEF Send
  <2>2. PICK o \in Node :
          p \in {AtomPacket(peer, o, s, AtomAt(stacks[n][o], s)) : s \in ToSend(stacks[n][o], peer)}
    BY <2>1 DEF SendAtoms
  <2>3. PICK s \in ToSend(stacks[n][o], peer) :
          p = AtomPacket(peer, o, s, AtomAt(stacks[n][o], s))
    BY <2>2
  <2>4. IsStack(stacks[n][o]) /\ s \in Present(stacks[n][o])
    BY <2>3, StackType DEF ToSend
  <2>5. AtomAt(stacks[n][o], s) \in Atom
    BY <2>4, AtomFields
  <2>6. p.cmd \in {DATA, META}
    BY <2>3, <2>5 DEF AtomPacket, Atom
  <2> QED BY <2>6 DEF DATA, META
<1>4. ASSUME NEW n \in Node, Hear(n) PROVE FALSE
  BY <1>4 DEF Hear, HearSerial
<1>5. ASSUME NEW n \in Node, Read(n) PROVE FALSE
  BY <1>5 DEF Read, GetReferenceMsgs, NoReferenceMsgs, HandOver, NothingNew, GetDraftMsgs,
              GetNothing
<1>6. ~UNCHANGED vars
  BY DEF vars
<1>7. ASSUME NEW n \in Node, Ask(n)
      PROVE  \E heldback \in SUBSET (Node \ {n}) : PollMiss(n, heldback)
  BY <1>7 DEF Ask
<1> QED BY <1>1, <1>2, <1>3, <1>4, <1>5, <1>6, <1>7 DEF Next

\* A MISS asks for atoms that were written, and the first and the last it asks
\* for are missing where it comes from (get_miss, poll_step12_miss_list).
THEOREM MissAlwaysRight == ASSUME OneWindow PROVE Spec => MissIsRight
<1>1. WInv /\ [Next]_vars =>
        [\A p \in net' \ net : p.cmd = "MISS" =>
           /\ p.serial_min .. p.serial_max \subseteq 1 .. Len(written[p.id_from])
           /\ {p.serial_min, p.serial_max} \cap Present(stacks[p.id_to][p.id_from]) = {}]_vars
  <2> SUFFICES ASSUME WInv, [Next]_vars, NEW p \in net' \ net, p.cmd = "MISS"
               PROVE  /\ p.serial_min .. p.serial_max \subseteq 1 .. Len(written[p.id_from])
                      /\ {p.serial_min, p.serial_max}
                           \cap Present(stacks[p.id_to][p.id_from]) = {}
    OBVIOUS
  <2>1. TypeOK
    BY DEF WInv, IInv
  <2>2. PICK n \in Node : \E heldback \in SUBSET (Node \ {n}) : PollMiss(n, heldback)
    BY <2>1, MissFrom
  <2>3. PICK heldback \in SUBSET (Node \ {n}) : PollMiss(n, heldback)
    BY <2>2
  <2> DEFINE searched == [o \in Node |-> IF o = n THEN stacks[n][o] ELSE GetMiss(stacks[n][o])]
             missing  == {o \in Node \ {n} : HasMiss(searched[o])} \ heldback
  <2>4. p \in {MissPacket(peer, o, n, searched[o]) : peer \in Peers(n), o \in missing}
    BY <2>3 DEF PollMiss
  <2>5. PICK o \in Node :
          /\ HasMiss(GetMiss(stacks[n][o]))
          /\ \E peer \in Node : p = MissPacket(peer, o, n, GetMiss(stacks[n][o]))
    <3>1. PICK peer \in Peers(n), o \in missing : p = MissPacket(peer, o, n, searched[o])
      BY <2>4
    <3>2. peer \in Node
      BY DEF Peers
    <3>3. o \in Node /\ HasMiss(searched[o]) /\ searched[o] = GetMiss(stacks[n][o])
      OBVIOUS
    <3> QED BY <3>1, <3>2, <3>3
  <2> DEFINE new == GetMiss(stacks[n][o])
  <2>6. HasMiss(new) /\ \E peer \in Node : p = MissPacket(peer, o, n, new)
    BY <2>5
  <2>7. /\ new.serial_miss_min .. new.serial_miss_max \subseteq 1 .. Len(written[o])
        /\ {new.serial_miss_min, new.serial_miss_max} \cap Present(stacks[n][o]) = {}
    BY <2>6, SearchedStack
  <2> HIDE DEF new
  <2>8. /\ p.id_from = o /\ p.id_to = n
        /\ p.serial_min = new.serial_miss_min /\ p.serial_max = new.serial_miss_max
    BY <2>6 DEF MissPacket
  <2> QED BY <2>7, <2>8
<1> QED BY <1>1, WindowInvariance, PTL DEF Spec, MissIsRight

----------------------------------------------------------------------------
(* The warehouses implement Lockstep.                                      *)

\* What the variables of Lockstep stand for.
SentBy(o)     == {Message(o, s) : s \in MessagesOf(o)}
HandedAt(n)   == {<<m[1], Message(m[1], m[2])>> : m \in delivered[n]}
FollowedAt(n) == {o \in Node : chain[n][o] <= SERIAL_START}

\* The mapping, spelled out.
LEMMA InitRefines == WInv /\ Init => Abstract!LockstepInit
<1> SUFFICES ASSUME WInv, Init PROVE Abstract!LockstepInit
  OBVIOUS
<1>1. \A o \in Node : MessagesOf(o) = {}
  <2> TAKE o \in Node
  <2>1. \A s \in 1 .. Len(written[o]) : written[o][s].type # DATA
    <3>1. CASE o = Server
      <4>1. written[o] = [s \in 1 .. NbMeta |-> MetaAtom] /\ NbMeta \in Nat
        BY <3>1, ConfigAssumption, WindowAssumption DEF Init
      <4>2. Len(written[o]) = NbMeta
        <5>1. DOMAIN written[o] = 1 .. NbMeta /\ written[o] \in Seq(Atom)
          BY <4>1, StackFacts
        <5> QED BY <4>1, <5>1
      <4>3. MetaAtom.type = META
        BY DEF MetaAtom
      <4>4. \A s \in 1 .. Len(written[o]) : written[o][s] = MetaAtom
        BY <4>1, <4>2
      <4> QED BY <4>3, <4>4 DEF DATA, META
    <3>2. CASE o # Server
      <4>1. written[o] = <<>>
        BY <3>2 DEF Init
      <4> QED BY <4>1
    <3> QED BY <3>1, <3>2
  <2> QED BY <2>1 DEF MessagesOf
<1>2. [o \in Node |-> {Message(o, s) : s \in MessagesOf(o)}] = [o \in Node |-> {}]
  BY <1>1
<1>3. [n \in Node |-> {<<m[1], Message(m[1], m[2])>> : m \in delivered[n]}] = [n \in Node |-> {}]
  BY DEF Init
<1>4. [n \in Node |-> {o \in Node : chain[n][o] <= SERIAL_START}] = [n \in Node |-> Node]
  <2>1. \A n, o \in Node : chain[n][o] <= SERIAL_START
    BY DEF Init, SERIAL_INVALID, SERIAL_START
  <2> QED BY <2>1
<1>5. /\ local_seq_last = [n \in Node |-> Seq0]
      /\ last_seq_reference = [n \in Node |-> SEQ_INVALID - 1]
  BY DEF Init
<1> QED BY <1>2, <1>3, <1>4, <1>5 DEF Abstract!LockstepInit

\* A step that leaves alone what the rounds are about is no step of Lockstep.
LEMMA QuietRefines ==
  ASSUME UNCHANGED <<local_seq_last, written, last_seq_reference, delivered, chain>>
  PROVE  UNCHANGED Abstract!lockstep
BY DEF Abstract!lockstep, Message, MessagesOf

\* What one message adds to the messages written.
LEMMA MessagesGrow ==
  ASSUME WInv, NEW n \in Node, NEW seq \in Int, NEW order_n \in 1 .. MaxOrder,
         PutLocalMsg(n, seq, order_n)
  PROVE  LET new == Len(written[n]) + 1
         IN  /\ MessagesOf(n)' = MessagesOf(n) \cup {new} /\ new \notin MessagesOf(n)
             /\ written'[n][new].seq = seq
             /\ \A s \in MessagesOf(n) : written'[n][s] = written[n][s]
             /\ \A o \in Node \ {n} : written'[o] = written[o]
<1> DEFINE len == Len(written[n])
<1>1. TypeOK /\ len \in Nat /\ order_n \in Nat \ {0}
  BY StackFacts, ConfigAssumption, WindowAssumption DEF WInv, IInv
<1>2. /\ Len(written'[n]) = len + order_n
      /\ \A s \in 1 .. len : written'[n][s] = written[n][s]
      /\ \A s \in len + 1 .. len + order_n :
           /\ written'[n][s].type = DATA /\ written'[n][s].seq = seq
           /\ written'[n][s].order_i = s - len - 1
      /\ \A o \in Node \ {n} : written'[o] = written[o]
  BY <1>1, WriteGrows
<1>3. \A s : s \in MessagesOf(n)' <=>
               /\ s \in 1 .. len + order_n
               /\ written'[n][s].order_i = 0 /\ written'[n][s].type = DATA
  BY <1>2 DEF MessagesOf
<1>4. \A s : s \in MessagesOf(n) <=>
               s \in 1 .. len /\ written[n][s].order_i = 0 /\ written[n][s].type = DATA
  BY DEF MessagesOf
<1> HIDE DEF len
<1>5. \A s \in 1 .. len + order_n : s \in 1 .. len \/ s \in len + 1 .. len + order_n
  BY <1>1
<1>6. len + 1 \in len + 1 .. len + order_n /\ len + 1 \in 1 .. len + order_n /\ len + 1 \notin 1 .. len
  BY <1>1
<1>7. MessagesOf(n)' = MessagesOf(n) \cup {len + 1}
  <2>1. ASSUME NEW s \in MessagesOf(n)' PROVE s \in MessagesOf(n) \cup {len + 1}
    <3>1. s \in 1 .. len + order_n /\ written'[n][s].order_i = 0 /\ written'[n][s].type = DATA
      BY <1>3, <2>1
    <3>2. CASE s \in 1 .. len
      BY <1>2, <1>4, <3>1, <3>2
    <3>3. CASE s \in len + 1 .. len + order_n
      <4>1. s - len - 1 = 0
        BY <1>2, <3>1, <3>3
      <4> QED BY <1>1, <3>3, <4>1
    <3> QED BY <1>5, <3>1, <3>2, <3>3
  <2>2. ASSUME NEW s \in MessagesOf(n) PROVE s \in MessagesOf(n)'
    <3>1. s \in 1 .. len + order_n
      BY <1>1, <1>4
    <3> QED BY <1>2, <1>3, <1>4, <3>1
  <2>3. len + 1 \in MessagesOf(n)'
    <3>1. \A s \in len + 1 .. len + order_n : s = len + 1 => s - len - 1 = 0
      BY <1>1
    <3>2. \A s \in len + 1 .. len + order_n :
             s = len + 1 => written'[n][s].order_i = 0 /\ written'[n][s].type = DATA
      BY <1>2, <3>1
    <3> QED BY <1>3, <1>6, <3>2
  <2> QED BY <2>1, <2>2, <2>3
<1> QED BY <1>2, <1>4, <1>6, <1>7 DEF len

\* The calculation only ever loses track of writers.
LEMMA FollowedLess ==
  ASSUME WInv, NEW n \in Node, chain' = [chain EXCEPT ![n] = ChainAfter(n, stacks[n])]
  PROVE  /\ \A o \in Node : chain'[n][o] = ChainAfter(n, stacks[n])[o]
         /\ \A o \in Node : chain'[n][o] <= SERIAL_START => chain[n][o] <= SERIAL_START
         /\ \A a \in Node : a # n => chain'[a] = chain[a]
         /\ FollowedAt(n)' \subseteq FollowedAt(n)
         /\ \A a \in Node : a # n => FollowedAt(a)' = FollowedAt(a)
<1>1. /\ chain'[n] = ChainAfter(n, stacks[n])
      /\ \A a \in Node : a # n => chain'[a] = chain[a]
  <2>1. chain \in [Node -> [Node -> Int]]
    BY DEF WInv, IInv, TypeOK
  <2> QED BY <2>1
<1>2. ASSUME NEW o \in Node, chain'[n][o] <= SERIAL_START PROVE chain[n][o] <= SERIAL_START
  <2> DEFINE calc == Calc(stacks[n][o])
  <2>1. Calculated(stacks[n][o], calc)
    <3>1. IsStack(calc)
      BY CalcAllKeeps DEF WInv, IInv
    <3> QED BY <3>1 DEF Calculated, SameAtoms, SameBounds, SameMiss
  <2> HIDE DEF calc
  <2> QED BY <1>1, <1>2, <2>1, CalculatedHolds
<1> QED BY <1>1, <1>2 DEF FollowedAt

\* Writing is the abstract writing of one message.
LEMMA WriteRefines ==
  ASSUME WInv, NEW n \in Node, NEW seq \in Int, NEW order_n \in 1 .. MaxOrder,
         PutLocalMsg(n, seq, order_n)
  PROVE  Abstract!WriteMessage(n)
<1> PICK new : new = Len(written[n]) + 1
  OBVIOUS
<1> DEFINE m      == <<new, seq>>
           sent   == [o \in Node |-> {Message(o, s) : s \in MessagesOf(o)}]
           handed == [a \in Node |-> {<<d[1], Message(d[1], d[2])>> : d \in delivered[a]}]
<1>1. /\ MessagesOf(n)' = MessagesOf(n) \cup {new} /\ new \notin MessagesOf(n)
      /\ written'[n][new].seq = seq
      /\ \A s \in MessagesOf(n) : written'[n][s] = written[n][s]
      /\ \A o \in Node \ {n} : written'[o] = written[o]
  BY MessagesGrow
<1>2. /\ seq >= local_seq_last[n]
      /\ local_seq_last' = [local_seq_last EXCEPT ![n] = seq]
      /\ UNCHANGED <<last_seq_reference, delivered, chain>>
  BY DEF PutLocalMsg
<1>3. \A o \in Node \ {n} : MessagesOf(o)' = MessagesOf(o)
  BY <1>1 DEF MessagesOf
<1>4. \A o \in Node : \A s \in MessagesOf(o) : Message(o, s)' = Message(o, s)
  BY <1>1 DEF Message
<1>5. SentBy(n)' = SentBy(n) \cup {m}
  <2>1. Message(n, new)' = m
    BY <1>1 DEF Message
  <2> HIDE DEF m
  <2> QED BY <1>1, <1>4, <2>1 DEF SentBy
<1>6. \A o \in Node \ {n} : SentBy(o)' = SentBy(o)
  BY <1>3, <1>4 DEF SentBy
<1>7. m \notin SentBy(n)
  <2> SUFFICES ASSUME NEW s \in MessagesOf(n), m = Message(n, s) PROVE FALSE
    BY DEF SentBy
  <2> QED BY <1>1 DEF Message
<1>8. sent = [o \in Node |-> SentBy(o)] /\ sent' = [o \in Node |-> SentBy(o)']
  BY DEF SentBy
<1> HIDE DEF sent
<1>9. sent' = [sent EXCEPT ![n] = sent[n] \cup {m}]
  BY <1>5, <1>6, <1>8
<1>10. m \in sent'[n] \ sent[n]
  BY <1>5, <1>7, <1>8
<1>11. handed' = handed
  <2>1. \A a \in Node : \A d \in delivered[a] : d[1] \in Node /\ d[2] \in MessagesOf(d[1])
    <3>1. delivered \in [Node -> SUBSET (Node \X Int)] /\ DeliveredOK
      BY DEF WInv, IInv, TypeOK
    <3> QED BY <3>1 DEF DeliveredOK
  <2>2. \A a \in Node : \A d \in delivered[a] : Message(d[1], d[2])' = Message(d[1], d[2])
    BY <1>4, <2>1
  <2>3. ASSUME NEW a \in Node PROVE HandedAt(a)' = HandedAt(a)
    BY <1>2, <2>2 DEF HandedAt
  <2> QED BY <2>3 DEF HandedAt
<1>12. m[2] = seq
  OBVIOUS
<1> HIDE DEF m, handed
<1>13. \E x \in sent'[n] \ sent[n] :
         /\ x[2] >= local_seq_last[n]
         /\ local_seq_last' = [local_seq_last EXCEPT ![n] = x[2]]
         /\ sent' = [sent EXCEPT ![n] = sent[n] \cup {x}]
         /\ UNCHANGED <<last_seq_reference, handed,
                        [a \in Node |-> {o \in Node : chain[a][o] <= SERIAL_START}]>>
  <2>1. UNCHANGED <<last_seq_reference, handed,
                    [a \in Node |-> {o \in Node : chain[a][o] <= SERIAL_START}]>>
    BY <1>2, <1>11
  <2> QED BY <1>2, <1>9, <1>10, <1>12, <2>1
<1> QED BY <1>13 DEF Abstract!WriteMessage, sent, handed

\* Reading without handing over may lose track of writers.
LEMMA TrackRefines ==
  ASSUME WInv, NEW n \in Node,
         chain' = [chain EXCEPT ![n] = ChainAfter(n, stacks[n])],
         UNCHANGED <<local_seq_last, last_seq_reference, written, delivered>>
  PROVE  Abstract!LoseTrack(n)
<1> DEFINE followed == [a \in Node |-> {o \in Node : chain[a][o] <= SERIAL_START}]
<1>1. FollowedAt(n)' \subseteq FollowedAt(n)
      /\ \A a \in Node : a # n => FollowedAt(a)' = FollowedAt(a)
  BY FollowedLess DEF FollowedAt
<1>2. followed = [a \in Node |-> FollowedAt(a)] /\ followed' = [a \in Node |-> FollowedAt(a)']
  BY DEF FollowedAt
<1>3. /\ followed'[n] \subseteq followed[n]
      /\ followed' = [followed EXCEPT ![n] = followed'[n]]
  <2> HIDE DEF followed
  <2> QED BY <1>1, <1>2
<1>4. UNCHANGED <<local_seq_last, [o \in Node |-> {Message(o, s) : s \in MessagesOf(o)}],
                  last_seq_reference,
                  [a \in Node |-> {<<d[1], Message(d[1], d[2])>> : d \in delivered[a]}]>>
  BY DEF Message, MessagesOf
<1> QED BY <1>3, <1>4 DEF Abstract!LoseTrack

\* Handing over is the abstract handing over.
LEMMA HandOverRefines ==
  ASSUME WInv, NEW n \in Node, GetReferenceMsgs(n)
  PROVE  Abstract!HandOver(n)
<1> DEFINE lo == last_seq_reference[n]
           hi == last_seq_reference'[n]
           sent     == [o \in Node |-> {Message(o, s) : s \in MessagesOf(o)}]
           handed   == [a \in Node |-> {<<d[1], Message(d[1], d[2])>> : d \in delivered[a]}]
           followed == [a \in Node |-> {o \in Node : chain[a][o] <= SERIAL_START}]
           Due(o) == {<<o, m>> : m \in {x \in sent[o] : lo < x[2] /\ x[2] <= hi}}
<1>1. IInv /\ TypeOK /\ DeliveredOK
  BY DEF WInv, IInv
<1>2. /\ \A a \in Node : a # n => /\ delivered'[a] = delivered[a]
                                  /\ last_seq_reference'[a] = last_seq_reference[a]
      /\ delivered[n] \subseteq delivered'[n]
      /\ lo < hi /\ lo \in Int /\ hi \in Int
      /\ \A o \in Node : hi < local_seq_last[o]
      /\ UNCHANGED <<local_seq_last, written>>
  BY <1>1, GetReferenceMsgsDoes
<1>3. chain' = [chain EXCEPT ![n] = ChainAfter(n, stacks[n])]
  BY DEF GetReferenceMsgs, HandOver
<1>4. last_seq_reference' = [last_seq_reference EXCEPT ![n] = hi]
  <2>1. last_seq_reference \in [Node -> Int] /\ last_seq_reference' \in [Node -> Int]
    BY <1>1, GetReferenceMsgsStep DEF IInv, TypeOK
  <2> QED BY <1>2, <2>1
<1>5. /\ \A a \in Node : a # n => FollowedAt(a)' = FollowedAt(a)
      /\ FollowedAt(n)' \subseteq FollowedAt(n)
      /\ \A o \in FollowedAt(n)' : o \in Node /\ ChainAfter(n, stacks[n])[o] <= SERIAL_START
  <2>1. \A o \in Node : chain'[n][o] = ChainAfter(n, stacks[n])[o]
    BY <1>3, FollowedLess
  <2> QED BY <1>3, <2>1, FollowedLess DEF FollowedAt
<1>6. followed'[n] \subseteq followed[n] /\ followed' = [followed EXCEPT ![n] = followed'[n]]
  <2>1. followed = [a \in Node |-> FollowedAt(a)] /\ followed' = [a \in Node |-> FollowedAt(a)']
    BY DEF FollowedAt
  <2> HIDE DEF followed
  <2> QED BY <1>5, <2>1
<1>7. handed = [a \in Node |-> HandedAt(a)] /\ handed' = [a \in Node |-> HandedAt(a)']
  BY DEF HandedAt
<1>8. \A d \in delivered'[n] : d[1] \in Node
  <2>1. delivered' \in [Node -> SUBSET (Node \X Int)]
    BY <1>1, GetReferenceMsgsStep DEF IInv, TypeOK
  <2> QED BY <2>1
<1>9. /\ HandedAt(n) \subseteq HandedAt(n)'
       /\ \A a \in Node : a # n => HandedAt(a)' = HandedAt(a)
  BY <1>2 DEF HandedAt, Message
<1>10. handed' = [handed EXCEPT ![n] = handed[n] \cup handed'[n]]
  <2> HIDE DEF handed
  <2> QED BY <1>7, <1>9
<1>11. \A o \in Node : \A s \in MessagesOf(o) : written[o][s].seq \in Int
  BY <1>1, WrittenType DEF Atom, MessagesOf
<1>12. ASSUME NEW o \in followed'[n], NEW x \in Due(o)
       PROVE  x \in handed'[n] \ handed[n]
  <2>1. o \in Node /\ ChainAfter(n, stacks[n])[o] <= SERIAL_START
    BY <1>5, <1>12 DEF FollowedAt
  <2>2. PICK s \in MessagesOf(o) : x = <<o, Message(o, s)>> /\ lo < Message(o, s)[2]
                                   /\ Message(o, s)[2] <= hi
    BY <2>1
  <2>3. lo < written[o][s].seq /\ written[o][s].seq <= hi
    BY <2>2 DEF Message
  <2>4. <<o, s>> \in delivered'[n]
    BY <2>1, <2>3, HandedOver
  <2>5. x \in HandedAt(n)'
    <3>1. x = <<o, Message(o, s)'>>
      BY <1>2, <2>2 DEF Message
    <3> QED BY <2>4, <3>1 DEF HandedAt
  <2>6. ASSUME x \in HandedAt(n) PROVE FALSE
    <3>1. PICK d \in delivered[n] : x = <<d[1], Message(d[1], d[2])>>
      BY <2>6 DEF HandedAt
    <3>2. d[1] = o /\ Message(d[1], d[2]) = Message(o, s)
      BY <2>2, <3>1
    <3>3. written[d[1]][d[2]].seq = written[o][s].seq
      BY <3>2 DEF Message
    <3>4. written[d[1]][d[2]].seq <= lo
      BY <1>1 DEF DeliveredOK
    <3> QED BY <1>2, <1>11, <2>1, <2>3, <3>3, <3>4
  <2> QED BY <1>7, <2>5, <2>6
<1>13. ASSUME NEW x \in handed'[n] \ handed[n]
       PROVE  \E o \in Node : x \in Due(o)
  <2>1. x \in HandedAt(n)' /\ x \notin HandedAt(n)
    BY <1>7, <1>13
  <2>2. PICK d \in delivered'[n] : x = <<d[1], Message(d[1], d[2])'>>
    BY <2>1 DEF HandedAt
  <2>3. d[1] \in Node
    BY <1>8
  <2>4. x = <<d[1], Message(d[1], d[2])>>
    BY <1>2, <2>2 DEF Message
  <2>5. d \notin delivered[n]
    BY <2>1, <2>4 DEF HandedAt
  <2>6. d[2] \in MessagesOf(d[1]) /\ lo < written[d[1]][d[2]].seq /\ written[d[1]][d[2]].seq <= hi
    BY <2>5, HandedOver
  <2>7. lo < Message(d[1], d[2])[2] /\ Message(d[1], d[2])[2] <= hi
    BY <2>6 DEF Message
  <2>8. Message(d[1], d[2]) \in sent[d[1]]
    BY <2>3, <2>6
  <2>9. x \in Due(d[1])
    <3> HIDE DEF sent, lo, hi
    <3> QED BY <2>4, <2>7, <2>8
  <2> QED BY <2>3, <2>9
<1>14. sent' = sent
  BY <1>2 DEF Message, MessagesOf
<1> DEFINE Among(S) == UNION {Due(o) : o \in S}
<1>15. Among(followed'[n]) \subseteq handed'[n] \ handed[n]
  <2> HIDE DEF handed, followed, Due
  <2> QED BY <1>12
<1>16. handed'[n] \ handed[n] \subseteq Among(Node)
  <2> HIDE DEF handed, followed, Due
  <2> QED BY <1>13
<1> QED BY <1>2, <1>4, <1>6, <1>10, <1>14, <1>15, <1>16 DEF Abstract!HandOver, Abstract!Between

\* Every step of the warehouses is a step of Lockstep, or none.
LEMMA NextRefines ==
  WInv /\ [Next]_vars => [Abstract!LockstepNext]_(Abstract!lockstep)
<1> SUFFICES ASSUME WInv, [Next]_vars
             PROVE  Abstract!LockstepNext \/ UNCHANGED Abstract!lockstep
  OBVIOUS
<1> DEFINE quiet == UNCHANGED <<local_seq_last, written, last_seq_reference, delivered, chain>>
<1>1. CASE Network
  <2>1. quiet
    BY <1>1 DEF Network, RecvAtom, RecvMiss, Lose
  <2> QED BY <2>1, QuietRefines
<1>2. ASSUME NEW n \in Node, Write(n) PROVE Abstract!LockstepNext
  <2>1. Seq0 \in Nat /\ MaxSeq \in Nat
    BY ConfigAssumption
  <2> PICK seq \in Seq0 .. MaxSeq, order_n \in 1 .. MaxOrder : PutLocalMsg(n, seq, order_n)
    BY <1>2 DEF Write
  <2>2. Abstract!WriteMessage(n)
    BY <2>1, WriteRefines
  <2> QED BY <2>2 DEF Abstract!LockstepNext
<1>3. ASSUME NEW n \in Node, Send(n) \/ Ask(n) \/ Hear(n) \/ GetNothing(n)
      PROVE  UNCHANGED Abstract!lockstep
  <2>1. CASE Send(n)
    BY <2>1, QuietRefines DEF Send, SendAtoms
  <2>2. CASE Ask(n)
    BY <2>2, QuietRefines DEF Ask, PollMiss
  <2>3. CASE Hear(n)
    BY <2>3, QuietRefines DEF Hear, HearSerial
  <2>4. CASE GetNothing(n)
    BY <2>4, QuietRefines DEF GetNothing
  <2> QED BY <1>3, <2>1, <2>2, <2>3, <2>4
<1>4. ASSUME NEW n \in Node, NoReferenceMsgs(n) \/ GetDraftMsgs(n)
      PROVE  Abstract!LockstepNext
  <2>1. chain' = [chain EXCEPT ![n] = ChainAfter(n, stacks[n])]
    BY <1>4 DEF NoReferenceMsgs, NothingNew, GetDraftMsgs
  <2>2. UNCHANGED <<local_seq_last, last_seq_reference, written, delivered>>
    BY <1>4 DEF NoReferenceMsgs, NothingNew, GetDraftMsgs
  <2>3. Abstract!LoseTrack(n)
    BY <2>1, <2>2, TrackRefines
  <2> QED BY <2>3 DEF Abstract!LockstepNext
<1>5. ASSUME NEW n \in Node, GetReferenceMsgs(n) PROVE Abstract!LockstepNext
  <2>1. Abstract!HandOver(n)
    BY <1>5, HandOverRefines
  <2> QED BY <2>1 DEF Abstract!LockstepNext
<1>6. CASE UNCHANGED vars
  <2>1. quiet
    BY <1>6 DEF vars
  <2> QED BY <2>1, QuietRefines
<1> QED BY <1>1, <1>2, <1>3, <1>4, <1>5, <1>6 DEF Next, Read

\* Seen from the rounds, the warehouses and the network are Lockstep: a round
\* is handed over when it is over for everybody, once, with all the messages of
\* the writers followed from their first atom on, and no others
\* (lw6p2p_node_get_next_reference_msg).
THEOREM LockstepImplemented == ASSUME OneWindow PROVE Spec => ImplementsLockstep
<1>1. Init => Abstract!LockstepInit
  BY InitWindow, InitRefines
<1>2. WInv /\ [Next]_vars => [Abstract!LockstepNext]_(Abstract!lockstep)
  BY NextRefines
<1> QED BY <1>1, <1>2, WindowInvariance, PTL DEF Spec, ImplementsLockstep, Abstract!LockstepSpec

----------------------------------------------------------------------------
(* Stacks whose window only ever moves back.                               *)

\* The window begins at a block, not after serial_0_real; nothing lies before
\* it, nor before serial_min, nor behind serial_max.
Steady(st) ==
  /\ \E k \in Nat : st.serial_0_base = SERIAL_START + k * NB_ATOMS_PER_BLOCK
  /\ st.serial_0_base <= st.serial_0_real
  /\ 1 <= st.serial_min
  /\ \A s \in Present(st) : st.serial_0_base <= s /\ st.serial_min <= s /\ s <= st.serial_max

\* new has the atoms of st, and looks for holes from as early a serial.
Grows(st, new) ==
  /\ Steady(new)
  /\ new.serial_reference = st.serial_reference
  /\ new.serial_0_real <= st.serial_0_real
  /\ \A s \in Present(st) : s \in Present(new) /\ AtomAt(new, s) = AtomAt(st, s)

\* Moving the window keeps the atoms, less those that fall before its base.
LEMMA MovedByDoes ==
  ASSUME NEW st, IsStack(st), NEW delta \in Int
  PROVE  LET moved == MovedBy(st, delta)
         IN  /\ moved.serial_0_base = st.serial_0_base + delta * NB_ATOMS_PER_BLOCK
             /\ moved.serial_0_real = st.serial_0_real + delta * NB_ATOMS_PER_BLOCK
             /\ moved.serial_reference = st.serial_reference
             /\ Present(moved) = Window(moved.serial_0_base) \cap Present(st)
<1> DEFINE base  == st.serial_0_base + delta * NB_ATOMS_PER_BLOCK
           real  == st.serial_0_real + delta * NB_ATOMS_PER_BLOCK
           cells == Restrict(st.atoms, Window(base) \cap DOMAIN st.atoms)
           new   == [st EXCEPT !.serial_0_base = base, !.serial_0_real = real, !.atoms = cells]
<1>1. MovedBy(st, delta) = new
  BY DEF MovedBy, IsStack
<1>2. DOMAIN cells = Window(base) \cap Present(st)
  BY DEF Restrict, Present
<1> HIDE DEF base, real, cells
<1>3. /\ new.atoms = cells /\ new.serial_0_base = base /\ new.serial_0_real = real
      /\ new.serial_reference = st.serial_reference
  BY DEF IsStack
<1> QED BY <1>1, <1>2, <1>3 DEF base, real, Present

\* An atom of the first window never moves the window up, and the window moves
\* down no further than serial 1: nothing falls out of it.
LEMMA ShiftedSteady ==
  ASSUME NEW st, NEW N \in Nat, Fits(st, N), Steady(st),
         Present(st) \subseteq 1 .. SerialN1(SERIAL_START),
         NEW serial \in 1 .. SerialN1(SERIAL_START)
  PROVE  /\ Grows(st, Shifted(st, serial)) /\ IsStack(Shifted(st, serial))
         /\ OnlyAtomsOf(st, Shifted(st, serial))
         /\ Shifted(st, serial).serial_min \in {st.serial_min, serial}
         /\ st.serial_0_base <= serial => Shifted(st, serial) = st
<1> DEFINE A == NB_ATOMS_PER_BLOCK
           M == MAX_NB_BLOCKS
           x == serial - st.serial_0_base
           d == x \div NB_ATOMS_PER_BLOCK
           up == BlockIndex(st, serial)
<1>1. /\ A \in Nat \ {0} /\ M \in Nat \ {0} /\ serial \in Int /\ SerialN1(SERIAL_START) = M * A
      /\ IsStack(st) /\ Present(st) \subseteq 1 .. M * A /\ M * A \in Int
  BY WindowAssumption, WindowFacts DEF Fits
<1>2. /\ st.serial_0_base \in Int /\ st.serial_0_real \in Int /\ st.serial_min \in Int
      /\ x \in Int
  BY <1>1, StackFields
<1>3. PICK k \in Nat : st.serial_0_base = 1 + k * A
  BY DEF Steady, SERIAL_START
<1>4. d \in Int /\ d * A <= x /\ x < d * A + A /\ d * A \in Int /\ k * A \in Int /\ 0 <= k * A
  <2>1. d \in Int /\ d * A <= x /\ x < d * A + A
    BY <1>2, BlockDivision
  <2>2. 0 * A <= k * A /\ k * A \in Int
    BY <1>1, BlocksGrow
  <2> HIDE DEF d
  <2> QED BY <1>1, <2>1, <2>2
<1>5. up = d
  BY DEF BlockIndex
<1> HIDE DEF d, x, up
<1>6. up + 1 - M <= 0
  <2>1. ASSUME M <= d PROVE FALSE
    <3>1. M * A <= d * A
      BY <1>1, <1>4, <2>1, BlocksGrow
    <3> HIDE DEF A, M
    <3>2. serial <= M * A
      BY <1>1
    <3> QED BY <1>1, <1>2, <1>3, <1>4, <3>1, <3>2 DEF x
  <2> QED BY <1>1, <1>4, <1>5, <2>1
<1>7. Shifted(st, serial) = IF up < 0 /\ up > -BLOCK_DELTA_MAX THEN ShiftedUp(st, serial, up)
                            ELSE st
  BY <1>1, <1>4, <1>5, <1>6, WindowAssumption DEF Shifted, up
<1>8. st.serial_0_base <= serial => 0 <= d
  <2>1. ASSUME st.serial_0_base <= serial, d <= -1 PROVE FALSE
    <3>1. d * A <= (-1) * A
      BY <1>4, <2>1, BlocksGrow
    <3>2. (-1) * A = -A
      BY <1>1
    <3> HIDE DEF A
    <3> QED BY <1>1, <1>2, <1>4, <2>1, <3>1, <3>2 DEF x
  <2> QED BY <1>4, <2>1
<1>9. IsStack(Shifted(st, serial)) /\ OnlyAtomsOf(st, Shifted(st, serial))
  BY <1>1, ShiftedKeeps
<1>10. Grows(st, st)
  BY <1>2 DEF Grows
<1>11. CASE ~(up < 0 /\ up > -BLOCK_DELTA_MAX)
  BY <1>7, <1>9, <1>10, <1>11
<1>12. CASE up < 0 /\ up > -BLOCK_DELTA_MAX
  <2> DEFINE moved == MovedBy(st, up)
             sh == Shifted(st, serial)
  <2>1. d < 0 /\ ~(st.serial_0_base <= serial) /\ up \in Int
    BY <1>4, <1>5, <1>8, <1>12
  <2>2. /\ moved.serial_0_base = st.serial_0_base + d * A
        /\ moved.serial_0_real = st.serial_0_real + d * A
        /\ moved.serial_reference = st.serial_reference
        /\ Present(moved) = Window(moved.serial_0_base) \cap Present(st)
        /\ IsStack(moved) /\ OnlyAtomsOf(st, moved)
    BY <1>1, <1>5, <2>1, MovedByDoes, MovedByKeeps
  <2>3. sh = [moved EXCEPT !.serial_min = serial,
                           !.serial_max = MaxOr(Present(moved), SERIAL_INVALID),
                           !.serial_min_to_send = [t \in Node |-> serial]]
    BY <1>7, <1>12 DEF ShiftedUp
  <2> HIDE DEF moved, sh
  <2>4. /\ sh.serial_min = serial /\ sh.serial_0_base = moved.serial_0_base
        /\ sh.serial_0_real = moved.serial_0_real /\ sh.atoms = moved.atoms
        /\ sh.serial_reference = moved.serial_reference
        /\ sh.serial_max = MaxOr(Present(moved), SERIAL_INVALID)
    BY <2>2, <2>3 DEF IsStack
  <2>5. moved.serial_0_base = 1 + (k + d) * A /\ k + d \in Int
        /\ (k + d) * A = k * A + d * A
    <3>1. (k + d) * A = k * A + d * A
      BY <1>1, <1>4
    <3> HIDE DEF A
    <3> QED BY <1>2, <1>3, <1>4, <2>2, <3>1
  <2>6. k + d \in Nat
    <3>1. ASSUME k + d <= -1 PROVE FALSE
      <4>1. (k + d) * A <= (-1) * A
        BY <2>5, <3>1, BlocksGrow
      <4>2. (-1) * A = -A
        BY <1>1
      <4> HIDE DEF A
      <4> QED BY <1>1, <1>2, <1>3, <1>4, <2>5, <4>1, <4>2 DEF x
    <3> QED BY <2>5, <3>1
  <2>7. 1 <= moved.serial_0_base /\ moved.serial_0_base <= serial
        /\ moved.serial_0_base \in Int
    <3>1. 0 * A <= (k + d) * A
      BY <2>6, BlocksGrow
    <3>2. 0 * A = 0 /\ (k + d) * A \in Int
      BY <1>1, <2>5
    <3> HIDE DEF A
    <3> QED BY <1>1, <1>2, <1>3, <1>4, <2>5, <3>1, <3>2 DEF x
  <2>8. Present(moved) = Present(st)
    <3>1. \A s \in Present(st) : /\ moved.serial_0_base <= s
                                 /\ s <= SerialN1(moved.serial_0_base)
      <4> SUFFICES ASSUME NEW s \in Present(st)
                   PROVE  moved.serial_0_base <= s /\ s <= SerialN1(moved.serial_0_base)
        OBVIOUS
      <4>1. s \in Int /\ s <= M * A /\ st.serial_0_base <= s
        <5> HIDE DEF M, A
        <5> QED BY <1>1 DEF Steady
      <4>2. SerialN1(moved.serial_0_base) = moved.serial_0_base + M * A - 1
        BY DEF SerialN1
      <4> HIDE DEF M, A
      <4> QED BY <1>1, <1>2, <2>1, <2>7, <4>1, <4>2
    <3>2. \A s \in Present(st) : s \in Window(moved.serial_0_base)
      <4>1. SerialN1(moved.serial_0_base) \in Int /\ Present(st) \subseteq Int
        BY <1>1, <2>7, SerialN1Type
      <4> QED BY <2>7, <3>1, <4>1 DEF Window
    <3> QED BY <2>2, <3>2
  <2>9. Present(sh) = Present(st)
        /\ \A s \in Present(st) : AtomAt(sh, s) = AtomAt(st, s)
    <3>1. Present(sh) = Present(st)
      BY <2>4, <2>8 DEF Present
    <3> QED BY <1>9, <3>1 DEF OnlyAtomsOf, sh
  <2>10. Steady(sh)
    <3>1. \E k_1 \in Nat : sh.serial_0_base = SERIAL_START + k_1 * NB_ATOMS_PER_BLOCK
      BY <2>4, <2>5, <2>6 DEF SERIAL_START
    <3>2. sh.serial_0_base <= sh.serial_0_real
      <4>1. st.serial_0_base <= st.serial_0_real
        BY DEF Steady
      <4> HIDE DEF A
      <4> QED BY <1>2, <1>4, <2>2, <2>4, <4>1
    <3>3. \A s \in Present(sh) : sh.serial_0_base <= s /\ sh.serial_min <= s /\ s <= sh.serial_max
      <4> SUFFICES ASSUME NEW s \in Present(st)
                   PROVE  sh.serial_0_base <= s /\ sh.serial_min <= s /\ s <= sh.serial_max
        BY <2>9
      <4>1. s \in Int /\ st.serial_0_base <= s
        BY <1>1 DEF Steady
      <4>2. sh.serial_max = Max(Present(st))
        BY <2>4, <2>8 DEF MaxOr
      <4>3. Present(st) \subseteq Int /\ \A y \in Present(st) : y <= M * A
        BY <1>1
      <4>4. Max(Present(st)) \in Int /\ s <= Max(Present(st))
        BY <1>1, <4>3, MaxIs
      <4> QED BY <1>1, <1>2, <2>1, <2>4, <2>7, <4>1, <4>2, <4>4
    <3> QED BY <2>4, <3>1, <3>2, <3>3 DEF Steady
  <2>11. sh.serial_0_real <= st.serial_0_real
    <3>1. d * A <= (-1) * A /\ (-1) * A = -A
      BY <1>1, <1>4, <2>1, BlocksGrow
    <3> HIDE DEF A
    <3> QED BY <1>1, <1>2, <1>4, <2>2, <2>4, <3>1
  <2>12. Grows(st, sh)
    BY <2>2, <2>4, <2>9, <2>10, <2>11 DEF Grows
  <2> QED BY <1>9, <2>1, <2>4, <2>12 DEF sh
<1> QED BY <1>11, <1>12

\* An atom is stored where it belongs.
LEMMA PutAtomSteady ==
  ASSUME NEW st, NEW N \in Nat, Fits(st, N), Steady(st),
         Present(st) \subseteq 1 .. SerialN1(SERIAL_START),
         NEW serial \in 1 .. SerialN1(SERIAL_START),
         NEW n \in Node, NEW atom \in Atom, NEW send_flag \in SUBSET Node
  PROVE  Grows(st, PutAtom(st, n, serial, atom, send_flag))
<1> DEFINE sh    == Shifted(st, serial)
           cells == Stored(sh, serial, atom, send_flag)
           min   == Min2(sh.serial_min, serial)
           max   == Max2(sh.serial_max, serial)
           new   == [sh EXCEPT !.atoms = cells, !.serial_min = min, !.serial_max = max]
<1>1. IsStack(st) /\ IsStack(sh) /\ Grows(st, sh)
  BY ShiftedSteady DEF Fits
<1>2. /\ PutAtom(st, n, serial, atom, send_flag) \in {st, sh, new}
      /\ PutAtom(st, n, serial, atom, send_flag) = new => serial \in Window(sh.serial_0_base) 
                                                            \/ new \in {st, sh}
  BY DEF PutAtom
<1> HIDE DEF sh
<1>3. /\ sh.serial_0_base \in Int /\ sh.serial_0_real \in Int /\ sh.serial_min \in Int
      /\ sh.atoms \in [Present(sh) -> Cell] /\ Present(sh) \subseteq Int
      /\ st.serial_0_real \in Int /\ sh.serial_max \in Int
  BY <1>1, StackFields
<1>4. Grows(st, st)
  BY <1>3 DEF Grows
<1>5. ASSUME serial \in Window(sh.serial_0_base)
      PROVE  Grows(st, new)
  <2>1. sh.serial_0_base <= serial /\ serial \in Int /\ 1 <= serial
    BY <1>3, <1>5 DEF Window
  <2>2. /\ DOMAIN cells = Present(sh) \cup {serial}
        /\ \A s \in Present(sh) : cells[s] = sh.atoms[s]
    BY <1>3 DEF Stored, Present
  <2> HIDE DEF cells
  <2>3. /\ new.atoms = cells /\ new.serial_min = min /\ new.serial_max = max
        /\ new.serial_0_base = sh.serial_0_base /\ new.serial_0_real = sh.serial_0_real
        /\ new.serial_reference = sh.serial_reference
    BY <1>1 DEF IsStack
  <2> HIDE DEF new
  <2>4. \A s \in Present(sh) : s \in Present(new) /\ AtomAt(new, s) = AtomAt(sh, s)
    BY <2>2, <2>3 DEF Present, AtomAt
  <2>5. Steady(new)
    <3>1. \A s \in Present(new) : new.serial_0_base <= s /\ new.serial_min <= s /\ s <= new.serial_max
      <4> SUFFICES ASSUME NEW s \in Present(sh) \cup {serial}
                   PROVE  new.serial_0_base <= s /\ new.serial_min <= s /\ s <= new.serial_max
        BY <2>2, <2>3 DEF Present
      <4>1. /\ s \in Int /\ sh.serial_0_base <= s
            /\ s = serial \/ (sh.serial_min <= s /\ s <= sh.serial_max)
        BY <1>1, <1>3, <2>1 DEF Grows, Steady
      <4> QED BY <1>3, <2>1, <2>3, <4>1 DEF Min2, Max2
    <3>2. 1 <= new.serial_min
      BY <1>1, <2>1, <2>3 DEF Grows, Steady, Min2
    <3> QED BY <1>1, <2>3, <3>1, <3>2 DEF Grows, Steady
  <2> QED BY <1>1, <2>3, <2>4, <2>5 DEF Grows
<1> QED BY <1>1, <1>2, <1>4, <1>5

\* A local message is put after what is there.
LEMMA PutMsgSteady ==
  ASSUME NEW st, NEW N \in Nat, Fits(st, N), Steady(st), Local(st),
         Present(st) \subseteq 1 .. st.serial_max, 0 <= st.serial_max,
         NEW n \in Node, NEW type, NEW seq \in Int,
         NEW order_n \in Nat \ {0}, st.serial_max + order_n <= SerialN1(SERIAL_START),
         NEW send_flag
  PROVE  Grows(st, PutMsg(st, n, type, seq, order_n, send_flag))
<1> DEFINE first == st.serial_max + 1
           last  == st.serial_max + order_n
           fresh == (first .. last) \cap Window(st.serial_0_base)
           Put(s) == [atom |-> [type |-> type, seq |-> seq,
                                order_i |-> s - first, order_n |-> order_n],
                      send_flag |-> send_flag, sent_status |-> {},
                      update_msg_called |-> FALSE]
           cells == [s \in DOMAIN st.atoms \cup fresh |->
                       IF s \in fresh THEN Put(s) ELSE st.atoms[s]]
           min   == Min2(st.serial_min, Min(fresh))
           new   == [st EXCEPT !.atoms = cells, !.serial_min = min, !.serial_max = last]
<1>1. /\ IsStack(st)
      /\ st.serial_0_base \in Int /\ st.serial_0_real \in Int
      /\ st.serial_max \in Int /\ st.serial_min \in Int
      /\ st.atoms \in [Present(st) -> Cell] /\ Present(st) \subseteq Int
      /\ SerialN1(SERIAL_START) \in Int
  BY StackFields, WindowFacts DEF Fits
<1>2. first \in Int /\ last \in Int /\ 1 <= first /\ first <= last
      /\ last <= SerialN1(SERIAL_START) /\ st.serial_0_base <= first
  BY <1>1 DEF Local
<1>3. Shifted(st, last) = st
  <2> DEFINE K == SerialN1(SERIAL_START)
  <2>1. K \in Int /\ last \in 1 .. K /\ st.serial_0_base <= last /\ st.serial_max <= K
    BY <1>1, <1>2
  <2>2. Present(st) \subseteq 1 .. K
    BY <1>1, <2>1
  <2> HIDE DEF last
  <2> QED BY <2>1, <2>2, ShiftedSteady
<1>4. last \in Window(st.serial_0_base) /\ fresh = first .. last
  <2>1. SerialN1(SERIAL_START) <= SerialN1(st.serial_0_base)
    <3>1. PICK k \in Nat : st.serial_0_base = SERIAL_START + k * NB_ATOMS_PER_BLOCK
      BY DEF Steady
    <3>2. 0 * NB_ATOMS_PER_BLOCK <= k * NB_ATOMS_PER_BLOCK /\ 0 * NB_ATOMS_PER_BLOCK = 0
          /\ k * NB_ATOMS_PER_BLOCK \in Int
      BY BlocksGrow, WindowAssumption
    <3>3. SERIAL_START <= st.serial_0_base
      BY <1>1, <3>1, <3>2 DEF SERIAL_START
    <3>4. MAX_NB_BLOCKS * NB_ATOMS_PER_BLOCK \in Int
      BY WindowAssumption
    <3> QED BY <1>1, <3>3, <3>4 DEF SerialN1, SERIAL_START
  <2>2. SerialN1(st.serial_0_base) \in Int
    BY <1>1, SerialN1Type
  <2> QED BY <1>1, <1>2, <2>1, <2>2 DEF Window
<1>5. PutMsg(st, n, type, seq, order_n, send_flag) \in {st, new}
  <2>1. CASE seq < st.seq_0s[n]
    BY <2>1 DEF PutMsg
  <2>2. CASE ~(seq < st.seq_0s[n])
    <3>1. PutMsg(st, n, type, seq, order_n, send_flag) =
            [st EXCEPT !.atoms = cells, !.serial_min = Min2(@, Min(fresh)), !.serial_max = last]
      BY <1>1, <1>3, <1>4, <2>2 DEF PutMsg, IsStack
    <3> QED BY <1>1, <3>1 DEF IsStack
  <2> QED BY <2>1, <2>2
<1>6. Min(fresh) = first
  <2>1. fresh \subseteq Int /\ (\A y \in fresh : first <= y) /\ fresh # {} /\ first \in fresh
    BY <1>2, <1>4
  <2> HIDE DEF fresh, first
  <2>2. Min(fresh) \in fresh /\ \A y \in fresh : Min(fresh) <= y
    BY <1>2, <2>1, MinIs
  <2>3. Min(fresh) \in Int /\ first <= Min(fresh) /\ Min(fresh) <= first
    BY <2>1, <2>2
  <2> QED BY <1>2, <2>3
<1>7. /\ DOMAIN cells = Present(st) \cup first .. last
      /\ \A s \in Present(st) : s \notin first .. last => cells[s] = st.atoms[s]
  BY <1>1, <1>4 DEF Present
<1> HIDE DEF cells, fresh
<1>8. /\ new.atoms = cells /\ new.serial_min = min /\ new.serial_max = last
      /\ new.serial_0_base = st.serial_0_base /\ new.serial_0_real = st.serial_0_real
      /\ new.serial_reference = st.serial_reference
  BY <1>1 DEF IsStack
<1> HIDE DEF new
<1>9. \A s \in Present(st) : s \in Int /\ s \notin first .. last
  BY <1>1
<1>10. \A s \in Present(st) : s \in Present(new) /\ AtomAt(new, s) = AtomAt(st, s)
  BY <1>7, <1>8, <1>9 DEF Present, AtomAt
<1>11. Steady(new)
  <2>1. 1 <= min /\ min <= first /\ min <= st.serial_min /\ min \in Int
    BY <1>1, <1>2, <1>6 DEF Steady, Min2
  <2>2. \A s \in Present(new) : new.serial_0_base <= s /\ new.serial_min <= s /\ s <= new.serial_max
    <3> SUFFICES ASSUME NEW s \in Present(st) \cup first .. last
                 PROVE  new.serial_0_base <= s /\ new.serial_min <= s /\ s <= new.serial_max
      BY <1>7, <1>8 DEF Present
    <3>1. CASE s \in Present(st)
      BY <1>1, <1>8, <2>1, <3>1 DEF Steady
    <3>2. CASE s \in first .. last
      <4> HIDE DEF min
      <4> QED BY <1>1, <1>2, <1>8, <2>1, <3>2
    <3> QED BY <3>1, <3>2
  <2> QED BY <1>8, <2>1, <2>2 DEF Steady
<1>12. Grows(st, new) /\ Grows(st, st)
  BY <1>1, <1>8, <1>10, <1>11 DEF Grows
<1> QED BY <1>5, <1>12

\* A stack with the same atoms and the same bounds is as steady.
LEMMA SteadyOn ==
  ASSUME NEW st, NEW new, Steady(st), SameAtoms(st, new),
         new.serial_min = st.serial_min, new.serial_0_real = st.serial_0_real
  PROVE  Steady(new)
BY DEF Steady, SameAtoms

----------------------------------------------------------------------------
(* How far a stack is followed, wherever it begins.                        *)

\* The reference of a stack is a whole message, and all that lies from the serial
\* it is followed from up to it is there.
FollowedOK(st, from) ==
  /\ from \in Nat /\ (from = 0 <=> st.serial_reference = 0)
  /\ from # 0 => /\ CompleteAt(st, st.serial_reference)
                 /\ from .. LastOf(st, st.serial_reference) \subseteq Present(st)

\* More atoms do no harm to what is followed.
LEMMA FollowedGrows ==
  ASSUME NEW st, NEW new, new.serial_reference = st.serial_reference,
         \A s \in Present(st) : s \in Present(new) /\ AtomAt(new, s) = AtomAt(st, s),
         NEW from, FollowedOK(st, from)
  PROVE  FollowedOK(new, from)
<1> DEFINE ref == st.serial_reference
<1>1. from # 0 => CompleteAt(st, ref) /\ ref \in Present(st)
  BY DEF FollowedOK, CompleteAt
<1>2. CompleteAt(st, ref) => CompleteAt(new, ref)
  BY DEF CompleteAt
<1>3. from # 0 => LastOf(new, ref) = LastOf(st, ref)
  BY <1>1 DEF LastOf
<1>4. from # 0 => from .. LastOf(new, ref) \subseteq Present(new)
  BY <1>3 DEF FollowedOK
<1> QED BY <1>1, <1>2, <1>4 DEF FollowedOK

\* A stack that has no reference is followed from nowhere.
LEMMA FollowedNot ==
  ASSUME NEW st, st.serial_reference = 0
  PROVE  FollowedOK(st, 0)
BY DEF FollowedOK

\* The calculation goes on from where it was, or begins at serial_min.
LEMMA CalcFollows ==
  ASSUME NEW st, NEW N \in Nat, Fits(st, N), Steady(st), NEW from, FollowedOK(st, from)
  PROVE  /\ FollowedOK(Calc(st), FollowedFrom(st, from))
         /\ from # 0 => FollowedFrom(st, from) = from
<1> DEFINE new  == Calc(st)
           ref  == st.serial_reference
           min  == st.serial_min
           good == NoHoleHeads(st)
           last == MaxOr(good, ref)
           to   == FollowedFrom(st, from)
<1>1. /\ IsStack(st) /\ Present(st) \subseteq 1 .. N
      /\ ref \in Int /\ min \in Int /\ 1 <= min
  BY StackFields DEF Fits, Steady
<1>2. /\ new.serial_reference = last /\ SameAtoms(st, new) /\ IsStack(new)
  BY <1>1, CalcBounds, CalcKeeps
<1> HIDE DEF new
<1>3. /\ Present(new) = Present(st)
      /\ \A h : CompleteAt(new, h) <=> CompleteAt(st, h)
      /\ \A h \in Present(st) : LastOf(new, h) = LastOf(st, h)
  BY <1>1, <1>2, CompleteKept DEF SameAtoms
<1>4. /\ from \in Nat /\ (from = 0 <=> ref = 0)
      /\ from # 0 => CompleteAt(st, ref) /\ from .. LastOf(st, ref) \subseteq Present(st)
  BY DEF FollowedOK
<1>5. from # 0 => ref \in Present(st) /\ min <= ref
  BY <1>4 DEF CompleteAt, Steady
<1>6. from # 0 => to = from
  BY <1>1, <1>5 DEF FollowedFrom
<1>7. CASE good = {}
  <2>1. last = ref /\ to = from
    BY <1>7 DEF MaxOr, FollowedFrom
  <2>2. from # 0 => CompleteAt(new, ref) /\ from .. LastOf(new, ref) \subseteq Present(new)
    BY <1>3, <1>4, <1>5
  <2> QED BY <1>2, <1>4, <1>6, <2>1, <2>2 DEF FollowedOK, new
<1>8. CASE good # {}
  <2>1. good \subseteq Present(st) /\ \A h \in good : CompleteAt(st, h)
    BY DEF NoHoleHeads, CompleteHeads
  <2>2. last \in good
    <3>1. good \subseteq Int /\ \A y \in good : y <= N
      BY <1>1, <2>1
    <3>2. Max(good) \in good
      BY <1>8, <3>1, MaxIs
    <3> QED BY <1>8, <3>2 DEF MaxOr
  <2> HIDE DEF last
  <2>3. last \in 1 .. N /\ last \in Present(st) /\ CompleteAt(st, last)
    BY <1>1, <2>1, <2>2
  <2>4. CalcStart(st) .. last \subseteq Present(st)
    <3> SUFFICES ASSUME NEW s \in CalcStart(st) .. last PROVE s \in Present(st)
      OBVIOUS
    <3>1. PICK g \in CompleteHeads(st) : s \in g .. LastOf(st, g)
      BY <2>2 DEF NoHoleHeads
    <3>2. CompleteAt(st, g) /\ g \in Present(st)
      BY <3>1 DEF CompleteHeads
    <3> QED BY <1>1, <3>1, <3>2, Within
  <2>5. last .. LastOf(st, last) \subseteq Present(st)
    BY <1>1, <2>3, Within
  <2>6. LastOf(st, last) \in Int
    BY <1>1, <2>3, AtomFields DEF LastOf
  <2>7. to \in Nat /\ to # 0 /\ to .. last \subseteq Present(st)
    <3>1. CASE min > ref
      <4>1. to = min /\ CalcStart(st) = min
        BY <1>1, <1>8, <3>1 DEF FollowedFrom, CalcStart, Max2
      <4> QED BY <1>1, <2>4, <4>1
    <3>2. CASE min <= ref
      <4>1. to = from /\ CalcStart(st) = ref
        BY <1>1, <3>2 DEF FollowedFrom, CalcStart, Max2
      <4>2. from # 0
        BY <1>1, <1>4, <3>2
      <4>3. LastOf(st, ref) \in Int /\ LastOf(st, ref) >= ref - 1
        BY <1>1, <1>5, <4>2, AtomFields DEF LastOf
      <4>4. ASSUME NEW s \in from .. last PROVE s \in Present(st)
        <5>1. CASE s < ref
          BY <1>1, <1>4, <2>3, <4>2, <4>3, <4>4, <5>1
        <5>2. CASE s >= ref
          BY <1>1, <1>4, <2>3, <2>4, <4>1, <4>4, <5>2
        <5> QED BY <1>1, <1>4, <2>3, <4>4, <5>1, <5>2
      <4> QED BY <1>4, <4>1, <4>2, <4>4
    <3> QED BY <1>1, <3>1, <3>2
  <2> HIDE DEF to
  <2>8. FollowedOK(new, to)
    <3>1. LastOf(new, last) = LastOf(st, last) /\ CompleteAt(new, last) /\ last # 0
      BY <1>3, <2>3
    <3>2. ASSUME NEW s \in to .. LastOf(st, last) PROVE s \in Present(st)
      <4>1. s \in to .. last \/ s \in last .. LastOf(st, last)
        BY <2>3, <2>6, <2>7
      <4> QED BY <2>5, <2>7, <4>1
    <3> QED BY <1>2, <1>3, <2>7, <3>1, <3>2 DEF FollowedOK
  <2> QED BY <1>6, <2>8 DEF to, new
<1> QED BY <1>7, <1>8

\* Bookkeeping.
LEMMA FollowedKept ==
  ASSUME NEW st, NEW new, SameAtoms(st, new), SameBounds(st, new),
         NEW from, FollowedOK(st, from)
  PROVE  FollowedOK(new, from)
<1>1. /\ new.serial_reference = st.serial_reference
      /\ \A s \in Present(st) : s \in Present(new) /\ AtomAt(new, s) = AtomAt(st, s)
  BY DEF SameAtoms, SameBounds
<1> QED BY <1>1, FollowedGrows

----------------------------------------------------------------------------
(* What is read of a stack that begins later than its writer.              *)

\* What is written is for some round.
LEMMA SeqIsInt ==
  ASSUME NEW atoms \in Seq(Atom), NEW s \in 1 .. Len(atoms)
  PROVE  atoms[s].seq \in Int
<1>1. atoms[s] \in Atom
  OBVIOUS
<1> QED BY <1>1 DEF Atom
\* A round that is over at a writer: all of it is read, when what the writer wrote for
\* it lies where holes are looked for, from where the stack is followed.
LEMMA RoundGiven ==
  ASSUME NEW w \in Seq(Atom), Orderly(w), NEW st, IsStack(st), Holds(st, w), Steady(st),
         NEW ref \in Present(st), st.serial_0_real <= ref,
         st.serial_0_real .. ref \subseteq Present(st),
         NEW q \in Nat, q < w[ref].seq,
         \A t \in 1 .. Len(w) : w[t].seq = q => st.serial_0_real <= t,
         NEW s \in 1 .. Len(w), w[s].order_i = 0, w[s].seq = q
  PROVE  s \in Given(st, q, TRUE)
<1> DEFINE having == Having(st, q)
           from   == Seq2Serial(st, q)
           heads  == {h \in Heads(st, q) : h >= st.serial_min}
           After(h) == h + SizeFrom(st, q, h)
<1>1. /\ ref \in 1 .. Len(w) /\ Len(w) \in Nat /\ \A t \in 1 .. Len(w) : w[t].seq \in Int
      /\ \A t, u \in 1 .. Len(w) : t <= u => w[t].seq <= w[u].seq
      /\ st.serial_min \in Int /\ st.serial_max \in Int /\ st.serial_0_real \in Int
  <2>1. ref \in 1 .. Len(w) /\ Len(w) \in Nat
    BY DEF Holds
  <2>2. \A t \in 1 .. Len(w) : w[t].seq \in Int
    BY SeqIsInt
  <2>3. \A t, u \in 1 .. Len(w) : t <= u => w[t].seq <= w[u].seq
    BY DEF Orderly
  <2>4. st.serial_min \in Int /\ st.serial_max \in Int /\ st.serial_0_real \in Int
    BY StackFields
  <2> QED BY <2>1, <2>2, <2>3, <2>4
<1>2. ASSUME NEW t \in 1 .. Len(w), w[t].seq = q
      PROVE  t < ref /\ t \in Present(st) /\ AtomAt(st, t) = w[t]
  <2>1. t < ref
    BY <1>1, <1>2
  <2>2. t \in Present(st)
    BY <1>1, <1>2, <2>1
  <2> QED BY <2>1, <2>2 DEF Holds
<1>3. having = {t \in 1 .. Len(w) : w[t].seq = q}
  <2>1. \A t \in 1 .. Len(w) : w[t].seq = q => t \in Present(st) /\ AtomAt(st, t) = w[t]
    BY <1>2
  <2>2. \A t \in Present(st) : t \in 1 .. Len(w) /\ AtomAt(st, t) = w[t]
    BY DEF Holds
  <2> QED BY <2>1, <2>2 DEF Having
<1>4. /\ \A t \in Present(st) : st.serial_min <= t
      /\ ~(st.serial_max < st.serial_0_real)
  <2>1. \A t \in Present(st) : st.serial_min <= t /\ t <= st.serial_max
    BY DEF Steady
  <2>2. ref <= st.serial_max
    BY <2>1
  <2> QED BY <1>1, <2>1, <2>2
<1>5. ASSUME NEW h \in Heads(st, q)
      PROVE  /\ h \in 1 .. Len(w) /\ w[h].order_i = 0 /\ w[h].seq = q
             /\ HeadIn(w, h) = h /\ EndIn(w, h) \in h .. Len(w)
             /\ SizeFrom(st, q, h) \in Nat \ {0}
             /\ h + SizeFrom(st, q, h) - 1 = EndIn(w, h)
             /\ After(h) = EndIn(w, h) + 1 /\ h \in heads
             /\ h .. EndIn(w, h) \subseteq Present(st)
             /\ h \in Present(st) /\ EndIn(w, h) \in Present(st)
  <2>1. /\ h \in 1 .. Len(w) /\ w[h].order_i = 0 /\ w[h].seq = q
        /\ HeadIn(w, h) = h /\ EndIn(w, h) \in h .. Len(w)
        /\ SizeFrom(st, q, h) \in Nat \ {0}
        /\ h + SizeFrom(st, q, h) - 1 = EndIn(w, h)
    BY <1>5, HeadsAre
  <2>2. h \in Present(st)
    BY <1>2, <2>1
  <2>3. h >= st.serial_min
    BY <1>1, <1>4, <2>1, <2>2
  <2>4. After(h) = EndIn(w, h) + 1 /\ h \in heads
    BY <1>5, <2>1, <2>3
  <2>5. \A t \in h .. EndIn(w, h) : t \in Present(st)
    <3> TAKE t \in h .. EndIn(w, h)
    <3>1. w[t].seq = w[h].seq /\ t \in 1 .. Len(w)
      BY <2>1, MessageOf
    <3> QED BY <1>1, <1>2, <2>1, <3>1
  <2>6. h \in h .. EndIn(w, h) /\ EndIn(w, h) \in h .. EndIn(w, h)
    BY <2>1
  <2> QED BY <2>1, <2>4, <2>5, <2>6
<1>6. \A t \in having : HeadOf(st, t) \in Heads(st, q)
  BY DEF Heads
<1>7. from \in Heads(st, q)
  <2>1. having # {} /\ having \subseteq Int /\ 1 \in Int /\ Len(w) \in Int
        /\ (\A y \in having : 1 <= y) /\ (\A y \in having : y <= Len(w))
    BY <1>1, <1>3
  <2> HIDE DEF having
  <2>2. Min(having) \in having
    BY <2>1, MinIs, Zenon
  <2>3. Max(having) \in having
    BY <2>1, MaxIs, Zenon
  <2>4. from = HeadOf(st, IF ScanFromMin(st, q) THEN Min(having) ELSE Max(having))
    BY <1>4, <2>1 DEF Seq2Serial, having
  <2> QED BY <1>6, <2>2, <2>3, <2>4
<1>8. q # SEQ_INVALID /\ ~(q < SeqMin(st))
  <2>1. CASE st.serial_min \in Present(st) /\ st.serial_min >= st.serial_0_real
    <3>1. SeqMin(st) = w[st.serial_min].seq /\ st.serial_min \in 1 .. Len(w)
      BY <2>1 DEF SeqMin, SeqAt, Holds
    <3>2. s \in Present(st)
      BY <1>2
    <3>3. w[st.serial_min].seq <= w[s].seq
      BY <1>1, <1>4, <3>1, <3>2
    <3>4. w[st.serial_min].seq \in Int
      BY <1>1, <3>1
    <3> QED BY <3>1, <3>3, <3>4 DEF SEQ_INVALID
  <2>2. CASE ~(st.serial_min \in Present(st) /\ st.serial_min >= st.serial_0_real)
    BY <2>2 DEF SeqMin, SeqAt, SEQ_INVALID
  <2> QED BY <2>1, <2>2
<1>9. ASSUME NEW h \in heads, NEW b \in heads, h < b
      PROVE  After(h) \in heads
  <2> DEFINE e == EndIn(w, h)
  <2>1. /\ h \in 1 .. Len(w) /\ w[h].seq = q /\ HeadIn(w, h) = h /\ e \in h .. Len(w)
        /\ After(h) = e + 1
    BY <1>5
  <2>2. b \in 1 .. Len(w) /\ w[b].seq = q /\ HeadIn(w, b) = b
    BY <1>5
  <2>3. e < b
    <3>1. ASSUME b <= e PROVE FALSE
      <4>1. b \in HeadIn(w, h) .. EndIn(w, h)
        BY <1>9, <2>1, <2>2, <3>1
      <4>2. HeadIn(w, b) = HeadIn(w, h)
        BY <2>1, <4>1, MessageOf
      <4> QED BY <1>9, <2>1, <2>2, <4>2
    <3> QED BY <2>1, <2>2, <3>1
  <2>4. e + 1 \in 1 .. Len(w) /\ HeadIn(w, e + 1) = e + 1
    <3>1. EndIn(w, h) < Len(w)
      BY <1>1, <2>1, <2>2, <2>3
    <3> QED BY <2>1, <3>1, MessageAfter
  <2> HIDE DEF e
  <2>5. w[e + 1].seq = q
    <3>1. h <= e + 1 /\ e + 1 <= b
      BY <2>1, <2>2, <2>3
    <3>2. w[h].seq <= w[e + 1].seq
      BY <1>1, <2>1, <2>4, <3>1
    <3>3. w[e + 1].seq <= w[b].seq
      BY <1>1, <2>2, <2>4, <3>1
    <3>4. w[e + 1].seq \in Int
      BY <1>1, <2>4
    <3> QED BY <2>1, <2>2, <3>2, <3>3, <3>4
  <2>6. e + 1 \in having
    BY <1>3, <2>4, <2>5
  <2>7. HeadOf(st, e + 1) = e + 1
    <3>1. AtomAt(st, e + 1) = w[e + 1]
      BY <1>1, <1>2, <2>4, <2>5
    <3> QED BY <2>4, <3>1 DEF HeadOf, HeadIn
  <2>8. e + 1 \in Heads(st, q)
    BY <1>6, <2>6, <2>7
  <2> QED BY <1>5, <2>1, <2>8
<1>10. s \in Heads(st, q)
  <2>1. s \in having /\ AtomAt(st, s) = w[s]
    BY <1>1, <1>2, <1>3
  <2>2. HeadOf(st, s) = s
    BY <2>1 DEF HeadOf
  <2> QED BY <1>6, <2>1, <2>2
<1>11. s \in Visited(st, q)
  <2> DEFINE Linked(a, b) == \A h \in heads : a <= h /\ h < b => After(h) \in heads
             Upward(h)   == /\ from <= h /\ Linked(from, h)
                            /\ \A g \in heads : from < g /\ g <= h => g \in Present(st)
             Downward(h) == /\ h <= from /\ Linked(h, from)
                            /\ \A g \in heads : h <= g /\ g < from =>
                                  After(g) - 1 \in Present(st)
  <2>1. from \in heads \cap Present(st)
    BY <1>5, <1>7
  <2>2. s \in heads /\ s \in Int /\ from \in Int
    BY <1>5, <1>7, <1>10
  <2>3. Linked(from, s) /\ Linked(s, from)
    BY <1>9, <2>1, <2>2
  <2>4. \A g \in heads : g \in Present(st) /\ After(g) - 1 \in Present(st)
    <3> TAKE g \in heads
    <3>1. After(g) = EndIn(w, g) + 1 /\ EndIn(w, g) \in Present(st) /\ g \in Present(st)
          /\ EndIn(w, g) \in g .. Len(w)
      BY <1>5
    <3>2. After(g) - 1 = EndIn(w, g)
      BY <3>1
    <3> QED BY <3>1, <3>2
  <2> HIDE DEF heads, from, After
  <2>5. Upward(s) \/ Downward(s)
    BY <2>2, <2>3, <2>4
  <2> USE DEF heads, from, After
  <2>6. Visited(st, q) = {h \in heads : Upward(h) \/ Downward(h)}
    BY <1>8, <2>1, Zenon DEF Visited
  <2> HIDE DEF heads, Upward, Downward
  <2> QED BY <2>2, <2>5, <2>6
<1>12. SerialsOf(st, q, {s}) \subseteq Present(st)
  <2>1. /\ s + SizeFrom(st, q, s) - 1 = EndIn(w, s)
        /\ s .. EndIn(w, s) \subseteq Present(st)
    BY <1>5, <1>10, Zenon
  <2>2. SerialsOf(st, q, {s}) = s .. s + SizeFrom(st, q, s) - 1
    BY DEF SerialsOf
  <2> QED BY <2>1, <2>2
<1> QED BY <1>11, <1>12 DEF Given
=============================================================================
