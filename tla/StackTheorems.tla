--------------------------- MODULE StackTheorems ---------------------------
(***************************************************************************)
(* What the operations of one stack preserve: lemmas about the operators   *)
(* of Stack, with no variable, for every window and every set of nodes.    *)
(***************************************************************************)
EXTENDS Stack, WellFoundedInduction, TLAPS

----------------------------------------------------------------------------
(* Minimum and maximum of sets of integers.                                *)

\* A non-empty set of naturals has a least element.
LEMMA NatLeast ==
  ASSUME NEW S, S \subseteq Nat, S # {}
  PROVE  \E x \in S : \A y \in S : x <= y
<1>1. IsWellFoundedOn(OpToRel(<, Nat), Nat)
  BY NatLessThanWellFounded
<1>2. PICK x \in S : \A y \in S : ~(<<y, x>> \in OpToRel(<, Nat))
  BY <1>1, WFMin, Zenon
<1>3. ASSUME NEW y \in S PROVE x <= y
  <2>1. ~(<<y, x>> \in OpToRel(<, Nat))
    BY <1>2, <1>3
  <2>2. x \in Nat /\ y \in Nat
    OBVIOUS
  <2>3. ~(y < x)
    BY <2>1, <2>2, Zenon DEF OpToRel
  <2> QED BY <2>2, <2>3
<1> QED BY <1>3

\* Min(S) is the least element of a set of integers bounded from below.
LEMMA MinIs ==
  ASSUME NEW S, NEW a \in Int, S \subseteq Int, \A y \in S : a <= y, S # {}
  PROVE  Min(S) \in S /\ \A y \in S : Min(S) <= y
<1> DEFINE T == {x - a : x \in S}
<1>0. \A y \in S : y - a \in Nat
  <2> TAKE y \in S
  <2>1. y \in Int /\ a <= y
    OBVIOUS
  <2> QED BY <2>1
<1>1. T \subseteq Nat /\ T # {}
  BY <1>0
<1>2. PICK t \in T : \A u \in T : t <= u
  BY <1>1, NatLeast, Zenon
<1>3. PICK x \in S : t = x - a
  OBVIOUS
<1>4. \A y \in S : x <= y
  <2> TAKE y \in S
  <2>1. x - a <= y - a
    BY <1>2, <1>3
  <2> QED BY <2>1
<1> QED BY <1>4, Zenon DEF Min

\* Max(S) is the greatest element of a set of integers bounded from above.
LEMMA MaxIs ==
  ASSUME NEW S, NEW b \in Int, S \subseteq Int, \A y \in S : y <= b, S # {}
  PROVE  Max(S) \in S /\ \A y \in S : Max(S) >= y
<1> DEFINE T == {b - x : x \in S}
<1>0. \A y \in S : b - y \in Nat
  <2> TAKE y \in S
  <2>1. y \in Int /\ y <= b
    OBVIOUS
  <2> QED BY <2>1
<1>1. T \subseteq Nat /\ T # {}
  BY <1>0
<1>2. PICK t \in T : \A u \in T : t <= u
  BY <1>1, NatLeast, Zenon
<1>3. PICK x \in S : t = b - x
  OBVIOUS
<1>4. \A y \in S : x >= y
  <2> TAKE y \in S
  <2>1. b - x <= b - y
    BY <1>2, <1>3
  <2> QED BY <2>1
<1> QED BY <1>4, Zenon DEF Max

LEMMA MaxOrType ==
  ASSUME NEW S, NEW b \in Int, S \subseteq Int, \A y \in S : y <= b, NEW d \in Int
  PROVE  MaxOr(S, d) \in Int /\ (MaxOr(S, d) \in S \/ MaxOr(S, d) = d)
<1>1. CASE S = {}
  BY <1>1 DEF MaxOr
<1>2. CASE S # {}
  <2>1. Max(S) \in S
    BY <1>2, MaxIs
  <2> QED BY <1>2, <2>1 DEF MaxOr
<1> QED BY <1>1, <1>2

LEMMA MinOrType ==
  ASSUME NEW S, NEW a \in Int, S \subseteq Int, \A y \in S : a <= y, NEW d \in Int
  PROVE  MinOr(S, d) \in Int /\ (MinOr(S, d) \in S \/ MinOr(S, d) = d)
<1>1. CASE S = {}
  BY <1>1 DEF MinOr
<1>2. CASE S # {}
  <2>1. Min(S) \in S
    BY <1>2, MinIs
  <2> QED BY <1>2, <2>1 DEF MinOr
<1> QED BY <1>1, <1>2

LEMMA IntMaxType == INT_MAX \in Int
BY SMT DEF INT_MAX

LEMMA Min2Type == ASSUME NEW a \in Int, NEW b \in Int
                  PROVE  Min2(a, b) \in Int /\ Min2(a, b) <= a /\ Min2(a, b) <= b
BY DEF Min2

LEMMA Max2Type == ASSUME NEW a \in Int, NEW b \in Int
                  PROVE  Max2(a, b) \in Int /\ Max2(a, b) >= a /\ Max2(a, b) >= b
BY DEF Max2

----------------------------------------------------------------------------
(* Operations that leave the atoms as they are.                            *)

\* The atoms of a stack, and the messages they are of, end before N.
Fits(st, N) ==
  /\ IsStack(st)
  /\ Present(st) \subseteq 1 .. N
  /\ \A s \in Present(st) : AtomAt(st, s).order_n <= N

\* new holds the same atoms as st, in the same window.
SameAtoms(st, new) ==
  /\ Present(new) = Present(st)
  /\ \A s \in Present(st) : AtomAt(new, s) = AtomAt(st, s)
  /\ new.serial_0_base = st.serial_0_base
  /\ new.serial_max = st.serial_max
  /\ new.seq_0s = st.seq_0s

\* The types of the fields of a stack.
LEMMA StackFields ==
  ASSUME NEW st, IsStack(st)
  PROVE  /\ st.serial_0_base \in Int /\ st.serial_0_real \in Int
         /\ st.serial_min \in Int /\ st.serial_max \in Int
         /\ st.serial_draft \in Int /\ st.serial_reference \in Int
         /\ st.serial_miss_min \in Int /\ st.serial_miss_max \in Int
         /\ st.serial_min_to_send \in [Node -> Int] /\ st.seq_0s \in [Node -> Int]
         /\ Present(st) \subseteq Int
         /\ st.atoms \in [Present(st) -> Cell]
BY DEF IsStack, Present

\* What is in a cell.
LEMMA AtomFields ==
  ASSUME NEW st, IsStack(st), NEW s \in Present(st)
  PROVE  /\ AtomAt(st, s) \in Atom
         /\ AtomAt(st, s).seq \in Int
         /\ AtomAt(st, s).order_i \in Nat
         /\ AtomAt(st, s).order_n \in Nat
         /\ st.atoms[s].send_flag \subseteq Node
         /\ st.atoms[s].sent_status \subseteq Node
BY DEF IsStack, Present, AtomAt, Cell, Atom

\* The bookkeeping of a cell changes, its atom does not.
LEMMA CellUpdate ==
  ASSUME NEW c \in Cell, NEW t \in Node
  PROVE  /\ MarkSent(c, t) \in Cell /\ MarkSent(c, t).atom = c.atom
         /\ MarkUnsent(c, t) \in Cell /\ MarkUnsent(c, t).atom = c.atom
BY DEF Cell, MarkSent, MarkUnsent

LEMMA PoppedCell ==
  ASSUME NEW c \in Cell
  PROVE  /\ MarkPopped(c) \in Cell /\ MarkPopped(c).atom = c.atom
         /\ [c EXCEPT !.update_msg_called = FALSE] \in Cell
         /\ [c EXCEPT !.update_msg_called = FALSE].atom = c.atom
BY DEF Cell, MarkPopped

\* Bookkeeping in the cells leaves a stack with the same atoms.
LEMMA CellsKeep ==
  ASSUME NEW st, IsStack(st), NEW cells,
         DOMAIN cells = Present(st), cells = [s \in DOMAIN cells |-> cells[s]],
         \A s \in Present(st) : cells[s] \in Cell /\ cells[s].atom = AtomAt(st, s)
  PROVE  /\ IsStack([st EXCEPT !.atoms = cells])
         /\ SameAtoms(st, [st EXCEPT !.atoms = cells])
         /\ [st EXCEPT !.atoms = cells].atoms = cells
<1>1. [st EXCEPT !.atoms = cells].atoms = cells
  BY DEF IsStack
<1>2. IsStack([st EXCEPT !.atoms = cells])
  BY <1>1 DEF IsStack, Present
<1>3. SameAtoms(st, [st EXCEPT !.atoms = cells])
  BY <1>1 DEF IsStack, SameAtoms, Present, AtomAt
<1> QED BY <1>1, <1>2, <1>3

\* The draft and the reference are serials.
LEMMA CalcKeeps ==
  ASSUME NEW st, NEW N \in Nat, Fits(st, N)
  PROVE  IsStack(Calc(st)) /\ SameAtoms(st, Calc(st))
<1>1. IsStack(st) /\ CompleteHeads(st) \subseteq 1 .. N /\ NoHoleHeads(st) \subseteq 1 .. N
  BY DEF Fits, CompleteHeads, NoHoleHeads
<1>2. st.serial_draft \in Int /\ st.serial_reference \in Int
  BY <1>1, StackFields
<1>3. MaxOr(CompleteHeads(st), st.serial_draft) \in Int
  BY <1>1, <1>2, MaxOrType
<1>4. MaxOr(NoHoleHeads(st), st.serial_reference) \in Int
  BY <1>1, <1>2, MaxOrType
<1> QED BY <1>1, <1>3, <1>4 DEF Calc, IsStack, SameAtoms, Present, AtomAt

LEMMA ClearRecentKeeps ==
  ASSUME NEW st, IsStack(st), NEW seq
  PROVE  IsStack(ClearRecent(st, seq)) /\ SameAtoms(st, ClearRecent(st, seq))
<1>1. CASE seq >= SeqMin(st) /\ Seq2Serial(st, seq) \in Present(st)
  <2> DEFINE from  == Seq2Serial(st, seq)
             cells == [st.atoms EXCEPT ![from] = [@ EXCEPT !.update_msg_called = FALSE]]
  <2>1. ClearRecent(st, seq) = [st EXCEPT !.atoms = cells]
    BY <1>1 DEF ClearRecent
  <2>2. st.atoms \in [Present(st) -> Cell]
    BY StackFields
  <2>3. DOMAIN cells = Present(st) /\ cells = [s \in DOMAIN cells |-> cells[s]]
    BY <2>2
  <2>4. \A s \in Present(st) : cells[s] \in Cell /\ cells[s].atom = AtomAt(st, s)
    <3> TAKE s \in Present(st)
    <3>1. st.atoms[s] \in Cell
      BY <2>2
    <3>2. CASE s = from
      <4>1. cells[s] = [st.atoms[s] EXCEPT !.update_msg_called = FALSE]
        BY <2>2, <3>2
      <4> QED BY <3>1, <4>1, PoppedCell DEF AtomAt
    <3>3. CASE s # from
      BY <2>2, <3>1, <3>3 DEF AtomAt
    <3> QED BY <3>2, <3>3
  <2> HIDE DEF cells
  <2> QED BY <2>1, <2>3, <2>4, CellsKeep
<1>2. CASE ~(seq >= SeqMin(st) /\ Seq2Serial(st, seq) \in Present(st))
  BY <1>2 DEF ClearRecent, SameAtoms
<1> QED BY <1>1, <1>2

LEMMA SentKeeps ==
  ASSUME NEW st, NEW N \in Nat, Fits(st, N), NEW target \in Node
  PROVE  IsStack(Sent(st, target)) /\ SameAtoms(st, Sent(st, target))
<1> DEFINE before == {s \in ToSend(st, target) :
                        NotSentFrom(st, target) .. s \subseteq Present(st)}
           cells  == [s \in Present(st) |->
                        IF s \in ToSend(st, target) THEN MarkSent(st.atoms[s], target)
                                                    ELSE st.atoms[s]]
           mark   == MaxOr(before, st.serial_min_to_send[target])
           mid    == [st EXCEPT !.atoms = cells]
<1>1. IsStack(st) /\ before \subseteq 1 .. N
  BY DEF Fits, ToSend
<1>2. st.serial_min_to_send \in [Node -> Int] /\ st.atoms \in [Present(st) -> Cell]
  BY <1>1, StackFields
<1>3. mark \in Int
  BY <1>1, <1>2, MaxOrType
<1>4. \A s \in Present(st) : cells[s] \in Cell /\ cells[s].atom = AtomAt(st, s)
  BY <1>2, CellUpdate DEF AtomAt
<1>5. DOMAIN cells = Present(st) /\ cells = [s \in DOMAIN cells |-> cells[s]]
  OBVIOUS
<1>6. IsStack(mid) /\ SameAtoms(st, mid)
  <2> HIDE DEF cells
  <2> QED BY <1>1, <1>4, <1>5, CellsKeep
<1>7. Sent(st, target) = [mid EXCEPT !.serial_min_to_send[target] = mark]
  BY <1>1 DEF Sent, IsStack
<1> HIDE DEF mid, mark
<1>8. IsStack([mid EXCEPT !.serial_min_to_send[target] = mark])
  BY <1>3, <1>6 DEF IsStack
<1>9. SameAtoms(mid, [mid EXCEPT !.serial_min_to_send[target] = mark])
  BY <1>6 DEF SameAtoms, IsStack, Present, AtomAt
<1> QED BY <1>6, <1>7, <1>8, <1>9 DEF SameAtoms

LEMMA MissInvalidateKeeps ==
  ASSUME NEW st, IsStack(st), NEW target \in Node, NEW lo \in Int, NEW hi \in Int
  PROVE  /\ IsStack(MissInvalidate(st, target, lo, hi))
         /\ SameAtoms(st, MissInvalidate(st, target, lo, hi))
<1> DEFINE first == Max2(st.serial_min, lo)
           last  == Min2(st.serial_max, hi)
           cells == [s \in Present(st) |->
                       IF s \in first .. last THEN MarkUnsent(st.atoms[s], target)
                                              ELSE st.atoms[s]]
           mark  == Min2(st.serial_min_to_send[target], first)
           mid   == [st EXCEPT !.atoms = cells]
<1>1. CASE first > last
  BY <1>1 DEF MissInvalidate, SameAtoms
<1>2. CASE ~(first > last)
  <2>1. /\ st.serial_min_to_send \in [Node -> Int] /\ st.atoms \in [Present(st) -> Cell]
        /\ st.serial_min \in Int
    BY StackFields
  <2>2. mark \in Int
    BY <2>1, Max2Type, Min2Type
  <2>3. \A s \in Present(st) : cells[s] \in Cell /\ cells[s].atom = AtomAt(st, s)
    BY <2>1, CellUpdate DEF AtomAt
  <2>4. DOMAIN cells = Present(st) /\ cells = [s \in DOMAIN cells |-> cells[s]]
    OBVIOUS
  <2>5. IsStack(mid) /\ SameAtoms(st, mid)
    <3> HIDE DEF cells
    <3> QED BY <2>3, <2>4, CellsKeep
  <2>6. MissInvalidate(st, target, lo, hi) = [mid EXCEPT !.serial_min_to_send[target] = mark]
    BY <1>2 DEF MissInvalidate, IsStack
  <2> HIDE DEF mid, mark
  <2>7. IsStack([mid EXCEPT !.serial_min_to_send[target] = mark])
    BY <2>2, <2>5 DEF IsStack
  <2>8. SameAtoms(mid, [mid EXCEPT !.serial_min_to_send[target] = mark])
    BY <2>5 DEF SameAtoms, IsStack, Present, AtomAt
  <2> QED BY <2>5, <2>6, <2>7, <2>8 DEF SameAtoms
<1> QED BY <1>1, <1>2

\* Any two integers may bound the range to ask for.
LEMMA MissRangeKeeps ==
  ASSUME NEW st, IsStack(st), NEW lo \in Int, NEW hi \in Int
  PROVE  /\ IsStack([st EXCEPT !.serial_miss_min = lo, !.serial_miss_max = hi])
         /\ SameAtoms(st, [st EXCEPT !.serial_miss_min = lo, !.serial_miss_max = hi])
<1>1. IsStack([st EXCEPT !.serial_miss_min = lo, !.serial_miss_max = hi])
  BY DEF IsStack
<1>2. SameAtoms(st, [st EXCEPT !.serial_miss_min = lo, !.serial_miss_max = hi])
  BY DEF IsStack, SameAtoms, Present, AtomAt
<1> QED BY <1>1, <1>2

LEMMA UpdateSerialMissMaxKeeps ==
  ASSUME NEW st, IsStack(st), NEW serial \in Int
  PROVE  /\ IsStack(UpdateSerialMissMax(st, serial))
         /\ SameAtoms(st, UpdateSerialMissMax(st, serial))
<1>1. Max2(st.serial_miss_max, serial) \in Int
  BY StackFields, Max2Type
<1>2. IsStack(UpdateSerialMissMax(st, serial))
  BY <1>1 DEF UpdateSerialMissMax, IsStack
<1>3. SameAtoms(st, UpdateSerialMissMax(st, serial))
  BY DEF UpdateSerialMissMax, IsStack, SameAtoms, Present, AtomAt
<1> QED BY <1>2, <1>3

\* A window of blocks ends at an integer.
LEMMA SerialN1Type == ASSUME NEW base \in Int PROVE SerialN1(base) \in Int
<1>1. MAX_NB_BLOCKS * NB_ATOMS_PER_BLOCK \in Int
  BY WindowAssumption
<1> QED BY <1>1 DEF SerialN1

\* The search for what is missing stays among integers: when it finds a first
\* hole in the window, the holes within its reach have a last one.
LEMMA GetMissKeeps ==
  ASSUME NEW st, IsStack(st)
  PROVE  IsStack(GetMiss(st)) /\ SameAtoms(st, GetMiss(st))
<1> DEFINE n_1     == SerialN1(st.serial_0_base)
           holes   == MissZone(st) \ Present(st)
           first   == IF \E s \in holes : s < n_1 THEN Min(holes) ELSE MaxOr(holes, n_1)
           reached == {s \in holes : first <= s /\ s <= first + MISS_MAX_RANGE}
           last    == IF first < n_1 THEN Max(reached) ELSE st.serial_miss_max
<1>1. n_1 \in Int
  BY StackFields, SerialN1Type
<1>2. PICK lo \in Int, hi \in Int : MissZone(st) = lo .. hi
  <2>1. CASE st.serial_miss_min <= st.serial_miss_max
    BY <2>1, StackFields DEF MissZone
  <2>2. CASE ~(st.serial_miss_min <= st.serial_miss_max)
    <3>1. st.serial_0_real \in Int /\ Max2(st.serial_max, st.serial_miss_max) \in Int
      BY StackFields, Max2Type
    <3>2. MissZone(st) = st.serial_0_real .. Max2(st.serial_max, st.serial_miss_max)
      BY <2>2 DEF MissZone
    <3> QED BY <3>1, <3>2
  <2> QED BY <2>1, <2>2
<1>3. holes \subseteq Int /\ \A s \in holes : lo <= s /\ s <= hi
  BY <1>2
<1> HIDE DEF n_1, holes
<1>4. first \in Int /\ (first < n_1 => first \in holes)
  <2>1. CASE \E s \in holes : s < n_1
    <3>1. Min(holes) \in holes
      BY <1>3, <2>1, MinIs
    <3> QED BY <1>3, <2>1, <3>1
  <2>2. CASE ~(\E s \in holes : s < n_1)
    <3>1. MaxOr(holes, n_1) \in Int /\ (MaxOr(holes, n_1) \in holes \/ MaxOr(holes, n_1) = n_1)
      BY <1>1, <1>3, MaxOrType
    <3> QED BY <1>1, <2>2, <3>1
  <2> QED BY <2>1, <2>2
<1> HIDE DEF first
<1>5. last \in Int
  <2>1. CASE first < n_1
    <3>1. reached \subseteq Int /\ \A s \in reached : s <= hi
      BY <1>3
    <3>2. first \in reached
      BY <1>3, <1>4, <2>1, WindowAssumption
    <3>3. Max(reached) \in reached
      <4> HIDE DEF reached
      <4> QED BY <1>2, <3>1, <3>2, MaxIs
    <3> QED BY <2>1, <3>1, <3>3
  <2>2. CASE ~(first < n_1)
    BY <2>2, StackFields
  <2> QED BY <2>1, <2>2
<1>6. CASE ~MissSearches(st)
  BY <1>6 DEF GetMiss, SameAtoms
<1>7. CASE MissSearches(st)
  <2>1. GetMiss(st) = [st EXCEPT !.serial_miss_min = first, !.serial_miss_max = last]
    BY <1>7 DEF GetMiss, first, holes, n_1, IsStack
  <2> DEFINE new == [st EXCEPT !.serial_miss_min = first, !.serial_miss_max = last]
  <2>2. first \in Int /\ last \in Int
    BY <1>4, <1>5
  <2> HIDE DEF last, reached
  <2>3. IsStack(new) /\ SameAtoms(st, new)
    BY <2>2, MissRangeKeeps
  <2> QED BY <2>1, <2>3
<1> QED BY <1>6, <1>7

\* What a search looks at is not below the stack, and ends near it.
LEMMA VisitedBounded ==
  ASSUME NEW st, NEW N \in Nat, Fits(st, N), NEW seq,
         NEW s \in SerialsOf(st, seq, Visited(st, seq))
  PROVE  s \in Int /\ st.serial_min <= s /\ s <= N + N
<1>1. PICK h \in Visited(st, seq) : s \in h .. h + SizeFrom(st, seq, h) - 1
  BY DEF SerialsOf
<1>2. h \in Heads(st, seq) /\ h >= st.serial_min
  BY DEF Visited
<1> DEFINE at == CHOOSE x \in Having(st, seq) : HeadOf(st, x) = h
<1>3. at \in Having(st, seq) /\ HeadOf(st, at) = h
  BY <1>2 DEF Heads
<1>4. at \in Present(st) /\ at \in 1 .. N /\ AtomAt(st, at).order_n <= N
  BY <1>3 DEF Having, Fits
<1>5. AtomAt(st, at).order_i \in Nat /\ AtomAt(st, at).order_n \in Nat
  BY <1>4, AtomFields DEF Fits
<1>6. SizeFrom(st, seq, h) = AtomAt(st, at).order_n
  BY DEF SizeFrom
<1> HIDE DEF at
<1>7. h \in Int /\ h <= N
  BY <1>3, <1>4, <1>5 DEF HeadOf
<1>8. st.serial_min \in Int
  BY StackFields DEF Fits
<1> QED BY <1>1, <1>2, <1>4, <1>5, <1>6, <1>7, <1>8

LEMMA PoppedKeeps ==
  ASSUME NEW st, NEW N \in Nat, Fits(st, N), NEW seqs, NEW get_all
  PROVE  IsStack(Popped(st, seqs, get_all)) /\ SameAtoms(st, Popped(st, seqs, get_all))
<1> DEFINE popped == UNION {SerialsOf(st, q, Given(st, q, get_all)) : q \in seqs}
           lacked == (UNION {SerialsOf(st, q, Visited(st, q)) : q \in seqs}) \ Present(st)
           cells  == [s \in Present(st) |->
                        IF s \in popped THEN MarkPopped(st.atoms[s]) ELSE st.atoms[s]]
           lo     == Min2(st.serial_miss_min, MinOr(lacked, st.serial_miss_min))
           hi     == Max2(st.serial_miss_max, MaxOr(lacked, st.serial_miss_max))
           mid    == [st EXCEPT !.atoms = cells]
<1>1. IsStack(st)
  BY DEF Fits
<1>2. /\ st.serial_min \in Int /\ st.serial_miss_min \in Int /\ st.serial_miss_max \in Int
      /\ st.atoms \in [Present(st) -> Cell]
  BY <1>1, StackFields
<1>3. lacked \subseteq Int /\ \A s \in lacked : st.serial_min <= s /\ s <= N + N
  BY VisitedBounded
<1>4. Popped(st, seqs, get_all) = [mid EXCEPT !.serial_miss_min = lo, !.serial_miss_max = hi]
  BY <1>1 DEF Popped, IsStack
<1>5. \A s \in Present(st) : cells[s] \in Cell /\ cells[s].atom = AtomAt(st, s)
  BY <1>2, PoppedCell DEF AtomAt
<1>6. DOMAIN cells = Present(st) /\ cells = [s \in DOMAIN cells |-> cells[s]]
  OBVIOUS
<1>7. IsStack(mid) /\ SameAtoms(st, mid)
  <2> HIDE DEF cells
  <2> QED BY <1>1, <1>5, <1>6, CellsKeep
<1>8. lo \in Int /\ hi \in Int
  <2> HIDE DEF lacked
  <2>1. N + N \in Int
    OBVIOUS
  <2>2. MinOr(lacked, st.serial_miss_min) \in Int /\ MaxOr(lacked, st.serial_miss_max) \in Int
    BY <1>2, <1>3, <2>1, MinOrType, MaxOrType
  <2> QED BY <1>2, <2>2, Min2Type, Max2Type
<1> HIDE DEF lo, hi, mid
<1>9. /\ IsStack([mid EXCEPT !.serial_miss_min = lo, !.serial_miss_max = hi])
      /\ SameAtoms(mid, [mid EXCEPT !.serial_miss_min = lo, !.serial_miss_max = hi])
  BY <1>7, <1>8, MissRangeKeeps
<1> QED BY <1>4, <1>7, <1>9 DEF SameAtoms

----------------------------------------------------------------------------
(* What the operations on a stack leave alone.                             *)

\* The bounds and the reference of st are those of new.
SameBounds(st, new) ==
  /\ new.serial_min = st.serial_min /\ new.serial_0_real = st.serial_0_real
  /\ new.serial_reference = st.serial_reference

SameMiss(st, new) ==
  /\ new.serial_miss_min = st.serial_miss_min
  /\ new.serial_miss_max = st.serial_miss_max

\* The calculation moves the reference.
LEMMA CalcBounds ==
  ASSUME NEW st, IsStack(st)
  PROVE  LET new == Calc(st)
         IN  /\ new.serial_min = st.serial_min /\ new.serial_0_real = st.serial_0_real
             /\ new.serial_reference = MaxOr(NoHoleHeads(st), st.serial_reference)
             /\ SameMiss(st, new)
BY DEF Calc, IsStack, SameMiss

LEMMA ClearRecentBounds ==
  ASSUME NEW st, IsStack(st), NEW seq
  PROVE  SameBounds(st, ClearRecent(st, seq)) /\ SameMiss(st, ClearRecent(st, seq))
BY DEF ClearRecent, IsStack, SameBounds, SameMiss

LEMMA SentBounds ==
  ASSUME NEW st, IsStack(st), NEW target
  PROVE  SameBounds(st, Sent(st, target)) /\ SameMiss(st, Sent(st, target))
BY DEF Sent, IsStack, SameBounds, SameMiss

LEMMA MissInvalidateBounds ==
  ASSUME NEW st, IsStack(st), NEW target, NEW lo, NEW hi
  PROVE  /\ SameBounds(st, MissInvalidate(st, target, lo, hi))
         /\ SameMiss(st, MissInvalidate(st, target, lo, hi))
BY DEF MissInvalidate, IsStack, SameBounds, SameMiss

LEMMA UpdateSerialMissMaxBounds ==
  ASSUME NEW st, IsStack(st), NEW serial
  PROVE  LET new == UpdateSerialMissMax(st, serial)
         IN  /\ SameBounds(st, new) /\ new.serial_miss_min = st.serial_miss_min
             /\ new.serial_miss_max = Max2(st.serial_miss_max, serial)
BY DEF UpdateSerialMissMax, IsStack, SameBounds

----------------------------------------------------------------------------
(* Operations that write.                                                  *)

\* Every atom of new was in st.
OnlyAtomsOf(st, new) ==
  /\ Present(new) \subseteq Present(st)
  /\ \A s \in Present(new) : AtomAt(new, s) = AtomAt(st, s)
  /\ new.seq_0s = st.seq_0s

\* Moving the window only forgets atoms.
LEMMA MovedByKeeps ==
  ASSUME NEW st, IsStack(st), NEW delta \in Int
  PROVE  /\ IsStack(MovedBy(st, delta)) /\ OnlyAtomsOf(st, MovedBy(st, delta))
         /\ MovedBy(st, delta).serial_0_base = st.serial_0_base + delta * NB_ATOMS_PER_BLOCK
         /\ Present(MovedBy(st, delta)) \subseteq Window(MovedBy(st, delta).serial_0_base)
<1> DEFINE base  == st.serial_0_base + delta * NB_ATOMS_PER_BLOCK
           real  == st.serial_0_real + delta * NB_ATOMS_PER_BLOCK
           cells == Restrict(st.atoms, Window(base) \cap DOMAIN st.atoms)
           new   == [st EXCEPT !.serial_0_base = base, !.serial_0_real = real, !.atoms = cells]
<1>1. base \in Int /\ real \in Int
  <2>1. delta * NB_ATOMS_PER_BLOCK \in Int
    BY WindowAssumption
  <2>2. st.serial_0_base \in Int /\ st.serial_0_real \in Int
    BY StackFields
  <2> QED BY <2>1, <2>2
<1>2. MovedBy(st, delta) = new
  BY DEF MovedBy, IsStack
<1>3. /\ DOMAIN cells = Window(base) \cap Present(st)
      /\ \A s \in DOMAIN cells : cells[s] = st.atoms[s]
      /\ cells \in [DOMAIN cells -> Cell]
  <2>1. st.atoms \in [Present(st) -> Cell] /\ Present(st) \subseteq Int
    BY StackFields
  <2> QED BY <2>1 DEF Restrict, Present
<1> HIDE DEF base, real, cells
<1>4. new.atoms = cells /\ new.serial_0_base = base /\ new.seq_0s = st.seq_0s
  BY DEF IsStack
<1>5. IsStack(new)
  BY <1>1, <1>3, <1>4 DEF IsStack, Present
<1>6. OnlyAtomsOf(st, new)
  BY <1>3, <1>4 DEF OnlyAtomsOf, Present, AtomAt
<1>7. Present(new) \subseteq Window(new.serial_0_base)
  BY <1>3, <1>4 DEF Present
<1> QED BY <1>2, <1>4, <1>5, <1>6, <1>7 DEF base

\* A block index is an integer, and so is the number of blocks to move by.
LEMMA BlockIndexType ==
  ASSUME NEW st, IsStack(st), NEW serial \in Int
  PROVE  /\ BlockIndex(st, serial) \in Int
         /\ BlockIndex(st, serial) + 1 - MAX_NB_BLOCKS \in Int
<1>1. st.serial_0_base \in Int
  BY StackFields
<1>2. BlockIndex(st, serial) \in Int
  BY <1>1, WindowAssumption DEF BlockIndex
<1> QED BY <1>2, WindowAssumption

LEMMA ShiftedKeeps ==
  ASSUME NEW st, NEW N \in Nat, Fits(st, N), NEW serial \in Int
  PROVE  IsStack(Shifted(st, serial)) /\ OnlyAtomsOf(st, Shifted(st, serial))
<1> DEFINE up   == BlockIndex(st, serial)
           down == BlockIndex(st, serial) + 1 - MAX_NB_BLOCKS
<1>1. IsStack(st) /\ Present(st) \subseteq 1 .. N
  BY DEF Fits
<1>2. up \in Int /\ down \in Int
  BY <1>1, BlockIndexType
<1> HIDE DEF up, down
<1>3. ASSUME NEW delta \in Int
      PROVE  /\ IsStack(ShiftedUp(st, serial, delta))
             /\ OnlyAtomsOf(st, ShiftedUp(st, serial, delta))
  <2> DEFINE moved == MovedBy(st, delta)
             max   == MaxOr(Present(moved), SERIAL_INVALID)
             sends == [t \in Node |-> serial]
             new   == [moved EXCEPT !.serial_min = serial, !.serial_max = max,
                                    !.serial_min_to_send = sends]
  <2>1. IsStack(moved) /\ OnlyAtomsOf(st, moved)
    BY <1>1, MovedByKeeps
  <2>2. Present(moved) \subseteq 1 .. N
    BY <1>1, <2>1 DEF OnlyAtomsOf
  <2>3. max \in Int
    BY <2>2, MaxOrType DEF SERIAL_INVALID
  <2>4. ShiftedUp(st, serial, delta) = new
    BY DEF ShiftedUp
  <2> HIDE DEF moved, max
  <2>5. IsStack(new)
    BY <2>1, <2>3 DEF IsStack
  <2>6. OnlyAtomsOf(st, new)
    BY <2>1 DEF OnlyAtomsOf, IsStack, Present, AtomAt
  <2> QED BY <2>4, <2>5, <2>6
<1>4. ASSUME NEW delta \in Int
      PROVE  /\ IsStack(ShiftedDown(st, serial, delta))
             /\ OnlyAtomsOf(st, ShiftedDown(st, serial, delta))
  <2> DEFINE moved == MovedBy(st, delta)
             min   == MinOr(Present(moved), INT_MAX)
             sends == [t \in Node |-> Max2(moved.serial_min_to_send[t], moved.serial_0_real)]
             new   == [moved EXCEPT !.serial_max = serial, !.serial_min = min,
                                    !.serial_min_to_send = sends]
  <2>1. IsStack(moved) /\ OnlyAtomsOf(st, moved)
    BY <1>1, MovedByKeeps
  <2>2. Present(moved) \subseteq 1 .. N
    BY <1>1, <2>1 DEF OnlyAtomsOf
  <2>3. min \in Int
    BY <2>2, MinOrType, IntMaxType
  <2>4. sends \in [Node -> Int]
    <3>1. moved.serial_min_to_send \in [Node -> Int] /\ moved.serial_0_real \in Int
      BY <2>1, StackFields
    <3> HIDE DEF moved
    <3> QED BY <3>1, Max2Type
  <2>5. ShiftedDown(st, serial, delta) = new
    BY <2>1 DEF ShiftedDown, IsStack
  <2> HIDE DEF moved, min, sends
  <2>6. IsStack(new)
    BY <2>1, <2>3, <2>4 DEF IsStack
  <2>7. OnlyAtomsOf(st, new)
    BY <2>1 DEF OnlyAtomsOf, IsStack, Present, AtomAt
  <2> QED BY <2>5, <2>6, <2>7
<1>5. OnlyAtomsOf(st, st)
  BY DEF OnlyAtomsOf
<1> QED BY <1>1, <1>2, <1>3, <1>4, <1>5 DEF Shifted, up, down

\* Storing an atom: the stack then holds what it held, and the atom.
LEMMA PutAtomKeeps ==
  ASSUME NEW st, NEW N \in Nat, Fits(st, N), NEW n \in Node,
         NEW serial \in 1 .. N, NEW atom \in Atom, NEW send_flag \in SUBSET Node
  PROVE  LET new == PutAtom(st, n, serial, atom, send_flag)
         IN  /\ IsStack(new) /\ new.seq_0s = st.seq_0s
             /\ \A s \in Present(new) :
                  \/ s \in Present(st) /\ AtomAt(new, s) = AtomAt(st, s)
                  \/ s = serial /\ AtomAt(new, s) = atom
<1> DEFINE sh    == Shifted(st, serial)
           cells == Stored(sh, serial, atom, send_flag)
           min   == Min2(sh.serial_min, serial)
           max   == Max2(sh.serial_max, serial)
           new   == [sh EXCEPT !.atoms = cells, !.serial_min = min, !.serial_max = max]
<1>1. IsStack(st)
  BY DEF Fits
<1>2. IsStack(sh) /\ OnlyAtomsOf(st, sh)
  BY ShiftedKeeps
<1>3. PutAtom(st, n, serial, atom, send_flag) \in {st, sh, new}
  BY DEF PutAtom
<1> HIDE DEF sh
<1>4. /\ sh.atoms \in [Present(sh) -> Cell] /\ Present(sh) \subseteq Int
      /\ min \in Int /\ max \in Int
  <2>1. /\ sh.atoms \in [Present(sh) -> Cell] /\ Present(sh) \subseteq Int
        /\ sh.serial_min \in Int /\ sh.serial_max \in Int
    BY <1>2, StackFields
  <2>2. serial \in Int
    OBVIOUS
  <2> QED BY <2>1, <2>2, Min2Type, Max2Type
<1>5. /\ DOMAIN cells = Present(sh) \cup {serial}
      /\ cells \in [DOMAIN cells -> Cell]
      /\ \A s \in DOMAIN cells : IF s \in Present(sh) THEN cells[s] = sh.atoms[s]
                                                      ELSE cells[s].atom = atom
  <2>1. CASE serial \in Present(sh)
    BY <1>4, <2>1 DEF Stored
  <2>2. CASE serial \notin Present(sh)
    <3> DEFINE cell == [atom |-> atom, send_flag |-> send_flag, sent_status |-> {},
                        update_msg_called |-> FALSE]
    <3>1. cell \in Cell /\ cell.atom = atom
      BY DEF Cell
    <3>2. cells = [s \in Present(sh) \cup {serial} |->
                     IF s = serial THEN cell ELSE sh.atoms[s]]
      BY <2>2 DEF Stored
    <3> HIDE DEF cell, cells
    <3> QED BY <1>4, <2>2, <3>1, <3>2
  <2> QED BY <2>1, <2>2
<1> HIDE DEF cells, min, max
<1>6. new.atoms = cells /\ new.seq_0s = st.seq_0s
  BY <1>2 DEF IsStack, OnlyAtomsOf
<1>7. IsStack(new)
  <2>1. DOMAIN cells \subseteq Int
    BY <1>4, <1>5
  <2> QED BY <1>2, <1>4, <1>5, <1>6, <2>1 DEF IsStack
<1>8. \A s \in Present(new) :
        \/ s \in Present(st) /\ AtomAt(new, s) = AtomAt(st, s)
        \/ s = serial /\ AtomAt(new, s) = atom
  BY <1>2, <1>5, <1>6 DEF Present, AtomAt, OnlyAtomsOf
<1> HIDE DEF new
<1> QED BY <1>1, <1>2, <1>3, <1>6, <1>7, <1>8 DEF OnlyAtomsOf

\* The local stack: what was written last is in the window, or just before it.
Local(st) ==
  /\ st.serial_0_base <= st.serial_max + 1
  /\ st.serial_max <= SerialN1(st.serial_0_base)

\* Division by the size of a block.
LEMMA BlockDivision ==
  ASSUME NEW x \in Int
  PROVE  /\ x \div NB_ATOMS_PER_BLOCK \in Int
         /\ (x \div NB_ATOMS_PER_BLOCK) * NB_ATOMS_PER_BLOCK <= x
         /\ x < (x \div NB_ATOMS_PER_BLOCK) * NB_ATOMS_PER_BLOCK + NB_ATOMS_PER_BLOCK
BY WindowAssumption

\* As many blocks more, as many atoms more.
LEMMA BlocksGrow ==
  ASSUME NEW a \in Int, NEW b \in Int, a <= b
  PROVE  a * NB_ATOMS_PER_BLOCK <= b * NB_ATOMS_PER_BLOCK
BY WindowAssumption

\* The window begins at serial 1, and serials are integers.
LEMMA WindowFacts ==
  /\ SerialN1(SERIAL_START) = MAX_NB_BLOCKS * NB_ATOMS_PER_BLOCK
  /\ SerialN1(SERIAL_START) \in Nat /\ 1 <= SerialN1(SERIAL_START)
  /\ INT_MAX \in Int
<1>1. MAX_NB_BLOCKS * NB_ATOMS_PER_BLOCK \in Nat /\ 1 <= MAX_NB_BLOCKS * NB_ATOMS_PER_BLOCK
  <2>1. 1 * NB_ATOMS_PER_BLOCK <= MAX_NB_BLOCKS * NB_ATOMS_PER_BLOCK
    BY WindowAssumption, BlocksGrow
  <2> QED BY <2>1, WindowAssumption
<1> QED BY <1>1, IntMaxType DEF SerialN1, SERIAL_START

\* A local message always finds a place: the window follows what is written.
LEMMA LocalFits ==
  ASSUME NEW st, NEW N \in Nat, Fits(st, N), Local(st),
         NEW order_n \in Nat \ {0},
         order_n <= (BLOCK_DELTA_MAX - 1) * NB_ATOMS_PER_BLOCK
  PROVE  st.serial_max + order_n \in Window(Shifted(st, st.serial_max + order_n).serial_0_base)
<1> DEFINE A    == NB_ATOMS_PER_BLOCK
           M    == MAX_NB_BLOCKS
           D    == BLOCK_DELTA_MAX
           base == st.serial_0_base
           last == st.serial_max + order_n
           x    == last - base
           b    == BlockIndex(st, last)
           down == b + 1 - M
<1>1. IsStack(st) /\ A \in Nat \ {0} /\ M \in Nat \ {0} /\ D \in Nat \ {0}
  BY WindowAssumption DEF Fits
<1>2. base \in Int /\ st.serial_max \in Int /\ last \in Int /\ x \in Int
  BY <1>1, StackFields
<1>3. b \in Int /\ b * A <= x /\ x < b * A + A
  BY <1>2, BlockDivision DEF BlockIndex
<1>4. x >= 0 /\ x <= M * A - 1 + order_n
  BY <1>1, <1>2 DEF Local, SerialN1
<1> HIDE DEF b, x
<1>5. b >= 0
  <2>1. ASSUME b <= -1 PROVE FALSE
    <3>1. b * A <= (-1) * A
      BY <1>3, <2>1, BlocksGrow
    <3>2. (-1) * A = -A
      BY <1>1
    <3>3. b * A \in Int
      BY <1>1, <1>3
    <3> HIDE DEF A
    <3> QED BY <1>1, <1>2, <1>3, <1>4, <3>1, <3>2, <3>3
  <2> QED BY <1>3, <2>1
<1>6. CASE down <= 0
  <2>1. Shifted(st, last) = st
    BY <1>1, <1>3, <1>5, <1>6 DEF Shifted, b
  <2>2. (b + 1) * A <= M * A
    BY <1>1, <1>3, <1>6, BlocksGrow
  <2>3. (b + 1) * A = b * A + A /\ b * A \in Int /\ M * A \in Int
    BY <1>1, <1>3
  <2>4. x <= M * A - 1
    <3> HIDE DEF A, M
    <3> QED BY <1>1, <1>2, <1>3, <2>2, <2>3
  <2> QED BY <1>1, <1>2, <1>4, <2>1, <2>3, <2>4 DEF x, Window, SerialN1
<1>7. CASE down > 0
  <2>1. down < D
    <3>1. ASSUME D <= down PROVE FALSE
      <4>1. (D + M - 1) * A <= b * A
        BY <1>1, <1>3, <3>1, BlocksGrow
      <4>2. /\ (D + M - 1) * A = (D - 1) * A + M * A
            /\ (D - 1) * A \in Int /\ M * A \in Int /\ b * A \in Int
        BY <1>1, <1>3
      <4>3. order_n <= (D - 1) * A
        OBVIOUS
      <4> HIDE DEF A, M, D
      <4> QED BY <1>1, <1>2, <1>3, <1>4, <4>1, <4>2, <4>3
    <3> QED BY <1>1, <1>3, <3>1
  <2>2. Shifted(st, last).serial_0_base = base + down * A
    <3>1. Shifted(st, last) = ShiftedDown(st, last, down)
      BY <1>1, <1>3, <1>5, <1>7, <2>1 DEF Shifted, b
    <3>2. down \in Int
      BY <1>1, <1>3
    <3> HIDE DEF down
    <3>3. /\ IsStack(MovedBy(st, down))
          /\ MovedBy(st, down).serial_0_base = base + down * A
      BY <1>1, <3>2, MovedByKeeps
    <3> QED BY <3>1, <3>3 DEF ShiftedDown, IsStack
  <2>3. /\ down * A = b * A + A - M * A
        /\ b * A \in Int /\ M * A \in Int
    BY <1>1, <1>3
  <2>4. A <= M * A
    <3>1. 1 * A <= M * A
      BY <1>1, BlocksGrow
    <3> QED BY <1>1, <3>1
  <2> HIDE DEF A, M, down
  <2>5. base + down * A <= last /\ last <= base + down * A + M * A - 1
    BY <1>1, <1>2, <1>3, <2>3, <2>4 DEF x
  <2> QED BY <1>1, <1>2, <2>2, <2>3, <2>5 DEF Window, SerialN1, A, M
<1> QED BY <1>1, <1>3, <1>6, <1>7

\* A local message is put whole, right after what was written before it.
LEMMA PutMsgAppends ==
  ASSUME NEW st, NEW N \in Nat, Fits(st, N), Local(st), NEW n \in Node,
         NEW type \in {DATA, META}, NEW seq \in Int, seq >= st.seq_0s[n],
         NEW order_n \in Nat \ {0},
         order_n <= (BLOCK_DELTA_MAX - 1) * NB_ATOMS_PER_BLOCK,
         NEW send_flag \in SUBSET Node
  PROVE  LET new   == PutMsg(st, n, type, seq, order_n, send_flag)
             first == st.serial_max + 1
         IN  /\ IsStack(new) /\ new.seq_0s = st.seq_0s /\ Local(new)
             /\ new.serial_max = st.serial_max + order_n
             /\ \A s \in Present(new) :
                  \/ s \in Present(st) /\ AtomAt(new, s) = AtomAt(st, s)
                  \/ /\ s \in first .. st.serial_max + order_n
                     /\ AtomAt(new, s) = [type |-> type, seq |-> seq,
                                          order_i |-> s - first, order_n |-> order_n]
<1> DEFINE first == st.serial_max + 1
           last  == st.serial_max + order_n
           sh    == Shifted(st, last)
           fresh == (first .. last) \cap Window(sh.serial_0_base)
           Put(s) == [atom |-> [type |-> type, seq |-> seq,
                                order_i |-> s - first, order_n |-> order_n],
                      send_flag |-> send_flag, sent_status |-> {},
                      update_msg_called |-> FALSE]
           cells == [s \in DOMAIN sh.atoms \cup fresh |->
                       IF s \in fresh THEN Put(s) ELSE sh.atoms[s]]
           min   == Min2(sh.serial_min, Min(fresh))
           new   == [sh EXCEPT !.atoms = cells, !.serial_min = min, !.serial_max = last]
<1>1. st.serial_max \in Int /\ st.seq_0s[n] \in Int /\ first \in Int /\ last \in Int
  BY StackFields DEF Fits
<1>2. last \in Window(sh.serial_0_base)
  BY LocalFits
<1>3. IsStack(sh) /\ OnlyAtomsOf(st, sh)
  BY <1>1, ShiftedKeeps
<1>4. PutMsg(st, n, type, seq, order_n, send_flag) = new
  <2>1. ~(seq < st.seq_0s[n] \/ last \notin Window(sh.serial_0_base))
    BY <1>1, <1>2
  <2>2. PutMsg(st, n, type, seq, order_n, send_flag) =
          [sh EXCEPT !.atoms = cells, !.serial_min = Min2(@, Min(fresh)), !.serial_max = last]
    BY <2>1, <1>3 DEF PutMsg, IsStack
  <2> QED BY <1>3, <2>2 DEF IsStack
<1> HIDE DEF sh
<1>5. fresh \subseteq first .. last /\ last \in fresh
  BY <1>1, <1>2
<1>6. sh.atoms \in [Present(sh) -> Cell] /\ Present(sh) \subseteq Int /\ sh.serial_min \in Int
  BY <1>3, StackFields
<1>7. min \in Int
  <2>1. fresh \subseteq Int /\ (\A y \in fresh : first <= y) /\ fresh # {}
    BY <1>1, <1>5
  <2> HIDE DEF fresh
  <2>2. Min(fresh) \in Int
    BY <1>1, <2>1, MinIs
  <2> QED BY <1>6, <2>2, Min2Type
<1>8. \A s \in fresh : Put(s) \in Cell /\ Put(s).atom =
        [type |-> type, seq |-> seq, order_i |-> s - first, order_n |-> order_n]
  <2> TAKE s \in fresh
  <2>1. s - first \in Nat
    BY <1>1, <1>5
  <2>2. [type |-> type, seq |-> seq, order_i |-> s - first, order_n |-> order_n] \in Atom
    BY <2>1 DEF Atom
  <2> QED BY <2>2 DEF Cell
<1> HIDE DEF fresh, Put, min
<1>9. /\ DOMAIN cells = Present(sh) \cup fresh
      /\ cells \in [DOMAIN cells -> Cell]
      /\ \A s \in DOMAIN cells : IF s \in fresh THEN cells[s] = Put(s)
                                                ELSE cells[s] = sh.atoms[s]
  BY <1>6, <1>8 DEF Present
<1> HIDE DEF cells, first, last
<1>10. /\ new.atoms = cells /\ new.seq_0s = st.seq_0s /\ new.serial_max = last
       /\ new.serial_0_base = sh.serial_0_base
  BY <1>3 DEF IsStack, OnlyAtomsOf
<1>11. IsStack(new)
  <2>1. DOMAIN cells \subseteq Int
    BY <1>1, <1>5, <1>6, <1>9
  <2> QED BY <1>1, <1>3, <1>7, <1>9, <1>10, <2>1 DEF IsStack
<1>12. Local(new)
  <2>1. sh.serial_0_base \in Int /\ SerialN1(sh.serial_0_base) \in Int
    BY <1>3, StackFields, SerialN1Type
  <2> QED BY <1>1, <1>2, <1>10, <2>1 DEF Local, Window
<1>13. \A s \in Present(new) :
         \/ s \in Present(st) /\ AtomAt(new, s) = AtomAt(st, s)
         \/ /\ s \in first .. last
            /\ AtomAt(new, s) = [type |-> type, seq |-> seq,
                                 order_i |-> s - first, order_n |-> order_n]
  <2> TAKE s \in Present(new)
  <2>1. s \in Present(sh) \cup fresh /\ AtomAt(new, s) = cells[s].atom
    BY <1>9, <1>10 DEF Present, AtomAt
  <2>2. CASE s \in fresh
    BY <1>5, <1>8, <1>9, <2>1, <2>2
  <2>3. CASE s \notin fresh
    BY <1>3, <1>9, <2>1, <2>3 DEF OnlyAtomsOf, AtomAt
  <2> QED BY <2>2, <2>3
<1> HIDE DEF new
<1> QED BY <1>4, <1>10, <1>11, <1>12, <1>13 DEF first, last
=============================================================================
