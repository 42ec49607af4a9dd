------------------------- MODULE StackLifeTheorems -------------------------
(***************************************************************************)
(* The bounds of a stack are exact through all its life (BoundsExact),     *)
(* for every size of the window, whatever was written and in whichever     *)
(* order it comes.                                                         *)
(***************************************************************************)
EXTENDS StackLife, StackTheorems

----------------------------------------------------------------------------
(* Bounds.                                                                 *)

\* What BoundsExact says of a stack besides its type.
Bounded(stack) ==
  /\ Present(stack) \subseteq Window(stack.serial_0_base)
  /\ stack.serial_min = MinOr(Present(stack), INT_MAX)
  /\ stack.serial_max = MaxOr(Present(stack), SERIAL_INVALID)

\* The inductive invariant: the bounds are exact, and what is present is what
\* was written.
LInv ==
  /\ IsStack(st) /\ Bounded(st)
  /\ \A s \in Present(st) : s \in 1 .. Len(Written) /\ AtomAt(st, s) = Written[s]

\* The least element of a set is the one MinOr yields.
LEMMA MinOrIs ==
  ASSUME NEW S, S \subseteq Int, NEW x \in S, \A y \in S : x <= y, NEW d
  PROVE  MinOr(S, d) = x
<1>1. x \in Int /\ S # {}
  OBVIOUS
<1>2. Min(S) \in S /\ \A y \in S : Min(S) <= y
  BY <1>1, MinIs
<1>3. Min(S) \in Int /\ Min(S) <= x /\ x <= Min(S)
  BY <1>2
<1> QED BY <1>1, <1>3 DEF MinOr

\* The greatest element of a set is the one MaxOr yields.
LEMMA MaxOrIs ==
  ASSUME NEW S, S \subseteq Int, NEW x \in S, \A y \in S : y <= x, NEW d
  PROVE  MaxOr(S, d) = x
<1>1. x \in Int /\ S # {}
  OBVIOUS
<1>2. Max(S) \in S /\ \A y \in S : Max(S) >= y
  BY <1>1, MaxIs
<1>3. Max(S) \in Int /\ Max(S) <= x /\ x <= Max(S)
  BY <1>2
<1> QED BY <1>1, <1>3 DEF MaxOr

\* One serial more: the least is the old one or the new one.
LEMMA MinOrGrows ==
  ASSUME NEW S, NEW a \in Int, S \subseteq Int, \A y \in S : a <= y,
         NEW x \in Int, NEW d \in Int, x <= d
  PROVE  MinOr(S \cup {x}, d) = Min2(MinOr(S, d), x)
<1>1. CASE S = {}
  <2>1. MinOr(S, d) = d /\ S \cup {x} = {x}
    BY <1>1 DEF MinOr
  <2>2. MinOr({x}, d) = x
    BY MinOrIs
  <2> QED BY <2>1, <2>2 DEF Min2
<1>2. CASE S # {}
  <2>1. Min(S) \in S /\ (\A y \in S : Min(S) <= y) /\ MinOr(S, d) = Min(S)
    BY <1>2, MinIs DEF MinOr
  <2> DEFINE m == Min2(Min(S), x)
  <2>2. m \in S \cup {x} /\ \A y \in S \cup {x} : m <= y
    <3>1. Min(S) \in Int /\ m \in {Min(S), x} /\ m \in Int
      BY <2>1 DEF Min2
    <3>2. ASSUME NEW y \in S \cup {x} PROVE m <= y
      <4>1. y \in Int /\ (y = x \/ Min(S) <= y)
        BY <2>1
      <4> QED BY <3>1, <4>1 DEF Min2
    <3> QED BY <2>1, <3>1, <3>2
  <2>3. S \cup {x} \subseteq Int
    OBVIOUS
  <2> HIDE DEF m
  <2>4. MinOr(S \cup {x}, d) = m
    BY <2>2, <2>3, MinOrIs
  <2> QED BY <2>1, <2>4 DEF m
<1> QED BY <1>1, <1>2

\* One serial more: the greatest is the old one or the new one.
LEMMA MaxOrGrows ==
  ASSUME NEW S, NEW b \in Int, S \subseteq Int, \A y \in S : y <= b,
         NEW x \in Int, NEW d \in Int, d <= x
  PROVE  MaxOr(S \cup {x}, d) = Max2(MaxOr(S, d), x)
<1>1. CASE S = {}
  <2>1. MaxOr(S, d) = d /\ S \cup {x} = {x}
    BY <1>1 DEF MaxOr
  <2>2. MaxOr({x}, d) = x
    BY MaxOrIs
  <2> QED BY <2>1, <2>2 DEF Max2
<1>2. CASE S # {}
  <2>1. Max(S) \in S /\ (\A y \in S : Max(S) >= y) /\ MaxOr(S, d) = Max(S)
    BY <1>2, MaxIs DEF MaxOr
  <2> DEFINE m == Max2(Max(S), x)
  <2>2. m \in S \cup {x} /\ \A y \in S \cup {x} : y <= m
    <3>1. Max(S) \in Int /\ m \in {Max(S), x} /\ m \in Int
      BY <2>1 DEF Max2
    <3>2. ASSUME NEW y \in S \cup {x} PROVE y <= m
      <4>1. y \in Int /\ (y = x \/ Max(S) >= y)
        BY <2>1
      <4> QED BY <3>1, <4>1 DEF Max2
    <3> QED BY <2>1, <3>1, <3>2
  <2>3. S \cup {x} \subseteq Int
    OBVIOUS
  <2> HIDE DEF m
  <2>4. MaxOr(S \cup {x}, d) = m
    BY <2>2, <2>3, MaxOrIs
  <2> QED BY <2>1, <2>4 DEF m
<1> QED BY <1>1, <1>2

----------------------------------------------------------------------------
(* A window that moves.                                                    *)

\* The window ends where the block after its last one would begin.
LEMMA WindowIs ==
  ASSUME NEW base \in Int, NEW s \in Int
  PROVE  s \in Window(base)
           <=> base <= s /\ s < base + MAX_NB_BLOCKS * NB_ATOMS_PER_BLOCK
<1>1. MAX_NB_BLOCKS * NB_ATOMS_PER_BLOCK \in Int
  BY WindowAssumption
<1> DEFINE size == MAX_NB_BLOCKS * NB_ATOMS_PER_BLOCK
<1>2. Window(base) = base .. base + size - 1
  BY DEF Window, SerialN1
<1> HIDE DEF size
<1>3. size \in Int
  BY <1>1 DEF size
<1>4. s \in base .. base + size - 1 <=> base <= s /\ s < base + size
  BY <1>3
<1> QED BY <1>2, <1>4 DEF size

\* Moved to hold a serial below it, the window begins with its block.
LEMMA UpMeansBelow ==
  ASSUME NEW base \in Int, NEW serial \in Int,
         (serial - base) \div NB_ATOMS_PER_BLOCK < 0
  PROVE  LET up  == (serial - base) \div NB_ATOMS_PER_BLOCK
             new == base + up * NB_ATOMS_PER_BLOCK
         IN  serial < base /\ serial \in Window(new) /\ new \in Int
<1> DEFINE A  == NB_ATOMS_PER_BLOCK
           M  == MAX_NB_BLOCKS
           up == (serial - base) \div NB_ATOMS_PER_BLOCK
           new == base + up * NB_ATOMS_PER_BLOCK
<1>1. A \in Nat \ {0} /\ M \in Nat \ {0} /\ serial - base \in Int
  BY WindowAssumption
<1>2. up \in Int /\ up * A <= serial - base /\ serial - base < up * A + A
  BY <1>1, BlockDivision
<1> HIDE DEF up
<1>3. up <= -1 /\ -1 \in Int
  BY <1>2 DEF up
<1>4. up * A <= (-1) * A
  BY <1>2, <1>3, BlocksGrow
<1>5. up * A \in Int /\ (-1) * A = -A /\ 1 * A = A
  BY <1>1, <1>2
<1>6. A <= M * A /\ M * A \in Int
  BY <1>1, <1>5, BlocksGrow
<1> HIDE DEF A, M
<1>7. serial < base /\ new \in Int /\ new <= serial /\ serial < new + M * A
  BY <1>1, <1>2, <1>4, <1>5, <1>6 DEF A
<1>8. serial \in Window(new)
  BY <1>7, WindowIs DEF A, M
<1> QED BY <1>7, <1>8 DEF up

\* Moved to hold a serial above it, the window ends with its block.
LEMMA DownMeansAbove ==
  ASSUME NEW base \in Int, NEW serial \in Int,
         (serial - base) \div NB_ATOMS_PER_BLOCK + 1 - MAX_NB_BLOCKS > 0
  PROVE  LET down == (serial - base) \div NB_ATOMS_PER_BLOCK + 1 - MAX_NB_BLOCKS
             new  == base + down * NB_ATOMS_PER_BLOCK
         IN  /\ base + MAX_NB_BLOCKS * NB_ATOMS_PER_BLOCK <= serial
             /\ serial \in Window(new) /\ new \in Int
<1> DEFINE A  == NB_ATOMS_PER_BLOCK
           M  == MAX_NB_BLOCKS
           at == (serial - base) \div NB_ATOMS_PER_BLOCK
           down == at + 1 - M
           new  == base + down * NB_ATOMS_PER_BLOCK
<1>1. A \in Nat \ {0} /\ M \in Nat \ {0} /\ serial - base \in Int
  BY WindowAssumption
<1>2. at \in Int /\ at * A <= serial - base /\ serial - base < at * A + A
  BY <1>1, BlockDivision
<1> HIDE DEF at
<1>3. M <= at
  BY <1>1, <1>2 DEF at
<1>4. M * A <= at * A
  BY <1>1, <1>2, <1>3, BlocksGrow
<1>5. down * A = at * A + A - M * A /\ at * A \in Int /\ M * A \in Int
  BY <1>1, <1>2
<1>6. A <= M * A
  <2>1. 1 * A = A
    BY <1>1
  <2> QED BY <1>1, <2>1, BlocksGrow
<1> HIDE DEF A, M, down
<1>7. /\ base + M * A <= serial /\ new \in Int
      /\ new <= serial /\ serial < new + M * A
  BY <1>1, <1>2, <1>4, <1>5, <1>6 DEF A
<1>8. serial \in Window(new)
  BY <1>7, WindowIs DEF A, M
<1> QED BY <1>7, <1>8 DEF A, M, down, at

\* An atom that the window holds is stored, and the bounds follow it.
LEMMA StoredBounded ==
  ASSUME NEW sh, IsStack(sh), NEW serial \in Int, NEW atom, NEW send_flag,
         serial \in Window(sh.serial_0_base), Present(sh) \subseteq Window(sh.serial_0_base),
         MinOr(Present(sh) \cup {serial}, INT_MAX) = Min2(sh.serial_min, serial),
         MaxOr(Present(sh) \cup {serial}, SERIAL_INVALID) = Max2(sh.serial_max, serial)
  PROVE  Bounded([sh EXCEPT !.atoms = Stored(sh, serial, atom, send_flag),
                            !.serial_min = Min2(@, serial), !.serial_max = Max2(@, serial)])
<1> DEFINE cells == Stored(sh, serial, atom, send_flag)
           min   == Min2(sh.serial_min, serial)
           max   == Max2(sh.serial_max, serial)
           new   == [sh EXCEPT !.atoms = cells, !.serial_min = min, !.serial_max = max]
<1>1. DOMAIN cells = Present(sh) \cup {serial}
  BY DEF Stored, Present
<1> HIDE DEF cells, min, max
<1>2. /\ new.atoms = cells /\ new.serial_min = min /\ new.serial_max = max
      /\ new.serial_0_base = sh.serial_0_base
  BY DEF IsStack
<1>3. new = [sh EXCEPT !.atoms = Stored(sh, serial, atom, send_flag),
                       !.serial_min = Min2(@, serial), !.serial_max = Max2(@, serial)]
  BY DEF IsStack, cells, min, max
<1> HIDE DEF new
<1>4. Present(new) = Present(sh) \cup {serial}
  BY <1>1, <1>2 DEF Present
<1>5. Bounded(new)
  BY <1>2, <1>4 DEF Bounded, min, max
<1> QED BY <1>3, <1>5

\* The window moves to hold serial when it must: it then bounds what is left with
\* serial, which is not stored yet.
LEMMA ShiftedBounded ==
  ASSUME NEW stack, NEW N \in Nat, Fits(stack, N), Bounded(stack), NEW serial \in 1 .. N,
         N <= INT_MAX
  PROVE  LET sh == Shifted(stack, serial)
         IN  \/ sh = stack
             \/ /\ IsStack(sh) /\ Present(sh) \subseteq Window(sh.serial_0_base)
                /\ serial \in Window(sh.serial_0_base) /\ serial \notin Present(sh)
                /\ MinOr(Present(sh) \cup {serial}, INT_MAX) = Min2(sh.serial_min, serial)
                /\ MaxOr(Present(sh) \cup {serial}, SERIAL_INVALID)
                     = Max2(sh.serial_max, serial)
<1> DEFINE base == stack.serial_0_base
           up   == BlockIndex(stack, serial)
           down == BlockIndex(stack, serial) + 1 - MAX_NB_BLOCKS
           sh   == Shifted(stack, serial)
           P    == Present(sh)
<1>1. IsStack(stack) /\ Present(stack) \subseteq 1 .. N /\ serial \in Int /\ base \in Int
  BY StackFields DEF Fits
<1>2. up \in Int /\ down \in Int
  BY <1>1, BlockIndexType
<1>3. IsStack(sh) /\ P \subseteq Present(stack) /\ P \subseteq 1 .. N /\ P \subseteq Int
  <2>1. IsStack(sh) /\ P \subseteq Present(stack)
    BY ShiftedKeeps DEF OnlyAtomsOf
  <2> HIDE DEF sh
  <2> QED BY <1>1, <2>1
<1>4. CASE up < 0 /\ up > -BLOCK_DELTA_MAX
  <2> DEFINE moved == MovedBy(stack, up)
  <2>1. sh = ShiftedUp(stack, serial, up)
    BY <1>4 DEF Shifted
  <2>2. /\ IsStack(moved) /\ Present(moved) \subseteq Window(moved.serial_0_base)
        /\ moved.serial_0_base = base + up * NB_ATOMS_PER_BLOCK
    BY <1>1, <1>2, MovedByKeeps
  <2>3. serial < base /\ serial \in Window(base + up * NB_ATOMS_PER_BLOCK)
    BY <1>1, <1>4, UpMeansBelow DEF BlockIndex
  <2> HIDE DEF up, moved
  <2>4. /\ P = Present(moved) /\ sh.serial_0_base = moved.serial_0_base
        /\ sh.serial_min = serial /\ sh.serial_max = MaxOr(P, SERIAL_INVALID)
    BY <2>1, <2>2 DEF ShiftedUp, IsStack, Present, moved
  <2> HIDE DEF sh, P
  <2>5. P \subseteq Window(sh.serial_0_base) /\ serial \in Window(sh.serial_0_base)
    BY <2>2, <2>3, <2>4
  <2>6. \A y \in P : y \in Int /\ serial < y /\ y <= N
    <3> TAKE y \in P
    <3>1. y \in Window(base) /\ y \in Int /\ y <= N
      BY <1>1, <1>3 DEF Bounded
    <3>2. base <= y
      BY <1>1, <3>1, WindowIs
    <3> QED BY <1>1, <2>3, <3>1, <3>2
  <2>7. serial \notin P
    BY <1>1, <2>6
  <2>8. MinOr(P \cup {serial}, INT_MAX) = Min2(sh.serial_min, serial)
    <3>1. P \cup {serial} \subseteq Int /\ \A y \in P \cup {serial} : serial <= y
      BY <1>1, <2>6
    <3>2. MinOr(P \cup {serial}, INT_MAX) = serial
      BY <3>1, MinOrIs
    <3> QED BY <1>1, <2>4, <3>2 DEF Min2
  <2>9. MaxOr(P \cup {serial}, SERIAL_INVALID) = Max2(sh.serial_max, serial)
    BY <1>1, <1>3, <2>4, <2>6, MaxOrGrows DEF SERIAL_INVALID
  <2> QED BY <1>3, <2>5, <2>7, <2>8, <2>9 DEF P, sh
<1>5. CASE ~(up < 0 /\ up > -BLOCK_DELTA_MAX) /\ down > 0 /\ down < BLOCK_DELTA_MAX
  <2> DEFINE moved == MovedBy(stack, down)
  <2>1. sh = ShiftedDown(stack, serial, down)
    BY <1>5 DEF Shifted
  <2>2. /\ IsStack(moved) /\ Present(moved) \subseteq Window(moved.serial_0_base)
        /\ moved.serial_0_base = base + down * NB_ATOMS_PER_BLOCK
    BY <1>1, <1>2, MovedByKeeps
  <2>3. /\ base + MAX_NB_BLOCKS * NB_ATOMS_PER_BLOCK <= serial
        /\ serial \in Window(base + down * NB_ATOMS_PER_BLOCK)
    BY <1>1, <1>5, DownMeansAbove DEF BlockIndex
  <2> HIDE DEF down, moved
  <2>4. /\ P = Present(moved) /\ sh.serial_0_base = moved.serial_0_base
        /\ sh.serial_max = serial /\ sh.serial_min = MinOr(P, INT_MAX)
    BY <2>1, <2>2 DEF ShiftedDown, IsStack, Present, moved
  <2> HIDE DEF sh, P
  <2>5. P \subseteq Window(sh.serial_0_base) /\ serial \in Window(sh.serial_0_base)
    BY <2>2, <2>3, <2>4
  <2>6. \A y \in P : y \in Int /\ y < serial /\ 1 <= y
    <3> TAKE y \in P
    <3>1. y \in Window(base) /\ y \in Int /\ 1 <= y
      BY <1>1, <1>3 DEF Bounded
    <3>2. y < base + MAX_NB_BLOCKS * NB_ATOMS_PER_BLOCK
      BY <1>1, <3>1, WindowIs
    <3>3. MAX_NB_BLOCKS * NB_ATOMS_PER_BLOCK \in Int
      BY WindowAssumption
    <3> QED BY <1>1, <2>3, <3>1, <3>2, <3>3
  <2>7. serial \notin P
    BY <1>1, <2>6
  <2>8. MaxOr(P \cup {serial}, SERIAL_INVALID) = Max2(sh.serial_max, serial)
    <3>1. P \cup {serial} \subseteq Int /\ \A y \in P \cup {serial} : y <= serial
      BY <1>1, <2>6
    <3>2. MaxOr(P \cup {serial}, SERIAL_INVALID) = serial
      BY <3>1, MaxOrIs
    <3> QED BY <1>1, <2>4, <3>2 DEF Max2
  <2>9. MinOr(P \cup {serial}, INT_MAX) = Min2(sh.serial_min, serial)
    <3>1. serial <= INT_MAX /\ INT_MAX \in Int
      BY IntMaxType
    <3> QED BY <1>1, <1>3, <2>4, <2>6, <3>1, MinOrGrows
  <2> QED BY <1>3, <2>5, <2>7, <2>8, <2>9 DEF P, sh
<1>6. CASE ~(up < 0 /\ up > -BLOCK_DELTA_MAX) /\ ~(down > 0 /\ down < BLOCK_DELTA_MAX)
  BY <1>6 DEF Shifted
<1> QED BY <1>4, <1>5, <1>6

\* Whether the atom is stored or not, and wherever the window moves for it, the
\* bounds stay exact.
LEMMA PutAtomBounded ==
  ASSUME NEW stack, NEW N \in Nat, Fits(stack, N), Bounded(stack), NEW n \in Node,
         NEW serial \in 1 .. N, N <= INT_MAX, NEW atom, NEW send_flag
  PROVE  Bounded(PutAtom(stack, n, serial, atom, send_flag))
<1> DEFINE sh  == Shifted(stack, serial)
           new == [sh EXCEPT !.atoms = Stored(sh, serial, atom, send_flag),
                             !.serial_min = Min2(@, serial), !.serial_max = Max2(@, serial)]
           put == PutAtom(stack, n, serial, atom, send_flag)
<1>1. \/ put = stack
      \/ put = sh /\ (serial \notin Window(sh.serial_0_base) \/ serial \in Present(sh))
      \/ put = new /\ serial \in Window(sh.serial_0_base)
  BY DEF PutAtom
<1>2. /\ IsStack(stack) /\ serial \in Int /\ INT_MAX \in Int /\ serial <= INT_MAX
      /\ Present(stack) \subseteq Int /\ \A y \in Present(stack) : 1 <= y /\ y <= N
  BY IntMaxType, StackFields DEF Fits
<1>3. \/ sh = stack
      \/ /\ IsStack(sh) /\ Present(sh) \subseteq Window(sh.serial_0_base)
         /\ serial \in Window(sh.serial_0_base) /\ serial \notin Present(sh)
         /\ MinOr(Present(sh) \cup {serial}, INT_MAX) = Min2(sh.serial_min, serial)
         /\ MaxOr(Present(sh) \cup {serial}, SERIAL_INVALID) = Max2(sh.serial_max, serial)
  BY ShiftedBounded
<1> HIDE DEF put, sh
<1>4. CASE put = stack
  BY <1>4 DEF put
<1>5. CASE put = sh /\ (serial \notin Window(sh.serial_0_base) \/ serial \in Present(sh))
  BY <1>3, <1>5 DEF put
<1>6. CASE put = new /\ serial \in Window(sh.serial_0_base)
  <2>1. IsStack(sh) /\ Present(sh) \subseteq Window(sh.serial_0_base)
    BY <1>2, <1>3 DEF Bounded
  <2>2. /\ MinOr(Present(sh) \cup {serial}, INT_MAX) = Min2(sh.serial_min, serial)
        /\ MaxOr(Present(sh) \cup {serial}, SERIAL_INVALID) = Max2(sh.serial_max, serial)
    <3>1. CASE sh = stack
      <4>1. /\ MinOr(Present(stack) \cup {serial}, INT_MAX)
                 = Min2(MinOr(Present(stack), INT_MAX), serial)
            /\ MaxOr(Present(stack) \cup {serial}, SERIAL_INVALID)
                 = Max2(MaxOr(Present(stack), SERIAL_INVALID), serial)
        BY <1>2, MinOrGrows, MaxOrGrows DEF SERIAL_INVALID
      <4> QED BY <3>1, <4>1 DEF Bounded
    <3> QED BY <1>3, <3>1
  <2>3. Bounded(new)
    BY <1>2, <1>6, <2>1, <2>2, StoredBounded
  <2> QED BY <1>6, <2>3 DEF put
<1> QED BY <1>1, <1>4, <1>5, <1>6

----------------------------------------------------------------------------
(* The life of a stack.                                                    *)

\* What is written are atoms, as many as an int counts.
LEMMA WrittenIs ==
  /\ Len(Written) \in Nat /\ Len(Written) <= INT_MAX
  /\ \A s \in 1 .. Len(Written) : Written[s] \in Atom /\ Written[s].order_n <= Len(Written)
BY LifeAssumption

\* A stack that holds what was written fits in what was written.
LEMMA LifeFits == ASSUME LInv PROVE Fits(st, Len(Written))
BY WrittenIs DEF LInv, Fits

\* Operations that leave atoms and bounds as they are.
LEMMA LifeKept ==
  ASSUME LInv, NEW new, IsStack(new), SameAtoms(st, new), new.serial_min = st.serial_min,
         st' = new
  PROVE  LInv'
<1>1. Bounded(new)
  BY DEF LInv, SameAtoms, Bounded
<1>2. \A s \in Present(new) : s \in 1 .. Len(Written) /\ AtomAt(new, s) = Written[s]
  BY DEF LInv, SameAtoms
<1> QED BY <1>1, <1>2 DEF LInv

LEMMA InitLife == Init => LInv
<1> SUFFICES ASSUME Init PROVE LInv
  OBVIOUS
<1>1. serial_0 \in Int
  BY LifeAssumption DEF Init, SERIAL_START
<1> DEFINE base == ((serial_0 - SERIAL_START) \div NB_ATOMS_PER_BLOCK)
                     * NB_ATOMS_PER_BLOCK + SERIAL_START
           none == [s \in {} |-> {}]
<1>2. base \in Int
  <2>1. serial_0 - SERIAL_START \in Int
    BY <1>1 DEF SERIAL_START
  <2>2. (serial_0 - SERIAL_START) \div NB_ATOMS_PER_BLOCK \in Int
    BY <2>1, BlockDivision
  <2> QED BY <2>2, WindowAssumption DEF SERIAL_START
<1> DEFINE sends == [t \in Node |-> serial_0]
           seqs  == [t \in Node |-> SEQ_INVALID]
           n_1   == SerialN1(base)
<1> HIDE DEF base
<1>3. st = [serial_0_base |-> base, serial_0_real |-> serial_0,
            serial_min |-> INT_MAX, serial_max |-> SERIAL_INVALID,
            serial_draft |-> SERIAL_INVALID, serial_reference |-> SERIAL_INVALID,
            serial_miss_min |-> n_1, serial_miss_max |-> serial_0,
            serial_min_to_send |-> sends, seq_0s |-> seqs, atoms |-> none]
  BY DEF Init, StackInit, base
<1>4. n_1 \in Int /\ INT_MAX \in Int /\ sends \in [Node -> Int] /\ seqs \in [Node -> Int]
  BY <1>1, <1>2, SerialN1Type, IntMaxType DEF SEQ_INVALID
<1>5. DOMAIN none = {} /\ none \in [{} -> Cell]
  OBVIOUS
<1> HIDE DEF none, sends, seqs, n_1
<1>6. Present(st) = {}
  BY <1>3, <1>5 DEF Present
<1>7. IsStack(st)
  BY <1>1, <1>2, <1>3, <1>4, <1>5 DEF IsStack, SERIAL_INVALID
<1>8. Bounded(st)
  BY <1>3, <1>6 DEF Bounded, MinOr, MaxOr
<1> QED BY <1>6, <1>7, <1>8 DEF LInv

\* An atom that arrives.
LEMMA ReceiveLife ==
  ASSUME LInv, NEW serial \in 1 .. Len(Written), Receive(serial) PROVE LInv'
<1> DEFINE N    == Len(Written)
           atom == Written[serial]
           flag == Node \ {Org}
           new  == PutAtom(st, Me, serial, atom, flag)
<1>1. N \in Nat /\ N <= INT_MAX /\ atom \in Atom /\ Fits(st, N) /\ Bounded(st)
  BY WrittenIs, LifeFits DEF LInv
<1>2. Me \in Node /\ flag \in SUBSET Node /\ serial \in 1 .. N
  BY LifeAssumption
<1>3. st' = new
  BY DEF Receive
<1>4. \A s \in Present(st) : s \in 1 .. N /\ AtomAt(st, s) = Written[s]
  BY DEF LInv
<1> HIDE DEF N, flag
<1>5. /\ IsStack(new)
      /\ \A s \in Present(new) : \/ s \in Present(st) /\ AtomAt(new, s) = AtomAt(st, s)
                                 \/ s = serial /\ AtomAt(new, s) = atom
  BY <1>1, <1>2, PutAtomKeeps
<1>6. Bounded(new)
  BY <1>1, <1>2, PutAtomBounded
<1> HIDE DEF new
<1>7. \A s \in Present(new) : s \in 1 .. N /\ AtomAt(new, s) = Written[s]
  BY <1>2, <1>4, <1>5
<1> QED BY <1>3, <1>5, <1>6, <1>7 DEF LInv, N

\* A reading marks atoms, and widens the range to ask for.
LEMMA PoppedLife ==
  ASSUME NEW stack, NEW N \in Nat, Fits(stack, N), NEW seqs, NEW get_all
  PROVE  LET new == Popped(stack, seqs, get_all)
         IN  IsStack(new) /\ SameAtoms(stack, new) /\ new.serial_min = stack.serial_min
<1>1. Popped(stack, seqs, get_all).serial_min = stack.serial_min
  BY DEF Popped, Fits, IsStack
<1> QED BY <1>1, PoppedKeeps

LEMMA PopDraftLife == ASSUME LInv, NEW q, PopDraft(q) PROVE LInv'
<1> DEFINE get_all == FALSE
<1>1. st' = Popped(st, {q}, get_all)
  BY DEF PopDraft
<1> HIDE DEF get_all
<1>2. Fits(st, Len(Written)) /\ Len(Written) \in Nat
  BY LifeFits, WrittenIs
<1> DEFINE new == Popped(st, {q}, get_all)
<1>3. IsStack(new) /\ SameAtoms(st, new) /\ new.serial_min = st.serial_min
  BY <1>2, PoppedLife
<1> HIDE DEF new
<1> QED BY <1>1, <1>3, LifeKept DEF new

LEMMA PopReferenceLife == ASSUME LInv, NEW lo, NEW hi, PopReference(lo, hi) PROVE LInv'
<1> DEFINE get_all == TRUE
           mid     == ClearRecent(st, hi)
           new     == Popped(mid, lo .. hi, get_all)
<1>1. st' = new
  BY DEF PopReference
<1> HIDE DEF get_all
<1>2. Fits(st, Len(Written)) /\ Len(Written) \in Nat /\ IsStack(st)
  BY LifeFits, WrittenIs DEF Fits
<1>3. IsStack(mid) /\ SameAtoms(st, mid) /\ mid.serial_min = st.serial_min
  <2>1. mid.serial_min = st.serial_min
    BY <1>2 DEF ClearRecent, IsStack
  <2> QED BY <1>2, <2>1, ClearRecentKeeps
<1> HIDE DEF mid
<1>4. Fits(mid, Len(Written))
  BY <1>2, <1>3 DEF Fits, SameAtoms
<1>5. IsStack(new) /\ SameAtoms(mid, new) /\ new.serial_min = mid.serial_min
  BY <1>2, <1>4, PoppedLife
<1> HIDE DEF new
<1>6. SameAtoms(st, new)
  BY <1>3, <1>5 DEF SameAtoms
<1> QED BY <1>1, <1>3, <1>5, <1>6, LifeKept

\* The rest of what is done to a stack.
LEMMA RestLife ==
  ASSUME LInv, NEW new, st' = new,
         \/ new \in {Calc(st), Sent(st, Peer), GetMiss(st)}
         \/ \E lo, hi \in Int : new = MissInvalidate(st, Peer, lo, hi)
         \/ \E s \in 1 .. Len(Written) : new = UpdateSerialMissMax(st, s)
  PROVE  LInv'
<1>1. IsStack(st) /\ Peer \in Node /\ Fits(st, Len(Written)) /\ Len(Written) \in Nat
  BY LifeAssumption, LifeFits, WrittenIs DEF LInv
<1>2. CASE new = Calc(st)
  <2>1. new.serial_min = st.serial_min
    BY <1>1, <1>2 DEF Calc, IsStack
  <2> QED BY <1>1, <1>2, <2>1, CalcKeeps, LifeKept
<1>3. CASE new = Sent(st, Peer)
  <2>1. new.serial_min = st.serial_min
    BY <1>1, <1>3 DEF Sent, IsStack
  <2> QED BY <1>1, <1>3, <2>1, SentKeeps, LifeKept
<1>4. CASE new = GetMiss(st)
  <2>1. new.serial_min = st.serial_min
    BY <1>1, <1>4 DEF GetMiss, IsStack
  <2> QED BY <1>1, <1>4, <2>1, GetMissKeeps, LifeKept
<1>5. ASSUME NEW lo \in Int, NEW hi \in Int, new = MissInvalidate(st, Peer, lo, hi)
      PROVE  LInv'
  <2>1. new.serial_min = st.serial_min
    BY <1>1, <1>5 DEF MissInvalidate, IsStack
  <2> QED BY <1>1, <1>5, <2>1, MissInvalidateKeeps, LifeKept
<1>6. ASSUME NEW s \in 1 .. Len(Written), new = UpdateSerialMissMax(st, s) PROVE LInv'
  <2>1. new.serial_min = st.serial_min
    BY <1>1, <1>6 DEF UpdateSerialMissMax, IsStack
  <2>2. s \in Int
    OBVIOUS
  <2> QED BY <1>1, <1>6, <2>1, <2>2, UpdateSerialMissMaxKeeps, LifeKept
<1> QED BY <1>2, <1>3, <1>4, <1>5, <1>6

LEMMA NextLife == LInv /\ [LifeNext /\ UNCHANGED serial_0]_<<st, serial_0>> => LInv'
<1> SUFFICES ASSUME LInv, [LifeNext /\ UNCHANGED serial_0]_<<st, serial_0>> PROVE LInv'
  OBVIOUS
<1>1. CASE UNCHANGED <<st, serial_0>>
  BY <1>1 DEF LInv
<1>2. ASSUME NEW s \in 1 .. Len(Written), Receive(s) PROVE LInv'
  BY <1>2, ReceiveLife
<1>3. ASSUME NEW s \in 1 .. Len(Written), HearSerial(s) PROVE LInv'
  BY <1>3, RestLife DEF HearSerial
<1>4. CASE Calculate \/ Send \/ SearchMiss
  BY <1>4, RestLife DEF Calculate, Send, SearchMiss
<1>5. ASSUME NEW q \in Int, PopDraft(q) PROVE LInv'
  BY <1>5, PopDraftLife
<1>6. ASSUME NEW lo \in Int, NEW hi \in Int, PopReference(lo, hi) PROVE LInv'
  BY <1>6, PopReferenceLife
<1>7. ASSUME NEW lo \in Int, NEW hi \in Int, Invalidate(lo, hi) PROVE LInv'
  BY <1>7, RestLife DEF Invalidate
<1> QED BY <1>1, <1>2, <1>3, <1>4, <1>5, <1>6, <1>7 DEF LifeNext

\* serial_min and serial_max bound exactly what the window holds, though both are
\* kept beside it through every shift up or down (_lw6dat_stack_put_atom).
THEOREM AlwaysExact == LifeSpec => []BoundsExact
<1>1. Init => LInv
  BY InitLife
<1>2. LInv /\ [LifeNext /\ UNCHANGED serial_0]_<<st, serial_0>> => LInv'
  BY NextLife
<1>3. LInv => BoundsExact
  BY DEF LInv, Bounded, BoundsExact
<1> QED BY <1>1, <1>2, <1>3, PTL DEF LifeSpec
=============================================================================
