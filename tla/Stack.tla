------------------------------- MODULE Stack -------------------------------
(***************************************************************************)
(* One stack of the data warehouse (src/lib/dat/dat-stack.c): the atoms    *)
(* one node has written, as far as the local node knows them.  An atom is  *)
(* a fragment of a message; the atoms a node writes are numbered by        *)
(* consecutive serials, and a message of order_n atoms occupies order_n    *)
(* consecutive serials, its atom order_i being the (order_i+1)-th of them. *)
(* The seq of a message is the game round it belongs to.                   *)
(*                                                                         *)
(* This module has no variable: it defines, for the record that stands for *)
(* a _lw6dat_stack_t, what each function of dat-stack.c answers and which  *)
(* stack it leaves behind.  The loops of the C code are written as sets    *)
(* here; StackLoops transcribes the loops themselves, and TLC compares the *)
(* two.                                                                    *)
(***************************************************************************)
EXTENDS Integers, FiniteSetsExt, Functions

CONSTANTS
  Node,               \* ids of the nodes; also index what C indexes by stack
  NB_ATOMS_PER_BLOCK, \* _LW6DAT_NB_ATOMS_PER_BLOCK, 2000 in the code
  MAX_NB_BLOCKS,      \* _LW6DAT_MAX_NB_BLOCKS, 500 in the code
  BLOCK_DELTA_MAX,    \* _LW6DAT_BLOCK_DELTA_MAX, 45000 in the code
  MISS_MAX_RANGE      \* miss-max-range of p2p-const.xml, 100 in the code

ASSUME WindowAssumption ==
  /\ NB_ATOMS_PER_BLOCK \in Nat \ {0}
  /\ MAX_NB_BLOCKS \in Nat \ {0}
  /\ BLOCK_DELTA_MAX \in Nat \ {0}
  /\ MISS_MAX_RANGE \in Nat

SERIAL_INVALID == 0
SERIAL_START   == 1
SEQ_INVALID    == -1
SEQ_START      == 0
INT_MAX        == 2147483647

Min2(a, b) == IF a <= b THEN a ELSE b
Max2(a, b) == IF a >= b THEN a ELSE b
MaxOr(S, default) == IF S = {} THEN default ELSE Max(S)
MinOr(S, default) == IF S = {} THEN default ELSE Min(S)

----------------------------------------------------------------------------
(* Atoms and stacks.                                                       *)

DATA == "DATA"
META == "META"

\* What a node writes once and for all at a serial, and what travels.
Atom == [type : {DATA, META}, seq : Int, order_i : Nat, order_n : Nat]

\* An atom and the bookkeeping a stack keeps next to it.
Cell == [atom : Atom, send_flag : SUBSET Node, sent_status : SUBSET Node,
         update_msg_called : BOOLEAN]

\* (Definitions called Slip... are mistakes the code could have made: none is
\* used, each is there to see that a property notices it.)
SlipMarkSent(cell, peer) == \* an index taken for a flag
  [cell EXCEPT !.sent_status = @ \cup {0}]

MarkPopped(cell)       == [cell EXCEPT !.update_msg_called = TRUE]
MarkSent(cell, peer)   == [cell EXCEPT !.sent_status = @ \cup {peer}]
MarkUnsent(cell, peer) == [cell EXCEPT !.sent_status = @ \ {peer}]

\* A stack; the serials it has an atom for are the domain of atoms.
IsStack(st) ==
  /\ st \in [serial_0_base : Int, serial_0_real : Int,
             serial_min : Int, serial_max : Int,
             serial_draft : Int, serial_reference : Int,
             serial_miss_min : Int, serial_miss_max : Int,
             serial_min_to_send : [Node -> Int], seq_0s : [Node -> Int],
             atoms : {st.atoms}]
  /\ DOMAIN st.atoms \subseteq Int
  /\ st.atoms \in [DOMAIN st.atoms -> Cell]

\* _lw6dat_stack_t.serial_n_1: the last serial of the window of blocks.
SerialN1(base) == base + MAX_NB_BLOCKS * NB_ATOMS_PER_BLOCK - 1
Window(base) == base .. SerialN1(base)

\* _lw6dat_stack_get_block_index: negative below the window.
BlockIndex(st, serial) == (serial - st.serial_0_base) \div NB_ATOMS_PER_BLOCK

\* _lw6dat_stack_get_atom answers an atom exactly for these serials.
Present(st) == DOMAIN st.atoms
AtomAt(st, serial) == st.atoms[serial].atom

\* _lw6dat_stack_init.  The loop that should store seq_0 in seq_0s never runs
\* (its condition needs ret < 0), so every seq_0s stays invalid.
StackInit(serial_0) ==
  LET base == ((serial_0 - SERIAL_START) \div NB_ATOMS_PER_BLOCK)
                 * NB_ATOMS_PER_BLOCK + SERIAL_START
  IN  [serial_0_base |-> base, serial_0_real |-> serial_0,
       serial_min |-> INT_MAX, serial_max |-> SERIAL_INVALID,
       serial_draft |-> SERIAL_INVALID, serial_reference |-> SERIAL_INVALID,
       serial_miss_min |-> SerialN1(base), serial_miss_max |-> serial_0,
       serial_min_to_send |-> [t \in Node |-> serial_0],
       seq_0s |-> [t \in Node |-> SEQ_INVALID],
       atoms |-> [s \in {} |-> {}]]

----------------------------------------------------------------------------
(* Writing: _lw6dat_stack_put_atom, _lw6dat_stack_put_msg.                 *)

\* The window moves by delta blocks; what falls out of it is forgotten.
MovedBy(st, delta) ==
  LET base == st.serial_0_base + delta * NB_ATOMS_PER_BLOCK
  IN  [st EXCEPT !.serial_0_base = base,
                 !.serial_0_real = @ + delta * NB_ATOMS_PER_BLOCK,
                 !.atoms = Restrict(@, Window(base) \cap DOMAIN @)]

SlipShiftedUp(st, serial, delta) == \* serial_max is not looked for again
  [MovedBy(st, delta) EXCEPT !.serial_min = serial,
                             !.serial_min_to_send = [t \in Node |-> serial]]

ShiftedUp(st, serial, delta) ==
  LET moved == MovedBy(st, delta)
  IN  [moved EXCEPT !.serial_min = serial,
                    !.serial_max = MaxOr(Present(moved), SERIAL_INVALID),
                    !.serial_min_to_send = [t \in Node |-> serial]]

ShiftedDown(st, serial, delta) ==
  LET moved == MovedBy(st, delta)
  IN  [moved EXCEPT !.serial_max = serial,
                    !.serial_min = MinOr(Present(moved), INT_MAX),
                    !.serial_min_to_send =
                        [t \in Node |-> Max2(@[t], moved.serial_0_real)]]

\* The window is moved to hold serial, unless the leap is too big.
Shifted(st, serial) ==
  LET up   == BlockIndex(st, serial)
      down == BlockIndex(st, serial) + 1 - MAX_NB_BLOCKS
  IN  IF up < 0 /\ up > -BLOCK_DELTA_MAX THEN ShiftedUp(st, serial, up)
      ELSE IF down > 0 /\ down < BLOCK_DELTA_MAX THEN ShiftedDown(st, serial, down)
      ELSE st

\* _lw6dat_block_put_atom: an atom already there is kept, whatever comes.
Stored(st, serial, atom, send_flag) ==
  IF serial \in Present(st) THEN st.atoms
  ELSE [s \in Present(st) \cup {serial} |->
          IF s = serial
          THEN [atom |-> atom, send_flag |-> send_flag, sent_status |-> {},
                update_msg_called |-> FALSE]
          ELSE st.atoms[s]]

\* The stack after local node n was given atom, whether it keeps it or not.
PutAtom(st, n, serial, atom, send_flag) ==
  LET sh == Shifted(st, serial)
  IN  IF atom.seq < st.seq_0s[n] THEN st
      ELSE IF \/ serial \notin Window(sh.serial_0_base)
              \/ serial \in Present(sh) /\ AtomAt(sh, serial) # atom
           THEN sh
      ELSE [sh EXCEPT !.atoms = Stored(sh, serial, atom, send_flag),
                      !.serial_min = Min2(@, serial),
                      !.serial_max = Max2(@, serial)]

\* The local node n puts a message of order_n atoms after all it has put:
\* order_n calls of put_atom, each at serial_max + 1.
PutMsg(st, n, type, seq, order_n, send_flag) ==
  LET first == st.serial_max + 1
      last  == st.serial_max + order_n
      sh    == Shifted(st, last)
      new   == (first .. last) \cap Window(sh.serial_0_base)
  IN  IF seq < st.seq_0s[n] \/ last \notin Window(sh.serial_0_base) THEN st
      ELSE [sh EXCEPT
              !.atoms = [s \in DOMAIN @ \cup new |->
                 IF s \in new
                 THEN [atom |-> [type |-> type, seq |-> seq,
                                 order_i |-> s - first, order_n |-> order_n],
                       send_flag |-> send_flag, sent_status |-> {},
                       update_msg_called |-> FALSE]
                 ELSE @[s]],
              !.serial_min = Min2(@, Min(new)),
              !.serial_max = last]

----------------------------------------------------------------------------
(* Draft and reference: _lw6dat_stack_calc_serial_draft_and_reference.     *)

\* A whole message is present from serial head on.
CompleteAt(st, head) ==
  /\ head \in Present(st)
  /\ AtomAt(st, head).order_i = 0
  /\ \A i \in 1 .. AtomAt(st, head).order_n - 1 :
        /\ head + i \in Present(st)
        /\ AtomAt(st, head + i).seq = AtomAt(st, head).seq
        /\ AtomAt(st, head + i).order_i = i

LastOf(st, head) == head + AtomAt(st, head).order_n - 1

\* The calculation resumes from the last reference.
CalcStart(st) == Max2(st.serial_min, st.serial_reference)

SlipCompleteHeads(st) == \* the loop starts one too far
  {h \in Present(st) : h > CalcStart(st) /\ CompleteAt(st, h)}

CompleteHeads(st) == {h \in Present(st) : h >= CalcStart(st) /\ CompleteAt(st, h)}

SlipNoHoleHeads(st) == CompleteHeads(st) \* holes are not noticed

\* Those reached from the start through complete messages only.
NoHoleHeads(st) ==
  {h \in CompleteHeads(st) :
     \A s \in CalcStart(st) .. h : \E g \in CompleteHeads(st) : s \in g .. LastOf(st, g)}

CalcFinds(st) == CompleteHeads(st) # {}

Calc(st) ==
  [st EXCEPT !.serial_draft     = MaxOr(CompleteHeads(st), @),
             !.serial_reference = MaxOr(NoHoleHeads(st), @)]

\* The seq of the atom at serial, where the window lets it be asked for.
SeqAt(st, serial) ==
  IF serial \in Present(st) /\ serial >= st.serial_0_real
  THEN AtomAt(st, serial).seq ELSE SEQ_INVALID

SeqMin(st)   == SeqAt(st, st.serial_min)
SeqMax(st)   == SeqAt(st, st.serial_max)
SeqDraft(st) == SeqAt(st, st.serial_draft)

SlipSeqReference(st) == SeqAt(st, st.serial_reference) \* without the -1

\* One less than the seq of the reference atom: that seq may still get more
\* messages, the ones before may not.
SeqReference(st) == Max2(SeqAt(st, st.serial_reference) - 1, SEQ_INVALID)

----------------------------------------------------------------------------
(* Reading messages: _lw6dat_stack_update_msg_list_by_seq.                 *)

Having(st, seq) == {s \in Present(st) : AtomAt(st, s).seq = seq}
HeadOf(st, serial) == serial - AtomAt(st, serial).order_i

\* _lw6dat_stack_seq2serial scans from the end that looks closest.
ScanFromMin(st, seq) ==
  LET lo == AtomAt(st, st.serial_min).seq
      hi == AtomAt(st, st.serial_max).seq
  IN  lo < hi /\ lo <= seq /\ seq <= hi /\ seq - lo < hi - seq

Seq2Serial(st, seq) ==
  IF st.serial_max < st.serial_0_real \/ Having(st, seq) = {} THEN SERIAL_INVALID
  ELSE HeadOf(st, IF ScanFromMin(st, seq) THEN Min(Having(st, seq))
                                          ELSE Max(Having(st, seq)))

\* The search starts from one message of seq, provided its first atom is
\* there.  It goes to the message after while the first atom of that one is
\* there, and to the message before while its last atom is there.  A visited
\* message may lack atoms; one that begins below serial_min ends the search.
Heads(st, seq) == {HeadOf(st, s) : s \in Having(st, seq)}
SizeFrom(st, seq, head) ==
  AtomAt(st, CHOOSE s \in Having(st, seq) : HeadOf(st, s) = head).order_n

Visited(st, seq) ==
  LET from == Seq2Serial(st, seq)
      heads == {h \in Heads(st, seq) : h >= st.serial_min}
      After(h) == h + SizeFrom(st, seq, h)
      Linked(a, b) == \* every message from a to b leads to the next one
        \A h \in heads : a <= h /\ h < b => After(h) \in heads
      Upward(h)   == /\ from <= h /\ Linked(from, h)
                     /\ \A g \in heads : from < g /\ g <= h => g \in Present(st)
      Downward(h) == /\ h <= from /\ Linked(h, from)
                     /\ \A g \in heads : h <= g /\ g < from =>
                           After(g) - 1 \in Present(st)
  IN  IF seq = SEQ_INVALID \/ seq < SeqMin(st) \/ from \notin heads \cap Present(st)
      THEN {}
      ELSE {h \in heads : Upward(h) \/ Downward(h)}

SerialsOf(st, seq, heads) ==
  UNION {h .. h + SizeFrom(st, seq, h) - 1 : h \in heads}

SlipGiven(st, seq, get_all) == \* given even in part
  {h \in Visited(st, seq) :
     get_all \/ \A s \in SerialsOf(st, seq, {h}) \cap Present(st) :
                   ~st.atoms[s].update_msg_called}

\* The messages given for one seq: whole, and not popped yet unless get_all.
Given(st, seq, get_all) ==
  {h \in Visited(st, seq) :
     LET serials == SerialsOf(st, seq, {h})
     IN  /\ serials \subseteq Present(st)
         /\ get_all \/ \A s \in serials : ~st.atoms[s].update_msg_called}

\* _clear_recent forgets that the first atom found for seq was popped (the
\* loop looks at the same serial at every turn).
ClearRecent(st, seq) ==
  LET from == Seq2Serial(st, seq)
  IN  IF seq >= SeqMin(st) /\ from \in Present(st)
      THEN [st EXCEPT !.atoms[from].update_msg_called = FALSE] ELSE st

\* The list of the messages of the seqs asked for, as the heads of the
\* messages that hold data, and the stack it leaves: they are marked popped,
\* and the atoms a visited message lacks widen the range to ask for.
MsgList(st, seqs, get_all) ==
  {h \in UNION {Given(st, q, get_all) : q \in seqs} : AtomAt(st, h).type = DATA}

Popped(st, seqs, get_all) ==
  LET popped == UNION {SerialsOf(st, q, Given(st, q, get_all)) : q \in seqs}
      lacked == (UNION {SerialsOf(st, q, Visited(st, q)) : q \in seqs}) \ Present(st)
  IN  [st EXCEPT
         !.atoms = [s \in Present(st) |->
            IF s \in popped THEN MarkPopped(st.atoms[s]) ELSE st.atoms[s]],
         !.serial_miss_min = Min2(@, MinOr(lacked, @)),
         !.serial_miss_max = Max2(@, MaxOr(lacked, @))]

----------------------------------------------------------------------------
(* Sending: _lw6dat_stack_update_atom_str_list_not_sent.                   *)

NotSentFrom(st, target) == Max2(st.serial_min, st.serial_min_to_send[target])

ToSend(st, target) ==
  {s \in Present(st) : /\ s >= NotSentFrom(st, target)
                       /\ target \in st.atoms[s].send_flag
                       /\ target \notin st.atoms[s].sent_status
                       /\ AtomAt(st, s).seq >= st.seq_0s[target]}

Sent(st, target) ==
  LET before == {s \in ToSend(st, target) :
                   NotSentFrom(st, target) .. s \subseteq Present(st)}
  IN  [st EXCEPT
         !.atoms = [s \in Present(st) |->
            IF s \in ToSend(st, target) THEN MarkSent(st.atoms[s], target)
                                        ELSE st.atoms[s]],
         !.serial_min_to_send[target] = MaxOr(before, @)]

SlipMissInvalidate(st, target, lo, hi) == \* serial_min_to_send is not lowered
  [st EXCEPT !.atoms = [s \in Present(st) |->
     IF s \in lo .. hi THEN MarkUnsent(st.atoms[s], target) ELSE st.atoms[s]]]

\* _lw6dat_stack_miss_invalidate: target asks for serials lo .. hi again.
MissInvalidate(st, target, lo, hi) ==
  LET first == Max2(st.serial_min, lo)
      last  == Min2(st.serial_max, hi)
  IN  IF first > last THEN st
      ELSE [st EXCEPT
              !.atoms = [s \in Present(st) |->
                 IF s \in first .. last THEN MarkUnsent(st.atoms[s], target)
                                        ELSE st.atoms[s]],
              !.serial_min_to_send[target] = Min2(@, first)]

----------------------------------------------------------------------------
(* Asking for what is missing: _lw6dat_stack_get_miss.                     *)

\* The range searched: the one left by the last search, or everything up to
\* the last serial known to exist.
MissZone(st) ==
  IF st.serial_miss_min <= st.serial_miss_max
  THEN st.serial_miss_min .. st.serial_miss_max
  ELSE st.serial_0_real .. Max2(st.serial_max, st.serial_miss_max)

\* The search needs a serial_max that means something.
MissSearches(st) == st.serial_max \in st.serial_0_real .. SerialN1(st.serial_0_base)

SlipGetMiss(st) == \* as far as the search may go, not as far as it found
  LET n_1   == SerialN1(st.serial_0_base)
      holes == MissZone(st) \ Present(st)
      first == IF \E s \in holes : s < n_1 THEN Min(holes) ELSE MaxOr(holes, n_1)
  IN  IF ~MissSearches(st) THEN st
      ELSE [st EXCEPT !.serial_miss_min = first,
                      !.serial_miss_max = IF first < n_1 THEN first + MISS_MAX_RANGE ELSE @]

GetMiss(st) ==
  LET n_1     == SerialN1(st.serial_0_base)
      holes   == MissZone(st) \ Present(st)
      first   == IF \E s \in holes : s < n_1 THEN Min(holes) ELSE MaxOr(holes, n_1)
      reached == {s \in holes : first <= s /\ s <= first + MISS_MAX_RANGE}
  IN  IF ~MissSearches(st) THEN st
      ELSE [st EXCEPT !.serial_miss_min = first,
                      !.serial_miss_max = IF first < n_1 THEN Max(reached) ELSE @]

\* After that search, there is a MISS to send.
HasMiss(st) == MissSearches(st) /\ st.serial_miss_min <= st.serial_miss_max

UpdateSerialMissMax(st, serial) ==
  [st EXCEPT !.serial_miss_max = Max2(@, serial)]
=============================================================================
