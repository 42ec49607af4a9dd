----------------------------- MODULE StackLoops -----------------------------
(***************************************************************************)
(* The loops and the recursion of dat-stack.c, turn by turn.  Stack states *)
(* their outcome as sets of serials, which is what the rest of the project *)
(* reads and proves about; here every operator follows the control of the  *)
(* C function it is named after, so that TLC can compare the two on every  *)
(* stack a small instance reaches (MCStack).                               *)
(***************************************************************************)
EXTENDS Stack

\* _lw6dat_stack_put_msg: one put_atom per fragment, each after the last.
RECURSIVE PutMsgLoop(_, _, _, _, _, _)
PutMsgLoop(st, n, seq, order_i, order_n, send_flag) ==
  IF order_i = order_n THEN st
  ELSE PutMsgLoop(
         PutAtom(st, n, st.serial_max + 1,
                 [type |-> DATA, seq |-> seq, order_i |-> order_i, order_n |-> order_n],
                 send_flag),
         n, seq, order_i + 1, order_n, send_flag)

\* _lw6dat_stack_calc_serial_draft_and_reference, from serial on.
RECURSIVE CalcLoop(_, _, _)
CalcLoop(st, serial, no_hole) ==
  IF serial > st.serial_max THEN st
  ELSE IF serial \notin Present(st) \/ HeadOf(st, serial) # serial
       THEN CalcLoop(st, serial + 1, FALSE)
  ELSE LET a        == AtomAt(st, serial)
           stop     == Min2(a.order_n, st.serial_max - serial + 1)
           Good(i)  == /\ serial + i \in Present(st)
                       /\ AtomAt(st, serial + i).seq = a.seq
                       /\ AtomAt(st, serial + i).order_i = i
           complete == stop = a.order_n /\ \A i \in 1 .. stop - 1 : Good(i)
       IN  CalcLoop(IF ~complete THEN st
                    ELSE [st EXCEPT !.serial_draft = serial,
                                    !.serial_reference = IF no_hole THEN serial ELSE @],
                    serial + stop, no_hole /\ complete)

\* _update_msg_list_by_seq_with_search: acc holds the stack and the list.
RECURSIVE SearchLoop(_, _, _, _, _, _)
SearchLoop(acc, seq, at, inc, dec, get_all) ==
  LET st    == acc.st
      a     == AtomAt(st, at)
      head  == at - a.order_i
      all   == head .. head + a.order_n - 1
      holes == all \ Present(st)
      keep  == get_all \/ \A s \in all \cap Present(st) : ~st.atoms[s].update_msg_called
      asked == [acc EXCEPT !.st.serial_miss_min = Min2(@, MinOr(holes, @)),
                           !.st.serial_miss_max = Max2(@, MaxOr(holes, @))]
      below == IF dec THEN SearchLoop(asked, seq, head - 1, FALSE, TRUE, get_all) ELSE asked
      given == IF holes # {} \/ ~keep THEN below
               ELSE [st   |-> [below.st EXCEPT !.atoms =
                                 [s \in DOMAIN @ |->
                                    IF s \in all
                                    THEN [@[s] EXCEPT !.update_msg_called = TRUE] ELSE @[s]]],
                     list |-> IF AtomAt(st, Max(all)).type = DATA
                              THEN below.list \cup {head} ELSE below.list]
  IN  IF at \notin Present(st) THEN acc
      ELSE IF a.seq # seq \/ head < st.serial_min THEN acc
      ELSE IF inc THEN SearchLoop(given, seq, head + a.order_n, TRUE, FALSE, get_all)
      ELSE given

\* _lw6dat_stack_update_msg_list_by_seq
SearchBySeq(acc, seq, get_all, clear_recent) ==
  LET from  == Seq2Serial(acc.st, seq)
      start == IF clear_recent /\ from \in Present(acc.st)
               THEN [acc EXCEPT !.st.atoms[from].update_msg_called = FALSE] ELSE acc
  IN  IF seq = SEQ_INVALID \/ seq < SeqMin(acc.st) \/ from = SERIAL_INVALID THEN acc
      ELSE SearchLoop(start, seq, from, TRUE, TRUE, get_all)

\* _lw6dat_warehouse_get_msg_list_by_seq on one stack: from hi down to lo.
RECURSIVE MsgListLoop(_, _, _, _, _)
MsgListLoop(acc, lo, hi, seq, for_reference) ==
  IF seq < lo THEN acc
  ELSE MsgListLoop(SearchBySeq(acc, seq, for_reference, for_reference /\ seq = hi),
                   lo, hi, seq - 1, for_reference)

\* _lw6dat_stack_update_atom_str_list_not_sent, from serial on.
RECURSIVE SentLoop(_, _, _, _)
SentLoop(acc, target, serial, no_hole) ==
  LET st == acc.st
  IN  IF serial > st.serial_max THEN acc
      ELSE IF serial \notin Present(st) THEN SentLoop(acc, target, serial + 1, FALSE)
      ELSE IF /\ target \in st.atoms[serial].send_flag
              /\ target \notin st.atoms[serial].sent_status
              /\ AtomAt(st, serial).seq >= st.seq_0s[target]
           THEN SentLoop(
                  [st   |-> [st EXCEPT !.atoms[serial].sent_status = @ \cup {target},
                                       !.serial_min_to_send[target] =
                                           IF no_hole THEN serial ELSE @],
                   list |-> acc.list \cup {serial}],
                  target, serial + 1, no_hole)
           ELSE SentLoop(acc, target, serial + 1, no_hole)

\* _lw6dat_stack_get_miss: the search for the first hole, then for the last
\* one within reach of it.
RECURSIVE FirstHoleLoop(_, _, _)
FirstHoleLoop(st, serial, hi) ==
  LET n_1 == SerialN1(st.serial_0_base)
  IN  IF serial > hi \/ st.serial_miss_min < n_1 THEN st
      ELSE FirstHoleLoop(IF serial \in Present(st) THEN st
                         ELSE [st EXCEPT !.serial_miss_min = serial],
                         serial + 1, hi)

RECURSIVE LastHoleLoop(_, _, _)
LastHoleLoop(st, serial, hi) ==
  IF serial > hi THEN st
  ELSE LastHoleLoop(IF serial \in Present(st) THEN st
                    ELSE [st EXCEPT !.serial_miss_max = serial],
                    serial + 1, hi)

GetMissLoop(st) ==
  LET n_1   == SerialN1(st.serial_0_base)
      kept  == st.serial_miss_min <= st.serial_miss_max
      lo    == IF kept THEN st.serial_miss_min ELSE st.serial_0_real
      hi    == IF kept THEN st.serial_miss_max
                       ELSE Max2(st.serial_max, st.serial_miss_max)
      first == FirstHoleLoop([st EXCEPT !.serial_miss_min = n_1], lo, hi)
  IN  IF ~MissSearches(st) THEN st
      ELSE IF first.serial_miss_min < n_1
      THEN LastHoleLoop(first, first.serial_miss_min,
                        Min2(first.serial_miss_min + MISS_MAX_RANGE, hi))
      ELSE first
=============================================================================
