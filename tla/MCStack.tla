------------------------------- MODULE MCStack -------------------------------
(***************************************************************************)
(* The life of a stack whose window is narrow, so that the blocks shift up *)
(* and down.  Two lives are followed, each with what it is about; both are *)
(* lives of StackLife.                                                     *)
(***************************************************************************)
EXTENDS StackLife, StackLoops

CONSTANTS
  LastSent, LastRead \* the last serials of Written that may arrive

\* What org has written: a message of two atoms, a META message and a short
\* one in round 1, then a short and a long one in later rounds.
MCWritten == <<
  [type |-> DATA, seq |-> 1, order_i |-> 0, order_n |-> 2],
  [type |-> DATA, seq |-> 1, order_i |-> 1, order_n |-> 2],
  [type |-> META, seq |-> 1, order_i |-> 0, order_n |-> 1],
  [type |-> DATA, seq |-> 1, order_i |-> 0, order_n |-> 1],
  [type |-> DATA, seq |-> 2, order_i |-> 0, order_n |-> 2],
  [type |-> DATA, seq |-> 2, order_i |-> 1, order_n |-> 2],
  [type |-> DATA, seq |-> 3, order_i |-> 0, order_n |-> 1] >>

Seqs == 0 .. 3

\* The life of the window: atoms come, go and are asked for again.
NextWindow ==
  /\ serial_0 = Later
  /\ \/ \E s \in 1 .. LastSent : Receive(s)
     \/ Calculate
     \/ Send
     \/ \E lo \in 1 .. LastSent : \E hi \in lo .. LastSent : Invalidate(lo, hi)
     \/ SearchMiss

\* The life of the atoms that are read.
NextRead ==
  /\ serial_0 = SERIAL_START
  /\ \/ \E s \in 1 .. LastRead : Receive(s)
     \/ \E q \in Seqs : PopDraft(q)
     \/ \E q \in Seqs : PopReference(0, q)
     \/ HearSerial(LastRead)
     \/ SearchMiss

Spec == Init /\ [][(NextWindow \/ NextRead) /\ UNCHANGED serial_0]_<<st, serial_0>>

----------------------------------------------------------------------------
\* Draft and reference.
CalcAgrees == CalcLoop(st, CalcStart(st), TRUE) = Calc(st)

\* The messages handed over for a range of seqs, in both modes, with the
\* flags and the range to ask for that the search leaves behind, from a stack
\* that is read.
MsgListAgrees ==
  serial_0 = SERIAL_START => \A lo, hi \in Seqs, ref \in BOOLEAN :
    MsgListLoop([st |-> st, list |-> {}], lo, hi, hi, ref) =
      LET from == IF ref /\ lo <= hi THEN ClearRecent(st, hi) ELSE st
      IN  [st |-> Popped(from, lo .. hi, ref), list |-> MsgList(from, lo .. hi, ref)]

\* The range of serials to ask for.
MissAgrees == GetMissLoop(st) = GetMiss(st)

\* The atoms to send to a peer and the mark left for the next time; and a local
\* message put fragment by fragment, in any stack that starts where a local
\* stack starts and has no hole, if the window may move far enough for it.
SendingAgrees ==
  /\ SentLoop([st |-> st, list |-> {}], Peer, NotSentFrom(st, Peer), TRUE)
       = [st |-> Sent(st, Peer), list |-> ToSend(st, Peer)]
  /\ serial_0 = SERIAL_START /\ Present(st) = 1 .. Cardinality(Present(st)) =>
      \A order_n \in 1 .. (BLOCK_DELTA_MAX - 1) * NB_ATOMS_PER_BLOCK, q \in {-2, 1} :
        PutMsgLoop(st, Me, q, 0, order_n, Node \ {Me})
          = PutMsg(st, Me, DATA, q, order_n, Node \ {Me})

\* The sets of Stack, that the other modules are built on, are what the loops
\* and searches of dat-stack.c compute, with all the traces they leave in the
\* stack, whatever holes it has and wherever its window is.
LoopsAgree == CalcAgrees /\ MsgListAgrees /\ MissAgrees /\ SendingAgrees
=============================================================================
