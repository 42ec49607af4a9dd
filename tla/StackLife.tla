------------------------------ MODULE StackLife ------------------------------
(***************************************************************************)
(* One stack on its own: the stack node Me keeps of what node Org has      *)
(* written, with a third node Peer it forwards to.  Atoms arrive in any    *)
(* order, more than once, and every function of the stack is called in any *)
(* order.  The window moves up and down with what arrives.                 *)
(***************************************************************************)
EXTENDS Stack, Sequences

CONSTANTS
  Me, Org, Peer,
  Later,  \* serial_0 of a stack that is registered late
  Written \* what Org has written, serial by serial

ASSUME LifeAssumption ==
  /\ {Me, Org, Peer} \subseteq Node
  /\ Later \in Nat \ {0}
  /\ Written \in Seq(Atom) /\ Len(Written) <= INT_MAX
  /\ \A s \in 1 .. Len(Written) : Written[s].order_n <= Len(Written)

VARIABLES
  st,
  serial_0 \* the serial given when the stack was registered: never changes

Init ==
  /\ serial_0 \in {SERIAL_START, Later}
  /\ st = StackInit(serial_0)

Receive(serial) == st' = PutAtom(st, Me, serial, Written[serial], Node \ {Org})
Calculate       == st' = Calc(st)
PopDraft(seq)   == st' = Popped(st, {seq}, FALSE)
PopReference(lo, hi) == st' = Popped(ClearRecent(st, hi), lo .. hi, TRUE)
Send            == st' = Sent(st, Peer)
Invalidate(lo, hi) == st' = MissInvalidate(st, Peer, lo, hi)
SearchMiss      == st' = GetMiss(st)
HearSerial(serial) == st' = UpdateSerialMissMax(st, serial)

\* Whatever the warehouse may do with a stack, at any time.
LifeNext ==
  \/ \E s \in 1 .. Len(Written) : Receive(s) \/ HearSerial(s)
  \/ Calculate \/ Send \/ SearchMiss
  \/ \E q \in Int : PopDraft(q)
  \/ \E lo, hi \in Int : PopReference(lo, hi) \/ Invalidate(lo, hi)

LifeSpec == Init /\ [][LifeNext /\ UNCHANGED serial_0]_<<st, serial_0>>

----------------------------------------------------------------------------
\* serial_min and serial_max bound exactly what the window holds, however it
\* slides.
BoundsExact ==
  /\ IsStack(st)
  /\ Present(st) \subseteq Window(st.serial_0_base)
  /\ st.serial_min = MinOr(Present(st), INT_MAX)
  /\ st.serial_max = MaxOr(Present(st), SERIAL_INVALID)
=============================================================================
