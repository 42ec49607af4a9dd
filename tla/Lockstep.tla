------------------------------ MODULE Lockstep ------------------------------
(***************************************************************************)
(* What the game loop is promised by the layers below it, in the words of  *)
(* the rounds only: no serial, no stack, no network.  Every node writes    *)
(* messages for rounds that never go down.  A node hands over, as          *)
(* reference, the rounds up to one that is over for everybody, each round  *)
(* once, and with it the messages of that round: all those of the writers  *)
(* it has followed from their first atom on, and nothing that was not      *)
(* written.  Warehouse implements it.                                      *)
(***************************************************************************)
EXTENDS Integers

CONSTANTS
  Writer,     \* the nodes of the game
  FirstRound, \* the round everybody starts in
  Nothing     \* a round before all others: nothing was handed over yet

VARIABLES
  round,     \* round[n]: the last round n has written in
  sent,      \* sent[n]: the messages n has written, as <<name, round>>
  reference, \* reference[n]: the last round handed over at n
  handed,    \* handed[n]: what was handed over at n, as <<writer, message>>
  followed   \* followed[n]: the writers n knows from the beginning

lockstep == <<round, sent, reference, handed, followed>>

LockstepInit ==
  /\ round = [n \in Writer |-> FirstRound]
  /\ sent = [n \in Writer |-> {}]
  /\ reference = [n \in Writer |-> Nothing]
  /\ handed = [n \in Writer |-> {}]
  /\ followed = [n \in Writer |-> Writer]

\* n writes one message, for its own round or a later one.
WriteMessage(n) ==
  \E m \in sent'[n] \ sent[n] :
    /\ m[2] >= round[n]
    /\ round' = [round EXCEPT ![n] = m[2]]
    /\ sent' = [sent EXCEPT ![n] = @ \cup {m}]
    /\ UNCHANGED <<reference, handed, followed>>

\* The messages of o for the rounds after lo, up to hi.
Between(o, lo, hi) == {<<o, m>> : m \in {x \in sent[o] : lo < x[2] /\ x[2] <= hi}}

\* n hands over the rounds up to hi, over for everybody.
HandOver(n) ==
  LET lo == reference[n]
      hi == reference'[n]
  IN  /\ lo < hi
      /\ \A o \in Writer : hi < round[o]
      /\ reference' = [reference EXCEPT ![n] = hi]
      /\ followed'[n] \subseteq followed[n]
      /\ followed' = [followed EXCEPT ![n] = followed'[n]]
      /\ UNION {Between(o, lo, hi) : o \in followed'[n]} \subseteq handed'[n] \ handed[n]
      /\ handed'[n] \ handed[n] \subseteq UNION {Between(o, lo, hi) : o \in Writer}
      /\ handed' = [handed EXCEPT ![n] = @ \cup handed'[n]]
      /\ UNCHANGED <<round, sent>>

\* n notices that it missed the beginning of some writers.
LoseTrack(n) ==
  /\ followed'[n] \subseteq followed[n]
  /\ followed' = [followed EXCEPT ![n] = followed'[n]]
  /\ UNCHANGED <<round, sent, reference, handed>>

LockstepNext == \E n \in Writer : WriteMessage(n) \/ HandOver(n) \/ LoseTrack(n)

LockstepSpec == LockstepInit /\ [][LockstepNext]_lockstep
=============================================================================
