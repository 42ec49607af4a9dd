--------------------------- MODULE PilotTheorems ---------------------------
(* Theorems about Pilot, for every game, every set of commands and every    *)
(* way the control thread cuts them into commits.  Three layers: the types  *)
(* and where the threads are; who holds compute_mutex, and what the game    *)
(* and the count of its rounds have to do with each other; and the order of *)
(* the reference's commands, from the list to the log of the game.  Backups *)
(* and dumps, which look at the commands on their way, come last.           *)
EXTENDS Pilot, TLAPS

(* A worker is about a command exactly between Pop and Execute, and a dump  *)
(* that was seen is still there when it is fetched.                         *)
HandHeld ==
    \A w \in Worker :
        hand[w] # None <=> at[w] \in {"turn", "wait", "round", "execute"}

DumpKept ==
    /\ control = "fetch" => dump # None
    /\ control = "pump" => handed # None

TypeInv == TypeOK /\ HandHeld /\ DumpKept

(* What the operators of a game state return: a round that is begun shows in *)
(* the game, and changes neither its rounds nor its log.                    *)
LEMMA BegunIs ==
  ASSUME NEW g \in Game
  PROVE  /\ Begun(g) \in Game
         /\ Begun(g).rounds = g.rounds /\ Begun(g).log = g.log /\ Begun(g).half
  BY DEF Game, Begun

(* A round that is done leaves a game, whether the game is over or not.     *)
LEMMA RoundIs ==
  ASSUME NEW g \in Game
  PROVE  do_round(g) \in Game
  BY PilotAssumption DEF Game, do_round

(* A command that is executed is the last of the log, with the round the    *)
(* game is at, and nothing else of the game changes.                        *)
LEMMA LoggedIs ==
  ASSUME NEW g \in Game, NEW c \in Command
  PROVE  /\ command_execute(g, c) \in Game
         /\ command_execute(g, c).rounds = g.rounds
         /\ command_execute(g, c).half = g.half
         /\ command_execute(g, c).log = Append(g.log, [cmd |-> c, round |-> g.rounds])
  <1> DEFINE e == [cmd |-> c, round |-> g.rounds]
  <1>1. e \in Entry
    BY DEF Entry, Game
  <1> HIDE DEF e
  <1>2. Append(g.log, e) \in Seq(Entry)
    BY <1>1 DEF Game
  <1>3. command_execute(g, c) = [g EXCEPT !.log = Append(g.log, e)]
    BY DEF command_execute, e
  <1>4. command_execute(g, c).log = Append(g.log, e)
    BY <1>3 DEF Game
  <1> QED
    BY <1>2, <1>3, <1>4 DEF Game, e

(* Putting commands in the queue of a dump leaves a dump.                   *)
LEMMA PumpIs ==
  ASSUME NEW d \in Dump, NEW S
  PROVE  pump_command(d, S) \in Dump
  BY DEF Dump, pump_command

(* What is handed over of a set of commands can wait in a list.             *)
LEMMA ItemsAre ==
  ASSUME NEW S \in SUBSET Command, NEW k \in Nat
  PROVE  Items(S, k) \in SUBSET Item
  BY DEF Items, Item

(* After a command there is a dump or none, and never anything else.        *)
LEMMA DumpIs ==
  ASSUME TypeOK, NEW c \in Command
  PROVE  dump_command_execute(c) \in Dump \cup {None}
  BY DEF TypeOK, dump_command_execute, Dump, Empty

(* What a worker does keeps the types.                                      *)
LEMMA WorkTyped == ASSUME TypeInv, NEW w \in Worker, Work(w) PROVE TypeInv'
  <1> USE DEF workerVars, dumpVars, sendVars, userVars, displayVars
  <1>1. CASE Take(w)
    BY <1>1 DEF Take, TypeInv, TypeOK, HandHeld, DumpKept, Place
  <1>2. CASE LockBatch(w)
    BY <1>2 DEF LockBatch, TypeInv, TypeOK, HandHeld, DumpKept, Place, Thread
  <1>3. CASE Pop(w)
    <2> PICK i \in batch[w] :
          /\ batch' = [batch EXCEPT ![w] = @ \ {i}]
          /\ hand' = [hand EXCEPT ![w] =
                         [item |-> i,
                          round |-> larger(RoundOf(i.cmd), current_round[w])]]
      BY <1>3 DEF Pop
    <2>1. i \in Item /\ i.cmd.seq \in Nat
      BY DEF TypeInv, TypeOK, Item, Command
    <2>2. larger(RoundOf(i.cmd), current_round[w]) \in Nat
      BY <2>1, PilotAssumption DEF TypeInv, TypeOK, larger, RoundOf
    <2> DEFINE h == [item |-> i, round |-> larger(RoundOf(i.cmd), current_round[w])]
    <2>3. h \in Held /\ h # None
      BY <2>1, <2>2, NoneAssumption DEF Held
    <2>4. hand' = [hand EXCEPT ![w] = h]
      OBVIOUS
    <2> HIDE DEF h
    <2> QED
      BY <1>3, <2>3, <2>4 DEF Pop, TypeInv, TypeOK, HandHeld, DumpKept, Place
  <1>4. CASE Turn(w)
    BY <1>4 DEF Turn, TypeInv, TypeOK, HandHeld, DumpKept, Place
  <1>5. CASE StartRound(w)
    <2>1. hand[w] \in Held /\ game[w] \in Game
      BY <1>5 DEF StartRound, TypeInv, TypeOK, HandHeld
    <2>2. hand[w].round \in Nat /\ Begun(game[w]) \in Game
      BY <2>1, BegunIs DEF Held
    <2> QED
      BY <1>5, <2>2 DEF StartRound, TypeInv, TypeOK, HandHeld, DumpKept, Place, Thread
  <1>6. CASE EndRound(w)
    <2>1. do_round(game[w]) \in Game
      BY RoundIs DEF TypeInv, TypeOK
    <2> QED
      BY <1>6, <2>1 DEF EndRound, TypeInv, TypeOK, HandHeld, DumpKept, Place, Thread
  <1>7. CASE Execute(w)
    <2> DEFINE c == hand[w].item.cmd
               d == dump_command_execute(c)
    <2>1. c \in Command
      BY <1>7 DEF Execute, TypeInv, TypeOK, HandHeld, Held, Item
    <2>2. command_execute(game[w], c) \in Game
      BY <2>1, LoggedIs DEF TypeInv, TypeOK
    <2>3. d \in Dump \cup {None} /\ (dump # None => d # None)
      BY <2>1, DumpIs, NoneAssumption
      DEF TypeInv, TypeOK, dump_command_execute, Dump, Empty
    <2> HIDE DEF d
    <2>4. /\ dump' \in Dump \cup {None} /\ old_dump' \in Nat /\ made' \in Nat
          /\ dump # None => dump' # None
      <3>1. CASE w = "reference"
        <4>1. /\ made' = IF c.dump THEN made + 1 ELSE made
              /\ dump' = IF d # None /\ d.id # old_dump
                         THEN pump_command(d, batch[w]) ELSE d
              /\ old_dump' = IF d = None THEN 0 ELSE d.id
          BY <1>7, <3>1 DEF Execute, d
        <4>2. d # None =>
                pump_command(d, batch[w]) \in Dump /\ d.id \in Nat
          BY <2>3, PumpIs DEF Dump
        <4> QED
          BY <2>3, <4>1, <4>2, NoneAssumption DEF TypeInv, TypeOK
      <3>2. CASE w # "reference"
        BY <1>7, <3>2 DEF Execute, TypeInv, TypeOK
      <3> QED BY <3>1, <3>2
    <2>5. /\ game' = [game EXCEPT ![w] = command_execute(@, c)]
          /\ hand' = [hand EXCEPT ![w] = None]
          /\ at' = [at EXCEPT ![w] = "pop"]
          /\ UNCHANGED <<run, commands, batch, target_round, current_round, over,
                         global, compute, sendVars, userVars, displayVars>>
      BY <1>7 DEF Execute
    <2> HIDE DEF c
    <2> QED
      BY <2>2, <2>4, <2>5 DEF TypeInv, TypeOK, HandHeld, DumpKept, Place
  <1>8. CASE EndBatch(w)
    BY <1>8 DEF EndBatch, TypeInv, TypeOK, HandHeld, DumpKept, Place, Thread
  <1>9. CASE Stop(w)
    BY <1>9 DEF Stop, TypeInv, TypeOK, HandHeld, DumpKept, Place
  <1> QED
    BY <1>1, <1>2, <1>3, <1>4, <1>5, <1>6, <1>7, <1>8, <1>9 DEF Work

(* ... so does a commit, whatever the bulk and the drafts it hands over ... *)
LEMMA SendTyped ==
  ASSUME TypeInv, NEW upto \in {c.seq : c \in Verified} \cup {fed},
         NEW D \in SUBSET (Drafts \ sent), SendAndCommit(upto, D)
  PROVE  TypeInv'
  <1> DEFINE V == Parsed({c \in Verified : fed < c.seq /\ c.seq <= upto})
  <1>1. V \subseteq Command
    BY PilotAssumption DEF Parsed
  <1>2. upto \in Nat
    BY PilotAssumption DEF TypeInv, TypeOK, Command
  <1>3. Items(V, 0) \in SUBSET Item
    <2> HIDE DEF V
    <2> QED BY <1>1, ItemsAre
  <1>4. last_commit_seq' \in Int
    <2>1. CASE UNCHANGED last_commit_seq
      BY <2>1 DEF TypeInv, TypeOK
    <2>2. CASE \E last \in V : last_commit_seq' = last.seq
      <3> PICK last \in V : last_commit_seq' = last.seq
        BY <2>2
      <3>1. last \in Command
        BY <1>1
      <3> QED
        BY <3>1 DEF Command
    <2> QED
      BY <2>1, <2>2 DEF SendAndCommit
  <1>5. commands' \in [Worker -> SUBSET Item]
    <2>1. commands' = [commands EXCEPT !["reference"] = @ \cup Items(V, 0)]
      BY DEF SendAndCommit, transfer_from
    <2> HIDE DEF V
    <2> QED
      BY <1>3, <2>1 DEF TypeInv, TypeOK, Worker
  <1>6. replay' \subseteq Drafts /\ sent' \subseteq Drafts /\ todo' \subseteq Drafts
    BY DEF SendAndCommit, Parsed, TypeInv, TypeOK
  <1> HIDE DEF V
  <1>7. /\ fed' = upto /\ handed' = None /\ control' = "dump"
        /\ UNCHANGED <<run, batch, hand, game, target_round, current_round, over,
                       at, global, compute, dumpVars, copies, last_sync_seq,
                       backup, displayVars>>
    BY DEF SendAndCommit
  <1> QED
    BY <1>2, <1>4, <1>5, <1>6, <1>7
    DEF TypeInv, TypeOK, HandHeld, DumpKept, dumpVars, displayVars

(* ... and all else the control thread does ...                             *)
LEMMA ControlTyped == ASSUME TypeInv, Control PROVE TypeInv'
  <1> USE DEF workerVars, dumpVars, sendVars, userVars, displayVars
  <1>1. CASE \E upto \in {c.seq : c \in Verified} \cup {fed},
                D \in SUBSET (Drafts \ sent) : SendAndCommit(upto, D)
    BY <1>1, SendTyped
  <1>2. CASE MakeBackup
    BY <1>2 DEF MakeBackup, TypeInv, TypeOK, HandHeld, DumpKept
  <1>3. CASE FreePilot
    BY <1>3 DEF FreePilot, TypeInv, TypeOK, HandHeld, DumpKept
  <1>4. CASE LookForDump
    BY <1>4 DEF LookForDump, TypeInv, TypeOK, HandHeld, DumpKept, Thread
  <1>5. CASE FetchDump
    BY <1>5 DEF FetchDump, TypeInv, TypeOK, HandHeld, DumpKept, Thread
  <1>6. CASE PumpCommands
    <2>1. handed' \in Dump
      BY <1>6, PumpIs DEF PumpCommands, TypeInv, TypeOK, DumpKept
    <2> QED
      BY <1>6, <2>1 DEF PumpCommands, TypeInv, TypeOK, HandHeld, DumpKept
  <1>7. CASE CommitDraft
    BY <1>7 DEF CommitDraft, TypeInv, TypeOK, HandHeld, DumpKept
  <1>8. CASE LockDraft
    BY <1>8 DEF LockDraft, TypeInv, TypeOK, HandHeld, DumpKept, Thread
  <1>9. CASE SyncDraft
    <2>1. last_sync_seq' \in Int
      BY <1>9, PilotAssumption
      DEF SyncDraft, TypeInv, TypeOK, reference_current_seq, round2seq, Worker
    <2> QED
      BY <1>9, <2>1 DEF SyncDraft, TypeInv, TypeOK, HandHeld, DumpKept, Thread, Worker
  <1>10. CASE PushDraft
    <2> PICK c \in todo :
          LET ahead == RoundOf(c) > seq2round(last_sync_seq) IN
          /\ commands' = [commands EXCEPT !["draft"] =
                             IF ahead THEN @ \cup Items({c}, copies) ELSE @]
          /\ replay' = IF ahead THEN replay ELSE replay \ {c}
          /\ todo' = todo \ {c}
      BY <1>10 DEF PushDraft
    <2>1. Items({c}, copies) \subseteq Item
      BY PilotAssumption DEF TypeInv, TypeOK, Items, Item
    <2> QED
      BY <1>10, <2>1 DEF PushDraft, TypeInv, TypeOK, HandHeld, DumpKept, Worker
  <1>11. CASE EndCommit
    BY <1>11 DEF EndCommit, TypeInv, TypeOK, HandHeld, DumpKept
  <1>12. CASE sync_from_reference
    BY <1>12 DEF sync_from_reference, TypeInv, TypeOK, HandHeld, DumpKept, Worker
  <1>13. CASE JoinDraft
    BY <1>13 DEF JoinDraft, TypeInv, TypeOK, HandHeld, DumpKept
  <1>14. CASE JoinReference
    BY <1>14 DEF JoinReference, TypeInv, TypeOK, HandHeld, DumpKept
  <1> QED
    BY <1>1, <1>2, <1>3, <1>4, <1>5, <1>6, <1>7, <1>8, <1>9, <1>10, <1>11, <1>12,
       <1>13, <1>14 DEF Control, Finish

(* ... and so does the display thread, which copies one of both games.      *)
LEMMA WatchTyped == ASSUME TypeInv, Watch PROVE TypeInv'
  <1> USE DEF workerVars, dumpVars, sendVars, userVars, displayVars
  <1>1. CASE LookForNew
    BY <1>1 DEF LookForNew, TypeInv, TypeOK, HandHeld, DumpKept
  <1>2. CASE WatchDraft
    BY <1>2 DEF WatchDraft, TypeInv, TypeOK, HandHeld, DumpKept, Thread
  <1>3. CASE WatchReference
    BY <1>3 DEF WatchReference, TypeInv, TypeOK, HandHeld, DumpKept, Thread
  <1>4. CASE Show
    <2>1. MoreAdvanced \in Game
      BY DEF MoreAdvanced, TypeInv, TypeOK, Worker
    <2>2. display' \in [rounds : Nat, half : BOOLEAN]
      BY <1>4, <2>1 DEF Show, TypeInv, TypeOK, Game
    <2>3. compute' \in [Worker -> Thread]
      BY <1>4 DEF Show, TypeInv, TypeOK, Thread
    <2> QED
      BY <1>4, <2>2, <2>3 DEF Show, TypeInv, TypeOK, HandHeld, DumpKept
  <1> QED BY <1>1, <1>2, <1>3, <1>4 DEF Watch

(* A pilot that is made has all this.                                       *)
LEMMA InitTyped == Init => TypeInv
  <1> SUFFICES ASSUME Init PROVE TypeInv
    OBVIOUS
  <1> DEFINE g0 == [rounds |-> round_0, log |-> <<>>, half |-> FALSE]
  <1>1. g0 \in Game
    BY PilotAssumption DEF Game
  <1>2. game = [w \in Worker |-> g0] /\ backup = [asked |-> -1, game |-> game["reference"]]
    BY DEF Init
  <1> HIDE DEF g0
  <1>3. game \in [Worker -> Game] /\ backup \in [asked : Int, game : Game]
    BY <1>1, <1>2 DEF Worker
  <1>4. TypeOK
    BY <1>3, PilotAssumption DEF Init, TypeOK, Place, Thread
  <1>5. HandHeld /\ DumpKept
    BY DEF Init, HandHeld, DumpKept
  <1> QED BY <1>4, <1>5 DEF TypeInv

(* The types hold for ever, and with them where the threads are.            *)
LEMMA TypedForever == Spec => []TypeInv
  <1>1. TypeInv /\ [Next]_vars => TypeInv'
    <2> SUFFICES ASSUME TypeInv, [Next]_vars PROVE TypeInv'
      OBVIOUS
    <2>1. CASE UNCHANGED vars
      BY <2>1 DEF vars, workerVars, dumpVars, sendVars, userVars, displayVars,
                  TypeInv, TypeOK, HandHeld, DumpKept
    <2> QED
      BY <2>1, WorkTyped, ControlTyped, WatchTyped DEF Next, Freed
  <1> QED
    BY InitTyped, <1>1, PTL DEF Spec

----------------------------------------------------------------------------
(* Who holds compute_mutex, told from where the threads are, and what a     *)
(* game and the count of its rounds have to do with each other.             *)
LockInv ==
    /\ \A w \in Worker : compute[w] = "worker" <=> at[w] = "round"
    /\ \A w \in Worker : game[w].half <=> at[w] = "round"
    /\ \A w \in Worker : game[w].rounds = lesser(current_round[w], total_rounds)
    /\ compute["draft"] = "control" <=> control = "sync"
    /\ compute["reference"] # "control"
    /\ compute["draft"] = "display" <=> watch \in {"draft", "reference"}
    /\ compute["reference"] = "display" <=> watch = "reference"
    /\ ~display.half /\ display.rounds <= total_rounds

(* A worker takes and gives back compute_mutex as it begins and ends a      *)
(* round, and counts the round the game has run before it lets go.          *)
LEMMA WorkLocks == ASSUME TypeInv, LockInv, NEW w \in Worker, Work(w) PROVE LockInv'
  <1> USE DEF workerVars, dumpVars, sendVars, userVars, displayVars
  <1>1. CASE Take(w)
    BY <1>1 DEF Take, TypeInv, TypeOK, LockInv
  <1>2. CASE LockBatch(w)
    BY <1>2 DEF LockBatch, TypeInv, TypeOK, LockInv
  <1>3. CASE Pop(w)
    BY <1>3 DEF Pop, TypeInv, TypeOK, LockInv
  <1>4. CASE Turn(w)
    BY <1>4 DEF Turn, TypeInv, TypeOK, LockInv
  <1>5. CASE StartRound(w)
    <2>1. /\ Begun(game[w]).half = TRUE
          /\ Begun(game[w]).rounds = game[w].rounds
      BY BegunIs DEF TypeInv, TypeOK
    <2> QED
      BY <1>5, <2>1 DEF StartRound, TypeInv, TypeOK, LockInv
  <1>6. CASE EndRound(w)
    <2>1. game[w] \in Game
      BY DEF TypeInv, TypeOK
    <2>2. /\ do_round(game[w]).half = FALSE
          /\ do_round(game[w]).rounds = lesser(current_round[w] + 1, total_rounds)
      BY <2>1, PilotAssumption
      DEF do_round, lesser, Game, LockInv, TypeInv, TypeOK
    <2> QED
      BY <1>6, <2>2 DEF EndRound, TypeInv, TypeOK, LockInv
  <1>7. CASE Execute(w)
    <2> DEFINE g == command_execute(game[w], hand[w].item.cmd)
    <2>1. hand[w].item.cmd \in Command
      BY <1>7 DEF Execute, TypeInv, TypeOK, HandHeld, Held, Item
    <2>2. g.half = game[w].half /\ g.rounds = game[w].rounds
      BY <2>1, LoggedIs DEF TypeInv, TypeOK
    <2>3. /\ at[w] = "execute" /\ at' = [at EXCEPT ![w] = "pop"]
          /\ game' = [game EXCEPT ![w] = g]
          /\ UNCHANGED <<current_round, compute, control, watch, display>>
      BY <1>7 DEF Execute
    <2> HIDE DEF g
    <2> QED
      BY <2>2, <2>3 DEF TypeInv, TypeOK, LockInv
  <1>8. CASE EndBatch(w)
    BY <1>8 DEF EndBatch, TypeInv, TypeOK, LockInv
  <1>9. CASE Stop(w)
    BY <1>9 DEF Stop, TypeInv, TypeOK, LockInv
  <1> QED
    BY <1>1, <1>2, <1>3, <1>4, <1>5, <1>6, <1>7, <1>8, <1>9 DEF Work

(* The control thread holds the draft's compute_mutex exactly while it copies *)
(* the reference onto the draft, count of rounds included.                  *)
LEMMA ControlLocks == ASSUME TypeInv, LockInv, Control PROVE LockInv'
  <1> USE DEF workerVars, dumpVars, sendVars, userVars, displayVars
  <1>1. CASE \E upto \in {c.seq : c \in Verified} \cup {fed},
                D \in SUBSET (Drafts \ sent) : SendAndCommit(upto, D)
    BY <1>1 DEF SendAndCommit, LockInv
  <1>2. CASE MakeBackup
    BY <1>2 DEF MakeBackup, LockInv
  <1>3. CASE FreePilot
    BY <1>3 DEF FreePilot, LockInv
  <1>4. CASE LookForDump
    BY <1>4 DEF LookForDump, LockInv
  <1>5. CASE FetchDump
    BY <1>5 DEF FetchDump, LockInv
  <1>6. CASE PumpCommands
    BY <1>6 DEF PumpCommands, LockInv
  <1>7. CASE CommitDraft
    BY <1>7 DEF CommitDraft, LockInv
  <1>8. CASE LockDraft
    BY <1>8 DEF LockDraft, TypeInv, TypeOK, LockInv, Worker
  <1>9. CASE SyncDraft
    BY <1>9 DEF SyncDraft, TypeInv, TypeOK, LockInv, Worker
  <1>10. CASE PushDraft
    BY <1>10 DEF PushDraft, LockInv
  <1>11. CASE EndCommit
    BY <1>11 DEF EndCommit, LockInv
  <1>12. CASE sync_from_reference
    BY <1>12 DEF sync_from_reference, LockInv
  <1>13. CASE JoinDraft
    BY <1>13 DEF JoinDraft, LockInv
  <1>14. CASE JoinReference
    BY <1>14 DEF JoinReference, LockInv
  <1> QED
    BY <1>1, <1>2, <1>3, <1>4, <1>5, <1>6, <1>7, <1>8, <1>9, <1>10, <1>11, <1>12,
       <1>13, <1>14 DEF Control, Finish

(* When the display copies a game it holds both mutexes: the game is whole  *)
(* and as far as the counts it looked at.                                   *)
LEMMA WatchLocks == ASSUME TypeInv, LockInv, Watch PROVE LockInv'
  <1> USE DEF workerVars, dumpVars, sendVars, userVars, displayVars
  <1>1. CASE LookForNew
    BY <1>1 DEF LookForNew, LockInv
  <1>2. CASE WatchDraft
    BY <1>2 DEF WatchDraft, TypeInv, TypeOK, LockInv, Worker
  <1>3. CASE WatchReference
    BY <1>3 DEF WatchReference, TypeInv, TypeOK, LockInv, Worker
  <1>4. CASE Show
    <2>1. ~MoreAdvanced.half /\ MoreAdvanced.rounds <= total_rounds
      BY <1>4, PilotAssumption
      DEF Show, MoreAdvanced, TypeInv, TypeOK, LockInv, Worker, lesser
    <2>2. ~display'.half /\ display'.rounds <= total_rounds
      BY <1>4, <2>1 DEF Show, LockInv
    <2>3. \A w \in Worker :
             /\ compute'[w] # "display"
             /\ compute[w] # "display" => compute'[w] = compute[w]
             /\ compute[w] = "display" => compute'[w] = "free"
      BY <1>4 DEF Show
    <2> QED
      BY <1>4, <2>2, <2>3 DEF Show, LockInv, Worker
  <1> QED BY <1>1, <1>2, <1>3, <1>4 DEF Watch

(* No thread holds a mutex when the pilot is made.                          *)
LEMMA InitLocks == Init => LockInv
  BY PilotAssumption DEF Init, LockInv, lesser, Worker

(* LockInv holds for ever, given the types.                                 *)
LEMMA LocksForever == Spec => []LockInv
  <1>1. TypeInv /\ LockInv /\ [Next]_vars => LockInv'
    <2> SUFFICES ASSUME TypeInv, LockInv, [Next]_vars PROVE LockInv'
      OBVIOUS
    <2>1. CASE UNCHANGED vars
      BY <2>1 DEF vars, workerVars, dumpVars, sendVars, userVars, displayVars, LockInv
    <2> QED
      BY <2>1, WorkLocks, ControlLocks, WatchLocks DEF Next, Freed
  <1> QED
    BY InitLocks, TypedForever, <1>1, PTL DEF Spec

(* Whoever has compute_mutex, or could take it, finds a whole round and the *)
(* right number: what the worker's loop checks with its warning "possible   *)
(* race condition" never fails.                                             *)
THEOREM WholeRounds == Spec => []RoundsAgree
  <1>1. LockInv => RoundsAgree
    BY DEF LockInv, RoundsAgree
  <1> QED BY LocksForever, <1>1, PTL

(* The display is never given a game in the middle of a round and never goes *)
(* back in time, though the draft it shows is set back to the reference: it *)
(* looks at both counts again once it has both mutexes.                     *)
THEOREM DisplayGoesForward == Spec => DisplayNeverGoesBack
  <1>1. TypeInv /\ LockInv /\ LockInv' /\ [Next]_vars
           => [~display'.half /\ display'.rounds >= display.rounds]_display
    <2> SUFFICES ASSUME TypeInv, LockInv, LockInv', [Next]_vars, display' # display
                 PROVE  ~display'.half /\ display'.rounds >= display.rounds
      OBVIOUS
    <2>1. Show
      BY DEF Next, vars, workerVars, dumpVars, sendVars, userVars, displayVars, Work,
             Take, LockBatch, Pop, Turn, StartRound, EndRound, Execute, EndBatch,
             Stop, Control, SendAndCommit, MakeBackup, FreePilot, Finish, LookForDump,
             FetchDump, PumpCommands, CommitDraft, LockDraft, SyncDraft, PushDraft,
             EndCommit, sync_from_reference, JoinDraft, JoinReference, Watch,
             LookForNew, WatchDraft, WatchReference, Freed
    <2>2. max_round > display.rounds /\ display'.rounds = MoreAdvanced.rounds
      BY <2>1 DEF Show
    <2>3. MoreAdvanced.rounds = lesser(max_round, total_rounds)
      BY PilotAssumption
      DEF MoreAdvanced, max_round, larger, lesser, TypeInv, TypeOK, LockInv, Worker
    <2> QED
      BY <2>2, <2>3, PilotAssumption
      DEF LockInv, lesser, max_round, larger, TypeInv, TypeOK, Worker
  <1> QED
    BY TypedForever, LocksForever, <1>1, PTL DEF Spec, DisplayNeverGoesBack

----------------------------------------------------------------------------
Ref == "reference"
InHand == hand[Ref] # None
Log == game[Ref].log

(* The commands of the reference are on their way from the control thread   *)
(* to the log, through the list, the batch and the hand, and keep their     *)
(* order from one place to the next.                                        *)
Known(c) == c \in Parsed(Verified) /\ c.seq <= fed

KnownInv ==
    /\ \A x \in batch[Ref] \cup commands[Ref] : Known(x.cmd) /\ x.copy = 0
    /\ InHand => Known(hand[Ref].item.cmd)
    /\ \A i \in 1 .. Len(Log) : Known(Log[i].cmd)
    /\ at[Ref] = "top" => batch[Ref] = {}

SortedInv ==
    /\ \A i, j \in 1 .. Len(Log) : i < j => Before(Log[i].cmd, Log[j].cmd)
    /\ InHand => \A i \in 1 .. Len(Log) : Before(Log[i].cmd, hand[Ref].item.cmd)
    /\ \A x \in batch[Ref] \cup commands[Ref] :
          /\ \A i \in 1 .. Len(Log) : Before(Log[i].cmd, x.cmd)
          /\ InHand => Before(hand[Ref].item.cmd, x.cmd)
    /\ \A x \in batch[Ref], y \in commands[Ref] : Before(x.cmd, y.cmd)

(* The rounds computed never pass that of a command still to be executed.   *)
OnTimeInv ==
    /\ \A x \in batch[Ref] \cup commands[Ref] : current_round[Ref] <= RoundOf(x.cmd)
    /\ \A c \in Parsed(Verified) : fed < c.seq => current_round[Ref] <= RoundOf(c)
    /\ InHand => /\ hand[Ref].round = RoundOf(hand[Ref].item.cmd)
                 /\ current_round[Ref] <= hand[Ref].round
    /\ at[Ref] \in {"wait", "round"} => current_round[Ref] < hand[Ref].round
    /\ at[Ref] = "execute" /\ run[Ref] => current_round[Ref] = hand[Ref].round
    /\ run[Ref] => \A i \in 1 .. Len(Log) :
                      Log[i].round = lesser(RoundOf(Log[i].cmd), total_rounds)

(* As long as the worker may take one more command, none has been dropped.  *)
OnItsWay(c) ==
    \/ c \in Executed(game[Ref])
    \/ InHand /\ hand[Ref].item.cmd = c
    \/ \E x \in batch[Ref] \cup commands[Ref] : x.cmd = c

NothingLost ==
    run[Ref] \/ at[Ref] \notin {"top", "done"} =>
        \A c \in Parsed(Verified) : c.seq <= fed => OnItsWay(c)

OrderInv == KnownInv /\ SortedInv /\ OnTimeInv /\ NothingLost /\ NothingSkipped

refVars == <<run[Ref], commands[Ref], batch[Ref], hand[Ref], game[Ref],
             current_round[Ref], at[Ref], fed>>

(* A step that leaves the reference's commands, its game and its place alone *)
(* keeps their order.                                                       *)
LEMMA SameOrder == ASSUME OrderInv, UNCHANGED refVars PROVE OrderInv'
  <1>1. Log' = Log /\ (InHand' <=> InHand)
    BY DEF refVars, Log, InHand
  <1>2. KnownInv'
    BY <1>1 DEF OrderInv, refVars, KnownInv, Known
  <1>3. SortedInv'
    BY <1>1 DEF OrderInv, refVars, SortedInv
  <1>4. OnTimeInv'
    BY <1>1 DEF OrderInv, refVars, OnTimeInv
  <1>5. NothingLost'
    BY <1>1 DEF OrderInv, refVars, NothingLost, OnItsWay
  <1>6. NothingSkipped'
    BY DEF OrderInv, refVars, NothingSkipped, Ref
  <1> QED BY <1>2, <1>3, <1>4, <1>5, <1>6 DEF OrderInv

(* A command that was not refused is not for a round before the first.      *)
LEMMA CommandFacts ==
  /\ Parsed(Verified) \subseteq Command
  /\ \A c \in Parsed(Verified) : c \in Verified /\ c.seq >= seq_0 /\ RoundOf(c) \in Nat /\ RoundOf(c) >= round_0
  BY PilotAssumption DEF Parsed, Command, RoundOf

(* The order commands are sorted by, and how it goes with seqs and rounds.  *)
LEMMA BeforeFacts ==
  ASSUME NEW c \in Command, NEW d \in Command
  PROVE  /\ ~Before(c, c)
         /\ Before(c, d) => ~Before(d, c) /\ c.seq <= d.seq /\ RoundOf(c) <= RoundOf(d)
         /\ c.seq < d.seq => Before(c, d)
         /\ \A e \in Command : Before(c, d) /\ Before(d, e) => Before(c, e)
  BY PilotAssumption DEF Command, Before, RoundOf

(* The list goes to an empty batch, whole.                                  *)
LEMMA TakeOrder == ASSUME TypeInv, OrderInv, Take(Ref) PROVE OrderInv'
  <1>1. /\ at[Ref] = "top" /\ run[Ref] /\ at'[Ref] = "taken"
        /\ batch'[Ref] = commands[Ref] /\ commands'[Ref] = {} /\ batch[Ref] = {}
        /\ UNCHANGED <<run, hand, game, current_round, fed>>
    BY DEF Take, TypeInv, TypeOK, Ref, Worker, sendVars, OrderInv, KnownInv
  <1>2. Log' = Log /\ (InHand' <=> InHand)
    BY <1>1 DEF Log, InHand
  <1>3. KnownInv'
    BY <1>1, <1>2 DEF OrderInv, KnownInv, Known
  <1>4. SortedInv'
    BY <1>1, <1>2 DEF OrderInv, SortedInv
  <1>5. OnTimeInv'
    BY <1>1, <1>2 DEF OrderInv, OnTimeInv
  <1>6. NothingLost'
    BY <1>1, <1>2 DEF OrderInv, NothingLost, OnItsWay
  <1>7. NothingSkipped'
    BY <1>1 DEF OrderInv, NothingSkipped
  <1> QED BY <1>3, <1>4, <1>5, <1>6, <1>7 DEF OrderInv

(* The first command of the batch is taken in hand; as its round has not gone *)
(* by, it is to be executed at its own round and not at the present one.    *)
LEMMA PopOrder == ASSUME TypeInv, OrderInv, Pop(Ref) PROVE OrderInv'
  <1> PICK i \in batch[Ref] :
          /\ \A j \in batch[Ref] : ~Before(j.cmd, i.cmd)
          /\ batch' = [batch EXCEPT ![Ref] = @ \ {i}]
          /\ hand' = [hand EXCEPT ![Ref] =
                         [item |-> i,
                          round |-> larger(RoundOf(i.cmd), current_round[Ref])]]
    BY DEF Pop
  <1> DEFINE h == [item |-> i, round |-> larger(RoundOf(i.cmd), current_round[Ref])]
  <1>1. /\ at[Ref] = "pop" /\ run[Ref] /\ at'[Ref] = "turn"
        /\ batch'[Ref] = batch[Ref] \ {i} /\ hand'[Ref] = h
        /\ UNCHANGED <<run, commands, game, current_round, fed>>
    BY DEF Pop, TypeInv, TypeOK, Ref, Worker, sendVars
  <1>2. i \in Item /\ Known(i.cmd) /\ i.copy = 0 /\ i.cmd \in Command
    BY CommandFacts DEF TypeInv, TypeOK, Ref, Worker, OrderInv, KnownInv, Known
  <1>3. h.item = i /\ h.round = RoundOf(i.cmd) /\ h # None
    <2>1. current_round[Ref] <= RoundOf(i.cmd) /\ current_round[Ref] \in Nat
      BY DEF OrderInv, OnTimeInv, TypeInv, TypeOK, Ref, Worker
    <2>2. RoundOf(i.cmd) \in Nat
      BY <1>2, CommandFacts DEF Known
    <2>3. larger(RoundOf(i.cmd), current_round[Ref]) = RoundOf(i.cmd)
      BY <2>1, <2>2 DEF larger
    <2>4. h \in Held
      BY <1>2, <2>2, <2>3 DEF Held
    <2> QED BY <2>3, <2>4, NoneAssumption
  <1> HIDE DEF h
  <1>4. ~InHand
    BY <1>1 DEF InHand, TypeInv, HandHeld, Ref, Worker
  <1>5. Log' = Log /\ InHand'
    BY <1>1, <1>3 DEF Log, InHand
  <1>6. \A x \in batch'[Ref] : Before(i.cmd, x.cmd)
    <2> TAKE x \in batch'[Ref]
    <2>1. x \in batch[Ref] /\ x # i /\ ~Before(x.cmd, i.cmd)
      BY <1>1
    <2>2. x \in Item /\ Known(x.cmd) /\ x.copy = 0
      BY <2>1 DEF TypeInv, TypeOK, Ref, Worker, OrderInv, KnownInv
    <2>3. x.cmd # i.cmd
      BY <1>2, <2>1, <2>2 DEF Item
    <2>4. x.cmd \in Verified /\ i.cmd \in Verified
      BY <1>2, <2>2, CommandFacts DEF Known
    <2> QED BY <2>1, <2>3, <2>4, PilotAssumption
  <1>7. KnownInv'
    BY <1>1, <1>2, <1>3, <1>5 DEF OrderInv, KnownInv, Known
  <1>8. SortedInv'
    BY <1>1, <1>3, <1>5, <1>6 DEF OrderInv, SortedInv
  <1>9. OnTimeInv'
    BY <1>1, <1>3, <1>5 DEF OrderInv, OnTimeInv
  <1>10. NothingLost'
    <2> SUFFICES ASSUME NEW c \in Parsed(Verified), c.seq <= fed PROVE OnItsWay(c)'
      BY <1>1 DEF NothingLost
    <2>1. OnItsWay(c)
      BY <1>1 DEF OrderInv, NothingLost
    <2> QED
      BY <1>1, <1>3, <1>4, <1>5, <2>1 DEF OnItsWay
  <1>11. NothingSkipped'
    BY <1>1 DEF OrderInv, NothingSkipped
  <1> QED BY <1>7, <1>8, <1>9, <1>10, <1>11 DEF OrderInv

(* Taking the mutex, deciding for a round or for the command, and beginning *)
(* a round.                                                                 *)
LEMMA WaitOrder ==
  ASSUME TypeInv, OrderInv, LockBatch(Ref) \/ Turn(Ref) \/ StartRound(Ref)
  PROVE  OrderInv'
  <1>1. UNCHANGED <<run, commands, batch, hand, current_round, fed>>
    BY DEF LockBatch, Turn, StartRound, sendVars
  <1>2. Log' = Log /\ (InHand' <=> InHand)
    <2>1. game[Ref] \in Game
      BY DEF TypeInv, TypeOK, Ref, Worker
    <2>2. game'[Ref] = game[Ref] \/ game'[Ref] = Begun(game[Ref])
      BY DEF LockBatch, Turn, StartRound, TypeInv, TypeOK, Ref, Worker
    <2> QED BY <1>1, <2>1, <2>2, BegunIs DEF Log, InHand
  <1>3. \/ at[Ref] = "taken" /\ at'[Ref] = "pop"
        \/ at[Ref] = "turn" /\ at'[Ref] = "wait" /\ current_round[Ref] < hand[Ref].round
        \/ at[Ref] = "turn" /\ at'[Ref] = "execute"
              /\ ~(run[Ref] /\ current_round[Ref] < hand[Ref].round)
        \/ at[Ref] = "wait" /\ at'[Ref] = "round"
    BY DEF LockBatch, Turn, StartRound, TypeInv, TypeOK, Ref, Worker
  <1>4. at[Ref] = "turn" => hand[Ref].round \in Nat /\ InHand
    BY DEF TypeInv, TypeOK, HandHeld, Held, InHand, Ref, Worker
  <1>5. KnownInv'
    BY <1>1, <1>2, <1>3 DEF OrderInv, KnownInv, Known
  <1>6. SortedInv'
    BY <1>1, <1>2 DEF OrderInv, SortedInv
  <1>7. OnTimeInv'
    <2>1. current_round[Ref] \in Nat
      BY DEF TypeInv, TypeOK, Ref, Worker
    <2> QED
      BY <1>1, <1>2, <1>3, <1>4, <2>1 DEF OrderInv, OnTimeInv
  <1>8. Executed(game'[Ref]) = Executed(game[Ref])
    BY <1>2 DEF Executed, Log
  <1>9. NothingLost'
    BY <1>1, <1>2, <1>3, <1>8 DEF OrderInv, NothingLost, OnItsWay
  <1>10. NothingSkipped'
    BY <1>8 DEF OrderInv, NothingSkipped, Ref
  <1> QED BY <1>5, <1>6, <1>7, <1>9, <1>10 DEF OrderInv

(* One more round: the command in hand is not for a lower one, and those    *)
(* that come after it are not either.                                       *)
LEMMA EndRoundOrder == ASSUME TypeInv, OrderInv, EndRound(Ref) PROVE OrderInv'
  <1>1. /\ at[Ref] = "round" /\ at'[Ref] = "turn"
        /\ current_round'[Ref] = current_round[Ref] + 1
        /\ game'[Ref] = do_round(game[Ref])
        /\ UNCHANGED <<run, commands, batch, hand, fed>>
    BY DEF EndRound, TypeInv, TypeOK, Ref, Worker, sendVars
  <1>2. Log' = Log /\ (InHand' <=> InHand) /\ InHand
    BY <1>1 DEF Log, InHand, do_round, TypeInv, HandHeld, Ref, Worker
  <1>3. /\ current_round[Ref] \in Nat /\ hand[Ref].round \in Nat
        /\ hand[Ref].item.cmd \in Command /\ fed \in Nat
    BY <1>2 DEF TypeInv, TypeOK, Ref, Worker, Held, Item, InHand
  <1>4. KnownInv'
    BY <1>1, <1>2 DEF OrderInv, KnownInv, Known
  <1>5. SortedInv'
    BY <1>1, <1>2 DEF OrderInv, SortedInv
  <1>6. current_round[Ref] + 1 <= RoundOf(hand[Ref].item.cmd)
    BY <1>1, <1>2, <1>3 DEF OrderInv, OnTimeInv
  <1>7. \A x \in batch[Ref] \cup commands[Ref] :
           current_round[Ref] + 1 <= RoundOf(x.cmd)
    <2> TAKE x \in batch[Ref] \cup commands[Ref]
    <2>1. Before(hand[Ref].item.cmd, x.cmd) /\ Known(x.cmd)
      BY <1>2 DEF OrderInv, SortedInv, KnownInv
    <2>2. x.cmd \in Command /\ RoundOf(x.cmd) \in Nat
      BY <2>1, CommandFacts DEF Known
    <2>3. RoundOf(hand[Ref].item.cmd) <= RoundOf(x.cmd)
      BY <1>3, <2>1, <2>2, BeforeFacts
    <2>4. RoundOf(hand[Ref].item.cmd) \in Nat
      BY <1>2, CommandFacts DEF OrderInv, KnownInv, Known
    <2> QED BY <1>3, <1>6, <2>2, <2>3, <2>4
  <1>8. \A c \in Parsed(Verified) : fed < c.seq => current_round[Ref] + 1 <= RoundOf(c)
    <2> TAKE c \in Parsed(Verified)
    <2> HAVE fed < c.seq
    <2>1. c \in Command /\ RoundOf(c) \in Nat
      BY CommandFacts
    <2>2. Known(hand[Ref].item.cmd) /\ hand[Ref].item.cmd.seq < c.seq
      BY <1>2, <1>3, <2>1 DEF OrderInv, KnownInv, Known, Command
    <2>3. RoundOf(hand[Ref].item.cmd) <= RoundOf(c)
      BY <1>3, <2>1, <2>2, BeforeFacts
    <2>4. RoundOf(hand[Ref].item.cmd) \in Nat
      BY <2>2, CommandFacts DEF Known
    <2> QED BY <1>3, <1>6, <2>1, <2>3, <2>4
  <1>9. OnTimeInv'
    BY <1>1, <1>2, <1>3, <1>7, <1>8 DEF OrderInv, OnTimeInv
  <1>10. Executed(game'[Ref]) = Executed(game[Ref])
    BY <1>2 DEF Executed, Log
  <1>11. NothingLost'
    BY <1>1, <1>2, <1>10 DEF OrderInv, NothingLost, OnItsWay
  <1>12. NothingSkipped'
    BY <1>10 DEF OrderInv, NothingSkipped, Ref
  <1> QED BY <1>4, <1>5, <1>9, <1>11, <1>12 DEF OrderInv

----------------------------------------------------------------------------
(* The command in hand goes to the end of the log.                          *)
LEMMA ExecuteOrder == ASSUME TypeInv, OrderInv, LockInv, Execute(Ref) PROVE OrderInv'
  <1> DEFINE c == hand[Ref].item.cmd
             e == [cmd |-> c, round |-> game[Ref].rounds]
  <1>1. /\ at[Ref] = "execute" /\ at'[Ref] = "pop"
        /\ game'[Ref] = command_execute(game[Ref], c)
        /\ hand'[Ref] = None
        /\ UNCHANGED <<run, commands, batch, current_round, fed>>
    BY DEF Execute, TypeInv, TypeOK, Ref, Worker, sendVars
  <1>2. InHand /\ ~InHand' /\ hand[Ref] \in Held
    BY <1>1 DEF InHand, TypeInv, TypeOK, HandHeld, Ref, Worker
  <1>3. /\ Known(c) /\ c \in Command /\ RoundOf(c) \in Nat
        /\ hand[Ref].round = RoundOf(c) /\ current_round[Ref] \in Nat
    BY <1>2, CommandFacts DEF OrderInv, KnownInv, OnTimeInv, Known, TypeInv, TypeOK, Ref, Worker
  <1>4. game[Ref] \in Game /\ Log \in Seq(Entry)
    BY DEF TypeInv, TypeOK, Ref, Worker, Game, Log
  <1>5. Log' = Append(Log, e)
    BY <1>1, <1>3, <1>4, LoggedIs DEF Log
  <1>6. /\ e.cmd = c /\ e.round = game[Ref].rounds
        /\ run[Ref] => e.round = lesser(RoundOf(c), total_rounds)
    BY <1>1, <1>3 DEF OrderInv, OnTimeInv, LockInv, Ref, Worker
  <1> HIDE DEF e
  <1>7. /\ Len(Log) \in Nat /\ Len(Log') = Len(Log) + 1
        /\ Log'[Len(Log) + 1] = e
        /\ \A i \in 1 .. Len(Log) : Log'[i] = Log[i]
    BY <1>4, <1>5
  <1>8. \A x \in batch[Ref] \cup commands[Ref] : Before(c, x.cmd)
    BY <1>2 DEF OrderInv, SortedInv
  <1>9. \A i \in 1 .. Len(Log) : Before(Log[i].cmd, c)
    BY <1>2 DEF OrderInv, SortedInv
  <1> HIDE DEF c
  <1>10. \A i \in 1 .. Len(Log') : i \in 1 .. Len(Log) \/ i = Len(Log) + 1
    BY <1>7
  <1>11. KnownInv'
    BY <1>1, <1>2, <1>3, <1>6, <1>7, <1>10 DEF OrderInv, KnownInv, Known
  <1>12. SortedInv'
    <2>1. \A i, j \in 1 .. Len(Log') : i < j => Before(Log'[i].cmd, Log'[j].cmd)
      <3> SUFFICES ASSUME NEW i \in 1 .. Len(Log'), NEW j \in 1 .. Len(Log'), i < j
                   PROVE  Before(Log'[i].cmd, Log'[j].cmd)
        OBVIOUS
      <3>1. i \in 1 .. Len(Log)
        BY <1>7
      <3>2. CASE j \in 1 .. Len(Log)
        BY <3>1, <3>2, <1>7 DEF OrderInv, SortedInv
      <3>3. CASE j = Len(Log) + 1
        BY <3>1, <3>3, <1>6, <1>7, <1>9
      <3> QED BY <3>2, <3>3, <1>10
    <2>2. \A x \in batch[Ref] \cup commands[Ref], i \in 1 .. Len(Log') :
             Before(Log'[i].cmd, x.cmd)
      BY <1>6, <1>7, <1>8, <1>10 DEF OrderInv, SortedInv
    <2> QED
      BY <1>1, <1>2, <2>1, <2>2 DEF OrderInv, SortedInv
  <1>13. OnTimeInv'
    BY <1>1, <1>2, <1>6, <1>7, <1>10 DEF OrderInv, OnTimeInv
  <1>14. Executed(game'[Ref]) = Executed(game[Ref]) \cup {c}
    <2>1. ASSUME NEW d \in Executed(game[Ref]) PROVE d \in Executed(game'[Ref])
      <3> PICK i \in 1 .. Len(Log) : Log[i].cmd = d
        BY DEF Executed, Log
      <3>1. i \in 1 .. Len(Log') /\ Log'[i].cmd = d
        BY <1>7
      <3> QED BY <3>1 DEF Executed, Log
    <2>2. c \in Executed(game'[Ref])
      <3>1. Len(Log) + 1 \in 1 .. Len(Log') /\ Log'[Len(Log) + 1].cmd = c
        BY <1>6, <1>7
      <3> QED BY <3>1 DEF Executed, Log
    <2>3. ASSUME NEW d \in Executed(game'[Ref]) PROVE d \in Executed(game[Ref]) \cup {c}
      <3> PICK i \in 1 .. Len(Log') : Log'[i].cmd = d
        BY DEF Executed, Log
      <3>1. CASE i \in 1 .. Len(Log)
        BY <3>1, <1>7 DEF Executed, Log
      <3>2. CASE i = Len(Log) + 1
        BY <3>2, <1>6, <1>7
      <3> QED BY <3>1, <3>2, <1>10
    <2> QED BY <2>1, <2>2, <2>3
  <1>15. NothingLost'
    <2> SUFFICES ASSUME NEW d \in Parsed(Verified), d.seq <= fed PROVE OnItsWay(d)'
      BY <1>1 DEF NothingLost
    <2>1. OnItsWay(d)
      BY <1>1 DEF OrderInv, NothingLost
    <2> QED
      BY <1>1, <1>14, <2>1 DEF OnItsWay, c
  <1>16. NothingSkipped'
    <2> SUFFICES ASSUME NEW b \in Executed(game'[Ref]), NEW d \in Parsed(Verified),
                        Before(d, b)
                 PROVE  d \in Executed(game'[Ref])
      BY DEF NothingSkipped, Ref
    <2>1. CASE b \in Executed(game[Ref])
      BY <1>14, <2>1 DEF OrderInv, NothingSkipped, Ref
    <2>2. CASE b = c
      <3>1. d \in Command /\ d.seq <= c.seq /\ ~Before(c, d) /\ d # c
        BY <1>3, <2>2, CommandFacts, BeforeFacts
      <3>2. d.seq <= fed
        BY <1>3, <3>1 DEF Known, Command, TypeInv, TypeOK
      <3>3. OnItsWay(d)
        BY <1>1, <3>2 DEF OrderInv, NothingLost
      <3>4. ~\E x \in batch[Ref] \cup commands[Ref] : x.cmd = d
        BY <1>8, <3>1
      <3> QED
        BY <1>14, <3>1, <3>3, <3>4 DEF OnItsWay, c
    <2> QED BY <1>14, <2>1, <2>2
  <1> QED BY <1>11, <1>12, <1>13, <1>15, <1>16 DEF OrderInv

(* A worker that is stopped drops what is left of its batch, and executes   *)
(* nothing any more.                                                        *)
LEMMA EndBatchOrder ==
  ASSUME TypeInv, OrderInv, EndBatch(Ref) \/ Stop(Ref)
  PROVE  OrderInv'
  <1>1. /\ at'[Ref] \in {"top", "done"}
        /\ at[Ref] \in {"pop", "top"} /\ (at[Ref] = "top" => ~run[Ref])
        /\ batch'[Ref] \subseteq batch[Ref]
        /\ at'[Ref] = "top" => batch'[Ref] = {}
        /\ run[Ref] => batch[Ref] = {}
        /\ UNCHANGED <<run, commands, hand, game, current_round, fed>>
    BY DEF EndBatch, Stop, TypeInv, TypeOK, Ref, Worker, sendVars
  <1>2. Log' = Log /\ (InHand' <=> InHand)
    BY <1>1 DEF Log, InHand
  <1>3. KnownInv'
    BY <1>1, <1>2 DEF OrderInv, KnownInv, Known
  <1>4. SortedInv'
    BY <1>1, <1>2 DEF OrderInv, SortedInv
  <1>5. OnTimeInv'
    BY <1>1, <1>2 DEF OrderInv, OnTimeInv
  <1>6. NothingLost'
    BY <1>1, <1>2 DEF OrderInv, NothingLost, OnItsWay
  <1>7. NothingSkipped'
    BY <1>1 DEF OrderInv, NothingSkipped
  <1> QED BY <1>3, <1>4, <1>5, <1>6, <1>7 DEF OrderInv

(* A bulk comes after all that was handed over before it.                   *)
LEMMA SendOrder ==
  ASSUME TypeInv, OrderInv, NEW upto \in {c.seq : c \in Verified} \cup {fed},
         NEW D \in SUBSET (Drafts \ sent), SendAndCommit(upto, D)
  PROVE  OrderInv'
  <1> DEFINE V == Parsed({c \in Verified : fed < c.seq /\ c.seq <= upto})
  <1>1. /\ commands'[Ref] = commands[Ref] \cup Items(V, 0)
        /\ fed' = upto /\ fed <= upto
        /\ UNCHANGED <<run, batch, hand, game, current_round, at>>
    <2>1. /\ commands' = [commands EXCEPT !["reference"] = transfer_from(@, Items(V, 0))]
          /\ fed' = upto /\ fed <= upto
          /\ UNCHANGED <<run, batch, hand, game, current_round, at>>
      BY DEF SendAndCommit
    <2>2. commands \in [Worker -> SUBSET Item] /\ Ref \in Worker
      BY DEF TypeInv, TypeOK, Ref, Worker
    <2> DEFINE N == Items(V, 0)
    <2>3. commands' = [commands EXCEPT ![Ref] = transfer_from(@, N)]
      BY <2>1 DEF Ref
    <2> HIDE DEF N
    <2>4. commands'[Ref] = commands[Ref] \cup N
      BY <2>2, <2>3 DEF transfer_from
    <2> QED
      BY <2>1, <2>4 DEF N
  <1>2. upto \in Nat /\ fed \in Nat
    BY PilotAssumption DEF TypeInv, TypeOK, Command
  <1>3. \A c \in V : c \in Parsed(Verified) /\ fed < c.seq /\ c.seq <= upto
    BY DEF Parsed
  <1>4. \A c \in Parsed(Verified) : fed < c.seq /\ c.seq <= upto => c \in V
    BY DEF Parsed
  <1> HIDE DEF V
  <1>5. \A x \in Items(V, 0) : x.cmd \in V /\ x.copy = 0
    BY DEF Items
  <1>6. \A c \in V : \E x \in Items(V, 0) : x.cmd = c
    <2> TAKE c \in V
    <2>1. [cmd |-> c, copy |-> 0] \in Items(V, 0)
      BY DEF Items
    <2> QED BY <2>1
  <1>7. \A c \in Parsed(Verified) : Known(c) => Known(c)'
    <2> SUFFICES ASSUME NEW c \in Parsed(Verified), Known(c) PROVE c.seq <= upto
      BY <1>1 DEF Known
    <2>1. c.seq \in Nat
      BY CommandFacts DEF Command
    <2> QED BY <1>1, <1>2, <2>1 DEF Known
  <1>8. \A c \in Parsed(Verified), d \in V : Known(c) => Before(c, d)
    <2> SUFFICES ASSUME NEW c \in Parsed(Verified), NEW d \in V, Known(c)
                 PROVE  Before(c, d)
      OBVIOUS
    <2>1. c \in Command /\ d \in Command /\ fed < d.seq
      BY <1>3, CommandFacts
    <2>2. c.seq < d.seq
      BY <1>2, <2>1 DEF Known, Command
    <2> QED BY <2>1, <2>2, BeforeFacts
  <1>9. Log' = Log /\ (InHand' <=> InHand)
    BY <1>1 DEF Log, InHand
  <1>10. KnownInv'
    <2>1. \A x \in batch'[Ref] \cup commands'[Ref] : Known(x.cmd)' /\ x.copy = 0
      BY <1>1, <1>3, <1>5, <1>7 DEF OrderInv, KnownInv, Known
    <2> QED
      BY <1>1, <1>7, <1>9, <2>1 DEF OrderInv, KnownInv, Known
  <1>11. SortedInv'
    <2>1. \A x \in Items(V, 0) :
             /\ \A i \in 1 .. Len(Log) : Before(Log[i].cmd, x.cmd)
             /\ InHand => Before(hand[Ref].item.cmd, x.cmd)
             /\ \A y \in batch[Ref] : Before(y.cmd, x.cmd)
      BY <1>5, <1>8 DEF OrderInv, KnownInv, Known
    <2> QED
      BY <1>1, <1>9, <2>1 DEF OrderInv, SortedInv
  <1>12. OnTimeInv'
    <2>1. \A x \in Items(V, 0) : current_round[Ref] <= RoundOf(x.cmd)
      BY <1>3, <1>5 DEF OrderInv, OnTimeInv
    <2>2. \A c \in Parsed(Verified) : upto < c.seq => fed < c.seq
      BY <1>1, <1>2, CommandFacts DEF Command
    <2> QED
      BY <1>1, <1>9, <2>1, <2>2 DEF OrderInv, OnTimeInv
  <1>13. NothingLost'
    <2> SUFFICES ASSUME run[Ref] \/ at[Ref] \notin {"top", "done"},
                        NEW c \in Parsed(Verified), c.seq <= upto
                 PROVE  OnItsWay(c)'
      BY <1>1 DEF NothingLost
    <2>1. CASE c.seq <= fed
      <3>1. OnItsWay(c)
        BY <2>1 DEF OrderInv, NothingLost
      <3> QED
        BY <1>1, <1>9, <3>1 DEF OnItsWay
    <2>2. CASE fed < c.seq
      <3>1. c \in V
        BY <1>4, <2>2
      <3> QED
        BY <1>1, <1>6, <3>1 DEF OnItsWay
    <2>3. c.seq \in Nat
      BY CommandFacts DEF Command
    <2> QED BY <1>2, <2>1, <2>2, <2>3
  <1>14. NothingSkipped'
    BY <1>1 DEF OrderInv, NothingSkipped
  <1> QED BY <1>10, <1>11, <1>12, <1>13, <1>14 DEF OrderInv

(* The reference worker is told to stop: what it still executes is in order, *)
(* but no longer at its round.                                              *)
LEMMA JoinOrder == ASSUME TypeInv, OrderInv, JoinDraft PROVE OrderInv'
  <1>1. /\ ~run'[Ref]
        /\ UNCHANGED <<commands, batch, hand, game, current_round, at, fed>>
    BY DEF JoinDraft, TypeInv, TypeOK, Ref, Worker, sendVars
  <1>2. Log' = Log /\ (InHand' <=> InHand)
    BY <1>1 DEF Log, InHand
  <1>3. KnownInv'
    BY <1>1, <1>2 DEF OrderInv, KnownInv, Known
  <1>4. SortedInv'
    BY <1>1, <1>2 DEF OrderInv, SortedInv
  <1>5. OnTimeInv'
    BY <1>1, <1>2 DEF OrderInv, OnTimeInv
  <1>6. NothingLost'
    BY <1>1, <1>2 DEF OrderInv, NothingLost, OnItsWay, Executed, Log
  <1>7. NothingSkipped'
    BY <1>1 DEF OrderInv, NothingSkipped
  <1> QED BY <1>3, <1>4, <1>5, <1>6, <1>7 DEF OrderInv

(* There is nothing to be out of order when the pilot is made: a command has *)
(* a seq, and fed is below the lowest there is.                             *)
LEMMA InitOrder == Init => OrderInv
  <1> SUFFICES ASSUME Init PROVE OrderInv
    OBVIOUS
  <1>1. /\ batch[Ref] = {} /\ commands[Ref] = {} /\ ~InHand
        /\ at[Ref] = "top" /\ current_round[Ref] = round_0 /\ fed = 0
        /\ Log = <<>>
    BY DEF Init, InHand, Log, Ref, Worker
  <1>2. KnownInv /\ SortedInv
    BY <1>1 DEF KnownInv, SortedInv
  <1>3. OnTimeInv
    BY <1>1, CommandFacts, PilotAssumption DEF OnTimeInv
  <1>4. Executed(game[Ref]) = {}
    BY <1>1 DEF Executed, Log
  <1>5. NothingSkipped
    BY <1>4 DEF NothingSkipped, Ref
  <1>6. \A c \in Parsed(Verified) : ~(c.seq <= fed)
    BY <1>1, CommandFacts, PilotAssumption DEF Parsed, Command
  <1>7. NothingLost
    BY <1>6 DEF NothingLost
  <1> QED BY <1>2, <1>3, <1>5, <1>7 DEF OrderInv

----------------------------------------------------------------------------
(* What the draft's thread and the display do, and the rest of what the     *)
(* control thread does, leaves the reference's commands where they are.     *)
LEMMA DraftApart == ASSUME TypeInv, Work("draft") PROVE UNCHANGED refVars
  <1> USE DEF sendVars, refVars, Ref, TypeInv, TypeOK, Worker
  <1>1. CASE Take("draft")
    BY <1>1 DEF Take
  <1>2. CASE LockBatch("draft")
    BY <1>2 DEF LockBatch
  <1>3. CASE Pop("draft")
    <2>1. /\ \E b \in SUBSET Item : batch' = [batch EXCEPT !["draft"] = b]
          /\ \E h : hand' = [hand EXCEPT !["draft"] = h]
      BY <1>3 DEF Pop
    <2>2. /\ at' = [at EXCEPT !["draft"] = "turn"]
          /\ UNCHANGED <<run, commands, game, current_round, fed>>
      BY <1>3 DEF Pop
    <2> QED BY <2>1, <2>2
  <1>4. CASE Turn("draft")
    BY <1>4 DEF Turn
  <1>5. CASE StartRound("draft")
    BY <1>5 DEF StartRound
  <1>6. CASE EndRound("draft")
    BY <1>6 DEF EndRound
  <1>7. CASE Execute("draft")
    <2>1. /\ \E g : game' = [game EXCEPT !["draft"] = g]
          /\ hand' = [hand EXCEPT !["draft"] = None]
          /\ at' = [at EXCEPT !["draft"] = "pop"]
          /\ UNCHANGED <<run, commands, batch, current_round, fed>>
      BY <1>7 DEF Execute
    <2> QED BY <2>1
  <1>8. CASE EndBatch("draft")
    BY <1>8 DEF EndBatch
  <1>9. CASE Stop("draft")
    BY <1>9 DEF Stop
  <1> QED
    BY <1>1, <1>2, <1>3, <1>4, <1>5, <1>6, <1>7, <1>8, <1>9 DEF Work

(* The control thread touches the reference's commands when it commits, and *)
(* stops it when it joins the draft; all else it does leaves them alone.    *)
LEMMA ControlApart ==
  ASSUME TypeInv, MakeBackup \/ FreePilot \/ (Finish /\ ~JoinDraft)
  PROVE  UNCHANGED refVars
  <1> USE DEF workerVars, dumpVars, sendVars, userVars, displayVars, refVars, Ref
  <1>1. CASE MakeBackup
    BY <1>1 DEF MakeBackup
  <1>2. CASE FreePilot
    BY <1>2 DEF FreePilot, TypeInv, TypeOK, Worker
  <1>3. CASE LookForDump \/ FetchDump \/ PumpCommands \/ CommitDraft \/ LockDraft
    BY <1>3 DEF LookForDump, FetchDump, PumpCommands, CommitDraft, LockDraft
  <1>4. CASE SyncDraft
    BY <1>4 DEF SyncDraft, TypeInv, TypeOK, Worker
  <1>5. CASE PushDraft
    <2>1. \E new : commands' = [commands EXCEPT !["draft"] = new]
      BY <1>5 DEF PushDraft
    <2> QED
      BY <1>5, <2>1 DEF PushDraft, TypeInv, TypeOK, Worker
  <1>6. CASE EndCommit \/ sync_from_reference \/ JoinReference
    BY <1>6 DEF EndCommit, sync_from_reference, JoinReference
  <1> QED
    BY <1>1, <1>2, <1>3, <1>4, <1>5, <1>6 DEF Finish

(* The display takes the mutexes and looks.                                 *)
LEMMA WatchApart == Watch => UNCHANGED refVars
  BY DEF Watch, LookForNew, WatchDraft, WatchReference, Show, workerVars, dumpVars,
         sendVars, userVars, displayVars, refVars

(* OrderInv holds for ever, given the types and the mutexes.                *)
LEMMA OrderForever == Spec => []OrderInv
  <1>1. TypeInv /\ LockInv /\ OrderInv /\ [Next]_vars => OrderInv'
    <2> SUFFICES ASSUME TypeInv, LockInv, OrderInv, [Next]_vars PROVE OrderInv'
      OBVIOUS
    <2>1. CASE UNCHANGED vars
      <3>1. UNCHANGED refVars
        BY <2>1 DEF vars, workerVars, sendVars, refVars
      <3> QED BY <3>1, SameOrder
    <2>2. CASE Work(Ref)
      BY <2>2, TakeOrder, WaitOrder, PopOrder, EndRoundOrder, ExecuteOrder,
         EndBatchOrder DEF Work
    <2>3. CASE Work("draft")
      BY <2>3, DraftApart, SameOrder
    <2>4. CASE Control
      <3>1. CASE \E upto \in {c.seq : c \in Verified} \cup {fed},
                    D \in SUBSET (Drafts \ sent) : SendAndCommit(upto, D)
        BY <3>1, SendOrder
      <3>2. CASE JoinDraft
        BY <3>2, JoinOrder
      <3>3. CASE MakeBackup \/ FreePilot \/ (Finish /\ ~JoinDraft)
        BY <3>3, ControlApart, SameOrder
      <3> QED BY <2>4, <3>1, <3>2, <3>3 DEF Control
    <2>5. CASE Watch
      BY <2>5, WatchApart, SameOrder
    <2> QED
      BY <2>1, <2>2, <2>3, <2>4, <2>5 DEF Next, Freed, Worker, Ref
  <1> QED
    BY InitOrder, TypedForever, LocksForever, <1>1, PTL DEF Spec

(* The variables of the pilot keep their types.                             *)
THEOREM PilotTypeCorrect == Spec => []TypeOK
  <1>1. TypeInv => TypeOK
    BY DEF TypeInv
  <1> QED BY TypedForever, <1>1, PTL

(* The reference worker executes the commands in the one order they have, and *)
(* each at its own round, for every way they are cut into commits and however *)
(* the threads are scheduled.                                               *)
THEOREM AlwaysInOrder == Spec => []ReferenceInOrder
  <1>1. OrderInv => ReferenceInOrder
    BY DEF OrderInv, SortedInv, OnTimeInv, ReferenceInOrder, Log, Ref
  <1> QED BY OrderForever, <1>1, PTL

(* When a command is executed, every verified command that comes before it  *)
(* has been: none is lost between the list, the batch and the hand, not even *)
(* when the worker is stopped.                                              *)
THEOREM NeverSkips == Spec => []NothingSkipped
  <1>1. OrderInv => NothingSkipped
    BY DEF OrderInv
  <1> QED BY OrderForever, <1>1, PTL

----------------------------------------------------------------------------
(* A commit takes whole seqs, so what the worker has not taken yet is for   *)
(* later seqs than what it has taken.  A worker that is between two batches *)
(* has thus begun the round of no command that waits, but for those of the  *)
(* round it started at.                                                     *)
NotBegun(c) == RoundOf(c) > round_0 => current_round[Ref] < RoundOf(c)

WholeSeqs ==
    /\ \A y \in commands[Ref] :
          /\ \A x \in batch[Ref] : x.cmd.seq < y.cmd.seq
          /\ InHand => hand[Ref].item.cmd.seq < y.cmd.seq
          /\ NotBegun(y.cmd)
    /\ \A c \in Parsed(Verified) : fed < c.seq => NotBegun(c)
    /\ at[Ref] = "taken" => \A x \in batch[Ref] : NotBegun(x.cmd)

(* A step that leaves the reference's commands alone keeps this.            *)
LEMMA SameSeqs == ASSUME WholeSeqs, UNCHANGED refVars PROVE WholeSeqs'
  <1>1. InHand' <=> InHand
    BY DEF refVars, InHand
  <1> QED BY <1>1 DEF refVars, WholeSeqs, NotBegun

(* ... and so does every step of the worker.                                *)
LEMMA WorkSeqs ==
  ASSUME TypeInv, OrderInv, WholeSeqs, Work(Ref)
  PROVE  WholeSeqs'
  <1>1. CASE Take(Ref)
    <2>1. /\ at[Ref] = "top" /\ batch'[Ref] = commands[Ref] /\ commands'[Ref] = {}
          /\ UNCHANGED <<hand, current_round, fed>>
      BY <1>1 DEF Take, TypeInv, TypeOK, Ref, Worker, sendVars
    <2> QED BY <2>1 DEF WholeSeqs, NotBegun, InHand
  <1>2. CASE LockBatch(Ref) \/ Turn(Ref) \/ StartRound(Ref)
    <2>1. /\ UNCHANGED <<commands, batch, hand, current_round, fed>>
          /\ at'[Ref] # "taken"
      BY <1>2 DEF LockBatch, Turn, StartRound, TypeInv, TypeOK, Ref, Worker, sendVars
    <2> QED BY <2>1 DEF WholeSeqs, NotBegun, InHand
  <1>3. CASE Pop(Ref)
    <2>1. /\ \E i \in batch[Ref] : /\ batch'[Ref] = batch[Ref] \ {i}
                                   /\ hand'[Ref].item = i
          /\ at'[Ref] = "turn"
          /\ UNCHANGED <<commands, current_round, fed>>
      BY <1>3 DEF Pop, TypeInv, TypeOK, Ref, Worker, sendVars
    <2> QED BY <2>1 DEF WholeSeqs, NotBegun, InHand
  <1>4. CASE EndRound(Ref)
    <2>1. /\ at[Ref] = "round" /\ at'[Ref] = "turn"
          /\ current_round'[Ref] = current_round[Ref] + 1
          /\ UNCHANGED <<commands, batch, hand, fed>>
      BY <1>4 DEF EndRound, TypeInv, TypeOK, Ref, Worker, sendVars
    <2>2. InHand /\ InHand'
      BY <2>1 DEF InHand, TypeInv, HandHeld, Ref, Worker
    <2> DEFINE h == hand[Ref].item.cmd
    <2>3. Known(h) /\ h \in Command /\ current_round[Ref] \in Nat
      BY <2>2, CommandFacts
      DEF OrderInv, KnownInv, Known, TypeInv, TypeOK, Ref, Worker
    <2>4. current_round[Ref] + 1 <= RoundOf(h) /\ RoundOf(h) \in Nat
      <3>1. /\ current_round[Ref] < hand[Ref].round /\ hand[Ref].round = RoundOf(h)
        BY <2>1, <2>2 DEF OrderInv, OnTimeInv
      <3>2. RoundOf(h) \in Nat
        BY <2>3, CommandFacts DEF Known
      <3> QED BY <2>3, <3>1, <3>2
    <2>5. ASSUME NEW c \in Command, h.seq < c.seq
          PROVE  current_round[Ref] + 1 < RoundOf(c)
      BY <2>3, <2>4, <2>5, PilotAssumption DEF RoundOf, Command
    <2>6. \A y \in commands[Ref] : h.seq < y.cmd.seq /\ y.cmd \in Command
      BY <2>2 DEF WholeSeqs, TypeInv, TypeOK, Ref, Worker, Item
    <2>7. \A c \in Parsed(Verified) : fed < c.seq => h.seq < c.seq /\ c \in Command
      BY <2>3, CommandFacts DEF Known, TypeInv, TypeOK, Command
    <2> HIDE DEF h
    <2> QED BY <2>1, <2>2, <2>5, <2>6, <2>7 DEF WholeSeqs, NotBegun, InHand, h
  <1>5. CASE Execute(Ref)
    <2>1. /\ at'[Ref] = "pop" /\ hand'[Ref] = None
          /\ UNCHANGED <<commands, batch, current_round, fed>>
      BY <1>5 DEF Execute, TypeInv, TypeOK, Ref, Worker, sendVars
    <2> QED BY <2>1 DEF WholeSeqs, NotBegun, InHand
  <1>6. CASE EndBatch(Ref) \/ Stop(Ref)
    <2>1. /\ at'[Ref] \in {"top", "done"} /\ batch'[Ref] \subseteq batch[Ref]
          /\ UNCHANGED <<commands, hand, current_round, fed>>
      BY <1>6 DEF EndBatch, Stop, TypeInv, TypeOK, Ref, Worker, sendVars
    <2> QED BY <2>1 DEF WholeSeqs, NotBegun, InHand
  <1> QED
    BY <1>1, <1>2, <1>3, <1>4, <1>5, <1>6 DEF Work

(* A bulk is for later seqs than all that was handed over before.           *)
LEMMA SendSeqs ==
  ASSUME TypeInv, OrderInv, WholeSeqs,
         NEW upto \in {c.seq : c \in Verified} \cup {fed},
         NEW D \in SUBSET (Drafts \ sent), SendAndCommit(upto, D)
  PROVE  WholeSeqs'
  <1> DEFINE V == Parsed({c \in Verified : fed < c.seq /\ c.seq <= upto})
             N == Items(V, 0)
  <1>1. /\ commands' = [commands EXCEPT !["reference"] = transfer_from(@, N)]
        /\ fed' = upto /\ fed <= upto
        /\ UNCHANGED <<batch, hand, current_round, at>>
    BY DEF SendAndCommit
  <1>2. \A y \in N : y.cmd \in Parsed(Verified) /\ fed < y.cmd.seq
    BY DEF Items, Parsed
  <1>3. upto \in Nat /\ fed \in Nat
    BY PilotAssumption DEF TypeInv, TypeOK, Command
  <1> HIDE DEF V, N
  <1>4. commands'[Ref] = commands[Ref] \cup N
    BY <1>1 DEF transfer_from, TypeInv, TypeOK, Ref, Worker
  <1>5. \A y \in N :
           /\ \A x \in batch[Ref] : x.cmd.seq < y.cmd.seq
           /\ InHand => hand[Ref].item.cmd.seq < y.cmd.seq
           /\ NotBegun(y.cmd)
    <2> TAKE y \in N
    <2>1. ASSUME NEW c, Known(c) PROVE c.seq < y.cmd.seq
      BY <1>2, <1>3, <2>1, CommandFacts DEF Known, Command
    <2> QED BY <1>2, <2>1 DEF OrderInv, KnownInv, WholeSeqs
  <1>6. \A c \in Parsed(Verified) : upto < c.seq => fed < c.seq
    BY <1>1, <1>3, CommandFacts DEF Command
  <1> QED BY <1>1, <1>4, <1>5, <1>6 DEF WholeSeqs, NotBegun, InHand

(* What the control thread asks for: nothing later than was handed over,    *)
(* from a worker that is not told to stop.                                  *)
AskedInv ==
    /\ control \notin {"join", "ended"} => run[Ref]
    /\ at[Ref] = "done" => ~run[Ref]
    /\ at[Ref] \in {"pop", "turn", "wait", "round", "execute"} => global[Ref] = "worker"
    /\ (global[Ref] = "control" <=> control = "fetch")
    /\ last_commit_seq <= fed
    /\ last_commit_seq = -1 \/ last_commit_seq - seq_0 + round_0 > 0

(* Neither worker asks for anything: what it stands at goes with its        *)
(* global_mutex, and it ends only when it was told to.                      *)
LEMMA WorkAsked == ASSUME TypeInv, AskedInv, NEW w \in Worker, Work(w) PROVE AskedInv'
  <1>1. UNCHANGED <<run, control, fed, last_commit_seq>>
    BY DEF Work, Take, LockBatch, Pop, Turn, StartRound, EndRound, Execute, EndBatch,
           Stop, sendVars, userVars
  <1>2. /\ at'[Ref] = "done" => at[Ref] = "done" \/ ~run[Ref]
        /\ at'[Ref] \in {"pop", "turn", "wait", "round", "execute"} =>
              global'[Ref] = "worker"
        /\ (global'[Ref] = "control" <=> global[Ref] = "control")
    <2> USE DEF AskedInv, TypeInv, TypeOK, Ref, Worker
    <2>1. CASE Take(w)
      BY <2>1 DEF Take
    <2>2. CASE LockBatch(w)
      BY <2>2 DEF LockBatch
    <2>3. CASE Pop(w)
      <3>1. at[w] = "pop" /\ at' = [at EXCEPT ![w] = "turn"] /\ UNCHANGED global
        BY <2>3 DEF Pop
      <3> QED BY <3>1
    <2>4. CASE Turn(w)
      BY <2>4 DEF Turn
    <2>5. CASE StartRound(w)
      BY <2>5 DEF StartRound
    <2>6. CASE EndRound(w)
      BY <2>6 DEF EndRound
    <2>7. CASE Execute(w)
      <3>1. at[w] = "execute" /\ at' = [at EXCEPT ![w] = "pop"] /\ UNCHANGED global
        BY <2>7 DEF Execute
      <3> QED BY <3>1
    <2>8. CASE EndBatch(w)
      BY <2>8 DEF EndBatch
    <2>9. CASE Stop(w)
      BY <2>9 DEF Stop
    <2> QED
      BY <2>1, <2>2, <2>3, <2>4, <2>5, <2>6, <2>7, <2>8, <2>9 DEF Work
  <1> QED BY <1>1, <1>2 DEF AskedInv, Ref

(* A commit raises the seq asked for to one that it hands over, and nothing *)
(* else the control thread does raises it.                                  *)
LEMMA ControlAsked == ASSUME TypeInv, AskedInv, Control PROVE AskedInv'
  <1> USE DEF workerVars, dumpVars, sendVars, userVars, displayVars, Ref
  <1>1. CASE \E upto \in {c.seq : c \in Verified} \cup {fed},
                D \in SUBSET (Drafts \ sent) : SendAndCommit(upto, D)
    <2> PICK upto \in {c.seq : c \in Verified} \cup {fed},
             D \in SUBSET (Drafts \ sent) : SendAndCommit(upto, D)
      BY <1>1
    <2> DEFINE V == Parsed({c \in Verified : fed < c.seq /\ c.seq <= upto})
    <2>1. /\ control = "idle" /\ control' = "dump" /\ fed' = upto /\ fed <= upto
          /\ UNCHANGED <<run, at, global>>
      BY DEF SendAndCommit
    <2>2. \/ UNCHANGED last_commit_seq
          \/ \E last \in V : RoundOf(last) > 0 /\ last_commit_seq' = last.seq
      BY DEF SendAndCommit
    <2>3. \A c \in V : c \in Command /\ c.seq <= upto
      BY PilotAssumption DEF Parsed
    <2> HIDE DEF V
    <2>4. upto \in Nat /\ fed \in Nat /\ last_commit_seq \in Int
      BY PilotAssumption DEF TypeInv, TypeOK, Command
    <2>5. /\ last_commit_seq' <= upto
          /\ last_commit_seq' = -1 \/ last_commit_seq' - seq_0 + round_0 > 0
      <3>1. CASE UNCHANGED last_commit_seq
        BY <2>1, <2>4, <3>1 DEF AskedInv
      <3>2. CASE \E last \in V : RoundOf(last) > 0 /\ last_commit_seq' = last.seq
        BY <2>3, <3>2 DEF RoundOf
      <3> QED BY <2>2, <3>1, <3>2
    <2> QED BY <2>1, <2>5 DEF AskedInv
  <1>2. CASE MakeBackup \/ FreePilot
    BY <1>2 DEF MakeBackup, FreePilot, AskedInv, TypeInv, TypeOK, Worker
  <1>3. CASE LookForDump
    BY <1>3 DEF LookForDump, AskedInv, TypeInv, TypeOK, Worker
  <1>4. CASE FetchDump
    <2>1. /\ global' = [global EXCEPT ![Ref] = "free"]
          /\ control = "fetch" /\ control' = "pump"
          /\ UNCHANGED <<run, at, fed, last_commit_seq>>
      BY <1>4 DEF FetchDump
    <2>2. ~(at[Ref] \in {"pop", "turn", "wait", "round", "execute"})
      BY <2>1 DEF AskedInv
    <2> QED BY <2>1, <2>2 DEF AskedInv, TypeInv, TypeOK, Worker
  <1>5. CASE PumpCommands \/ CommitDraft \/ LockDraft \/ SyncDraft \/ PushDraft \/ EndCommit
    <2>1. control' \notin {"join", "ended", "fetch"} /\ control \notin {"join", "ended", "fetch"}
      BY <1>5 DEF PumpCommands, CommitDraft, LockDraft, SyncDraft, PushDraft, EndCommit
    <2>2. UNCHANGED <<run, at, global, fed, last_commit_seq>>
      BY <1>5 DEF PumpCommands, CommitDraft, LockDraft, SyncDraft, PushDraft, EndCommit
    <2> QED BY <2>1, <2>2 DEF AskedInv
  <1>6. CASE sync_from_reference
    BY <1>6 DEF sync_from_reference, AskedInv
  <1>7. CASE JoinDraft
    BY <1>7 DEF JoinDraft, AskedInv, TypeInv, TypeOK, Worker
  <1>8. CASE JoinReference
    BY <1>8 DEF JoinReference, AskedInv
  <1> QED
    BY <1>1, <1>2, <1>3, <1>4, <1>5, <1>6, <1>7, <1>8 DEF Control, Finish

(* The display asks for nothing.                                            *)
LEMMA WatchAsked == ASSUME AskedInv, Watch PROVE AskedInv'
  BY DEF Watch, LookForNew, WatchDraft, WatchReference, Show, AskedInv, dumpVars,
         sendVars, userVars, displayVars, workerVars

(* A pilot that is made has no command and was asked for nothing.           *)
LEMMA InitBackup == Init => WholeSeqs /\ AskedInv
  <1> SUFFICES ASSUME Init PROVE WholeSeqs /\ AskedInv
    OBVIOUS
  <1>1. /\ batch[Ref] = {} /\ commands[Ref] = {} /\ current_round[Ref] = round_0
        /\ at[Ref] = "top" /\ run[Ref] /\ global[Ref] = "free"
        /\ control = "idle" /\ fed = 0 /\ last_commit_seq = -1
    BY DEF Init, Ref, Worker
  <1>2. \A c \in Parsed(Verified) : NotBegun(c)
    BY <1>1, CommandFacts, PilotAssumption DEF NotBegun
  <1> QED BY <1>1, <1>2 DEF WholeSeqs, AskedInv

(* Both hold for ever.                                                      *)
LEMMA BackupForever == Spec => [](WholeSeqs /\ AskedInv)
  <1>1. TypeInv /\ OrderInv /\ WholeSeqs /\ AskedInv /\ [Next]_vars
           => WholeSeqs' /\ AskedInv'
    <2> SUFFICES ASSUME TypeInv, OrderInv, WholeSeqs, AskedInv, [Next]_vars
                 PROVE  WholeSeqs' /\ AskedInv'
      OBVIOUS
    <2>1. CASE UNCHANGED vars
      <3>1. UNCHANGED refVars
        BY <2>1 DEF vars, workerVars, sendVars, refVars
      <3>2. AskedInv'
        BY <2>1 DEF vars, workerVars, sendVars, userVars, AskedInv
      <3> QED BY <3>1, <3>2, SameSeqs
    <2>2. CASE Work(Ref)
      BY <2>2, WorkSeqs, WorkAsked DEF Ref, Worker
    <2>3. CASE Work("draft")
      BY <2>3, DraftApart, SameSeqs, WorkAsked DEF Worker
    <2>4. CASE Control
      <3>1. CASE \E upto \in {c.seq : c \in Verified} \cup {fed},
                    D \in SUBSET (Drafts \ sent) : SendAndCommit(upto, D)
        BY <2>4, <3>1, SendSeqs, ControlAsked
      <3>2. CASE JoinDraft
        <4>1. UNCHANGED <<commands, batch, hand, current_round, at, fed>>
          BY <3>2 DEF JoinDraft, sendVars
        <4>2. WholeSeqs'
          BY <4>1 DEF WholeSeqs, NotBegun, InHand
        <4> QED BY <2>4, <4>2, ControlAsked
      <3>3. CASE MakeBackup \/ FreePilot \/ (Finish /\ ~JoinDraft)
        BY <2>4, <3>3, ControlApart, SameSeqs, ControlAsked
      <3> QED BY <2>4, <3>1, <3>2, <3>3 DEF Control
    <2>5. CASE Watch
      BY <2>5, WatchApart, SameSeqs, WatchAsked
    <2> QED
      BY <2>1, <2>2, <2>3, <2>4, <2>5 DEF Next, Freed, Worker, Ref
  <1> QED
    BY InitBackup, TypedForever, OrderForever, <1>1, PTL DEF Spec

(* When the reference has come to the last commit and its worker is between *)
(* two batches, it has executed every command of the commits so far.        *)
LEMMA AllExecuted ==
  ASSUME round_0 = 0, TypeInv, OrderInv, WholeSeqs, AskedInv, sync_from_reference,
         NEW c \in Parsed(Verified), c.seq <= last_commit_seq
  PROVE  c \in Executed(game[Ref])
  <1>1. /\ control = "backup" /\ global[Ref] = "free"
        /\ reference_current_seq >= get_last_commit_seq
    BY DEF sync_from_reference, Ref
  <1>2. run[Ref] /\ at[Ref] \in {"top", "taken"} /\ ~InHand
    BY <1>1 DEF AskedInv, TypeInv, TypeOK, HandHeld, InHand, Place, Ref, Worker
  <1>3. /\ current_round[Ref] \in Nat /\ fed \in Nat /\ last_commit_seq \in Int
        /\ c \in Command /\ RoundOf(c) \in Nat /\ seq_0 \in Nat /\ c.seq \in Nat
    BY CommandFacts, PilotAssumption DEF TypeInv, TypeOK, Ref, Worker, Command
  <1>4. c.seq <= fed
    BY <1>3 DEF AskedInv
  <1>5. OnItsWay(c)
    BY <1>2, <1>4 DEF OrderInv, NothingLost
  <1>6. last_commit_seq - seq_0 > 0 /\ last_commit_seq - seq_0 <= current_round[Ref]
    <2>1. reference_current_seq = current_round[Ref] + seq_0
      BY <1>3 DEF reference_current_seq, round2seq, Ref
    <2>2. last_commit_seq <= get_last_commit_seq /\ get_last_commit_seq \in Int
      BY <1>3, PilotAssumption DEF get_last_commit_seq, larger
    <2>3. last_commit_seq # -1
      BY <1>3
    <2> QED BY <1>1, <1>3, <2>1, <2>2, <2>3 DEF AskedInv
  <1>7. ASSUME NEW x \in batch[Ref] \cup commands[Ref], x.cmd = c
        PROVE  FALSE
    <2>1. NotBegun(c)
      BY <1>2, <1>7 DEF WholeSeqs, OrderInv, KnownInv
    <2>2. current_round[Ref] <= RoundOf(c)
      BY <1>7 DEF OrderInv, OnTimeInv
    <2>3. RoundOf(c) = c.seq - seq_0
      BY <1>3 DEF RoundOf
    <2> QED BY <1>3, <1>6, <2>1, <2>2, <2>3 DEF NotBegun
  <1> QED BY <1>2, <1>5, <1>7 DEF OnItsWay

(* A backup holds every command of the last commit, although the worker may *)
(* be at the right round with commands of that round still in its batch: for *)
(* a game that is followed from its first round.                            *)
THEOREM BackupsAreWhole == ASSUME round_0 = 0 PROVE Spec => []BackupIsWhole
  <1>1. Init => BackupIsWhole
    BY CommandFacts DEF Init, BackupIsWhole, Command
  <1>2. TypeInv /\ OrderInv /\ WholeSeqs /\ AskedInv /\ BackupIsWhole /\ [Next]_vars
           => BackupIsWhole'
    <2> SUFFICES ASSUME TypeInv, OrderInv, WholeSeqs, AskedInv, BackupIsWhole, [Next]_vars
                 PROVE  BackupIsWhole'
      OBVIOUS
    <2>1. CASE backup' = backup
      BY <2>1 DEF BackupIsWhole
    <2>2. CASE sync_from_reference
      <3>1. backup'.asked = last_commit_seq /\ backup'.game = game[Ref]
        BY <2>2 DEF sync_from_reference, Ref
      <3>2. \A c \in Parsed(Verified) :
               c.seq <= last_commit_seq => c \in Executed(game[Ref])
        BY <2>2, AllExecuted
      <3> QED BY <3>1, <3>2 DEF BackupIsWhole, Executed
    <2>3. backup' = backup \/ sync_from_reference
      BY DEF Next, vars, workerVars, dumpVars, sendVars, userVars, displayVars, Work,
             Take, LockBatch, Pop, Turn, StartRound, EndRound, Execute, EndBatch,
             Stop, Control, SendAndCommit, MakeBackup, FreePilot, Finish, LookForDump,
             FetchDump, PumpCommands, CommitDraft, LockDraft, SyncDraft, PushDraft,
             EndCommit, JoinDraft, JoinReference, Watch,
             LookForNew, WatchDraft, WatchReference, Show, Freed
    <2> QED BY <2>1, <2>2, <2>3
  <1> QED
    BY TypedForever, OrderForever, BackupForever, <1>1, <1>2, PTL DEF Spec

----------------------------------------------------------------------------
(* A dump that nobody has added to since it was made: what it holds was in   *)
(* the batch behind the DUMP, and comes before all that the worker has not  *)
(* taken yet.                                                               *)
Once(d) ==
    \A c \in Verified : d.queue[c] > 0 => d.queue[c] = 1 /\ Before(d.cmd, c)

Fresh(d) ==
    /\ Known(d.cmd) /\ Once(d)
    /\ \A c \in Verified : d.queue[c] > 0 => c.seq <= fed
    /\ \A y \in commands[Ref] : Before(d.cmd, y.cmd) /\ d.queue[y.cmd] = 0

DumpInv ==
    /\ dump # None => Fresh(dump) /\ old_dump = dump.id
    /\ control = "pump" => Fresh(handed)
    /\ handed # None => Once(handed)

dumpInvVars == <<commands[Ref], fed, dump, old_dump, handed, control>>

(* A step that leaves the dumps and what may go to them alone keeps this.   *)
LEMMA SameDumps == ASSUME DumpInv, UNCHANGED dumpInvVars PROVE DumpInv'
  BY DEF DumpInv, dumpInvVars, Fresh, Once, Known

(* What pump_command puts in a queue that has none of it.                   *)
LEMMA PumpsOnce ==
  ASSUME NEW d \in Dump, NEW S, Once(d),
         \A x \in S : x.cmd \in Verified => Before(d.cmd, x.cmd) /\ d.queue[x.cmd] = 0
  PROVE  /\ pump_command(d, S).cmd = d.cmd /\ pump_command(d, S).id = d.id
         /\ Once(pump_command(d, S))
         /\ \A c \in Verified : pump_command(d, S).queue[c] > 0 =>
               d.queue[c] > 0 \/ \E x \in S : x.cmd = c
  <1> DEFINE q == [c \in Verified |-> d.queue[c] + IF c \in Commands(S) THEN 1 ELSE 0]
  <1>1. pump_command(d, S) = [d EXCEPT !.queue = q]
    BY DEF pump_command, Dump
  <1>2. \A c \in Verified : /\ c \in Commands(S) => q[c] = d.queue[c] + 1
                            /\ c \notin Commands(S) => q[c] = d.queue[c]
                            /\ d.queue[c] \in Nat
    BY DEF Dump
  <1>3. \A c \in Verified : c \in Commands(S) <=> \E x \in S : x.cmd = c
    BY DEF Commands
  <1> HIDE DEF q
  <1>4. /\ pump_command(d, S).cmd = d.cmd /\ pump_command(d, S).id = d.id
        /\ pump_command(d, S).queue = q
    BY <1>1 DEF Dump
  <1>5. ASSUME NEW c \in Verified, q[c] > 0
        PROVE  /\ q[c] = 1 /\ Before(d.cmd, c)
               /\ d.queue[c] > 0 \/ \E x \in S : x.cmd = c
    <2>1. CASE c \in Commands(S)
      <3>1. \E x \in S : x.cmd = c
        BY <1>3, <2>1
      <3>2. Before(d.cmd, c) /\ d.queue[c] = 0
        BY <3>1
      <3> QED BY <1>2, <2>1, <3>1, <3>2
    <2>2. CASE c \notin Commands(S)
      <3>1. q[c] = d.queue[c]
        BY <1>2, <2>2
      <3> QED BY <1>5, <3>1 DEF Once
    <2> QED BY <2>1, <2>2
  <1>6. Once(pump_command(d, S))
    BY <1>4, <1>5 DEF Once
  <1> QED BY <1>4, <1>5, <1>6

(* The rest of the batch goes to the pilot of a DUMP when it is made, and   *)
(* never to an older one.                                                   *)
LEMMA ExecuteDumps == ASSUME TypeInv, OrderInv, DumpInv, Execute(Ref) PROVE DumpInv'
  <1> DEFINE c == hand[Ref].item.cmd
             new == [id |-> made + 1, cmd |-> c, queue |-> Empty]
             d == dump_command_execute(c)
  <1>1. /\ UNCHANGED <<commands, batch, fed, handed, control>>
        /\ dump' = IF d # None /\ d.id # old_dump THEN pump_command(d, batch[Ref]) ELSE d
        /\ old_dump' = IF d = None THEN 0 ELSE d.id
    BY DEF Execute, Ref, sendVars, userVars
  <1>2. d = IF c.dump THEN new ELSE dump
    BY DEF dump_command_execute
  <1>3. InHand /\ c \in Command /\ Known(c)
    <2>1. InHand
      BY DEF Execute, InHand, TypeInv, HandHeld, Ref, Worker
    <2> QED
      BY <2>1, CommandFacts DEF OrderInv, KnownInv, Known
  <1>4. \A x \in batch[Ref] \cup commands[Ref] : Known(x.cmd) /\ Before(c, x.cmd)
    BY <1>3 DEF OrderInv, KnownInv, SortedInv
  <1>5. \A x \in batch[Ref], y \in commands[Ref] : Before(x.cmd, y.cmd) /\ x.cmd # y.cmd
    <2> TAKE x \in batch[Ref], y \in commands[Ref]
    <2>1. Before(x.cmd, y.cmd) /\ x.cmd \in Command
      BY <1>4, CommandFacts DEF OrderInv, SortedInv, Known
    <2> QED BY <2>1, BeforeFacts
  <1>6. /\ new \in Dump /\ new # None /\ new.cmd = c
        /\ \A b \in Verified : new.queue[b] = 0
    <2>1. new \in Dump
      BY <1>3 DEF Dump, Empty, TypeInv, TypeOK
    <2> QED BY <2>1, NoneAssumption DEF Empty
  <1>7. \A b \in Parsed(Verified) : b \in Verified
    BY CommandFacts
  <1> HIDE DEF c, new, d
  <1>8. CASE c.dump
    <2>1. d = new
      BY <1>2, <1>8
    <2> DEFINE p == pump_command(new, batch[Ref])
    <2>2. Once(new)
      BY <1>6 DEF Once
    <2>3. /\ p.cmd = c /\ p.id = new.id /\ Once(p)
          /\ \A b \in Verified : p.queue[b] > 0 => \E x \in batch[Ref] : x.cmd = b
      <3>1. \A x \in batch[Ref] : x.cmd \in Verified =>
                Before(new.cmd, x.cmd) /\ new.queue[x.cmd] = 0
        BY <1>4, <1>6
      <3>2. \A b \in Verified : ~(new.queue[b] > 0)
        BY <1>6
      <3> QED BY <1>6, <2>2, <3>1, <3>2, PumpsOnce
    <2>4. p \in Dump
      BY <1>6, PumpIs
    <2>5. Fresh(p) /\ Fresh(new)
      <3>1. \A y \in commands[Ref] : p.queue[y.cmd] = 0
        <4> TAKE y \in commands[Ref]
        <4>1. y.cmd \in Verified
          BY <1>4, <1>7 DEF Known
        <4>2. p.queue[y.cmd] \in Nat
          BY <2>4, <4>1 DEF Dump
        <4>3. ~(p.queue[y.cmd] > 0)
          BY <1>5, <2>3, <4>1
        <4> QED BY <4>2, <4>3
      <3>2. \A b \in Verified : p.queue[b] > 0 => b.seq <= fed
        BY <1>4, <2>3 DEF Known
      <3>3. Fresh(p)
        BY <1>3, <1>4, <2>3, <3>1, <3>2 DEF Fresh
      <3>4. \A b \in Verified : ~(new.queue[b] > 0)
        BY <1>6
      <3>5. \A y \in commands[Ref] : Before(c, y.cmd) /\ new.queue[y.cmd] = 0
        BY <1>4, <1>6, <1>7 DEF Known
      <3> QED BY <1>3, <1>6, <2>2, <3>3, <3>4, <3>5 DEF Fresh
    <2>6. dump' \in {p, new} /\ old_dump' = new.id
      BY <1>1, <1>6, <2>1
    <2> HIDE DEF p
    <2>7. Fresh(dump') /\ old_dump' = dump'.id
      BY <2>3, <2>5, <2>6
    <2> QED BY <1>1, <2>7 DEF DumpInv, Fresh, Once, Known
  <1>9. CASE ~c.dump
    <2>1. dump' = dump /\ (dump # None => old_dump' = dump.id)
      BY <1>1, <1>2, <1>9 DEF DumpInv
    <2> QED BY <1>1, <2>1 DEF DumpInv, Fresh, Once, Known
  <1> QED BY <1>8, <1>9

(* A worker that takes the list leaves nothing that could be put twice.     *)
LEMMA WorkDumps ==
  ASSUME TypeInv, OrderInv, DumpInv, NEW w \in Worker, Work(w)
  PROVE  DumpInv'
  <1>1. CASE Take(w)
    <2>1. /\ commands'[Ref] \in {commands[Ref], {}}
          /\ UNCHANGED <<fed, dump, old_dump, handed, control>>
      BY <1>1 DEF Take, TypeInv, TypeOK, Ref, Worker, dumpVars, sendVars, userVars
    <2> QED BY <2>1 DEF DumpInv, Fresh, Once, Known
  <1>2. CASE Execute(w) /\ w # Ref
    <2>1. UNCHANGED dumpInvVars
      BY <1>2 DEF Execute, Ref, Worker, dumpVars, sendVars, userVars, dumpInvVars
    <2> QED BY <2>1, SameDumps
  <1>3. CASE Execute(Ref)
    BY <1>3, ExecuteDumps
  <1>4. CASE \/ LockBatch(w) \/ Pop(w) \/ Turn(w) \/ StartRound(w) \/ EndRound(w)
             \/ EndBatch(w) \/ Stop(w)
    <2>1. UNCHANGED dumpInvVars
      BY <1>4 DEF LockBatch, Pop, Turn, StartRound, EndRound, EndBatch, Stop, dumpVars,
                  sendVars, userVars, dumpInvVars
    <2> QED BY <2>1, SameDumps
  <1> QED BY <1>1, <1>2, <1>3, <1>4 DEF Work

(* A bulk comes after the DUMPs that were handed over, and what they hold.  *)
LEMMA SendDumps ==
  ASSUME TypeInv, OrderInv, DumpInv, NEW upto \in {c.seq : c \in Verified} \cup {fed},
         NEW D \in SUBSET (Drafts \ sent), SendAndCommit(upto, D)
  PROVE  DumpInv'
  <1> DEFINE V == Parsed({c \in Verified : fed < c.seq /\ c.seq <= upto})
             N == Items(V, 0)
  <1>1. /\ commands' = [commands EXCEPT !["reference"] = transfer_from(@, N)]
        /\ fed' = upto /\ fed <= upto /\ handed' = None /\ control' = "dump"
        /\ UNCHANGED <<dump, old_dump>>
    BY DEF SendAndCommit, dumpVars
  <1>2. \A y \in N : y.cmd \in Verified /\ y.cmd \in Command /\ fed < y.cmd.seq
    BY PilotAssumption DEF Items, Parsed
  <1>3. upto \in Nat /\ fed \in Nat /\ Verified \subseteq Command
    BY PilotAssumption DEF TypeInv, TypeOK, Command
  <1> HIDE DEF V, N
  <1>4. commands'[Ref] = commands[Ref] \cup N
    BY <1>1 DEF transfer_from, TypeInv, TypeOK, Ref, Worker
  <1>5. ASSUME dump # None PROVE Fresh(dump)' /\ old_dump' = dump'.id
    <2>1. Fresh(dump) /\ old_dump = dump.id /\ dump \in Dump
      BY <1>5 DEF DumpInv, TypeInv, TypeOK
    <2>2. dump.cmd \in Command /\ Known(dump.cmd)
      BY <2>1, CommandFacts DEF Fresh, Known
    <2>3. Known(dump.cmd)'
      BY <1>1, <1>3, <2>2 DEF Known, Command
    <2>4. \A b \in Verified : dump.queue[b] > 0 => b.seq <= upto
      BY <1>1, <1>3, <2>1 DEF Fresh, Command
    <2>5. \A y \in N : Before(dump.cmd, y.cmd)
      BY <1>2, <1>3, <2>2 DEF Known, Command, Before
    <2>6. \A y \in N : dump.queue[y.cmd] = 0
      <3> TAKE y \in N
      <3>1. y.cmd \in Verified /\ dump.queue[y.cmd] \in Nat
        BY <1>2, <2>1 DEF Dump
      <3>2. ~(dump.queue[y.cmd] > 0)
        BY <1>2, <1>3, <2>1, <3>1 DEF Fresh, Command
      <3> QED BY <3>1, <3>2
    <2> QED
      BY <1>1, <1>4, <2>1, <2>3, <2>4, <2>5, <2>6 DEF Fresh, Once
  <1> QED BY <1>1, <1>5 DEF DumpInv

(* The control thread fetches a dump, and adds the list to it once.         *)
LEMMA ControlDumps == ASSUME TypeInv, OrderInv, DumpInv, Control PROVE DumpInv'
  <1> USE DEF workerVars, dumpVars, sendVars, userVars, displayVars
  <1>1. CASE \E upto \in {c.seq : c \in Verified} \cup {fed},
                D \in SUBSET (Drafts \ sent) : SendAndCommit(upto, D)
    BY <1>1, SendDumps
  <1>2. CASE FetchDump
    <2>1. /\ dump # None /\ handed' = dump /\ dump' = None
          /\ UNCHANGED <<commands, fed>>
      BY <1>2 DEF FetchDump, TypeInv, DumpKept
    <2> QED BY <2>1 DEF DumpInv, Fresh, Once, Known
  <1>3. CASE PumpCommands
    <2>1. /\ control = "pump" /\ control' = "draft"
          /\ handed' = pump_command(handed, commands[Ref])
          /\ UNCHANGED <<commands, fed, dump, old_dump>>
      BY <1>3 DEF PumpCommands, Ref
    <2>2. handed \in Dump /\ Fresh(handed)
      BY <2>1 DEF DumpInv, TypeInv, TypeOK, DumpKept
    <2>3. Once(handed')
      BY <2>1, <2>2, PumpsOnce DEF Fresh
    <2> QED BY <2>1, <2>3 DEF DumpInv, Fresh, Once, Known
  <1>4. CASE \/ MakeBackup \/ FreePilot \/ LookForDump \/ CommitDraft \/ LockDraft
             \/ SyncDraft \/ PushDraft \/ EndCommit \/ sync_from_reference
             \/ JoinDraft \/ JoinReference
    <2>1. /\ UNCHANGED <<fed, dump, old_dump, handed>>
          /\ control' # "pump"
      BY <1>4 DEF MakeBackup, FreePilot, LookForDump, CommitDraft, LockDraft, SyncDraft,
                  PushDraft, EndCommit, sync_from_reference, JoinDraft, JoinReference
    <2>2. commands'[Ref] = commands[Ref]
      <3>1. CASE PushDraft
        <4>1. \E new : commands' = [commands EXCEPT !["draft"] = new]
          BY <3>1 DEF PushDraft
        <4> QED BY <4>1 DEF TypeInv, TypeOK, Ref, Worker
      <3>2. CASE ~PushDraft
        BY <1>4, <3>2 DEF MakeBackup, FreePilot, LookForDump, CommitDraft, LockDraft,
                  SyncDraft, EndCommit, sync_from_reference, JoinDraft, JoinReference
      <3> QED BY <3>1, <3>2
    <2> QED BY <2>1, <2>2 DEF DumpInv, Fresh, Once, Known
  <1> QED
    BY <1>1, <1>2, <1>3, <1>4 DEF Control, Finish

(* Nothing is dumped when the pilot is made, and all this holds for ever.   *)
LEMMA DumpsForever == Spec => []DumpInv
  <1>1. Init => DumpInv
    BY DEF Init, DumpInv
  <1>2. TypeInv /\ OrderInv /\ DumpInv /\ [Next]_vars => DumpInv'
    <2> SUFFICES ASSUME TypeInv, OrderInv, DumpInv, [Next]_vars PROVE DumpInv'
      OBVIOUS
    <2>1. CASE UNCHANGED vars
      BY <2>1, SameDumps
      DEF vars, workerVars, dumpVars, sendVars, userVars, dumpInvVars
    <2>2. CASE Watch
      BY <2>2, SameDumps
      DEF Watch, LookForNew, WatchDraft, WatchReference, Show, workerVars, dumpVars,
          sendVars, userVars, displayVars, dumpInvVars
    <2> QED
      BY <2>1, <2>2, WorkDumps, ControlDumps DEF Next, Freed
  <1> QED
    BY TypedForever, OrderForever, <1>1, <1>2, PTL DEF Spec

(* The pilot of a DUMP gets the commands behind it from two places, the rest *)
(* of the batch and the list: none twice, and none that came before it.     *)
THEOREM DumpedOnce == Spec => []DumpNothingTwice
  <1>1. DumpInv => DumpNothingTwice
    BY DEF DumpInv, Fresh, Once, DumpNothingTwice
  <1> QED BY DumpsForever, <1>1, PTL
=============================================================================
