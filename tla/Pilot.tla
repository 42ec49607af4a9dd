------------------------------- MODULE Pilot -------------------------------
(* The pilot of libpil: the object that turns the commands of a game into   *)
(* calls on game states, with two threads.  The reference worker runs the   *)
(* commands every peer agrees on; the draft worker also runs, ahead of      *)
(* time, those no peer has confirmed yet.  The control thread hands over    *)
(* commands and commits them, copies the reference onto the draft, takes    *)
(* backups and fetches dumps; the display thread copies the more advanced   *)
(* of both games.  A worker has two mutexes: global_mutex, held over a      *)
(* whole batch of commands, and compute_mutex, held over one round or one   *)
(* command.                                                                 *)
(*                                                                          *)
(* A game state is what makes two of them differ: how many rounds it has    *)
(* run, which commands it has executed and when, and whether one reads it   *)
(* in the middle of a round.                                                *)
EXTENDS Integers, Sequences, FiniteSets

CONSTANTS
    MIN_SEQ_0,     \* the lowest seq there is
    seq_0,         \* the seq of the first round of this pilot
    round_0,       \* the rounds of the game this pilot starts from
    total_rounds,  \* the rounds after which a game is over
    Verified,      \* the commands every peer agrees on
    Drafts,        \* the commands sent before they are agreed on
    None           \* no command, no dump

(* rank is the place the code, the node and the text of a command give it   *)
(* among those of its seq.                                                  *)
Command == [seq : Nat, rank : Nat, dump : BOOLEAN]

Before(c, d) == c.seq < d.seq \/ (c.seq = d.seq /\ c.rank < d.rank)

(* Two peers whose commands have the same place would be the same command.  *)
ASSUME PilotAssumption ==
    /\ {MIN_SEQ_0, seq_0, round_0, total_rounds} \subseteq Nat
    /\ 0 < MIN_SEQ_0 /\ MIN_SEQ_0 <= seq_0 /\ round_0 <= total_rounds
    /\ Verified \subseteq Command /\ Drafts \subseteq Command
    /\ \A c, d \in Verified : c = d \/ Before(c, d) \/ Before(d, c)

VARIABLES
    run,            \* per worker: cleared to stop its thread
    commands,       \* per worker: what was handed to it
    batch,          \* per worker: what its thread took of it
    hand,           \* per worker: the command it is about, and its round
    game,           \* per worker: its game state
    target_round,   \* per worker: the round it is computing for
    current_round,  \* per worker: the rounds it has computed
    over,           \* per worker: it has seen the end of its game
    at,             \* per worker: where its thread is
    global,         \* per worker: who holds global_mutex
    compute,        \* per worker: who holds compute_mutex
    dump,           \* of the reference worker: the pilot a DUMP has made
    old_dump,       \* the dump the worker filled last
    made,           \* how many dumps were made, which gives them their id
    fed,            \* the verified commands up to this seq were handed over
    sent,           \* the drafts that were handed over
    replay,         \* the drafts kept for the next copy of the reference
    todo,           \* the drafts of this commit, then those to hand over
    copies,         \* how many times the replay was handed over
    last_commit_seq, last_sync_seq,
    control,        \* where the control thread is
    handed,         \* the dump it has fetched
    backup,         \* the last backup, and the last_commit_seq it was asked at
    display,        \* rounds of the game on display, seen in mid-round or not
    watch           \* where the display thread is

workerVars == <<run, commands, batch, hand, game, target_round, current_round,
                over, at, global, compute>>
dumpVars == <<dump, old_dump, made>>
sendVars == <<fed, sent, replay, todo, copies, last_commit_seq, last_sync_seq>>
userVars == <<control, handed, backup>>
displayVars == <<display, watch>>
vars == <<workerVars, dumpVars, sendVars, userVars, displayVars>>

Worker == {"reference", "draft"}

larger(i, j) == IF i < j THEN j ELSE i
lesser(i, j) == IF i < j THEN i ELSE j

seq2round(s) == IF s >= MIN_SEQ_0 THEN (s - seq_0) + round_0 ELSE -1
round2seq(r) == r + seq_0 - round_0
reference_current_seq == round2seq(current_round["reference"])
get_last_commit_seq == larger(last_commit_seq, MIN_SEQ_0)

(* A command is refused when its seq is before that of the pilot.           *)
Parsed(S) == {c \in S : c.seq >= MIN_SEQ_0 /\ c.seq >= seq_0}
RoundOf(c) == c.seq - seq_0 + round_0

(* What waits in the lists of a worker: a command, and which of the copies  *)
(* the draft was given of it.                                               *)
Item == [cmd : Command, copy : Nat]
(* A slip: the texts are pushed, and not the commands made of them.         *)
SlipItems(S, k) == S
Items(S, k) == {[cmd |-> c, copy |-> k] : c \in S}
Commands(S) == {i.cmd : i \in S}

Entry == [cmd : Command, round : Nat]
Game == [rounds : Nat, log : Seq(Entry), half : BOOLEAN]

(* A game that is over counts no more rounds.                               *)
Begun(g)    == [g EXCEPT !.half = TRUE]
do_round(g) == [rounds |-> IF g.rounds < total_rounds THEN g.rounds + 1 ELSE g.rounds,
                log    |-> g.log,
                half   |-> FALSE]
command_execute(g, c) == [g EXCEPT !.log = Append(@, [cmd |-> c, round |-> g.rounds])]
Executed(g) == {g.log[i].cmd : i \in 1 .. Len(g.log)}

(* The pilot a DUMP makes: its queue of verified commands, with how often   *)
(* each was put there.                                                      *)
Dump == [id : Nat, cmd : Command, queue : [Verified -> Nat]]
Empty == [c \in Verified |-> 0]
pump_command(d, S) ==
    [d EXCEPT !.queue = [c \in Verified |->
                            @[c] + IF c \in Commands(S) THEN 1 ELSE 0]]

Held == [item : Item, round : Nat]
ASSUME NoneAssumption == None \notin Held /\ None \notin Dump

Thread == {"free", "worker", "control", "display"}
Place == {"top", "taken", "pop", "turn", "wait", "round", "execute", "done"}

TypeOK ==
    /\ run \in [Worker -> BOOLEAN]
    /\ commands \in [Worker -> SUBSET Item]
    /\ batch \in [Worker -> SUBSET Item]
    /\ hand \in [Worker -> Held \cup {None}]
    /\ game \in [Worker -> Game]
    /\ target_round \in [Worker -> Nat]
    /\ current_round \in [Worker -> Nat]
    /\ over \in [Worker -> BOOLEAN]
    /\ at \in [Worker -> Place]
    /\ global \in [Worker -> Thread]
    /\ compute \in [Worker -> Thread]
    /\ dump \in Dump \cup {None} /\ handed \in Dump \cup {None}
    /\ old_dump \in Nat /\ made \in Nat
    /\ fed \in Nat /\ sent \subseteq Drafts
    /\ replay \subseteq Drafts /\ todo \subseteq Drafts /\ copies \in Nat
    /\ last_commit_seq \in Int /\ last_sync_seq \in Int
    /\ control \in {"idle", "dump", "fetch", "pump", "draft", "lock", "sync",
                    "push", "backup", "free", "join", "ended"}
    /\ backup \in [asked : Int, game : Game]
    /\ display \in [rounds : Nat, half : BOOLEAN]
    /\ watch \in {"idle", "new", "draft", "reference"}

Init ==
    /\ run = [w \in Worker |-> TRUE]
    /\ commands = [w \in Worker |-> {}]
    /\ batch = [w \in Worker |-> {}]
    /\ hand = [w \in Worker |-> None]
    /\ game = [w \in Worker |-> [rounds |-> round_0, log |-> <<>>, half |-> FALSE]]
    /\ target_round = [w \in Worker |-> round_0]
    /\ current_round = [w \in Worker |-> round_0]
    /\ over = [w \in Worker |-> FALSE]
    /\ at = [w \in Worker |-> "top"]
    /\ global = [w \in Worker |-> "free"]
    /\ compute = [w \in Worker |-> "free"]
    /\ dump = None /\ old_dump = 0 /\ made = 0 /\ handed = None
    /\ fed = 0 /\ sent = {} /\ replay = {} /\ todo = {} /\ copies = 0
    /\ last_commit_seq = -1 /\ last_sync_seq = -1
    /\ control = "idle"
    /\ backup = [asked |-> -1, game |-> game["reference"]]
    /\ display = [rounds |-> round_0, half |-> FALSE]
    /\ watch = "idle"

----------------------------------------------------------------------------
(* A worker.                                                                *)

(* It takes all there is at once, and sorts it.                             *)
Take(w) ==
    /\ at[w] = "top" /\ run[w]
    /\ batch' = [batch EXCEPT ![w] = commands[w]]
    /\ commands' = [commands EXCEPT ![w] = {}]
    /\ at' = [at EXCEPT ![w] = "taken"]
    /\ UNCHANGED <<run, hand, game, target_round, current_round, over, global,
                   compute, dumpVars, sendVars, userVars, displayVars>>

LockBatch(w) ==
    /\ at[w] = "taken" /\ global[w] = "free"
    /\ global' = [global EXCEPT ![w] = "worker"]
    /\ at' = [at EXCEPT ![w] = "pop"]
    /\ UNCHANGED <<run, commands, batch, hand, game, target_round, current_round,
                   over, compute, dumpVars, sendVars, userVars, displayVars>>

(* A slip: the batch is not sorted.                                         *)
SlipPop(w) ==
    /\ at[w] = "pop" /\ run[w]
    /\ \E i \in batch[w] :
          /\ batch' = [batch EXCEPT ![w] = @ \ {i}]
          /\ hand' = [hand EXCEPT ![w] =
                         [item |-> i,
                          round |-> larger(RoundOf(i.cmd), current_round[w])]]
    /\ at' = [at EXCEPT ![w] = "turn"]
    /\ UNCHANGED <<run, commands, game, target_round, current_round, over, global,
                   compute, dumpVars, sendVars, userVars, displayVars>>

(* A command that comes late is executed now.                               *)
Pop(w) ==
    /\ at[w] = "pop" /\ run[w]
    /\ \E i \in batch[w] :
          /\ \A j \in batch[w] : ~Before(j.cmd, i.cmd)
          /\ batch' = [batch EXCEPT ![w] = @ \ {i}]
          /\ hand' = [hand EXCEPT ![w] =
                         [item |-> i,
                          round |-> larger(RoundOf(i.cmd), current_round[w])]]
    /\ at' = [at EXCEPT ![w] = "turn"]
    /\ UNCHANGED <<run, commands, game, target_round, current_round, over, global,
                   compute, dumpVars, sendVars, userVars, displayVars>>

(* The round is read here, and the mutex taken after that.                  *)
Turn(w) ==
    /\ at[w] = "turn"
    /\ at' = [at EXCEPT ![w] = IF run[w] /\ current_round[w] < hand[w].round
                               THEN "wait" ELSE "execute"]
    /\ UNCHANGED <<run, commands, batch, hand, game, target_round, current_round,
                   over, global, compute, dumpVars, sendVars, userVars,
                   displayVars>>

StartRound(w) ==
    /\ at[w] = "wait" /\ compute[w] = "free"
    /\ compute' = [compute EXCEPT ![w] = "worker"]
    /\ target_round' = [target_round EXCEPT ![w] = hand[w].round]
    /\ game' = [game EXCEPT ![w] = Begun(@)]
    /\ at' = [at EXCEPT ![w] = "round"]
    /\ UNCHANGED <<run, commands, batch, hand, current_round, over, global,
                   dumpVars, sendVars, userVars, displayVars>>

(* A slip: the worker takes its count from the game.                        *)
SlipEndRound(w) ==
    /\ at[w] = "round"
    /\ game' = [game EXCEPT ![w] = do_round(@)]
    /\ over' = [over EXCEPT ![w] = @ \/ game[w].rounds >= total_rounds]
    /\ current_round' = [current_round EXCEPT ![w] = lesser(@ + 1, total_rounds)]
    /\ compute' = [compute EXCEPT ![w] = "free"]
    /\ at' = [at EXCEPT ![w] = "turn"]
    /\ UNCHANGED <<run, commands, batch, hand, target_round, global, dumpVars,
                   sendVars, userVars, displayVars>>

(* The worker goes on counting rounds when the game is over.                *)
EndRound(w) ==
    /\ at[w] = "round"
    /\ game' = [game EXCEPT ![w] = do_round(@)]
    /\ over' = [over EXCEPT ![w] = @ \/ game[w].rounds >= total_rounds]
    /\ current_round' = [current_round EXCEPT ![w] = @ + 1]
    /\ compute' = [compute EXCEPT ![w] = "free"]
    /\ at' = [at EXCEPT ![w] = "turn"]
    /\ UNCHANGED <<run, commands, batch, hand, target_round, global, dumpVars,
                   sendVars, userVars, displayVars>>

(* A DUMP makes a pilot, in place of the one that was not fetched yet; the  *)
(* rest of the batch goes to a dump that was not there before.              *)
dump_command_execute(c) ==
    IF c.dump THEN [id |-> made + 1, cmd |-> c, queue |-> Empty] ELSE dump

(* A slip: nothing tells an old dump from a new one.                        *)
SlipExecute(w) ==
    /\ at[w] = "execute" /\ compute[w] = "free"
    /\ game' = [game EXCEPT ![w] = command_execute(@, hand[w].item.cmd)]
    /\ IF w = "reference"
       THEN LET d == dump_command_execute(hand[w].item.cmd) IN
            /\ made' = IF hand[w].item.cmd.dump THEN made + 1 ELSE made
            /\ dump' = IF d # None THEN pump_command(d, batch[w]) ELSE d
            /\ UNCHANGED old_dump
       ELSE UNCHANGED dumpVars
    /\ hand' = [hand EXCEPT ![w] = None]
    /\ at' = [at EXCEPT ![w] = "pop"]
    /\ UNCHANGED <<run, commands, batch, target_round, current_round, over, global,
                   compute, sendVars, userVars, displayVars>>

(* The command is executed under compute_mutex.  Only the reference looks   *)
(* at dumps.                                                                *)
Execute(w) ==
    /\ at[w] = "execute" /\ compute[w] = "free"
    /\ game' = [game EXCEPT ![w] = command_execute(@, hand[w].item.cmd)]
    /\ IF w = "reference"
       THEN LET d == dump_command_execute(hand[w].item.cmd) IN
            /\ made' = IF hand[w].item.cmd.dump THEN made + 1 ELSE made
            /\ dump' = IF d # None /\ d.id # old_dump
                       THEN pump_command(d, batch[w]) ELSE d
            /\ old_dump' = IF d = None THEN 0 ELSE d.id
       ELSE UNCHANGED dumpVars
    /\ hand' = [hand EXCEPT ![w] = None]
    /\ at' = [at EXCEPT ![w] = "pop"]
    /\ UNCHANGED <<run, commands, batch, target_round, current_round, over, global,
                   compute, sendVars, userVars, displayVars>>

EndBatch(w) ==
    /\ at[w] = "pop" /\ (run[w] => batch[w] = {})
    /\ batch' = [batch EXCEPT ![w] = {}]
    /\ global' = [global EXCEPT ![w] = "free"]
    /\ at' = [at EXCEPT ![w] = "top"]
    /\ UNCHANGED <<run, commands, hand, game, target_round, current_round, over,
                   compute, dumpVars, sendVars, userVars, displayVars>>

Stop(w) ==
    /\ at[w] = "top" /\ ~run[w]
    /\ at' = [at EXCEPT ![w] = "done"]
    /\ UNCHANGED <<run, commands, batch, hand, game, target_round, current_round,
                   over, global, compute, dumpVars, sendVars, userVars,
                   displayVars>>

Work(w) ==
    \/ Take(w) \/ LockBatch(w) \/ Pop(w) \/ Turn(w) \/ StartRound(w)
    \/ EndRound(w) \/ Execute(w) \/ EndBatch(w) \/ Stop(w)

----------------------------------------------------------------------------
(* The control thread: send_command, then commit.                           *)

(* A slip: the bulk takes the place of what the worker has not taken yet.   *)
SlipTransfer(old, new) == new

(* The bulk is put behind what the worker has not taken yet.                *)
transfer_from(old, new) == old \cup new

(* The verified commands come by whole seqs, in order.  last_commit_seq is  *)
(* set from the last of them, unless it is for round 0.                     *)
SendAndCommit(upto, D) ==
    LET V == Parsed({c \in Verified : fed < c.seq /\ c.seq <= upto}) IN
    /\ control = "idle" /\ ~over["reference"]
    /\ fed <= upto
    /\ \A c \in D : c.seq > get_last_commit_seq
    /\ V # {} \/ D # {} \/ dump # None
    /\ fed' = upto
    /\ commands' = [commands EXCEPT !["reference"] = transfer_from(@, Items(V, 0))]
    /\ \/ \E last \in V : /\ \A c \in V : c.seq <= last.seq
                         /\ RoundOf(last) > 0
                         /\ last_commit_seq' = last.seq
       \/ /\ \A c \in V : RoundOf(c) <= 0
          /\ UNCHANGED last_commit_seq
    /\ sent' = sent \cup D
    /\ replay' = replay \cup {c \in Parsed(D) : RoundOf(c) > seq2round(last_sync_seq)}
    /\ todo' = D
    /\ handed' = None
    /\ control' = "dump"
    /\ UNCHANGED <<run, batch, hand, game, target_round, current_round, over, at,
                   global, compute, dumpVars, copies, last_sync_seq, backup,
                   displayVars>>

(* The dump is looked for without a lock, then fetched with both.           *)
LookForDump ==
    /\ control = "dump"
    /\ IF dump = None
       THEN control' = "draft" /\ UNCHANGED global
       ELSE /\ global["reference"] = "free"
            /\ global' = [global EXCEPT !["reference"] = "control"]
            /\ control' = "fetch"
    /\ UNCHANGED <<run, commands, batch, hand, game, target_round, current_round,
                   over, at, compute, dumpVars, sendVars, handed, backup,
                   displayVars>>

FetchDump ==
    /\ control = "fetch" /\ compute["reference"] = "free"
    /\ handed' = dump
    /\ dump' = None
    /\ global' = [global EXCEPT !["reference"] = "free"]
    /\ control' = "pump"
    /\ UNCHANGED <<run, commands, batch, hand, game, target_round, current_round,
                   over, at, compute, old_dump, made, sendVars, backup,
                   displayVars>>

(* What the worker has not taken yet goes to the new pilot too.             *)
PumpCommands ==
    /\ control = "pump"
    /\ handed' = pump_command(handed, commands["reference"])
    /\ control' = "draft"
    /\ UNCHANGED <<workerVars, dumpVars, sendVars, backup, displayVars>>

(* Drafts are handed over when there is a new one: the draft first gets the *)
(* reference's game, when it has gone on since the last time.               *)
CommitDraft ==
    /\ control = "draft"
    /\ control' = IF todo = {} \/ replay = {} THEN "idle"
                  ELSE IF reference_current_seq > last_sync_seq THEN "lock"
                  ELSE "push"
    /\ todo' = IF todo = {} THEN {} ELSE replay
    /\ copies' = IF todo = {} THEN copies ELSE copies + 1
    /\ UNCHANGED <<workerVars, dumpVars, fed, sent, replay, last_commit_seq,
                   last_sync_seq, handed, backup, displayVars>>

LockDraft ==
    /\ control = "lock" /\ compute["draft"] = "free"
    /\ compute' = [compute EXCEPT !["draft"] = "control"]
    /\ control' = "sync"
    /\ UNCHANGED <<run, commands, batch, hand, game, target_round, current_round,
                   over, at, global, dumpVars, sendVars, handed, backup,
                   displayVars>>

(* A slip: the draft keeps its own count of rounds.                         *)
SlipSyncDraft ==
    /\ control = "sync" /\ compute["reference"] = "free"
    /\ game' = [game EXCEPT !["draft"] = game["reference"]]
    /\ target_round' = [target_round EXCEPT !["draft"] = target_round["reference"]]
    /\ last_sync_seq' = reference_current_seq
    /\ compute' = [compute EXCEPT !["draft"] = "free"]
    /\ control' = "push"
    /\ UNCHANGED <<run, commands, batch, hand, current_round, over, at, global,
                   dumpVars, fed, sent, replay, todo, copies, last_commit_seq,
                   handed, backup, displayVars>>

SyncDraft ==
    /\ control = "sync" /\ compute["reference"] = "free"
    /\ game' = [game EXCEPT !["draft"] = game["reference"]]
    /\ target_round' = [target_round EXCEPT !["draft"] = target_round["reference"]]
    /\ current_round' = [current_round EXCEPT !["draft"] = current_round["reference"]]
    /\ last_sync_seq' = reference_current_seq
    /\ compute' = [compute EXCEPT !["draft"] = "free"]
    /\ control' = "push"
    /\ UNCHANGED <<run, commands, batch, hand, over, at, global, dumpVars, fed,
                   sent, replay, todo, copies, last_commit_seq, handed, backup,
                   displayVars>>

(* One draft at a time, as the list of the worker is locked for each.       *)
PushDraft ==
    /\ control = "push"
    /\ \E c \in todo :
          LET ahead == RoundOf(c) > seq2round(last_sync_seq) IN
          /\ commands' = [commands EXCEPT !["draft"] =
                             IF ahead THEN @ \cup Items({c}, copies) ELSE @]
          /\ replay' = IF ahead THEN replay ELSE replay \ {c}
          /\ todo' = todo \ {c}
    /\ UNCHANGED <<run, batch, hand, game, target_round, current_round, over, at,
                   global, compute, dumpVars, fed, sent, copies, last_commit_seq,
                   last_sync_seq, userVars, displayVars>>

EndCommit ==
    /\ control = "push" /\ todo = {}
    /\ control' = "idle"
    /\ UNCHANGED <<workerVars, dumpVars, sendVars, handed, backup, displayVars>>

----------------------------------------------------------------------------
(* The control thread: backups, and the end.                                *)

MakeBackup ==
    /\ control = "idle"
    /\ control' = "backup"
    /\ UNCHANGED <<workerVars, dumpVars, sendVars, handed, backup, displayVars>>

(* A slip: the backup is read under the other mutex.                        *)
slip_sync_from_reference ==
    /\ control = "backup"
    /\ reference_current_seq >= get_last_commit_seq
    /\ compute["reference"] = "free"
    /\ backup' = [asked |-> last_commit_seq, game |-> game["reference"]]
    /\ control' = "idle"
    /\ UNCHANGED <<workerVars, dumpVars, sendVars, handed, displayVars>>

(* It waits for the reference to come to the last commit, then reads it     *)
(* between two batches.                                                     *)
sync_from_reference ==
    /\ control = "backup"
    /\ reference_current_seq >= get_last_commit_seq
    /\ global["reference"] = "free"
    /\ backup' = [asked |-> last_commit_seq, game |-> game["reference"]]
    /\ control' = "idle"
    /\ UNCHANGED <<workerVars, dumpVars, sendVars, handed, displayVars>>

(* A slip: the draft is joined and was not told to stop.                    *)
SlipFreePilot ==
    /\ control = "idle"
    /\ control' = "free"
    /\ UNCHANGED <<workerVars, dumpVars, sendVars, handed, backup, displayVars>>

FreePilot ==
    /\ control = "idle"
    /\ run' = [run EXCEPT !["draft"] = FALSE]
    /\ control' = "free"
    /\ UNCHANGED <<commands, batch, hand, game, target_round, current_round, over,
                   at, global, compute, dumpVars, sendVars, handed, backup,
                   displayVars>>

JoinDraft ==
    /\ control = "free" /\ at["draft"] = "done"
    /\ run' = [run EXCEPT !["reference"] = FALSE]
    /\ control' = "join"
    /\ UNCHANGED <<commands, batch, hand, game, target_round, current_round, over,
                   at, global, compute, dumpVars, sendVars, handed, backup,
                   displayVars>>

JoinReference ==
    /\ control = "join" /\ at["reference"] = "done"
    /\ control' = "ended"
    /\ UNCHANGED <<workerVars, dumpVars, sendVars, handed, backup, displayVars>>

----------------------------------------------------------------------------
(* The display thread: sync_from_draft, with the locks of                   *)
(* LW6PIL_DIRTY_READ_NEVER.                                                 *)

max_round == larger(current_round["draft"], current_round["reference"])

(* Whether there is something new is read before the locks are taken...     *)
LookForNew ==
    /\ watch = "idle" /\ control # "ended" /\ max_round > display.rounds
    /\ watch' = "new"
    /\ UNCHANGED <<workerVars, dumpVars, sendVars, userVars, display>>

WatchDraft ==
    /\ watch = "new" /\ compute["draft"] = "free"
    /\ compute' = [compute EXCEPT !["draft"] = "display"]
    /\ watch' = "draft"
    /\ UNCHANGED <<run, commands, batch, hand, game, target_round, current_round,
                   over, at, global, dumpVars, sendVars, userVars, display>>

WatchReference ==
    /\ watch = "draft" /\ compute["reference"] = "free"
    /\ compute' = [compute EXCEPT !["reference"] = "display"]
    /\ watch' = "reference"
    /\ UNCHANGED <<run, commands, batch, hand, game, target_round, current_round,
                   over, at, global, dumpVars, sendVars, userVars, display>>

MoreAdvanced ==
    IF game["draft"].rounds > game["reference"].rounds
    THEN game["draft"] ELSE game["reference"]

(* A slip: the rounds are not looked at again.                              *)
SlipShow ==
    /\ watch = "reference"
    /\ display' = [rounds |-> MoreAdvanced.rounds, half |-> MoreAdvanced.half]
    /\ compute' = [w \in Worker |-> IF compute[w] = "display" THEN "free"
                                    ELSE compute[w]]
    /\ watch' = "idle"
    /\ UNCHANGED <<run, commands, batch, hand, game, target_round, current_round,
                   over, at, global, dumpVars, sendVars, userVars>>

(* ... and read again under them.                                           *)
Show ==
    /\ watch = "reference"
    /\ display' = IF max_round > display.rounds
                  THEN [rounds |-> MoreAdvanced.rounds, half |-> MoreAdvanced.half]
                  ELSE display
    /\ compute' = [w \in Worker |-> IF compute[w] = "display" THEN "free"
                                    ELSE compute[w]]
    /\ watch' = "idle"
    /\ UNCHANGED <<run, commands, batch, hand, game, target_round, current_round,
                   over, at, global, dumpVars, sendVars, userVars>>

----------------------------------------------------------------------------
(* What the control thread does once it has begun a commit, a backup or to  *)
(* free the pilot.                                                          *)
Finish ==
    \/ LookForDump \/ FetchDump \/ PumpCommands \/ CommitDraft \/ LockDraft
    \/ SyncDraft \/ PushDraft \/ EndCommit \/ sync_from_reference \/ JoinDraft
    \/ JoinReference

Control ==
    \/ \E upto \in {c.seq : c \in Verified} \cup {fed},
          D \in SUBSET (Drafts \ sent) : SendAndCommit(upto, D)
    \/ MakeBackup \/ FreePilot \/ Finish

Watch == LookForNew \/ WatchDraft \/ WatchReference \/ Show

(* A pilot that was freed does nothing any more.                            *)
Freed == control = "ended" /\ watch = "idle" /\ UNCHANGED vars

Next == (\E w \in Worker : Work(w)) \/ Control \/ Watch \/ Freed

Spec == Init /\ [][Next]_vars

(* The threads run, each finishes what it has begun, and each gets a mutex  *)
(* that is free again and again: a worker that has nothing to do takes and  *)
(* gives back global_mutex for ever.                                        *)
Fairness ==
    /\ \A w \in Worker : SF_vars(Work(w))
    /\ SF_vars(Finish)
    /\ SF_vars(WatchDraft \/ WatchReference \/ Show)

FairSpec == Spec /\ Fairness

----------------------------------------------------------------------------
(* What a peer runs is the commands all agree on, in the one order they     *)
(* have and each at its own round, however they were cut into batches: any  *)
(* two peers play the same game.                                            *)
ReferenceInOrder ==
    LET log == game["reference"].log IN
    /\ \A i, j \in 1 .. Len(log) : i < j => Before(log[i].cmd, log[j].cmd)
    /\ run["reference"] =>
          \A i \in 1 .. Len(log) :
             log[i].round = lesser(RoundOf(log[i].cmd), total_rounds)

(* No command a peer was given is passed over: when one is executed, all    *)
(* that come before it have been.                                           *)
NothingSkipped ==
    LET done == Executed(game["reference"]) IN
    \A c \in done : \A d \in Parsed(Verified) : Before(d, c) => d \in done

(* The check of the worker's loop, "possible race condition, worker and     *)
(* game_state do not report the same round number": whoever has             *)
(* compute_mutex, or could take it, finds a whole round and the right       *)
(* number, in spite of the copies made of the reference onto the draft.     *)
RoundsAgree ==
    \A w \in Worker : compute[w] # "worker" =>
        /\ ~game[w].half
        /\ game[w].rounds = lesser(current_round[w], total_rounds)

(* "We want to make sure the backup really corresponds to the right seq":   *)
(* a backup holds every command of the last commit, though the worker may   *)
(* still have some in its batch when its round is the right one.            *)
BackupIsWhole ==
    \A c \in Parsed(Verified) :
        c.seq <= backup.asked => c \in Executed(backup.game)

(* What is still to be executed when a DUMP is goes to the pilot it makes   *)
(* from two places, the rest of the batch and the list not yet taken: no    *)
(* command is put twice, and none the dump came after.                      *)
DumpNothingTwice ==
    \A d \in {dump, handed} \ {None} : \A c \in Verified :
        d.queue[c] > 0 => d.queue[c] = 1 /\ Before(d.cmd, c)

(* "If there's already a dump from previous compute, data will be appended  *)
(* the right way": the caller gets, with the pilot of a DUMP, all it has    *)
(* handed over that comes after the DUMP.                                   *)
DumpLosesNothing ==
    control = "draft" /\ handed # None =>
        \A c \in Verified :
            c.seq <= fed /\ Before(handed.cmd, c) => handed.queue[c] > 0

(* The display is never given a state in the middle of a round, and never   *)
(* goes back in time, while the draft it shows is set back to the reference. *)
DisplayNeverGoesBack ==
    [][~display'.half /\ display'.rounds >= display.rounds]_display

(* A command every peer agrees on is executed in the end, a backup made, a  *)
(* pilot freed: no wait for a mutex or for a thread is for ever.            *)
CatchesUp ==
    []<>(run["reference"] =>
           \A c \in Parsed(Verified) :
              c.seq <= fed => c \in Executed(game["reference"]))
Returns == control # "idle" ~> control \in {"idle", "ended"}
=============================================================================
