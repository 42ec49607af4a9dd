# Liquid War 6: a verification development

Liquid War 6 is a multiplayer game. Every computer of a network game runs the
whole game; what travels is only the list of commands of the players, stamped
with the round (*seq*) they are for. The game stays the same everywhere if, and
only if, every computer plays every round with the same commands. This
development is about the part of the program that is responsible for it: the
**data warehouse** (`src/liquidwar6/src/lib/dat`), which stores, forwards, asks
again for and hands over the commands, together with the part of the peer to
peer layer (`src/liquidwar6/src/lib/p2p`) that makes the warehouses exchange
them and lets nodes join. A second part is about what comes after: the **pilot**
(`src/liquidwar6/src/lib/pil`), whose threads execute the commands, and the rules
of the **battle** they change (`src/liquidwar6/src/lib/ker`). A third is about what
comes before: the **loader**, the thread that prepares a map
(`src/liquidwar6/src/lib/tsk`), and the menus that make a game start with what it
prepared (`src/liquidwar6/script`).

All paths below are relative to `src/liquidwar6/src/lib/` unless they start with
`script/` or `doc/` (under `src/liquidwar6/`).

## 1. Inventory

| component | code | state it keeps | operations | what is hard | what makes it correct |
|---|---|---|---|---|---|
| **dat stack** | `dat/dat-stack.c`, `dat-block.c`, `dat-atom.c` | the atoms (fragments of messages) of one writer, by serial, in a sliding window of blocks; per atom: to whom it must go, went, and whether it was popped; draft, reference and missing range | put an atom or a message, calculate draft and reference, list messages of a round, list atoms to send, find what is missing, invalidate | atoms come in any order, twice, or never; cached bounds; the window slides under late atoms | bounds exact; a round is reference only when complete; a message is handed over whole or not at all |
| **dat warehouse** | `dat/dat-warehouse.c`, `dat-miss.c` | one stack per node of the game, stack 0 being one's own; last local seq | register a node, put local or remote atoms, reference/draft/min/max seq over all stacks, lists | silent nodes, relayed atoms, duplicates | atoms filed under their writer; a round that is reference is over for everybody |
| **p2p node** | `p2p/p2p-node.c`, `p2p-recv.c` | tentacles (one per peer), last seq handed over, flags seed/dump needed | the thirteen steps of `poll`, the handlers of HELLO, TICKET, FOO, BAR, JOIN, GOODBYE, DATA, META, MISS, the message pumps | losses, reordering, duplicates; lock released while tentacles are polled; lost or repeated JOIN | messages recovered; each round handed over once, in order; no round over before a newcomer has said what it plays, nothing missed by coming |
| **p2p tentacle** | `p2p/p2p-tentacle.c` | connections to a peer by several backends (UDP, TCP, HTTP), queues of unsent packets | send to the best or to all connections, poll | packets are signed when queued and may be sent much later | what was queued reliable is sent |
| **p2p exploration** | `p2p/p2p-explore.c`, `-flush.c`, `-db.c`, ... | SQL table of known nodes | discover, verify, connect | timeouts | – |
| **cnx tickets** | `cnx/cnx-tickettable.c` | per peer: the ticket it must sign with, the ticket to sign with | get, set, acknowledge | packets unsigned or signed late are in flight while the ticket is exchanged | what is signed after the exchange is accepted |
| **pil pilot** | `pil/pil-pilot.c`, `-compute.c`, `-worker.c`, `-command.c`, `-dump.c` | backup, reference and draft states of the game, pending commands, last committed seq | send command, commit (with the fetch of a dump and the synchronisation of the draft), backup, sync from reference or from draft, free; each worker takes batches, sorts, computes rounds, executes | two worker threads with two mutexes each, a control and a display thread; commands in bulks, batches taken at any moment; commands late for the draft | the reference is a function of the reference commands; copies are whole; nobody waits for ever |
| **game loop** | `script/command.scm`, `net.scm`, `server.scm` | – | poll the node, write NOP and commands, pump messages into the pilot, make and read dumps | which seq is written when | never writes in a round already left |
| **tsk loader** | `tsk/tsk-loader.c` | a request and its number, the results of two stages, the worker's own copies | push, pop, free; the worker reads a map, then builds a game | requests superseded while being served; results popped between the stages | never a stale result, each result once, what is asked for comes |
| **menus, start of games** | `script/main.scm`, `menu*.scm`, `game.scm`, `loader.scm`, `score.scm`, `io.scm` | the stack of menus; `loaded`, `loaded-func`, `chosen-map`, options, `network`, the running game | items of menus, `lw6-io` polling the loader | global variables set by many handlers, results that come later | the game that starts is the one that was asked for, and it starts |
| **sys list_r** | `sys/sys-listr.c` | a list and its mutex | push, pop, transfer | check before lock | nothing lost |
| **ker** | `ker/*.c` | nodes, cursors, teams, armies, score; gradients, zones, positions of fighters | register, add and remove cursors, one round: fights, deaths, respawns, the end | integer proportions, teams that die and come back between commands; arithmetic on thousands of places | no fighter in two armies or beyond the room, the score balanced, the dead come back; same input, same state |
| other libraries | `map ldr gen msg nod net cli srv bot sim dsp gfx gui snd img vox mat cfg cns dyn glb hlp scm def` | | formats, maps, graphics, sound, configuration, wrappers | | |

How they interact: the game loop calls `lw6p2p_node_poll`, which, under the lock
of the node, lets the warehouse list unsent atoms (step 10), polls the tentacles
(step 11, unlocked: packets received there call `_lw6p2p_recv_callback`, which
locks again and calls the warehouse), and asks for what is missing (step 12).
A client gets in by a JOIN packet: the server registers it at its own local seq,
answers, and writes META messages, atoms like others, from which every node
learns which nodes there are. The loop then writes its own messages (`lw6dat_warehouse_put_local_msg`) and
pumps messages, reference first, into the pilot.

## 2. Modules

    Stack ---> StackLoops, StackLife ---> MCStack   (loops against sets)
      |  \          `---> StackLifeTheorems (and of StackTheorems)
      |   `---------> StackTheorems --.
      `-> Warehouse ----> Join ---> MCJoin
             |  |  \      (nodes come)  \
             |  |   `---> MCPair         \
             |  `----> WarehouseTheorems ---> ReferenceTheorems
             |                                     `----> JoinTheorems (and of Join)
             `- - refines - -> Lockstep   (checked by MCPair, proved there)

    Pilot -----> MCPilot               MapState ---> GameState ---> MCGameState
      `--------> PilotTheorems                           `--------> GameStateTheorems

    Loader ---> Startup ---> MCStartup
      |   \--> MCLoader  `-----> StartupTheorems (of both)
      `- - refines - -> Delivery

* **Stack** – one stack as a record and every function of `dat-stack.c` as an
  operator on it. The record has the fields of `_lw6dat_stack_t` (`serial_n_1`
  is an operator, the blocks are the function `atoms` from serials to cells).
  Where the C code loops, the operator states the outcome with sets: the
  messages found complete, the holes, the atoms to send.
* **StackLife** – one stack on its own: what was written arrives in any order, and
  every operator of Stack is applied at any time.
* **StackLoops** – the same loops and recursions transcribed turn by turn
  (`RECURSIVE`). Nothing else uses them: their only purpose is that TLC compares
  them with the sets of Stack on every stack MCStack reaches. This is what links
  the readable definitions, and the proofs about them, to the control of the C
  code.
* **Warehouse** – the state machine: `stacks[n][o]` is what node `n` has of what
  node `o` wrote. One action per operation: `PutLocalMsg`, `SendAtoms` (step 10,
  for one tentacle; the C loop over tentacles is the sequence of them, with
  other nodes free to act in between, which they are: they are other processes),
  `RecvAtom` (DATA and META), `PollMiss` (step 12), `RecvMiss`, `HearSerial`
  (FOO and BAR), `GetReferenceMsgs`/`NoReferenceMsgs` and
  `GetDraftMsgs`/`GetNothing` (the pumps of the game loop, until they answer
  nothing), `Lose`. Packets stay in `net` when received: they are reordered and
  duplicated at will.
* **Join** – how nodes come into the game that Warehouse describes. Its state adds
  who is registered where (`known`), the `seq_0` of each stack, what the META
  message at each serial of the server lists (`meta`) and how far
  `_lw6p2p_node_client_join` is at each client (`status`). `ClientJoin` clears a
  client, `AskToJoin` sends JOIN with seq 0, `RecvJoin` registers and answers and
  writes the META messages in one go (the handler holds the lock), `RecvAnswer`
  takes the server in and sets the local seq, `RecvAtomOrRefuse` is DATA and META
  at a node that may not know the writer, `TimeOut` is `join_delay`. `RegisterNode`
  is `_lw6dat_warehouse_register_node` with the shift of a stack that is there already.
  Writing, reading and sending are the actions of Warehouse, for those in the
  game. Left out: GOODBYE and nodes that leave (nothing unregisters a node), a
  second `client_join` (a server that has registered a node never answers it
  again), MISS and pings (packets stay in `net`, which can bring back whatever a
  MISS asks for), drafts, the flags `seed_needed` and `dump_needed`, and the list of
  peers that comes with a JOIN: `lw6nod_info_update` (`nod/nod-info.c:228`) parses it
  and drops it, so `_lw6p2p_peer_id_list_process_join` has nobody to register.
* **Lockstep** – the abstract specification: rounds only. What the game loop is
  promised.
* **Delivery** – the abstract specification of the loader: what `pop` hands over
  after a push.
* **Loader** – `tsk-loader.c`. Each critical section under the mutex is one
  action: `Push` (of a map on disk or a seed), `Pop`, `Free`, and for the worker
  `TakeRequest`, `StoreLevel` (stage 1), `TakeSource`, `StoreGame` (stage 2),
  `Loop` around them. A level, a game_struct and a game_state are represented by
  the request they were made from, which is what the properties ask about. The
  request number only grows and is only compared with what the worker took, so
  `worker.current` holds the outcome of the comparison: true when taken, false
  from the next push on. `pushed` and `given` are history variables.
* **Startup** – the main thread over the loader, one action per menu item or
  handler: `InitMenu` and `EnterLoop` (`main.scm`), the items that start games,
  browse maps, change options or leave (`StartGame` ... `Replay`), and `Poll`, the
  call of `lw6-loader` in the main loop. The pieces several handlers share are
  operators: `Start` (`lw6-game-start-*-step1` with its step2), `PushLdrIfNeeded`,
  `Settle`. Main and its submenus are one screen "main"; the game kinds that
  differ in nothing else ("1 on 1", "Local multiplayer", "Demo" and "Quick
  start") are one kind "quick".
* **Pilot** – `pil-pilot.c`, `pil-compute.c`, `pil-worker.c` and what `pil-dump.c`
  does to a pilot, for four threads: two workers, the control thread (the game
  loop) and the display. A step is what a thread does between two points where
  another can be seen to act: taking or giving back a mutex, an unlocked look
  at what others write. For a worker: `Take` (empties the list), `LockBatch`, `Pop`,
  `Turn`, `StartRound` and `EndRound` (a round is not atomic: `half` is true in
  between, and whoever copies a state then copies a half round), `Execute`,
  `EndBatch`, `Stop`; for the control thread `SendAndCommit`, the fetch of a dump
  (`LookForDump`, `FetchDump`, `PumpCommands`), the draft (`CommitDraft` ...
  `EndCommit`), `MakeBackup`, `FreePilot` and the two joins; for the display
  `LookForNew`, `WatchDraft`, `WatchReference`, `Show`. A game state is the number
  of rounds computed and the log of the commands executed with the round of each:
  a game is deterministic, so equal logs are equal games. A batch is a set:
  the list is sorted before anything is popped.
* **MapState, GameState** – the rules of a battle: `ker-mapstate.c` and
  `ker-gamestate.c` without the map. An army is its number of fighters; who
  takes fighters from whom in a round is any choice (`Moved`), and everything
  the code decides from the numbers (who dies, respawns, scores, who is made room
  for, when the game is over) follows it. MapState has the operators on teams
  and cursors, GameState the actions: `register_node`, `unregister_node`,
  `add_cursor`, `remove_cursor`, `do_round`. A loop of the code that would not
  end is `Faulty`.
* **MCStack, MCPair, MCJoin, MCPilot, MCGameState, MCLoader, MCStartup** – the instances TLC checks.
* **StackTheorems, StackLifeTheorems, WarehouseTheorems, ReferenceTheorems,
  JoinTheorems, PilotTheorems, GameStateTheorems, StartupTheorems** – the proofs.

What the abstraction leaves out of an atom: its text. An atom is its type
(DATA, META), seq, and its position `order_i` of `order_n` in its message; the
code compares texts to tell two atoms at one serial apart, the model compares
these records. Which flags say to whom it went are sets of nodes instead of bit
masks of stack indices. `written`, `delivered` and `chain` are history
variables: no action reads them except to say which messages a node had
followed from the beginning.

Warehouse and Join: Warehouse starts with every node registered everywhere, as
`_lw6dat_warehouse_register_node` and `set_local_seq_0` leave them, the META
messages of the server written (`NbMeta`, 5 in the code) and, at a joiner that
knows other joiners, received: it is through them that it knows. Serials start
at 1 at every node because registration by JOIN passes the local serial of a
node that has written nothing. Join starts with a server alone and nobody else
registered. That Warehouse's Init is what Join reaches is not shown by a run: the
two write META at different numbers of times for the sake of the bounds.

The loop of `_lw6dat_stack_init` that should store `seq_0` in `seq_0s` has a
condition (`ret < 0`) that is never true (`dat-stack.c:128-139`); the model
keeps every `seq_0s` invalid there, as the code does, and registration sets it.

`PollMiss(n, heldback)` holds back any subset of the MISS messages: the code
holds one back when it overlaps the last one sent less than 500 ms ago, or when
many atoms have just been received; time is not modelled.

Definitions called `Slip...` are plausible mistakes (a dropped `-1`, a loop that
starts one too far, a flag not cleared). No other definition uses them; each was
put in the place of the right one to see that the property aimed at it fails.

## 3. What is checked

| run | question | result |
|---|---|---|
| `stack` | blocks of 2, two of them, that shift up and down; serials in any order, sent, invalidated, read in both modes with every kind of hole | bounds exact; draft, reference, missing range, atoms to send, messages handed over and a message put are what the C loops compute |
| `pair_read` | 3 atoms of the server (messages of 1 or 2) in any order, joiner reads, no losses | `ReferenceComplete`, `NoLateMessage`, `BlindReadIsEmpty`, implements `Lockstep`; `CaughtUp` (liveness) |
| `pair_recover` | 3 atoms, MISS and pings, losses at will | types, `MissIsRight`: a MISS asks for written atoms only, begins and ends with a missing one; `Recovered` (liveness) |
| `join` | a server and two clients that come one after the other or together, while the others write; rounds 1 to 3; DATA before META, META late, answers late, one client that gives up; no META overtakes another | `StoredAsWritten` (with forwarding through the server), `RoundsWaitForNewcomers`, `NothingMissedByComing`, `RefusedIsAskedFor`; `FirstJoinSucceeds` (liveness) |
| `loader` | a map that loads, one that cannot be read, one no game can be made of, a seed, two settings, two bench values; pushes, pops and a stop at any moment | types, `OnlyTheLastRequest`, `OnePlace`, implements `Delivery`; `GameComes`, `FreeReturns` (liveness); deadlock |
| `startup` | every menu path over the loader, menus up to 4 deep, local and network bench values | `RunsAtItsBench`, `WaitIsWatched`; `PreviewComes` (liveness) |
| `battle` | two nodes, three cursors, three colours, four sets of rules; commands between rounds, fights that turn any way | types, `SanityCheck`, `NoFault`, `FragsConserved`, `CommandsKillNobody`, `RoundLeavesLed`, `ComesBack` |
| `pilot` | the pilot of a server (backups, free) or of a player (drafts, display); seven commands of which one is refused and one is a DUMP, in any bulks and batches; a game of two rounds and what comes after it | types, `ReferenceInOrder`, `NothingSkipped`, `RoundsAgree`, `BackupIsWhole`, `DumpNothingTwice`, `DisplayNeverGoesBack`; `CatchesUp`, `Returns` (liveness); deadlock |
| `join_overtaken`, `join_twice`, `startup_awaited`, `pilot_dump` | what comments say | violated, see 6 |

**Bounds.** Blocks of 2 to 10 atoms, 2 blocks: in MCStack small enough to shift,
in the warehouse instances large enough that they do not (2000 x 500 in the
code: a million atoms, hours of game). `MISS_MAX_RANGE` 1 instead of 100, so that
a MISS does not always cover every hole. 3 serials are what a hole takes (one
before, one after), 2 rounds what the `-1` of the reference takes, 2 atoms in a
message what a fragment takes; `pair_read` has all three together, and `pair_recover`
takes up the losses, duplicates, MISS and pings that multiply with reading.
`join` has three nodes, which is what forwarding and a newcomer that others have
to hear of take. One of them reads (what the others read changes nothing for it,
reading is local) and of what is sent only what flows towards it is followed. The
server writes in rounds 2 and 3, the reader in 3, the other client in 2 and 3: a
round before, at and after the one a client comes in; each writes one message for
each of its rounds, as the game loop, which leaves out none, does. There is one META message per
newcomer instead of 5, which repeat it against losses; the server keeps
the serials it needs for them, and has two more: with one more only, the
round between two newcomers in which `join_overtaken` loses a message does not exist.
`join` is without what this run and `join_twice` are about (`Overtakes`, `Redundant`).
A third client adds nothing: the three properties were also
checked, once, with a server, a writer, a reader and a client that comes last. `ReadSpec` has no
retransmission: `net` never forgets a packet, so whatever a MISS brings back can
arrive there too.

The loader and the menus have no counters, so only their data is small: what
matters of a map is whether it can be read and whether it is the chosen one, of an
option whether it changed, of a bench value whether it is the local or the network
one, so two of each are enough. `MaxMenus` bounds "Back to main menu", which
stacks one more root menu each time: 4 leaves room for one turn of it.

`battle` has armies of three fighters on a map for five, so that an arrival has to
make room, shares round to nothing and an army is dealt out unevenly; `Giant` is a
team larger than the map. They are the smallest for which `NoFault` can be expected
(`Reasonable`). One more round than the game lasts is played
(`MaxExtra`). `pilot` has commands before the first round (refused), at
rounds 0 to 3 in a game that ends at 2, two at one round, a DUMP between two
commands, and a draft that comes late: each is a case the code treats apart. The
server and the player are two pilots in one run: all of `Control` with all of
`Watch` multiplies to no purpose, since they meet in the mutexes of the workers only.

**Fairness.** The poll loop of a node runs for ever, so sending and asking are
weakly fair; a MISS held back is sent when its delay is over (`PollMiss(n, {})`).
A packet that is sent again and again arrives in the end: strong fairness of the
reception of a given atom or MISS. Without this last assumption a network may
lose everything. In `pair_read` nothing is lost, so weak fairness is enough;
the fairness of reading is written out (`[]<>~ReferenceReady \/ []<><<Advances>>`)
instead of `WF`, which means the same and spares TLC the computation of the
messages. In `join` a client that is connected asks, and a JOIN and its answer
arrive: written with `[]<>`, because these actions stay enabled until they are taken.
`Recovered` says "a node that has received one atom": `_get_miss`
searches nothing while a stack is empty (`dat-stack.c:1371`).

In the loader the worker is a thread that never stops before it is told to (`WF`
of its steps), and the main loop pops as long as it runs (`WF` of `Pop` or `Poll`).
A worker of a pilot never sleeps: with nothing to do it takes and gives back
`global_mutex` for ever. Weak fairness would let whoever else waits for that
mutex wait for ever, so `Fairness` of Pilot is strong: a thread that finds a mutex
free again and again gets it in the end, which is what the scheduler and the
mutexes of the system give. It is stated for the workers, for a call in progress
(`Finish`) and for the display; nobody has to begin a call.

The player is not fair: the liveness properties are about players who rest from
some moment on (`PlayerRests`, `Rests`).

## 4. What is proved

For every set of nodes, topology, window size, bound and loss:

* `StackTheorems`: what storing an atom (`PutAtomKeeps`) and a local message
  (`PutMsgAppends`) may do to a stack, whichever way the window shifts, and that
  every operation yields a stack.
* `AlwaysExact`: `LifeSpec => []BoundsExact`, for any sequence of atoms and any window,
  however often it shifts. (MCStack follows two lives among those of `LifeSpec`.)
* `TypeCorrect`: `Spec => []TypeOK` for the warehouses.
* `AlwaysStoredAsWritten`: `Spec => []StoredAsWritten`.
* `NeverLate`: `Spec => []NoLateMessage`.
* `ReferenceTheorems`, for warehouses whose windows do not move (`OneWindow`):
  `AlwaysReferenceComplete`: `[]ReferenceComplete`; `BlindReadAlwaysEmpty`:
  `[]BlindReadIsEmpty`; `MissAlwaysRight`: `MissIsRight`; `LockstepImplemented`:
  the warehouses implement `Lockstep`.
* `JoinStoredAsWritten`: `JoinSpec => []StoredAsWritten`, while any number of nodes come
  into the game, for any window, and even when JOIN is received twice (`Redundant`) or
  META out of order (`Overtakes`).
* `JoinRefusedIsAskedFor`: `JoinSpec => []RefusedIsAskedFor`, for windows that do not move
  (`OneWindow`) and as long as no META overtakes another (`~Overtakes`; section 6
  shows what happens otherwise), whether or not JOIN is received twice.
* `JoinRoundsWait`: `JoinSpec => []RoundsWaitForNewcomers`, and `JoinNothingMissed`:
  `JoinSpec => []NothingMissedByComing`, for any number of newcomers in any order, under the
  same hypotheses and two more: JOIN is not received twice (`~Redundant`) and META is put
  for a newcomer (`NbMeta # 0`; `meta-nb-duplicates` is 5).
* `NothingStale`, `NothingTwice`: `[]OnlyTheLastRequest`, `[]OnePlace` for the
  loader, for any maps, seeds, parameters and bench values, and whichever of them
  cannot be read or built; `LoaderTypeCorrect`: its types.
* `KeepsPromise`: the loader implements `Delivery`.
* `AlwaysInOrder`, `NeverSkips`: `[]ReferenceInOrder`, `[]NothingSkipped` for the
  reference of a pilot, for any game, any commands and any way the control thread
  cuts them into commits and the worker into batches; `WholeRounds`:
  `[]RoundsAgree`; `DisplayGoesForward`: `DisplayNeverGoesBack`;
  `PilotTypeCorrect`: its types.
* `DumpedOnce`: `[]DumpNothingTwice`; `BackupsAreWhole`: `BackupIsWhole`, for a game
  that is followed from its first round (`round_0 = 0`; section 6 says why).
* `AlwaysAtItsBench`: `[]RunsAtItsBench`, for any maps, options and bench values, with
  or without `--quick-start`; `AlwaysWatched`: `[]WaitIsWatched`, without it.
* `BattleIsSane`: `[]SanityCheck`; `RoundsConserveFrags`: `FragsConserved`;
  `RoundsLeaveLed`: `RoundLeavesLed`; `BattleTypeOK`: the types; for any number of teams,
  nodes and cursors, any map, any rules and any fights.
* `BattleNeverFails`: `[]NoFault`; `NobodyDiesOfCommands`: `CommandsKillNobody`. What
  these say of `Reasonable` rules is proved of all such rules.

The only assumptions are `WindowAssumption`, `LifeAssumption`, `ConfigAssumption`,
`JoinAssumption` (a window of blocks reaches at least one atom beyond the block it begins
in, so that a META finds a place; the code's windows reach hundreds of blocks of 2000 atoms
further), `LoaderAssumption`, `StartupAssumption`, `PilotAssumption` (the lowest seq is
positive, no two verified commands have the same place in the order),
`MapStateAssumption` (two teams at least, finitely many cursors),
`GameStateAssumption` (the rules are within the bounds `lw6map` puts on them) and
`NoneAssumption`, which TLC evaluates on every run that uses them. The theorems of `ReferenceTheorems` and
the last three of `JoinTheorems` have one hypothesis more, `OneWindow`: no node writes more atoms
than one window of blocks holds, which are a million in the code. It is not there for
convenience: without it the properties are false, as section 6 tells. `MCPair` and `MCJoin`
assume it, so that TLC evaluates it too, on every instance of several nodes. Nor are
`~Overtakes` and `~Redundant`: `join_overtaken` and `join_twice` are runs where one of
them fails, and `NothingMissedByComing` with it. With `NbMeta = 0` nobody would ever hear
of another client; `MCJoin` assumes that it is not.

**The inductive invariant.** `NoLateMessage` relates the reference of one node to
the local seq of another, and says nothing of how it comes about. The argument is:
what node `n` stores of `o` is what `o` wrote (`StoredAsWritten`); what `o` wrote
has seqs up to `local_seq_last[o]`, and from `Seq0` on; the serial of the
reference of a stack is invalid or the serial of an atom it once held, so
`SeqReference`, which subtracts one, is strictly below `local_seq_last[o]`; for
a silent node the stack answers through `seq_0s`, at most `Seq0`, and the local
seq of a node never goes below `Seq0`; the reference of the warehouse is the
minimum over all writers, hence below every local seq, and stays so since local
seqs never decrease. `StoredAsWritten` in turn needs that a local stack
holds at `serial_max` the last atom written, so that the next one is put at the next
serial, and that the window of the local stack has room (the bound on the number of
META messages and on the atoms of a message are there for that). These parts
are the conjuncts of the inductive invariant in `WarehouseTheorems`.

`ReferenceComplete` is about one node's reading. Its invariant (`WInv`, which TLC checked on two
instances of two nodes before it was proved) adds to the one above:

* what a node writes is a sequence of whole messages, of rounds that never go
  down (`WrittenOK`), so that an atom tells where its message begins and ends and
  that a message of a later round lies behind all those of an earlier one;
* a stack has its bounds exact and its window in place (`Exact`), so that
  nothing that was stored is lost from it before it is read;
* the reference of a stack is a whole message, and when the stack was followed
  from serial 1 all up to its end is there (`ReferenceHeld`). This is what
  `get_seq_reference` relies on without looking at it: it compares one seq and takes for
  granted that everything before was received;
* what was handed over was handed over with its round (`DeliveredOK`).

With these a message of a round up to the reference lies at or before the reference
of its stack, is present and whole, and the search for its round, from the serial
`seq2serial` yields upwards and downwards, meets no hole before it: it is in the list
(`RoundIsRead`). A writer of whom nothing is known stands with the seq it was
registered with, and has written nothing before that. For `MissIsRight` a bound on the range
kept between two searches is carried along (`MissBounded`). `BlindReadIsEmpty` follows
from the same invariant: a message the search hands over lies from `serial_min` on and
is whole, so the calculation would have found it.

On top of it each step is one of Lockstep or invisible to it: `PutLocalMsg` is
`WriteMessage`, `GetReferenceMsgs` is `HandOver`, and a reading that finds nothing new, or a
draft, is `LoseTrack` when the follow-up begins again after a hole. That a round is over when
it is handed over is `NoLateMessage`, that it is complete `ReferenceComplete`.

For nodes that come (`ComeInv`) the invariant is about one registry at a time, since
`register_node` rewrites every stack of a node at once: all in it has its type, each stack
holds what its writer wrote, registered or not, and the local stack ends with the last atom
that its node wrote. META enters in two ways: the ones who write it have room for it (a node
comes at most once, `MaxSerial` bounds the rest), and what it lists is a list of nodes. A
client writes nothing before it is in, so that `Cleared` loses no atom of its own.
`RegisterNew` folds over a set, in an order nobody knows: `RegisterNewFolds` says that it is
some order, `RegisterNewDoes` that the outcome is the same for what follows.

`RefusedIsAskedFor` is about the serial every stack of a client begins at, and there are
four ways it is told one: the beginning (`Cleared`), the answer of the server, a META that
lists it with others, a META of a newcomer that comes after it. `TellInv` (which TLC
checked for `NbMeta` 0, 1 and 2, with JOIN received twice) says of each what keeps
it low enough. What a node writes goes from round to round, so the serial of the first
atom of a seq lies before whatever is written for later ones (`SerialTold`). Each list of
META was true when it was written, and stays so, since what is written more lies behind
(`TellsOfOn`). A list tells whoever has come no later than its seq the truth; an older
member, whose own round lies before, is either told nothing but the newcomer, who had
written nothing, or was told of the others by an earlier META that lists both: there is always
one that lists all there are (`ListsOK`). That it has taken the earlier one into account
when it receives the later one is what `~Overtakes` gives (`InOrder`), and then it begins
nothing again. The last link is `First`: the seq the server has registered a client at is the
one the answer tells it, and the one META lists it from. The windows do not move, so that
an atom that is stored never makes a stack begin later (`Steady`, `Grows`).

`RoundsWaitForNewcomers` asks what holds back a node that has not heard of a newcomer.
`WaitInv` (which TLC checked on all the states of `join`, and on those of `JoinSpec` up to a
depth of 15) adds to `TellInv` what it takes. `JoinerOK` says how far a newcomer is: one JOIN
at most is about it, and it reads nothing before it is in. `NamesOK` is of the lists of META:
the server is on each, they only get longer, and for a client n and any o let in there is a
META that lists both, at a seq no later than the first round of one of them. `AwaitsOK` says
that a node has taken in whom the META it holds list, and follows the server from before
any META that lists it. Now let n know the newcomer o: either n has read something of o, which
was no later than the round o plays (`ReaderHeldBack`), or it counts with the first seq it
was told (`LimitsOK`, `SilentHoldsBack`). If n does not know o, the META that lists both is one n
does not hold, though n looks for it: the stack of the server is followed up to before it,
and a round is over at n only when it is over for the server (`UntoldHoldsBack`).

`NothingMissedByComing` then goes from one reading to the next. A message of a round that becomes
reference, and that n plays, is by somebody of whom n has read, since whoever it has not read
still holds the round back. From `RefusedIsAskedFor` it lies behind the serial n follows that
writer from; `FollowedOK` says that all from there to the reference is present; hence its
whole message is given (`RoundGiven`, the lemma of `ReferenceComplete` for stacks that do not begin
at the first serial). For the steps that read nothing, both go from the old state to the
new one by `RoundsOn`: what is written is for rounds that still wait.

For the loader the invariant is the conjunction of the types,
`OnlyTheLastRequest` and `OnePlace`. None is inductive alone: that `StoreLevel`
stores a level of the last request needs what the worker holds to be current; that
`Pop` never hands over the level after the game needs that a stage that is at work
excludes what comes after it. The refinement then takes one step per action: `Pop`
is `GiveLevel` or `GiveGame` according to the slot that is full, and the steps of
the worker are invisible.

For the pilot there are three layers. `TypeInv` adds to the types where a worker is
when it is about a command. `LockInv` tells from the places of the threads who
holds each `compute_mutex`, and says that a game has run as many rounds as its
worker counts: `EndRound` changes both under one mutex, the copy onto the draft
copies both. `RoundsAgree` follows, and, since the display compares counts and
copies games, so does `DisplayNeverGoesBack`. `OrderInv` follows a command from
the list to the batch, to the hand and to the log: all in the log come before the one
in hand, this before those in the batch, these before those in the list, and
these before whatever is handed over later (`SortedInv`, for which a commit
takes whole seqs); the rounds computed never pass the round of a command that
is not executed yet (`OnTimeInv`), so a command never comes late for the reference;
and as long as the worker may take one more command, all that were handed over are
at one of these places (`NothingLost`), so that the one executed next is the next
there is. Only a worker that is told to stop may execute a command at another
round than its own, and drops the rest: `ReferenceInOrder` says so.

Two more layers are about what looks at the commands on their way. A backup is
taken when the reference has come to the last commit and its worker is between two
batches. Since a commit takes whole seqs, what waits in the list is for later seqs
than all that was taken, and the rounds computed are at most those of what was taken
(`WholeSeqs`): a command that waits cannot be for a round that is computed, so none
of the last commit waits. `AskedInv` ties the last commit to what was handed over,
and the mutexes to the places. For dumps, `DumpInv` says that what
is in the queue of a dump is not in the list any more, nor handed over later.

For the menus, two things are shown side by side. Every step of the main
thread is, for the loader, a push, a pop or nothing, so that its invariant holds here
too, and what is popped with a game is the bench value of the request of that game
(`PoppedTogether`): a game starts only if this is the one of its kind.
`MenusInv` sorts the states by what is on top of the stack of menus: the menus `wait`,
`ingame` and `score` never lie under another one, the root menu always
lies at the bottom, and each kind of top goes with what `loaded-func` is set to.

The battle is arithmetic. Its loops are written as functions on the number of turns made, and
`LoopExists`, an induction of its own on sets of naturals, says that such a function is
there and what its next turn makes; a sum over the teams is the loop that adds them. On
these rest the lemmas on sums (`TotalAdds`, `TotalMonotone`, `TotalExcept`) and on what
is rounded: the proportions never exceed what is shared nor what each has (`Proportion`),
what is left to share goes whole to the heirs (`DealtWhole`). The invariant (`Inv`)
says that only teams that play have fighters, that they fit in the map (`Sound`), and that
every cursor belongs to a registered node and leads a team that plays (`Manned`). Each
operator has a lemma that says what it keeps, the round is settled team
after team (`Settled`, `FinishedIs`): a team that is finished with has a cursor or is the
last one, and what is done to the next teams takes no cursor away from it. A round
scores each death so that as much is given as is taken (`FragIs`): when the loop of
`Balance` ends, the total is zero, and when it does not end the program does not go on.

That the loops end is another matter, and a second invariant (`Kept`): under reasonable rules
nothing has failed, and either nobody has fighters and at most one team plays, or there are
at least `2 * MAX_NB_TEAMS - 3` of them (`Ample`). This is the number at which half of the
fighters can be taken to make room for a dead team while each of the others keeps one:
there are at most `MAX_NB_TEAMS - 1` others, each of which can give all it has but one
(`Spare`, `SpareIs`). What the rules must allow follows from it: an army of that size, and a
map with room for one army and nearly as many fighters again. A loop that goes round the
teams makes at least one step in each lap as long as one of them can make one (`LapHits`,
`LapsDo`), so that it ends within as many laps as fighters are asked for
(`ToppedUpEnough`), and nobody has to give its last one if not all are asked for
(`ToppedUpSpares`). The points balance for the same reason: in every mode but the second some
team stands on the side that points are missing on (`PointsLean`, `BalanceEnds`).
`Grows` says, for any rules, that who stays has no less, `Spares`, for reasonable ones,
that who stays has not lost the last fighter; both go from one removal to the next
(`GrowsChain`, `SparesChain`), hence hold for all the cursors of a node (`AllLeftSpares`)
and all the teams of a round (`FinishedSpares`). A respawn takes fighters and no cursor.

**Only model-checked.** Of the battle `ComesBack` (which
is true of rules that send enough fighters: a small handicap sends none); the liveness properties
(liveness and ENABLED are outside the prover); the agreement
of sets and loops (StackLoops is recursive: facts about all its inputs need
induction over data).

## 5. The properties, and the hazards behind them

* `NoLateMessage`: the `-1` in `_lw6dat_stack_get_seq_reference` and the `seq_0`
  that stands for silent nodes. Several nodes and steps are needed to break it.
* `ReferenceComplete`: no message of a handed over round is left behind, for the
  writers followed from their first atom. The condition is needed: see 6.
* `ImplementsLockstep`: rounds are handed over in order, once, only when over.
* `StoredAsWritten`: forwarded, duplicated, reordered atoms are filed by writer.
* `MissIsRight`: the range kept between two searches.
* `Recovered`, `CaughtUp`: nothing is lost for good, nobody waits for ever.
* `BlindReadIsEmpty`: the reading whose list is thrown away pops nothing.
* `RoundsWaitForNewcomers`: the seq a newcomer is registered with is known to the
  server first, to those who get META later and to the newcomer itself in yet another
  message. A round must not be over anywhere before the newcomer has said what it
  plays in it, although most nodes have not heard of it.
* `NothingMissedByComing`, `RefusedIsAskedFor`: atoms that come before their writer
  is registered are refused. The serial each stack begins with, told by META or
  JOIN, must be low enough for them to count as missing.
* `FirstJoinSucceeds`: META may make the server known before its answer comes.
* `BoundsExact`: the bounds of a stack, cached through shifts and invalidations.
* `LoopsAgree`: draft and reference, messages of a round, the missing range, what is
  sent: four loops with early exits, against the sets the proofs are about.
* `OnlyTheLastRequest`, `OnePlace`, `Delivers`: a push at any moment of the
  worker's two stages; level and game in two slots, the bench value in a third.
* `ReferenceInOrder`, `NothingSkipped`, `RoundsAgree`: whatever bulks and batches the
  commands come in, the reference executes all of them, in the order of seq and
  rank, each at its round. This is what makes two computers play the same game.
* `BackupIsWhole`, `DisplayNeverGoesBack`: a copy is taken between
  rounds, by whichever thread, and the display does not fall back to an older one.
* `DumpNothingTwice`: the pilot made for a joiner gets no command from both ways.
* `CatchesUp`, `Returns`: two mutexes per worker, four threads: nobody is left waiting.
* `SanityCheck`, `CommandsKillNobody`: the proportions by which
  fighters are taken, dealt out and redistributed add up, and leave everybody one.
* `RoundLeavesLed`, `ComesBack`: between a death and a respawn
  commands come and go; no team is left without a cursor, or a cursor without it.
* `FragsConserved`, `NoFault`: the handing out of points ends, at a balance of zero.
* `GameComes`, `FreeReturns`: what is popped in the middle does not lose the rest,
  and the worker sees `stop`.
* `RunsAtItsBench`: a level resampled for the network is not reused for a local
  game, although its bench value is popped apart from it.
* `WaitIsWatched`: `loaded-func` is one slot and many handlers set it. With it out
  of step a game starts over another menu, or the wait menu stays.
* `PreviewComes`: a map is asked for again only when it must be.

## 6. Where the code and its comments differ

* `join_overtaken`: who receives a META registers everybody it lists, at the serial
  and seq it lists, except those registered already. When the META of a later
  newcomer comes before one's own, one begins with everybody at the round that
  one came in. What was written since one came in oneself is refused, lies below
  `serial_0`, so that no MISS asks for it, and the rounds become reference without it.
  One's own META comes too late. The code knows that packets come in any
  order (`p2p-recv.c:414`); the serial and seq of the lists do not allow for it.
* `join_twice`: JOIN and its answer are sent redundant, over every connection there
  is, so a copy of the answer may come once the client plays. It is not refused: it
  registers the server again at the `local_seq_last` the client has by then. A server
  that has said nothing yet then counts as done with the rounds before; they become
  reference, and what the server still writes for them is never handed over. The
  comment above `lw6dat_warehouse_get_seq_reference` promises that reference rounds
  are complete for every node involved.
* `startup_awaited`: the wait menu is shown, the map is asked for; the main loop
  polls when stage 1 is done and stage 2 is not. `lw6-loaded-func-local-game` keeps
  the level (its bench value is 0 when it comes alone), step 1 finds no game, and
  asks for the map again, which clears the loader. Nothing makes the next round go
  better: when building the game takes longer than a turn of the main loop, none
  starts. `PreviewComes` holds meanwhile, because the preview never asks again.
* `pilot_dump`: a DUMP makes a copy of the pilot for a node that joins; commands
  behind it must reach the copy. Those left in the worker's batch are pumped by
  the worker when it executes the DUMP, those in the list by the control
  thread when it fetches the copy. The worker may take another batch in between:
  it does not pump it, since the DUMP is not new any more, and the list is empty.

More was seen while modelling. What follows has no run:
"nothing is missing" (`dat-warehouse.c:870`) is not so for a writer whose first atoms
come late: `_lw6dat_stack_calc_serial_draft_and_reference` begins at `serial_min`, so a
round becomes reference without them (`ReferenceComplete` is about writers followed
from their first atom);
`_clear_recent` (`dat-stack.c:1227`) looks at one serial at every turn of its loop;
with `--quick-start`, `main.scm` calls `lw6-init-menu`, which asks for a game, then
`lw6-game-idle`, which forgets it (the runs are without that option);
`lw6ker_per1000` divides by 100; when armies are very small, or handicaps leave a team none, the
loop in `remove_fighters` that looks for fighters to take never ends
(`ker-mapstate.c:358`: nine teams of one fighter cannot give four), or a division
by the number of fighters is one by zero: `NoFault` is about rules that are `Reasonable`; the rule `max-nb-teams` is not looked at when a
team is admitted (`ker-gamestate.c:1160`); under frags mode 1 a loop does not end
when the only team left has just died (`ker-mapstate.c:1049`);
`serial_min_to_send` passes over serials that were not there yet, so an atom that
comes late is forwarded only when it is asked for; a solo game that was won changes
`chosen-map` while `loaded` keeps the map just played, which the next game takes;
a map previewed before the rules change and popped after is played with the old
rules, for `lw6-loader-purge` empties `loaded` and not the loader. A client whose
first JOIN was answered too late is not answered again (`p2p-recv.c:251`: it is
registered already, and nothing unregisters a node). The answer to JOIN sets
`joined` on `tentacle_i`, which this path never looked up and which is 0
(`p2p-recv.c:339`): right for the first tentacle only. A MISS or a list of atoms for a
node that is not registered uses the index -1 (`dat-warehouse.c:1108`). A pilot made
from a dump starts at a round above 0 and so may back up before the commands of
its first seq are executed: `lw6pil_pilot_make_backup` (`pil-pilot.c:524`) compares the
rounds of reference and commit, which are equal from the start. `BackupIsWhole` is
violated for `round_0 = 1`, which the runs do not use: no script takes a backup.

The proof of `ReferenceComplete` showed what the code owes to the size of its window:
with two blocks of one atom TLC finds the following, none of which a game of less than
a million atoms per player meets. When a window moves up before a round is over, the
messages that fall out of it are never handed over, although the writer was followed
from its first serial (`_put_atom` clears the blocks it reuses, `dat-stack.c`). An
old atom that comes again below the base moves the window back down, drops what was at
its end, and leaves `serial_reference` above everything present; a blind reading may then
find messages. And `serial_miss_min` equal to the last serial of the window stands for
"nothing found yet" in `_get_miss` (`dat-stack.c:1392`), so that this one serial may be asked for
although it is there.

## 7. What comes next

Done: Stack, StackLoops, Warehouse, Lockstep, Join; Pilot; MapState, GameState;
Loader, Delivery, Startup; the theorems of section 4. What would add most now are
proofs, since what is checked on three nodes is meant for any number:

1. `ComesBack`, once it is said which rules send enough fighters.
2. The theorems of `OneWindow` for windows that move: section 6 tells which of them are false
   then, so that it must be said first how far apart nodes may be.
3. `RefusedIsAskedFor` says that what was refused lies where holes are looked for. That it is
   asked for, sent and received in the end (`Recovered` while nodes come) needs MISS in
   Join.

## 8. Not modelled

The map covers a small share of the repository's lines, and no honest model would
cover a large one: more than half of the lines belong to graphics, sound,
image and voxel libraries, wrappers of sockets and of the C library, sources of
vendored and generated code (`intl`, `lw6-funcssys.c` and its like), test
suites (`*-test.c`) and tables (`ker-trigo.c` is one sine table). These keep no state
whose order of changes could go wrong, or are not the program. What remains, and why
it is left out:

* **Tentacles and tickets** (`p2p-tentacle.c`, `cnx-tickettable.c`). Which connection
  a packet takes and how long it waits in a queue is the lossy, reordering network of
  Warehouse; a packet refused because of its ticket is a packet lost; that JOIN is sent
  redundant is the constant `Redundant` of Join. That packets signed before the
  exchange of tickets are refused after it is a hazard listed without a property:
  time decides it, for nothing sends them again but MISS.
* **Exploration** (`p2p-explore.c`, the SQL tables): timeouts and a database; a
  running game does not depend on it.
* **The game loop** (`command.scm`, `net.scm`, `server.scm`): its order of calls is the
  environment of Warehouse and Pilot, which allow any order. What it adds is a clock
  and a display.
* **Seed and dump commands** (`pil-seed.c`, `pil-dump.c`): the game as text. What a DUMP
  does to the pilots is in Pilot.
* **Gradients, zones, positions** (`ker-spread.c`, `ker-move.c`, `ker-zonestruct.c`):
  arithmetic on thousands of places, where the states TLC could reach are not those that
  matter. `Moved` lets a round take any fighters from anybody.
* **Formats** (`msg`, `cfg`, `nod`, `ldr`, `gen`): pure conversions. An atom is
  the fields the warehouse looks at.
* **Benches, cookies, local cursors, list_r, hash, history, threads**: containers and
  records with no protocol of their own; `list_r` is the queue that Pilot takes as one
  step under its mutex.
