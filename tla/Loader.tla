------------------------------- MODULE Loader -------------------------------
(***************************************************************************)
(* The asynchronous map loader (lib/tsk/tsk-loader.c).  The main thread    *)
(* pushes requests and pops results; a worker thread reads the map         *)
(* (stage 1), then builds the game_struct and the game_state from a copy   *)
(* of it (stage 2).  The worker holds the mutex only to take its input and *)
(* to store its output: a push may come while it works, and what it then   *)
(* holds is dropped.  Each critical section is one action.                 *)
(*                                                                         *)
(* A level, and what is built from it, is represented by the request it    *)
(* was read for.  The code tells a stale result by comparing the           *)
(* request_number it took with the present one; the number only grows, so  *)
(* the comparison is represented by its result, worker.current.            *)
(***************************************************************************)
EXTENDS Naturals, Sequences

CONSTANTS
    Map,     \* relative paths of maps on disk
    Seed,    \* seeds of generated maps
    Param,   \* values of default_param and forced_param
    Bench,   \* bench values
    Unreadable,   \* requests lw6ldr or lw6gen makes no level of
    Unbuildable,  \* requests whose level lw6ker makes no game of
    None     \* a NULL pointer

LdrRequest == [map : Map, param : Param, bench_value : Bench]
GenRequest == [seed : Seed, bench_value : Bench]
Request == LdrRequest \cup GenRequest

ASSUME LoaderAssumption ==
    /\ Bench \subseteq Nat \ {0}
    /\ Unreadable \subseteq Request
    /\ Unbuildable \subseteq Request
    /\ None \notin Request

VARIABLES
    stage1,  \* the request waiting, its bench value, the level read
    stage2,  \* the level to build from (src) and the game built
    worker,  \* where the worker is, what it holds, whether that is current
    stop,    \* lw6tsk_loader_free was called
    pushed,  \* history: the last request pushed
    given    \* history: what pop has returned since that push

vars == <<stage1, stage2, worker, stop, pushed, given>>

Maybe(S) == S \cup {None}

Working == {"reading", "building"}

Stage1Data == [request : Maybe(Request), bench_value : Bench \cup {0},
               level : Maybe(Request)]
Stage2Data == [src : Maybe(Request), game : Maybe(Request)]
WorkerData == [at : Working \cup {"top", "stage1", "stage2", "ended"},
               level : Maybe(Request), current : BOOLEAN]
Result == [what : {"level", "game"}, of : Request, bench_value : Bench \cup {0}]

\* The type invariant: every field of lw6tsk_loader_data_t and every local of
\* the worker holds a value of its type, and NULL where it holds nothing.
TypeOK ==
    /\ stage1 \in Stage1Data
    /\ stage2 \in Stage2Data
    /\ worker \in WorkerData
    /\ stop \in BOOLEAN
    /\ pushed \in Maybe(Request)
    /\ given \in Seq(Result)

NoStage1 == [request |-> None, bench_value |-> 0, level |-> None]
NoStage2 == [src |-> None, game |-> None]
At(place) == [at |-> place, level |-> None, current |-> FALSE]

Init ==
    /\ stage1 = NoStage1
    /\ stage2 = NoStage2
    /\ worker = At("top")
    /\ stop = FALSE
    /\ pushed = None
    /\ given = <<>>

-----------------------------------------------------------------------------
\* The main thread.

\* lw6tsk_loader_push_ldr and lw6tsk_loader_push_gen: the new request replaces
\* everything, and what the worker holds is not current any more.
Push(r) ==
    /\ ~stop
    /\ stage1' = [request |-> r, bench_value |-> r.bench_value, level |-> None]
    /\ stage2' = NoStage2
    /\ worker' = [worker EXCEPT !.current = FALSE]
    /\ pushed' = r
    /\ given' = <<>>
    /\ UNCHANGED stop

SlipPopped == \* an empty slot is returned too
    IF stage1.level # None
      THEN [what |-> "level", of |-> stage1.level, bench_value |-> 0]
      ELSE [what |-> "game", of |-> stage2.game, bench_value |-> stage1.bench_value]

\* What lw6tsk_loader_pop returns when it is called now.
Popped ==
    CASE stage1.level # None ->
            [what |-> "level", of |-> stage1.level, bench_value |-> 0]
      [] stage1.level = None /\ stage2.game # None ->
            [what |-> "game", of |-> stage2.game, bench_value |-> stage1.bench_value]
      [] OTHER -> None

SlipPop == \* the slot of the level is not set to NULL
    /\ ~stop
    /\ Popped # None
    /\ given' = Append(given, Popped)
    /\ stage2' = IF stage1.level = None THEN NoStage2 ELSE stage2
    /\ UNCHANGED <<stage1, worker, stop, pushed>>

\* lw6tsk_loader_pop when it returns 1: the pointers change hands.
Pop ==
    /\ ~stop
    /\ Popped # None
    /\ \/ /\ stage1.level # None
          /\ stage1' = [stage1 EXCEPT !.level = None]
          /\ UNCHANGED stage2
       \/ /\ stage1.level = None
          /\ stage2' = [stage2 EXCEPT !.game = None]
          /\ UNCHANGED stage1
    /\ given' = Append(given, Popped)
    /\ UNCHANGED <<worker, stop, pushed>>

\* lw6tsk_loader_free: from here on the main thread waits for the worker.
Free ==
    /\ ~stop
    /\ stop' = TRUE
    /\ UNCHANGED <<stage1, stage2, worker, pushed, given>>

-----------------------------------------------------------------------------
\* The worker.

SlipLoop == \* stop is not looked at
    /\ worker.at = "top"
    /\ worker' = At("stage1")
    /\ UNCHANGED <<stage1, stage2, stop, pushed, given>>

\* The loop of _loader_callback; _loader_join then clears both stages.
Loop ==
    /\ worker.at = "top"
    /\ \/ /\ ~stop
          /\ worker' = At("stage1")
          /\ UNCHANGED <<stage1, stage2>>
       \/ /\ stop
          /\ worker' = At("ended")
          /\ stage1' = NoStage1
          /\ stage2' = NoStage2
    /\ UNCHANGED <<stop, pushed, given>>

SlipTakeRequest == \* the request is copied but not cleared
    /\ worker.at = "stage1"
    /\ worker' = IF stage1.request = None THEN At("stage2")
                 ELSE [at |-> "reading", level |-> stage1.request, current |-> TRUE]
    /\ UNCHANGED <<stage1, stage2, stop, pushed, given>>

\* The first critical section of _stage1: a request is copied and cleared.
TakeRequest ==
    /\ worker.at = "stage1"
    /\ \/ /\ stage1.request # None
          /\ worker' = [at |-> "reading", level |-> stage1.request, current |-> TRUE]
          /\ stage1' = [stage1 EXCEPT !.request = None]
       \/ /\ stage1.request = None
          /\ worker' = At("stage2")
          /\ UNCHANGED stage1
    /\ UNCHANGED <<stage2, stop, pushed, given>>

SlipStoreLevel == \* the request number is not looked at again
    /\ worker.at = "reading"
    /\ worker' = At("stage2")
    /\ IF worker.level \notin Unreadable
         THEN /\ stage1' = [stage1 EXCEPT !.level = worker.level]
              /\ stage2' = [stage2 EXCEPT !.src = worker.level]
         ELSE UNCHANGED <<stage1, stage2>>
    /\ UNCHANGED <<stop, pushed, given>>

\* The map is read, or not, and the second critical section of _stage1 stores
\* it, with a copy for stage 2, unless another request came meanwhile.
StoreLevel ==
    /\ worker.at = "reading"
    /\ worker' = At("stage2")
    /\ IF worker.level \notin Unreadable /\ worker.current
         THEN /\ stage1' = [stage1 EXCEPT !.level = worker.level]
              /\ stage2' = [stage2 EXCEPT !.src = worker.level]
         ELSE UNCHANGED <<stage1, stage2>>
    /\ UNCHANGED <<stop, pushed, given>>

\* The first critical section of _stage2: src is copied and cleared.
TakeSource ==
    /\ worker.at = "stage2"
    /\ \/ /\ stage2.src # None
          /\ worker' = [at |-> "building", level |-> stage2.src, current |-> TRUE]
          /\ stage2' = [stage2 EXCEPT !.src = None]
       \/ /\ stage2.src = None
          /\ worker' = At("top")
          /\ UNCHANGED stage2
    /\ UNCHANGED <<stage1, stop, pushed, given>>

SlipStoreGame == \* a game is stored only beside its level
    /\ worker.at = "building"
    /\ worker' = At("top")
    /\ IF worker.level \notin Unbuildable /\ worker.current /\ stage1.level # None
         THEN /\ stage1' = [stage1 EXCEPT !.level = None]
              /\ stage2' = [stage2 EXCEPT !.game = worker.level]
         ELSE UNCHANGED <<stage1, stage2>>
    /\ UNCHANGED <<stop, pushed, given>>

\* The game is built, or not, and the second critical section of _stage2 stores
\* it; the level nobody popped is freed, it comes again with the game.
StoreGame ==
    /\ worker.at = "building"
    /\ worker' = At("top")
    /\ IF worker.level \notin Unbuildable /\ worker.current
         THEN /\ stage1' = [stage1 EXCEPT !.level = None]
              /\ stage2' = [stage2 EXCEPT !.game = worker.level]
         ELSE UNCHANGED <<stage1, stage2>>
    /\ UNCHANGED <<stop, pushed, given>>

WorkerStep == Loop \/ TakeRequest \/ StoreLevel \/ TakeSource \/ StoreGame

\* The worker is joined; nothing runs any more.
Joined == worker.at = "ended" /\ UNCHANGED vars

Next ==
    \/ \E r \in Request : Push(r)
    \/ Pop
    \/ Free
    \/ WorkerStep
    \/ Joined

Spec == Init /\ [][Next]_vars

\* The worker is a thread of its own, and the main loop calls pop again and
\* again (script/io.scm).
FairSpec == Spec /\ WF_vars(WorkerStep) /\ WF_vars(Pop)

-----------------------------------------------------------------------------
\* What pop returns is what Delivery promises: the last request's level and
\* game, in this order and once, with the bench value that was asked for.
Promise == INSTANCE Delivery WITH wanted <- pushed
Delivers == Promise!Spec

\* Whatever the worker was doing when the last request came, everything the
\* next pop could return, and everything still on its way there, belongs to
\* that request, and so does the bench value that pop will return with it.
Waiting == stage1.request # None
Reading == worker.at = "reading" /\ worker.current
Building == worker.at = "building" /\ worker.current

OnlyTheLastRequest ==
    /\ {stage1.request, stage1.level, stage2.src, stage2.game} \subseteq {None, pushed}
    /\ Reading \/ Building => worker.level = pushed
    /\ ~stop => stage1.bench_value = IF pushed = None THEN 0 ELSE pushed.bench_value

\* A request is at one place at a time on its way to pop: waiting, read, copied
\* for stage 2, built, ready; and no level alone waits beside or after a game.
OnlyLevel == {<<>>, <<Promise!Level(pushed)>>}

OnePlace ==
    /\ Waiting => ~Reading /\ ~Building
    /\ Waiting \/ Reading \/ Building => stage2 = NoStage2
    /\ stage2.src = None \/ stage2.game = None
    /\ Waiting \/ Reading => stage1.level = None /\ given = <<>>
    /\ stage1.level # None => stage2.game = None /\ given = <<>>
    /\ Building \/ stage2 # NoStage2 => given \in OnlyLevel

\* Once the main thread only pops, the game of the last request is handed over,
\* unless the map cannot be loaded.
Loadable(r) == r \in Request \ (Unreadable \cup Unbuildable)
HasGame == \E i \in DOMAIN given : given[i].what = "game"
Rests == <>[][WorkerStep \/ Pop]_vars
GameComes == Rests => <>[](stop \/ HasGame \/ ~Loadable(pushed))

\* lw6tsk_loader_free comes back: the worker leaves its loop, whatever it was
\* doing when it was told to.
FreeReturns == stop ~> worker.at = "ended"
=============================================================================
