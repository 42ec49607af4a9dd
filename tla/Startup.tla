------------------------------ MODULE Startup -------------------------------
(***************************************************************************)
(* From the menus to a running game (script/main.scm, menu-*.scm,          *)
(* game.scm, loader.scm, score.scm): the main thread of the program, over  *)
(* the loader's worker.  The player browses maps, changes options, starts  *)
(* and leaves games; the game loop polls the loader and gives what it pops *)
(* to loaded-func, which drops it, shows it, or starts the awaited game    *)
(* with it.                                                                *)
(*                                                                         *)
(* Menus that only lead to others are folded into "main"; the two menus of *)
(* a stopped game and of a score are each folded into their parent.        *)
(***************************************************************************)
EXTENDS Loader, SequencesExt

CONSTANTS
    FirstMap,      \* chosen-map in the configuration file
    FirstParam,    \* and the options in it
    LocalBench,    \* lw6-loader-local-bench-value
    NetworkBench,  \* lw6-loader-network-bench-value
    QuickStart,    \* the program was given --quick-start
    MaxMenus       \* bound: menus stacked by "Back to main menu"

ASSUME StartupAssumption ==
    /\ FirstMap \in Map /\ FirstParam \in Param
    /\ {LocalBench, NetworkBench} \subseteq Bench
    /\ QuickStart \in BOOLEAN
    /\ MaxMenus \in Nat

VARIABLES
    boot,         \* how far main.scm is
    menus,        \* %lw6-menu-stack, the current menu last
    loaded,       \* the global "loaded"
    loaded_func,  \* "idle", "preview", or the kind of game that is awaited
    chosen,       \* chosen-map
    option,       \* the options of the configuration
    param,        \* the globals default-param and forced-param
    network,      \* the global "network"
    game          \* the running game: its kind, and what it was built from

loaderVars == vars
playerVars == <<chosen, option>>
allVars == <<loaderVars, boot, menus, loaded, loaded_func, playerVars, param,
             network, game>>

\* In the menus: "main", "browse", "play_map", "players", "player", "options",
\* "wait", "ingame" and "score".
Kind == {"solo", "quick", "server"}

NothingLoaded == [level |-> None, game |-> None, bench_value |-> 0]

StartupInit ==
    /\ Init
    /\ boot = "init_menu"
    /\ menus = <<>>
    /\ loaded = NothingLoaded
    /\ loaded_func = "idle"
    /\ chosen = FirstMap
    /\ option = FirstParam
    /\ param = FirstParam
    /\ network = FALSE
    /\ game = None

-----------------------------------------------------------------------------
\* Pieces of handlers.

BenchFor(kind) == IF kind = "server" THEN NetworkBench ELSE LocalBench
BrowseBench == IF network THEN NetworkBench ELSE LocalBench

On(screen) == boot = "loop" /\ menus # <<>> /\ Last(menus) = screen

\* lw6-game-idle, lw6-game-preview: both reset the game and take the options.
Settle(func) ==
    /\ loaded_func' = func
    /\ game' = None
    /\ param' = option

\* lw6-loader-push-ldr and lw6-loader-push-gen: "loaded" keeps the bench only.
Ask(r) ==
    /\ Push(r)
    /\ loaded' = [NothingLoaded EXCEPT !.bench_value = r.bench_value]

SlipNeeded(m, b, ld) == \* a level alone is enough
    ~(m = chosen /\ ld.level # None)
Needed(m, b, ld) == ~(m = chosen /\ ld.level # None /\ ld.bench_value = b)

\* lw6-loader-push-ldr-if-needed, with "loaded" = ld and the params p.
PushLdrIfNeeded(m, b, p, ld, otherwise) ==
    \/ /\ Needed(m, b, ld)
       /\ Ask([map |-> m, param |-> p, bench_value |-> b])
    \/ /\ ~Needed(m, b, ld)
       /\ loaded' = ld
       /\ otherwise

SlipWhole(kind, ld) == ld.game # None \* whatever its bench value
Whole(kind, ld) == ld.game # None /\ ld.bench_value = BenchFor(kind)

\* lw6-game-start-local-step1 and lw6-game-start-network-step1, over the menus
\* below: start with what is loaded, or wait for the chosen map.
Start(kind, ld, p, below, otherwise) ==
    \/ /\ Whole(kind, ld)
       /\ game' = [kind |-> kind, of |-> ld.game]
       /\ loaded_func' = "idle"
       /\ network' = (kind = "server")
       /\ param' = option
       /\ menus' = Append(below, "ingame")
       /\ loaded' = ld
       /\ otherwise
    \/ /\ ~Whole(kind, ld)
       /\ PushLdrIfNeeded(chosen, BenchFor(kind), p, ld, otherwise)
       /\ loaded_func' = kind
       /\ param' = p
       /\ menus' = Append(below, "wait")
       /\ UNCHANGED <<network, game>>

-----------------------------------------------------------------------------
\* main.scm before the game loop.

\* lw6-init-menu: the root menu, or at once a game.
InitMenu ==
    /\ boot = "init_menu"
    /\ boot' = "idle"
    /\ \/ /\ QuickStart
          /\ Start("quick", loaded, param, <<"main">>, UNCHANGED loaderVars)
       \/ /\ ~QuickStart
          /\ menus' = <<"main">>
          /\ UNCHANGED <<loaderVars, loaded, loaded_func, param, network, game>>
    /\ UNCHANGED playerVars

\* lw6-game-idle, then lw6-game-loop.
EnterLoop ==
    /\ boot = "idle"
    /\ boot' = "loop"
    /\ Settle("idle")
    /\ UNCHANGED <<loaderVars, menus, loaded, playerVars, network>>

-----------------------------------------------------------------------------
\* The player.

\* Any "Solo game", "Quick start", "Start server"... item.
StartGame(kind) ==
    /\ On("main") \/ On("play_map")
    /\ Start(kind, loaded, param, menus, UNCHANGED loaderVars)
    /\ UNCHANGED <<boot, playerVars>>

\* Opening the map browser selects the chosen map in it.
OpenBrowse ==
    /\ On("main")
    /\ menus' = Append(menus, "browse")
    /\ Settle("preview")
    /\ PushLdrIfNeeded(chosen, BrowseBench, option, loaded, UNCHANGED loaderVars)
    /\ UNCHANGED <<boot, playerVars, network>>

SelectMap(m) ==
    /\ On("browse")
    /\ Settle("preview")
    /\ PushLdrIfNeeded(m, BrowseBench, option, loaded, UNCHANGED loaderVars)
    /\ chosen' = m
    /\ UNCHANGED <<boot, menus, option, network>>

SelectFolder ==
    /\ On("browse")
    /\ Settle("idle")
    /\ UNCHANGED <<loaderVars, boot, menus, loaded, playerVars, network>>

RandomMap(s) ==
    /\ On("main")
    /\ Settle("preview")
    /\ Ask([seed |-> s, bench_value |-> BrowseBench])
    /\ UNCHANGED <<boot, menus, playerVars, network>>

Open(screen, parent) ==
    /\ On(parent)
    /\ menus' = Append(menus, screen)
    /\ UNCHANGED <<loaderVars, boot, loaded, loaded_func, playerVars, param,
                   network, game>>

\* "Back to main menu" is lw6-init-menu again: it stacks a root menu.
BackToMain ==
    /\ On("play_map")
    /\ \/ /\ QuickStart
          /\ Start("quick", loaded, param, <<"main">>, UNCHANGED loaderVars)
          /\ UNCHANGED <<boot, playerVars>>
       \/ /\ ~QuickStart
          /\ Len(menus) < MaxMenus
          /\ Open("main", "play_map")

\* The detail of a player shows the chosen map.
OpenPlayer ==
    /\ On("players")
    /\ menus' = Append(menus, "player")
    /\ Settle("preview")
    /\ PushLdrIfNeeded(chosen, BrowseBench, option, loaded, UNCHANGED loaderVars)
    /\ UNCHANGED <<boot, playerVars, network>>

ChangeOption(o) ==
    /\ On("options")
    /\ option' = o
    /\ UNCHANGED <<loaderVars, boot, menus, loaded, loaded_func, chosen, param,
                   network, game>>

SlipLeaveToIdle == \* loaded-func stays what it was
    /\ \E s \in {"browse", "player", "wait", "ingame", "score"} : On(s)
    /\ menus' = Front(menus)
    /\ game' = None
    /\ param' = option
    /\ UNCHANGED <<loaderVars, boot, loaded, loaded_func, playerVars, network>>

\* Leaving a menu whose "on-pop" or "on-cancel" is lw6-game-idle; stopping a
\* game and "Back to previous menu" of its score do the same.
LeaveToIdle ==
    /\ \E s \in {"browse", "player", "wait", "ingame", "score"} : On(s)
    /\ menus' = Front(menus)
    /\ Settle("idle")
    /\ UNCHANGED <<loaderVars, boot, loaded, playerVars, network>>

\* "on-pop" is lw6-loader-purge in the menus that change options.
LeaveAndPurge ==
    /\ On("options") \/ On("players")
    /\ menus' = Front(menus)
    /\ param' = option
    /\ loaded' = NothingLoaded
    /\ game' = None
    /\ UNCHANGED <<loaderVars, boot, loaded_func, playerVars, network>>

LeavePlayMap ==
    /\ On("play_map")
    /\ menus' = Front(menus)
    /\ UNCHANGED <<loaderVars, boot, loaded, loaded_func, playerVars, param,
                   network, game>>

\* lw6-score: a solo game that was won chooses the next map of the chain.
GameOver ==
    /\ On("ingame")
    /\ menus' = Append(Front(menus), "score")
    /\ \/ game.kind = "solo" /\ chosen' \in Map
       \/ UNCHANGED chosen
    /\ UNCHANGED <<loaderVars, boot, loaded, loaded_func, option, param,
                   network, game>>

\* "Continue" after a solo game: idle, purge and start.
Continue ==
    /\ On("score")
    /\ game.kind = "solo"
    /\ Ask([map |-> chosen, param |-> option, bench_value |-> LocalBench])
    /\ loaded_func' = "solo"
    /\ param' = option
    /\ game' = None
    /\ menus' = Append(Front(menus), "wait")
    /\ UNCHANGED <<boot, playerVars, network>>

\* "Replay" after any other game: idle, then the item that started it again.
Replay ==
    /\ On("score")
    /\ game.kind # "solo"
    /\ Start(game.kind, loaded, option, Front(menus), UNCHANGED loaderVars)
    /\ UNCHANGED <<boot, playerVars>>

-----------------------------------------------------------------------------
\* lw6-loader in lw6-io: pop, then loaded-func.

PoppedAsLoaded ==
    [level |-> Popped.of,
     game |-> IF Popped.what = "game" THEN Popped.of ELSE None,
     bench_value |-> Popped.bench_value]

Poll ==
    /\ boot = "loop"
    /\ Popped # None
    /\ \/ /\ loaded_func = "idle"
          /\ Pop
          /\ UNCHANGED <<menus, loaded, loaded_func, param, network, game>>
       \/ /\ loaded_func = "preview"
          /\ Pop
          /\ loaded' = PoppedAsLoaded
          /\ UNCHANGED <<menus, loaded_func, param, network, game>>
       \/ /\ loaded_func \in Kind
          /\ Start(loaded_func, PoppedAsLoaded, param, Front(menus), Pop)
    /\ UNCHANGED <<boot, playerVars>>

Work ==
    /\ WorkerStep
    /\ UNCHANGED <<boot, menus, loaded, loaded_func, playerVars, param, network, game>>

Player ==
    \/ \E kind \in Kind : StartGame(kind)
    \/ OpenBrowse \/ SelectFolder \/ OpenPlayer
    \/ \E m \in Map : SelectMap(m)
    \/ \E s \in Seed : RandomMap(s)
    \/ Open("play_map", "browse")
    \/ Open("options", "main")
    \/ Open("players", "main")
    \/ \E o \in Param : ChangeOption(o)
    \/ BackToMain \/ LeaveToIdle \/ LeaveAndPurge \/ LeavePlayMap
    \/ GameOver \/ Continue \/ Replay

StartupNext == InitMenu \/ EnterLoop \/ Player \/ Poll \/ Work

StartupSpec == StartupInit /\ [][StartupNext]_allVars

\* The worker is a thread, and the game loop runs on; the player need not act.
StartupFairSpec ==
    /\ StartupSpec
    /\ WF_allVars(Work)
    /\ WF_allVars(Poll)
    /\ WF_allVars(InitMenu \/ EnterLoop)

-----------------------------------------------------------------------------
\* A game never starts on a level resampled for another kind of game: the bench
\* value decides how fast it runs, and it is popped apart from the level.
RunsAtItsBench ==
    game # None => game.of.bench_value = BenchFor(game.kind)

\* Once in the loop, the wait menu is shown exactly while a game is awaited:
\* nothing else can take it away (menu-wait.scm has no item that does), and a
\* game that starts pops the menu it finds, which must be that one.
WaitIsWatched ==
    boot = "loop" => (On("wait") <=> loaded_func \in Kind)

\* If the player rests while a map is previewed, it comes whole.
PlayerRests == <>[][Work \/ Poll]_allVars
PreviewComes ==
    PlayerRests =>
        <>[](loaded_func = "preview" /\ Loadable(pushed) /\ loaded # NothingLoaded
                => loaded.game = pushed)

\* A game that is awaited starts, unless its map cannot be loaded or the player
\* does something else: pop's result may be shown first, and the rest awaited
\* (tsk-loader.c:549-550).
AwaitedGameStarts ==
    PlayerRests => <>[](loaded_func \in Kind => ~Loadable(pushed))
=============================================================================
