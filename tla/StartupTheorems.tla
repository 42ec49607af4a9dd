-------------------------- MODULE StartupTheorems ---------------------------
(***************************************************************************)
(* Theorems about the loader and about the menus over it, for any maps,    *)
(* options, seeds, parameters and bench values.                            *)
(*                                                                         *)
(* First the loader keeps its promise: OnlyTheLastRequest and OnePlace     *)
(* are, with the types, an inductive invariant, and under it every step of *)
(* its two threads is a step of Delivery or changes nothing Delivery sees. *)
(*                                                                         *)
(* Then the menus: every step of the main thread is, for the loader, a     *)
(* push, a pop or nothing.  The loader's invariant holds here too, and     *)
(* what a pop hands over can be relied on.                                 *)
(***************************************************************************)
EXTENDS Startup, TLAPS

(***************************************************************************)
(* The loader.                                                             *)
(***************************************************************************)
Inv == TypeOK /\ OnlyTheLastRequest /\ OnePlace

\* What the slots and the worker hold once they are cleared.
LEMMA Cleared ==
  /\ NoStage1 \in Stage1Data
  /\ NoStage2 \in Stage2Data
  /\ \A place \in {"top", "stage1", "stage2", "ended"} : At(place) \in WorkerData
  <1>1. NoStage1 \in Stage1Data
    BY DEF NoStage1, Stage1Data, Maybe
  <1>2. NoStage2 \in Stage2Data
    BY DEF NoStage2, Stage2Data, Maybe
  <1>3. \A place \in {"top", "stage1", "stage2", "ended"} : At(place) \in WorkerData
    BY DEF At, WorkerData, Maybe
  <1> QED BY <1>1, <1>2, <1>3

\* The loader starts idle and empty.
LEMMA InitInv == Init => Inv
  <1> SUFFICES ASSUME Init PROVE Inv
    OBVIOUS
  <1>1. TypeOK
    <2>1. stage1 \in Stage1Data /\ stage2 \in Stage2Data /\ worker \in WorkerData
      BY Cleared DEF Init
    <2>2. stop \in BOOLEAN /\ pushed \in Maybe(Request)
      BY DEF Init, Maybe
    <2>3. given \in Seq(Result)
      BY DEF Init
    <2> QED BY <2>1, <2>2, <2>3 DEF TypeOK
  <1>2. OnlyTheLastRequest
    BY DEF Init, OnlyTheLastRequest, NoStage1, NoStage2, At, Reading, Building
  <1>3. OnePlace
    BY DEF Init, OnePlace, NoStage1, NoStage2, At, Waiting, Reading, Building
  <1> QED BY <1>1, <1>2, <1>3 DEF Inv

\* A request carries a bench value, and is not the NULL pointer.
LEMMA RequestFacts ==
  /\ None \notin Request
  /\ \A r \in Request : r.bench_value \in Bench
  BY LoaderAssumption DEF Request, LdrRequest, GenRequest

\* Storing a pointer in a slot, or NULL, keeps the types of the records.
LEMMA StageTypes ==
  ASSUME TypeOK
  PROVE  /\ \A r \in Request :
              /\ [request |-> r, bench_value |-> r.bench_value, level |-> None]
                    \in Stage1Data
              /\ \A place \in Working :
                    [at |-> place, level |-> r, current |-> TRUE] \in WorkerData
         /\ \A r \in Maybe(Request) :
              /\ [stage1 EXCEPT !.level = r] \in Stage1Data
              /\ [stage2 EXCEPT !.src = r] \in Stage2Data
              /\ [stage2 EXCEPT !.game = r] \in Stage2Data
         /\ [stage1 EXCEPT !.request = None] \in Stage1Data
         /\ [stage1 EXCEPT !.level = None] \in Stage1Data
         /\ [stage2 EXCEPT !.src = None] \in Stage2Data
         /\ [worker EXCEPT !.current = FALSE] \in WorkerData
  BY RequestFacts DEF TypeOK, Stage1Data, Stage2Data, WorkerData, Maybe

\* A push replaces everything by the new request (push_ldr, push_gen).
LEMMA PushInv == ASSUME Inv, NEW r \in Request, Push(r) PROVE Inv'
  <1>1. TypeOK'
    <2>1. stage1' \in Stage1Data /\ stage2' \in Stage2Data /\ worker' \in WorkerData
      BY Cleared, StageTypes DEF Push, Inv
    <2>2. stop' \in BOOLEAN /\ pushed' \in Maybe(Request)
      BY DEF Push, Inv, TypeOK, Maybe
    <2>3. given' \in Seq(Result)
      BY DEF Push
    <2> QED BY <2>1, <2>2, <2>3 DEF TypeOK
  <1>2. OnlyTheLastRequest'
    BY RequestFacts
    DEF Push, Inv, TypeOK, Stage1Data, Stage2Data, WorkerData, OnlyTheLastRequest,
        NoStage2, Reading, Building
  <1>3. OnePlace'
    BY RequestFacts
    DEF Push, Inv, TypeOK, Stage1Data, Stage2Data, WorkerData, OnePlace, NoStage2,
        Waiting, Reading, Building
  <1> QED BY <1>1, <1>2, <1>3 DEF Inv

\* What pop returns is the last request's, the level before the game.
LEMMA PoppedFacts ==
  ASSUME Inv, ~stop, Popped # None
  PROVE  /\ pushed \in Request
         /\ stage1.level # None => Popped = Promise!Level(pushed) /\ given = <<>>
         /\ stage1.level = None =>
                /\ stage2.game = pushed
                /\ Popped = Promise!Game(pushed)
                /\ given \in OnlyLevel
  BY RequestFacts
  DEF Popped, Inv, TypeOK, OnlyTheLastRequest, OnePlace, NoStage2, Maybe,
      Promise!Level, Promise!Game

\* Pop hands pointers over and leaves NULL behind.
LEMMA PopInv == ASSUME Inv, Pop PROVE Inv'
  <1>1. ~stop /\ Popped # None  BY DEF Pop
  <1>2. TypeOK'
    <2>1. given' = Append(given, Popped)  BY DEF Pop
    <2>2. Popped \in Result
      BY <1>1, PoppedFacts, RequestFacts DEF Promise!Level, Promise!Game, Result
    <2>3. given' \in Seq(Result)
      BY <2>1, <2>2 DEF Inv, TypeOK
    <2> QED BY <2>3 DEF Inv, TypeOK, Pop, Stage1Data, Stage2Data, Maybe
  <1>3. OnlyTheLastRequest'
    BY DEF Inv, TypeOK, Stage1Data, Stage2Data, WorkerData, OnlyTheLastRequest, Pop,
           Reading, Building
  <1>4. CASE stage1.level # None
    <2>1. given' = <<Promise!Level(pushed)>>
      BY <1>1, <1>4, PoppedFacts DEF Pop
    <2> QED
      BY <1>2, <1>3, <1>4, <2>1
      DEF Inv, TypeOK, Stage1Data, Stage2Data, OnePlace, OnlyLevel, Pop, NoStage2,
          Waiting, Reading, Building, Promise!Level
  <1>5. CASE stage1.level = None
    <2>1. stage2.game # None  BY <1>1, <1>5 DEF Popped
    <2>2. ~Waiting /\ ~Reading /\ ~Building /\ stage2.src = None
      BY <2>1 DEF Inv, OnePlace, NoStage2
    <2>3. stage2' = NoStage2
      BY <1>5, <2>2 DEF Pop, Inv, TypeOK, Stage2Data, NoStage2
    <2> QED
      BY <1>2, <1>3, <1>5, <2>2, <2>3
      DEF Inv, TypeOK, OnePlace, Pop, NoStage2, Waiting, Reading, Building
  <1> QED BY <1>4, <1>5

\* lw6tsk_loader_free only raises stop.
LEMMA FreeInv == ASSUME Inv, Free PROVE Inv'
  BY DEF Free, Inv, TypeOK, OnlyTheLastRequest, OnePlace, OnlyLevel, Waiting, Reading,
         Building, Promise!Level

\* The worker moves what it holds forward and leaves nothing behind.
LEMMA WorkerInv == ASSUME Inv, WorkerStep PROVE Inv'
  <1> USE RequestFacts DEF Working, Waiting, Reading, Building
  <1>1. CASE Loop
    <2>1. TypeOK'
      <3>1. stage1' \in Stage1Data /\ stage2' \in Stage2Data
        BY <1>1, Cleared, StageTypes DEF Loop, Inv, TypeOK
      <3>2. worker' \in WorkerData
        BY <1>1, Cleared, StageTypes DEF Loop, Inv, TypeOK
      <3> QED BY <1>1, <3>1, <3>2 DEF Loop, Inv, TypeOK
    <2>2. OnlyTheLastRequest'
      BY <1>1 DEF Loop, Inv, TypeOK, Stage1Data, Stage2Data, WorkerData,
              OnlyTheLastRequest, NoStage1, NoStage2, At
    <2>3. OnePlace'
      BY <1>1 DEF Loop, Inv, TypeOK, Stage1Data, Stage2Data, WorkerData, NoStage1,
                     NoStage2, At, OnlyTheLastRequest, OnePlace, OnlyLevel,
                     Promise!Level
    <2> QED BY <2>1, <2>2, <2>3 DEF Inv
  <1>2. CASE TakeRequest
    <2>1. TypeOK'
      <3>1. stage1' \in Stage1Data /\ stage2' \in Stage2Data
        BY <1>2, Cleared, StageTypes DEF TakeRequest, Inv, TypeOK
      <3>2. worker' \in WorkerData
        BY <1>2, Cleared, StageTypes DEF TakeRequest, Inv, TypeOK, Stage1Data, Maybe
      <3> QED BY <1>2, <3>1, <3>2 DEF TakeRequest, Inv, TypeOK
    <2>2. OnlyTheLastRequest'
      BY <1>2 DEF TakeRequest, Inv, TypeOK, Stage1Data, Stage2Data, WorkerData,
              OnlyTheLastRequest, NoStage1, NoStage2, At
    <2>3. OnePlace'
      BY <1>2 DEF TakeRequest, Inv, TypeOK, Stage1Data, Stage2Data, WorkerData,
              NoStage1,
                     NoStage2, At, OnlyTheLastRequest, OnePlace, OnlyLevel,
                     Promise!Level
    <2> QED BY <2>1, <2>2, <2>3 DEF Inv
  <1>3. CASE StoreLevel
    <2>1. TypeOK'
      <3>1. stage1' \in Stage1Data /\ stage2' \in Stage2Data
        <4>1. worker.level \in Maybe(Request)
          BY DEF Inv, TypeOK, WorkerData
        <4> QED BY <1>3, <4>1, StageTypes DEF StoreLevel, Inv, TypeOK
      <3>2. worker' \in WorkerData
        BY <1>3, Cleared, StageTypes DEF StoreLevel, Inv, TypeOK
      <3> QED BY <1>3, <3>1, <3>2 DEF StoreLevel, Inv, TypeOK
    <2>2. OnlyTheLastRequest'
      BY <1>3 DEF StoreLevel, Inv, TypeOK, Stage1Data, Stage2Data, WorkerData,
              OnlyTheLastRequest, NoStage1, NoStage2, At
    <2>3. OnePlace'
      BY <1>3 DEF StoreLevel, Inv, TypeOK, Stage1Data, Stage2Data, WorkerData, NoStage1,
                     NoStage2, At, OnlyTheLastRequest, OnePlace, OnlyLevel,
                     Promise!Level
    <2> QED BY <2>1, <2>2, <2>3 DEF Inv
  <1>4. CASE TakeSource
    <2>1. TypeOK'
      <3>1. stage1' \in Stage1Data /\ stage2' \in Stage2Data
        BY <1>4, Cleared, StageTypes DEF TakeSource, Inv, TypeOK
      <3>2. worker' \in WorkerData
        <4>1. CASE stage2.src = None
          BY <1>4, <4>1, Cleared DEF TakeSource
        <4>2. CASE stage2.src # None
          <5>1. stage2.src \in Request
            BY <4>2 DEF Inv, TypeOK, Stage2Data, Maybe
          <5> QED BY <1>4, <4>2, <5>1, StageTypes DEF TakeSource, Inv
        <4> QED BY <4>1, <4>2
      <3> QED BY <1>4, <3>1, <3>2 DEF TakeSource, Inv, TypeOK
    <2>2. OnlyTheLastRequest'
      BY <1>4 DEF TakeSource, Inv, TypeOK, Stage1Data, Stage2Data, WorkerData,
              OnlyTheLastRequest, NoStage1, NoStage2, At
    <2>3. OnePlace'
      BY <1>4 DEF TakeSource, Inv, TypeOK, Stage1Data, Stage2Data, WorkerData, NoStage1,
                     NoStage2, At, OnlyTheLastRequest, OnePlace, OnlyLevel,
                     Promise!Level
    <2> QED BY <2>1, <2>2, <2>3 DEF Inv
  <1>5. CASE StoreGame
    <2>1. TypeOK'
      <3>1. stage1' \in Stage1Data /\ stage2' \in Stage2Data
        <4>1. worker.level \in Maybe(Request)
          BY DEF Inv, TypeOK, WorkerData
        <4> QED BY <1>5, <4>1, StageTypes DEF StoreGame, Inv, TypeOK
      <3>2. worker' \in WorkerData
        BY <1>5, Cleared, StageTypes DEF StoreGame, Inv, TypeOK
      <3> QED BY <1>5, <3>1, <3>2 DEF StoreGame, Inv, TypeOK
    <2>2. OnlyTheLastRequest'
      BY <1>5 DEF StoreGame, Inv, TypeOK, Stage1Data, Stage2Data, WorkerData,
              OnlyTheLastRequest, NoStage1, NoStage2, At
    <2>3. OnePlace'
      BY <1>5 DEF StoreGame, Inv, TypeOK, Stage1Data, Stage2Data, WorkerData, NoStage1,
                     NoStage2, At, OnlyTheLastRequest, OnePlace, OnlyLevel,
                     Promise!Level
    <2> QED BY <2>1, <2>2, <2>3 DEF Inv
  <1> QED BY <1>1, <1>2, <1>3, <1>4, <1>5 DEF WorkerStep

\* A step that changes nothing keeps the invariant.
LEMMA StutterInv == ASSUME Inv, UNCHANGED vars PROVE Inv'
  BY DEF vars, Inv, TypeOK, OnlyTheLastRequest, OnePlace, OnlyLevel, Waiting, Reading,
         Building, Promise!Level

\* The three parts together are inductive.
THEOREM InvHolds == Spec => []Inv
  <1>1. Init => Inv  BY InitInv
  <1>2. Inv /\ [Next]_vars => Inv'
    BY PushInv, PopInv, FreeInv, WorkerInv, StutterInv DEF Next, Joined
  <1> QED BY <1>1, <1>2, PTL DEF Spec

\* Every field of the loader keeps its type (tsk-internal.h:43-80).
THEOREM LoaderTypeCorrect == Spec => []TypeOK
  <1>1. Inv => TypeOK  BY DEF Inv
  <1> QED BY <1>1, InvHolds, PTL

\* The slots never hold what was read for a request that was superseded,
\* whatever the worker was doing when the last one came.
THEOREM NothingStale == Spec => []OnlyTheLastRequest
  <1>1. Inv => OnlyTheLastRequest  BY DEF Inv
  <1> QED BY <1>1, InvHolds, PTL

\* A request is never read or built twice, and its level alone never waits
\* beside or after its game.
THEOREM NothingTwice == Spec => []OnePlace
  <1>1. Inv => OnePlace  BY DEF Inv
  <1> QED BY <1>1, InvHolds, PTL

\* The loader implements Delivery: pop returns the last request's level and
\* game only, in this order and once, with the bench value asked for.
THEOREM KeepsPromise == Spec => Delivers
  <1>1. Init => Promise!Init  BY DEF Init, Promise!Init
  <1>2. Inv /\ [Next]_vars => [Promise!Next]_(Promise!vars)
    <2> SUFFICES ASSUME Inv, [Next]_vars PROVE [Promise!Next]_(Promise!vars)
      OBVIOUS
    <2>1. ASSUME NEW r \in Request, Push(r) PROVE Promise!Next
      BY <2>1 DEF Push, Promise!Next, Promise!Want
    <2>2. CASE Pop
      <3>1. ~stop /\ Popped # None /\ given' = Append(given, Popped) /\ pushed' = pushed
        BY <2>2 DEF Pop
      <3>2. CASE stage1.level # None
        <4>1. pushed \in Request /\ given = <<>> /\ given' = <<Promise!Level(pushed)>>
          BY <3>1, <3>2, PoppedFacts
        <4> QED BY <3>1, <4>1 DEF Promise!Next, Promise!GiveLevel
      <3>3. CASE stage1.level = None
        <4>1. /\ pushed \in Request
              /\ given \in {<<>>, <<Promise!Level(pushed)>>}
              /\ given' = Append(given, Promise!Game(pushed))
          BY <3>1, <3>3, PoppedFacts DEF OnlyLevel
        <4> QED BY <3>1, <4>1 DEF Promise!Next, Promise!GiveGame
      <3> QED BY <3>2, <3>3
    <2>3. CASE Free \/ WorkerStep \/ Joined \/ UNCHANGED vars
      BY <2>3 DEF Free, WorkerStep, Loop, TakeRequest, StoreLevel, TakeSource,
                  StoreGame, Joined, vars, Promise!vars
    <2> QED BY <2>1, <2>2, <2>3 DEF Next
  <1> QED BY <1>1, <1>2, InvHolds, PTL DEF Spec, Delivers, Promise!Spec

(***************************************************************************)
(* The menus over the loader.                                              *)
(***************************************************************************)
Screen == {"main", "browse", "play_map", "players", "player", "options", "wait",
           "ingame", "score"}

\* A menu is put on the others ...
LEMMA AppendFacts ==
  ASSUME NEW s \in Seq(Screen), NEW x \in Screen
  PROVE  /\ Append(s, x) \in Seq(Screen)
         /\ Len(Append(s, x)) = Len(s) + 1
         /\ Len(s) \in Nat
         /\ Last(Append(s, x)) = x
         /\ \A i \in 1 .. Len(s) : Append(s, x)[i] = s[i]
  <1> HIDE DEF Screen
  <1>1. /\ Append(s, x) \in Seq(Screen) /\ Len(Append(s, x)) = Len(s) + 1
        /\ Len(s) \in Nat /\ Append(s, x)[Len(s) + 1] = x
    OBVIOUS
  <1>2. \A i \in 1 .. Len(s) : Append(s, x)[i] = s[i]
    OBVIOUS
  <1> QED BY <1>1, <1>2 DEF Last

\* ... or the current one taken away.
LEMMA FrontFacts ==
  ASSUME NEW s \in Seq(Screen), s # <<>>
  PROVE  /\ Front(s) \in Seq(Screen)
         /\ Len(s) \in Nat /\ Len(s) > 0 /\ Last(s) = s[Len(s)]
         /\ Len(Front(s)) = Len(s) - 1
         /\ \A i \in 1 .. Len(s) - 1 : Front(s)[i] = s[i]
  <1> HIDE DEF Screen
  <1>1. Len(s) \in Nat /\ Len(s) > 0
    OBVIOUS
  <1>2. Front(s) = [i \in 1 .. Len(s) - 1 |-> s[i]]
    BY <1>1 DEF Front
  <1>3. Len(Front(s)) = Len(s) - 1
    BY <1>1, <1>2
  <1>4. Front(s) \in Seq(Screen)
    BY <1>1, <1>2
  <1> QED BY <1>1, <1>2, <1>3, <1>4 DEF Last

-----------------------------------------------------------------------------
\* The menus, whatever the loader does.  A game that is awaited, runs or has
\* ended shows on top of the stack and nowhere else.
Alone == {"wait", "ingame", "score"}

Base(s) ==
  /\ s \in Seq(Screen) /\ s # <<>>
  /\ s[1] = "main"
  /\ \A i \in 1 .. Len(s) : s[i] \notin Alone

Booting ==
  boot = "init_menu" /\ menus = <<>> /\ loaded = NothingLoaded /\ loaded_func = "idle"

Browsing == boot \in {"idle", "loop"} /\ Base(menus) /\ loaded_func \notin Kind

Awaiting ==
  /\ boot \in {"idle", "loop"}
  /\ \E b : Base(b) /\ menus = Append(b, "wait")
  /\ QuickStart \/ (boot = "loop" /\ loaded_func \in Kind)

Playing ==
  /\ boot = "loop"
  /\ \E b : Base(b) /\ menus \in {Append(b, "ingame"), Append(b, "score")}
  /\ loaded_func \notin Kind
  /\ game.kind \in Kind

MenusInv == Booting \/ Browsing \/ Awaiting \/ Playing

\* What lies under a current menu, with another one on it or taken away.
LEMMA BaseFacts ==
  ASSUME NEW b, Base(b)
  PROVE  /\ \A x \in Screen :
              /\ Append(b, x) \in Seq(Screen) /\ Append(b, x) # <<>>
              /\ Last(Append(b, x)) = x
              /\ Front(Append(b, x)) = b
              /\ x \notin Alone => Base(Append(b, x))
         /\ b # <<>> /\ Last(b) \notin Alone
         /\ Last(b) # "main" => Base(Front(b))
  <1> HIDE DEF Screen, Alone
  <1>1. b \in Seq(Screen) /\ b # <<>> /\ Len(b) \in Nat /\ Len(b) > 0
    BY DEF Base
  <1>2. ASSUME NEW x \in Screen
        PROVE  /\ Append(b, x) \in Seq(Screen) /\ Append(b, x) # <<>>
               /\ Last(Append(b, x)) = x
               /\ Front(Append(b, x)) = b
               /\ x \notin Alone => Base(Append(b, x))
    <2> DEFINE c == Append(b, x)
    <2>1. /\ c \in Seq(Screen) /\ Len(c) = Len(b) + 1 /\ Last(c) = x
          /\ \A i \in 1 .. Len(b) : c[i] = b[i]
      BY <1>1, AppendFacts
    <2>2. c # <<>> /\ c[Len(b) + 1] = x
      BY <1>1
    <2> HIDE DEF c
    <2>3. Front(c) = b
      <3>1. /\ Front(c) \in Seq(Screen) /\ Len(Front(c)) = Len(b)
            /\ \A i \in 1 .. Len(b) : Front(c)[i] = b[i]
        <4>1. /\ Front(c) \in Seq(Screen) /\ Len(Front(c)) = Len(c) - 1
              /\ \A i \in 1 .. Len(c) - 1 : Front(c)[i] = c[i]
          BY <2>1, <2>2, FrontFacts
        <4>2. Len(c) - 1 = Len(b)
          BY <1>1, <2>1
        <4> QED BY <2>1, <4>1, <4>2
      <3> QED BY <1>1, <3>1
    <2>4. x \notin Alone => Base(c)
      BY <1>1, <2>1, <2>2 DEF Base
    <2> QED BY <2>1, <2>2, <2>3, <2>4 DEF c
  <1>3. Last(b) \notin Alone
    BY <1>1 DEF Base, Last
  <1>4. ASSUME Last(b) # "main" PROVE Base(Front(b))
    <2>1. /\ Front(b) \in Seq(Screen) /\ Len(Front(b)) = Len(b) - 1
          /\ \A i \in 1 .. Len(b) - 1 : Front(b)[i] = b[i]
          /\ Last(b) = b[Len(b)]
      BY <1>1, FrontFacts
    <2>2. Len(b) # 1 /\ b[1] = "main"
      BY <1>4, <2>1 DEF Base
    <2> DEFINE f == Front(b)
    <2>3. f \in Seq(Screen) /\ Len(f) = Len(b) - 1 /\ \A i \in 1 .. Len(b) - 1 : f[i] = b[i]
      BY <2>1
    <2> HIDE DEF f
    <2>4. Base(f)
      BY <1>1, <2>2, <2>3 DEF Base
    <2> QED BY <2>4 DEF f
  <1> QED BY <1>1, <1>2, <1>3, <1>4

\* Which menus lie under the current one.
LEMMA Under ==
  ASSUME MenusInv, NEW x \in Screen, On(x)
  PROVE  /\ x \notin Alone => Browsing
         /\ x # "main" => Base(Front(menus))
         /\ x \in {"ingame", "score"} => Playing
         /\ x = "wait" => Awaiting
  <1>1. "wait" \in Screen /\ "ingame" \in Screen /\ "score" \in Screen
    BY DEF Screen
  <1>2. boot = "loop" /\ menus # <<>> /\ Last(menus) = x
    BY DEF On
  <1> HIDE DEF Screen
  <1>3. CASE Browsing
    <2>1. Base(menus)
      BY <1>3 DEF Browsing
    <2> QED BY <1>2, <1>3, <2>1, BaseFacts DEF Alone
  <1>4. CASE Awaiting
    <2> PICK b : Base(b) /\ menus = Append(b, "wait")
      BY <1>4 DEF Awaiting
    <2>1. Last(menus) = "wait" /\ Front(menus) = b
      BY <1>1, BaseFacts
    <2> QED BY <1>2, <1>4, <2>1 DEF Alone
  <1>5. CASE Playing
    <2> PICK b : Base(b) /\ menus \in {Append(b, "ingame"), Append(b, "score")}
      BY <1>5 DEF Playing
    <2>1. Last(menus) \in {"ingame", "score"} /\ Front(menus) = b
      BY <1>1, BaseFacts
    <2> QED BY <1>2, <1>5, <2>1 DEF Alone
  <1> QED BY <1>2, <1>3, <1>4, <1>5 DEF MenusInv, Booting

\* A game that starts or is awaited over the menus below.
LEMMA StartStacks ==
  ASSUME NEW kind \in Kind, NEW ld, NEW p, NEW below, Base(below), boot' = "loop",
         Start(kind, ld, p, below, UNCHANGED loaderVars) \/ Start(kind, ld, p, below, Pop)
  PROVE  MenusInv'
  <1>1. \/ /\ game' = [kind |-> kind, of |-> ld.game]
           /\ loaded_func' = "idle" /\ menus' = Append(below, "ingame")
        \/ loaded_func' = kind /\ menus' = Append(below, "wait")
    BY DEF Start
  <1>2. Base(below)'
    BY DEF Base
  <1> HIDE DEF Base
  <1> QED BY <1>1, <1>2 DEF MenusInv, Playing, Awaiting, Kind

\* A menu that is opened, browsed, changed or left.
LEMMA MenuStacks ==
  ASSUME MenusInv,
         \/ OpenBrowse \/ SelectFolder \/ OpenPlayer
         \/ \E m \in Map : SelectMap(m)
         \/ \E s \in Seed : RandomMap(s)
         \/ \E o \in Param : ChangeOption(o)
         \/ \E x \in Screen \ Alone, y \in Screen \ Alone : Open(x, y)
         \/ LeaveToIdle \/ LeaveAndPurge \/ LeavePlayMap \/ GameOver
  PROVE  MenusInv'
  <1>1. /\ {"main", "browse", "play_map", "players", "player", "options"}
              = Screen \ Alone
        /\ Alone = {"wait", "ingame", "score"} /\ Alone \subseteq Screen
        /\ Kind \cap {"idle", "preview"} = {}
    BY DEF Screen, Alone, Kind
  <1>2. ASSUME boot = "loop", boot' = boot, loaded_func' \notin Kind,
               Base(menus)'
        PROVE  MenusInv'
    BY <1>2 DEF MenusInv, Browsing
  <1>3. \A b : (b = menus' /\ Base(b)) => Base(menus)'
    BY DEF Base
  <1> HIDE DEF Screen, Alone, Kind, Base
  <1>4. CASE OpenBrowse \/ OpenPlayer \/ \E x \in Screen \ Alone, y \in Screen \ Alone : Open(x, y)
    <2>1. \E x \in Screen \ Alone, y \in Screen \ Alone :
             /\ On(y) /\ boot' = boot /\ menus' = Append(menus, x)
             /\ loaded_func' \in {"preview", loaded_func}
      <3>1. CASE OpenBrowse
        BY <1>1, <3>1 DEF OpenBrowse, Settle
      <3>2. CASE OpenPlayer
        BY <1>1, <3>2 DEF OpenPlayer, Settle
      <3>3. CASE \E x \in Screen \ Alone, y \in Screen \ Alone : Open(x, y)
        BY <3>3 DEF Open
      <3> QED BY <1>4, <3>1, <3>2, <3>3
    <2>2. Browsing /\ boot = "loop"
      BY <2>1, Under DEF On
    <2>3. Base(menus)'
      BY <1>3, <2>1, <2>2, BaseFacts DEF Browsing
    <2> QED BY <1>1, <1>2, <2>1, <2>2, <2>3 DEF Browsing
  <1>5. CASE SelectFolder \/ (\E m \in Map : SelectMap(m)) \/ (\E s \in Seed : RandomMap(s))
             \/ (\E o \in Param : ChangeOption(o))
    <2>1. /\ \E y \in {"browse", "main", "options"} : On(y)
          /\ boot' = boot /\ menus' = menus
          /\ loaded_func' \in {"idle", "preview", loaded_func}
      BY <1>5 DEF SelectFolder, SelectMap, RandomMap, ChangeOption, Settle
    <2>2. Browsing /\ boot = "loop"
      BY <1>1, <2>1, Under DEF On
    <2>3. Base(menus)'
      BY <1>3, <2>1, <2>2 DEF Browsing
    <2> QED BY <1>1, <1>2, <2>1, <2>2, <2>3 DEF Browsing
  <1>6. CASE LeaveToIdle
    <2>1. /\ \E y \in Screen : y # "main" /\ On(y)
          /\ boot' = boot /\ menus' = Front(menus) /\ loaded_func' = "idle"
      BY <1>1, <1>6 DEF LeaveToIdle, Settle
    <2>2. Base(menus)' /\ boot = "loop"
      BY <1>3, <2>1, Under DEF On
    <2> QED BY <1>1, <1>2, <2>1, <2>2
  <1>7. CASE LeaveAndPurge \/ LeavePlayMap
    <2>1. /\ \E y \in Screen \ Alone : y # "main" /\ On(y)
          /\ boot' = boot /\ menus' = Front(menus) /\ loaded_func' = loaded_func
      BY <1>1, <1>7 DEF LeaveAndPurge, LeavePlayMap
    <2>2. Browsing /\ Base(menus)' /\ boot = "loop"
      BY <1>3, <2>1, Under DEF On
    <2> QED BY <1>2, <2>1, <2>2 DEF Browsing
  <1>8. CASE GameOver
    <2>1. /\ On("ingame") /\ boot' = boot /\ menus' = Append(Front(menus), "score")
          /\ UNCHANGED <<loaded_func, game>>
      BY <1>8 DEF GameOver
    <2>2. Playing /\ Base(Front(menus))
      BY <1>1, <2>1, Under
    <2> DEFINE b == Front(menus)
    <2>3. Base(b) /\ menus' = Append(b, "score")
      BY <2>1, <2>2
    <2> HIDE DEF b
    <2> QED BY <2>1, <2>2, <2>3 DEF MenusInv, Playing, Base
  <1> QED BY <1>4, <1>5, <1>6, <1>7, <1>8

\* A game that is asked for, or that loaded-func starts.
LEMMA GameStacks ==
  ASSUME MenusInv,
         \/ InitMenu \/ EnterLoop \/ BackToMain \/ Poll \/ Continue \/ Replay
         \/ \E kind \in Kind : StartGame(kind)
  PROVE  MenusInv'
  <1>1. /\ {"main", "wait", "score", "play_map"} \subseteq Screen
        /\ {"main", "play_map"} \cap Alone = {}
        /\ {"wait", "score"} \subseteq Alone
        /\ Kind = {"solo", "quick", "server"}
    BY DEF Screen, Alone, Kind
  <1>2. Base(<<"main">>)
    BY DEF Base, Screen, Alone
  <1> HIDE DEF Screen, Alone, Kind
  <1>3. CASE InitMenu
    <2>1. boot = "init_menu" /\ boot' = "idle" /\ Booting
      BY <1>3 DEF InitMenu, MenusInv, Browsing, Awaiting, Playing
    <2>2. CASE QuickStart /\ Start("quick", loaded, param, <<"main">>, UNCHANGED loaderVars)
      <3>1. ~Whole("quick", loaded)
        BY <2>1 DEF Whole, Booting, NothingLoaded
      <3>2. menus' = Append(<<"main">>, "wait")
        BY <2>2, <3>1 DEF Start
      <3>3. \E b : Base(b)' /\ menus' = Append(b, "wait")
        <4> WITNESS <<"main">>
        <4> QED BY <1>2, <3>2 DEF Base
      <3> QED BY <2>1, <2>2, <3>3 DEF MenusInv, Awaiting, Base
    <2>3. CASE menus' = <<"main">> /\ UNCHANGED loaded_func
      <3>1. Base(menus)'
        BY <1>2, <2>3 DEF Base
      <3> QED BY <1>1, <2>1, <2>3, <3>1 DEF MenusInv, Browsing, Booting, Kind
    <2> QED BY <1>3, <2>2, <2>3 DEF InitMenu
  <1>4. CASE EnterLoop
    <2>1. boot = "idle" /\ boot' = "loop" /\ menus' = menus /\ loaded_func' = "idle"
      BY <1>4 DEF EnterLoop, Settle
    <2>2. CASE Browsing
      <3>1. Base(menus)'
        BY <2>1, <2>2 DEF Browsing, Base
      <3> QED BY <1>1, <2>1, <3>1 DEF MenusInv, Browsing
    <2>3. CASE Awaiting
      <3>1. QuickStart /\ \E b : Base(b) /\ menus = Append(b, "wait")
        BY <2>1, <2>3 DEF Awaiting
      <3> QED BY <2>1, <3>1 DEF MenusInv, Awaiting, Base
    <2> QED BY <2>1, <2>2, <2>3 DEF MenusInv, Booting, Playing
  <1>5. CASE BackToMain
    <2>1. On("play_map") /\ boot = "loop"
      BY <1>5 DEF BackToMain, On
    <2>2. CASE Start("quick", loaded, param, <<"main">>, UNCHANGED loaderVars)
               /\ UNCHANGED <<boot, playerVars>>
      BY <1>1, <1>2, <2>1, <2>2, StartStacks
    <2>3. CASE Open("main", "play_map")
      BY <1>1, <2>3, MenuStacks
    <2> QED BY <1>5, <2>2, <2>3 DEF BackToMain
  <1>6. CASE Poll
    <2>1. boot = "loop" /\ boot' = "loop"
      BY <1>6 DEF Poll
    <2>2. CASE UNCHANGED <<menus, loaded_func, game>>
      BY <2>1, <2>2 DEF MenusInv, Booting, Browsing, Awaiting, Playing, Base
    <2>3. CASE /\ loaded_func \in Kind
               /\ Start(loaded_func, PoppedAsLoaded, param, Front(menus), Pop)
      <3>1. Base(Front(menus))
        <4>1. Awaiting
          BY <2>1, <2>3 DEF MenusInv, Booting, Browsing, Playing
        <4> PICK b : Base(b) /\ menus = Append(b, "wait")
          BY <4>1 DEF Awaiting
        <4> QED BY <1>1, BaseFacts
      <3> QED BY <2>1, <2>3, <3>1, StartStacks
    <2> QED BY <1>6, <2>2, <2>3 DEF Poll
  <1>7. CASE Continue
    <2>1. /\ On("score") /\ boot = "loop" /\ boot' = "loop" /\ loaded_func' = "solo"
          /\ menus' = Append(Front(menus), "wait")
      BY <1>7 DEF Continue, On
    <2> DEFINE b == Front(menus)
    <2>2. Base(b) /\ menus' = Append(b, "wait")
      BY <1>1, <2>1, Under
    <2> HIDE DEF b
    <2> QED BY <1>1, <2>1, <2>2 DEF MenusInv, Awaiting, Base
  <1>8. CASE Replay
    <2>1. /\ On("score") /\ boot = "loop" /\ boot' = "loop"
          /\ Start(game.kind, loaded, option, Front(menus), UNCHANGED loaderVars)
      BY <1>8 DEF Replay, On
    <2>2. Playing /\ Base(Front(menus))
      BY <1>1, <2>1, Under
    <2> QED BY <2>1, <2>2, StartStacks DEF Playing
  <1>9. CASE \E kind \in Kind : StartGame(kind)
    <2> PICK kind \in Kind : StartGame(kind)
      BY <1>9
    <2>1. /\ \E x \in {"main", "play_map"} : On(x)
          /\ boot = "loop" /\ boot' = "loop"
          /\ Start(kind, loaded, param, menus, UNCHANGED loaderVars)
      BY DEF StartGame, On
    <2>2. Base(menus)
      BY <1>1, <2>1, Under DEF Browsing
    <2> QED BY <2>1, <2>2, StartStacks
  <1> QED
    BY <1>3, <1>4, <1>5, <1>6, <1>7, <1>8, <1>9

-----------------------------------------------------------------------------
\* What is loaded was popped with the bench value it was asked for.
PoppedTogether(ld) ==
  ld.game # None => ld.game \in Request /\ ld.game.bench_value = ld.bench_value

Typed ==
  /\ ~stop
  /\ chosen \in Map /\ option \in Param /\ param \in Param
  /\ loaded_func \in {"idle", "preview"} \cup Kind
  /\ network \in BOOLEAN
  /\ menus \in Seq(Screen)

GameInv == Inv /\ Typed /\ MenusInv /\ PoppedTogether(loaded) /\ RunsAtItsBench

\* What the main thread asks for is a request.
LEMMA Requests ==
  ASSUME Typed
  PROVE  /\ \A m \in Map, p \in Param, b \in Bench :
              [map |-> m, param |-> p, bench_value |-> b] \in Request
         /\ \A s \in Seed, b \in Bench : [seed |-> s, bench_value |-> b] \in Request
         /\ \A kind : BenchFor(kind) \in Bench
         /\ BrowseBench \in Bench
  BY StartupAssumption
  DEF Typed, Request, LdrRequest, GenRequest, BenchFor, BrowseBench

\* A push from a handler: what is loaded is forgotten.
LEMMA AskFacts ==
  ASSUME Inv, Typed, NEW r \in Request, Ask(r)
  PROVE  [Next]_vars /\ ~stop' /\ PoppedTogether(loaded')
  BY DEF Ask, Push, Next, NothingLoaded, PoppedTogether, Typed

\* What lw6tsk_loader_pop hands over is of the last request, and so is the bench
\* value that comes with a game.
LEMMA PoppedFits ==
  ASSUME Inv, Typed, Popped # None
  PROVE  PoppedTogether(PoppedAsLoaded)
  <1>1. /\ pushed \in Request
        /\ Popped = Promise!Level(pushed) \/ Popped = Promise!Game(pushed)
    BY PoppedFacts DEF Typed
  <1> QED
    BY <1>1 DEF PoppedAsLoaded, PoppedTogether, Promise!Level, Promise!Game

\* A game that starts has the bench value of its kind; one that does not is
\* asked for, or was asked for before.
LEMMA StartFacts ==
  ASSUME Inv, Typed, RunsAtItsBench, NEW kind \in Kind, NEW ld, PoppedTogether(ld),
         NEW p \in Param, NEW below \in Seq(Screen),
         Start(kind, ld, p, below, UNCHANGED loaderVars) \/ Start(kind, ld, p, below, Pop)
  PROVE  /\ [Next]_vars /\ ~stop' /\ PoppedTogether(loaded') /\ RunsAtItsBench'
         /\ param' \in {p, option} /\ network' \in BOOLEAN
         /\ \/ loaded_func' = "idle" /\ menus' = Append(below, "ingame")
            \/ loaded_func' = kind /\ menus' = Append(below, "wait")
  <1>1. CASE /\ Whole(kind, ld)
             /\ game' = [kind |-> kind, of |-> ld.game]
             /\ loaded_func' = "idle"
             /\ network' = (kind = "server")
             /\ param' = option
             /\ menus' = Append(below, "ingame")
             /\ loaded' = ld
             /\ UNCHANGED loaderVars \/ Pop
    <2>1. RunsAtItsBench'
      BY <1>1 DEF Whole, PoppedTogether, RunsAtItsBench, BenchFor
    <2>2. [Next]_vars /\ ~stop'
      BY <1>1 DEF loaderVars, vars, Next, Pop, Typed
    <2> QED BY <1>1, <2>1, <2>2
  <1>2. CASE /\ ~Whole(kind, ld)
             /\ \/ PushLdrIfNeeded(chosen, BenchFor(kind), p, ld, UNCHANGED loaderVars)
                \/ PushLdrIfNeeded(chosen, BenchFor(kind), p, ld, Pop)
             /\ loaded_func' = kind
             /\ param' = p
             /\ menus' = Append(below, "wait")
             /\ UNCHANGED <<network, game>>
    <2>1. /\ [Next]_vars /\ ~stop' /\ PoppedTogether(loaded')
      <3> DEFINE r == [map |-> chosen, param |-> p, bench_value |-> BenchFor(kind)]
      <3>1. r \in Request
        BY Requests DEF Typed
      <3>2. Ask(r) \/ (loaded' = ld /\ (UNCHANGED loaderVars \/ Pop))
        BY <1>2 DEF PushLdrIfNeeded
      <3> HIDE DEF r
      <3>3. CASE Ask(r)
        BY <3>1, <3>3, AskFacts
      <3>4. CASE loaded' = ld /\ (UNCHANGED loaderVars \/ Pop)
        BY <3>4 DEF loaderVars, vars, Next, Pop, Typed
      <3> QED BY <3>2, <3>3, <3>4
    <2>2. RunsAtItsBench'
      BY <1>2 DEF RunsAtItsBench, BenchFor
    <2> QED BY <1>2, <2>1, <2>2 DEF Typed
  <1> QED BY <1>1, <1>2 DEF Start

\* The chosen map is asked for, if what is loaded will not do: the preview.
LEMMA PreviewFacts ==
  ASSUME Inv, Typed, PoppedTogether(loaded), NEW m \in Map,
         PushLdrIfNeeded(m, BrowseBench, option, loaded, UNCHANGED loaderVars)
  PROVE  [Next]_vars /\ ~stop' /\ PoppedTogether(loaded')
  <1> DEFINE r == [map |-> m, param |-> option, bench_value |-> BrowseBench]
  <1>1. r \in Request
    BY Requests DEF Typed
  <1>2. Ask(r) \/ (loaded' = loaded /\ UNCHANGED loaderVars)
    BY DEF PushLdrIfNeeded
  <1> HIDE DEF r
  <1>3. CASE Ask(r)
    BY <1>1, <1>3, AskFacts
  <1>4. CASE loaded' = loaded /\ UNCHANGED loaderVars
    BY <1>4 DEF loaderVars, vars, Typed
  <1> QED BY <1>2, <1>3, <1>4

\* The loader's invariant is kept by whatever is a step of the loader.
LEMMA LoaderKeeps == ASSUME Inv, [Next]_vars PROVE Inv'
  BY PushInv, PopInv, FreeInv, WorkerInv, StutterInv DEF Next, Joined

-----------------------------------------------------------------------------
\* The stack of menus stays one, whether a menu is put on it or on the one below.
LEMMA MenusTyped ==
  ASSUME Typed
  PROVE  /\ \A x \in Screen : Append(menus, x) \in Seq(Screen)
         /\ menus # <<>> =>
               /\ Front(menus) \in Seq(Screen)
               /\ \A x \in Screen : Append(Front(menus), x) \in Seq(Screen)
  <1> HIDE DEF Screen
  <1>1. menus \in Seq(Screen)
    BY DEF Typed
  <1>2. ASSUME menus # <<>> PROVE Front(menus) \in Seq(Screen)
    BY <1>1, <1>2, FrontFacts
  <1> QED BY <1>1, <1>2, AppendFacts

\* A game that starts, or is awaited, in one of the handlers.
LEMMA StartTyped ==
  ASSUME Inv, Typed, RunsAtItsBench, NEW kind \in Kind, NEW ld, PoppedTogether(ld),
         NEW p \in Param, NEW below \in Seq(Screen), UNCHANGED playerVars,
         Start(kind, ld, p, below, UNCHANGED loaderVars) \/ Start(kind, ld, p, below, Pop)
  PROVE  [Next]_vars /\ Typed' /\ PoppedTogether(loaded') /\ RunsAtItsBench'
  <1>1. "ingame" \in Screen /\ "wait" \in Screen
    BY DEF Screen
  <1>2. Append(below, "ingame") \in Seq(Screen) /\ Append(below, "wait") \in Seq(Screen)
    BY <1>1, AppendFacts
  <1> HIDE DEF Screen
  <1>3. menus' \in Seq(Screen)
    BY <1>2, StartFacts
  <1> QED BY <1>3, StartFacts DEF Typed, playerVars

\* What the player does in the menus, if it asks for no game.
LEMMA MenuTyped ==
  ASSUME GameInv,
         \/ OpenBrowse \/ SelectFolder \/ OpenPlayer
         \/ \E m \in Map : SelectMap(m)
         \/ \E s \in Seed : RandomMap(s)
         \/ \E o \in Param : ChangeOption(o)
         \/ \E x \in Screen, y \in Screen : Open(x, y)
         \/ LeaveToIdle \/ LeaveAndPurge \/ LeavePlayMap \/ GameOver
  PROVE  [Next]_vars /\ Typed' /\ PoppedTogether(loaded') /\ RunsAtItsBench'
  <1> USE DEF GameInv
  <1>1. /\ {"browse", "player", "score"} \subseteq Screen
    BY DEF Screen
  <1> HIDE DEF Screen
  <1>2. UNCHANGED loaderVars => [Next]_vars
    BY DEF loaderVars
  <1>3. CASE OpenBrowse \/ OpenPlayer
    <2>1. /\ PushLdrIfNeeded(chosen, BrowseBench, option, loaded, UNCHANGED loaderVars)
          /\ menus' = Append(menus, "browse") \/ menus' = Append(menus, "player")
          /\ Settle("preview") /\ UNCHANGED <<playerVars, network>>
      BY <1>3 DEF OpenBrowse, OpenPlayer
    <2>2. [Next]_vars /\ ~stop' /\ PoppedTogether(loaded')
      BY <2>1, PreviewFacts DEF Typed
    <2>3. menus' \in Seq(Screen)
      BY <1>1, <2>1, MenusTyped
    <2> QED BY <2>1, <2>2, <2>3 DEF Typed, Settle, playerVars, RunsAtItsBench
  <1>4. CASE \E m \in Map : SelectMap(m)
    <2> PICK m \in Map : SelectMap(m)
      BY <1>4
    <2>1. /\ PushLdrIfNeeded(m, BrowseBench, option, loaded, UNCHANGED loaderVars)
          /\ Settle("preview") /\ chosen' = m /\ UNCHANGED <<menus, option, network>>
      BY DEF SelectMap
    <2>2. [Next]_vars /\ ~stop' /\ PoppedTogether(loaded')
      BY <2>1, PreviewFacts
    <2> QED BY <2>1, <2>2 DEF Typed, Settle, RunsAtItsBench
  <1>5. CASE \E s \in Seed : RandomMap(s)
    <2> PICK s \in Seed : RandomMap(s)
      BY <1>5
    <2> DEFINE r == [seed |-> s, bench_value |-> BrowseBench]
    <2>1. Ask(r) /\ Settle("preview") /\ UNCHANGED <<menus, playerVars, network>>
      BY DEF RandomMap
    <2>2. r \in Request
      BY Requests
    <2> HIDE DEF r
    <2>3. [Next]_vars /\ ~stop' /\ PoppedTogether(loaded')
      BY <2>1, <2>2, AskFacts
    <2> QED BY <2>1, <2>3 DEF Typed, Settle, playerVars, RunsAtItsBench
  <1>6. CASE SelectFolder \/ LeaveToIdle
    <2>1. /\ Settle("idle") /\ UNCHANGED <<loaderVars, loaded, playerVars, network>>
          /\ menus' = menus \/ (menus # <<>> /\ menus' = Front(menus))
      BY <1>6 DEF SelectFolder, LeaveToIdle, On
    <2>2. menus' \in Seq(Screen)
      BY <2>1, MenusTyped DEF Typed
    <2> QED
      BY <1>2, <2>1, <2>2 DEF Typed, Settle, loaderVars, vars, playerVars, RunsAtItsBench
  <1>7. CASE \E o \in Param : ChangeOption(o)
    BY <1>2, <1>7 DEF ChangeOption, Typed, loaderVars, vars, RunsAtItsBench
  <1>8. CASE (\E x \in Screen, y \in Screen : Open(x, y)) \/ LeavePlayMap
    <2>1. /\ UNCHANGED <<loaderVars, loaded, loaded_func, playerVars, param, network, game>>
          /\ \/ \E x \in Screen : menus' = Append(menus, x)
             \/ menus # <<>> /\ menus' = Front(menus)
      BY <1>8 DEF Open, LeavePlayMap, On
    <2>2. menus' \in Seq(Screen)
      BY <2>1, MenusTyped
    <2> QED
      BY <1>2, <2>1, <2>2 DEF Typed, loaderVars, vars, playerVars, RunsAtItsBench
  <1>9. CASE LeaveAndPurge
    <2>1. /\ menus # <<>> /\ menus' = Front(menus) /\ param' = option
          /\ loaded' = NothingLoaded /\ game' = None
          /\ UNCHANGED <<loaderVars, loaded_func, playerVars, network>>
      BY <1>9 DEF LeaveAndPurge, On
    <2>2. menus' \in Seq(Screen)
      BY <2>1, MenusTyped
    <2> QED
      BY <1>2, <2>1, <2>2
      DEF Typed, loaderVars, vars, playerVars, RunsAtItsBench, PoppedTogether, NothingLoaded
  <1>10. CASE GameOver
    <2>1. /\ menus # <<>> /\ menus' = Append(Front(menus), "score")
          /\ chosen' \in Map \/ UNCHANGED chosen
          /\ UNCHANGED <<loaderVars, loaded, loaded_func, option, param, network, game>>
      BY <1>10 DEF GameOver, On
    <2>2. menus' \in Seq(Screen)
      BY <1>1, <2>1, MenusTyped
    <2> QED
      BY <1>2, <2>1, <2>2 DEF Typed, loaderVars, vars, RunsAtItsBench
  <1> QED
    BY <1>3, <1>4, <1>5, <1>6, <1>7, <1>8, <1>9, <1>10

\* A game that is asked for, by whichever handler, or that loaded-func starts.
LEMMA GameTyped ==
  ASSUME GameInv,
         \/ InitMenu \/ BackToMain \/ Poll \/ Continue \/ Replay
         \/ \E kind \in Kind : StartGame(kind)
  PROVE  [Next]_vars /\ Typed' /\ PoppedTogether(loaded') /\ RunsAtItsBench'
  <1> USE DEF GameInv
  <1>1. /\ {"main", "wait"} \subseteq Screen /\ <<"main">> \in Seq(Screen)
        /\ {"quick", "solo", "server"} = Kind
    BY DEF Screen, Kind
  <1> HIDE DEF Screen
  <1>2. menus \in Seq(Screen) /\ param \in Param /\ option \in Param
    BY DEF Typed
  <1>3. CASE InitMenu
    <2>1. UNCHANGED playerVars
      BY <1>3 DEF InitMenu
    <2>2. CASE Start("quick", loaded, param, <<"main">>, UNCHANGED loaderVars)
      BY <1>1, <1>2, <2>1, <2>2, StartTyped
    <2>3. CASE /\ menus' = <<"main">>
               /\ UNCHANGED <<loaderVars, loaded, loaded_func, param, network, game>>
      BY <1>1, <2>1, <2>3 DEF loaderVars, vars, playerVars, Typed, RunsAtItsBench
    <2> QED BY <1>3, <2>2, <2>3 DEF InitMenu
  <1>4. CASE BackToMain
    <2>1. CASE /\ Start("quick", loaded, param, <<"main">>, UNCHANGED loaderVars)
               /\ UNCHANGED playerVars
      BY <1>1, <1>2, <2>1, StartTyped
    <2>2. CASE Open("main", "play_map")
      BY <2>2, MenuTyped DEF Screen
    <2> QED BY <1>4, <2>1, <2>2 DEF BackToMain
  <1>5. CASE Poll
    <2>1. UNCHANGED playerVars /\ Popped # None
      BY <1>5 DEF Poll
    <2>2. PoppedTogether(PoppedAsLoaded)
      BY <2>1, PoppedFits
    <2>3. CASE /\ Pop /\ loaded' \in {loaded, PoppedAsLoaded}
               /\ UNCHANGED <<menus, loaded_func, param, network, game>>
      <3>1. [Next]_vars /\ UNCHANGED stop
        BY <2>3 DEF Next, Pop
      <3> QED BY <2>1, <2>2, <2>3, <3>1 DEF playerVars, Typed, RunsAtItsBench
    <2>4. CASE /\ loaded_func \in Kind
               /\ Start(loaded_func, PoppedAsLoaded, param, Front(menus), Pop)
      <3>1. menus # <<>>
        <4>1. Awaiting
          BY <1>5, <2>4 DEF Poll, MenusInv, Booting, Browsing, Playing
        <4> QED BY <1>1, <4>1, BaseFacts DEF Awaiting
      <3>2. Front(menus) \in Seq(Screen)
        BY <3>1, MenusTyped
      <3> QED BY <1>2, <2>1, <2>2, <2>4, <3>2, StartTyped
    <2> QED BY <1>5, <2>3, <2>4 DEF Poll
  <1>6. CASE Continue
    <2> DEFINE r == [map |-> chosen, param |-> option, bench_value |-> LocalBench]
    <2>1. /\ Ask(r) /\ loaded_func' = "solo" /\ param' = option /\ game' = None
          /\ menus # <<>> /\ menus' = Append(Front(menus), "wait")
          /\ UNCHANGED <<playerVars, network>>
      BY <1>6 DEF Continue, On
    <2>2. r \in Request
      BY StartupAssumption DEF Typed, Request, LdrRequest
    <2> HIDE DEF r
    <2>3. [Next]_vars /\ ~stop' /\ PoppedTogether(loaded')
      BY <2>1, <2>2, AskFacts
    <2>4. menus' \in Seq(Screen)
      BY <1>1, <2>1, MenusTyped
    <2> QED BY <1>1, <2>1, <2>3, <2>4 DEF Typed, playerVars, RunsAtItsBench
  <1>7. CASE Replay
    <2>1. /\ Start(game.kind, loaded, option, Front(menus), UNCHANGED loaderVars)
          /\ menus # <<>> /\ UNCHANGED playerVars
      BY <1>7 DEF Replay, On
    <2>2. Front(menus) \in Seq(Screen)
      BY <2>1, MenusTyped
    <2>3. game.kind \in Kind
      <3>1. On("score") /\ "score" \in Screen
        BY <1>7 DEF Replay, Screen
      <3> QED BY <3>1, Under DEF Playing
    <2> QED BY <1>2, <2>1, <2>2, <2>3, StartTyped
  <1>8. CASE \E kind \in Kind : StartGame(kind)
    <2> PICK kind \in Kind : StartGame(kind)
      BY <1>8
    <2>1. /\ Start(kind, loaded, param, menus, UNCHANGED loaderVars)
          /\ UNCHANGED playerVars
      BY DEF StartGame
    <2> QED BY <1>2, <2>1, StartTyped
  <1> QED
    BY <1>3, <1>4, <1>5, <1>6, <1>7, <1>8

-----------------------------------------------------------------------------
\* The loader's invariant, the menus and what is loaded, for ever.
LEMMA GameForever == StartupSpec => []GameInv
  <1>1. StartupInit => GameInv
    <2> SUFFICES ASSUME StartupInit PROVE GameInv
      OBVIOUS
    <2> HIDE DEF Screen
    <2>1. Inv
      BY InitInv DEF StartupInit
    <2>2. Typed
      <3>1. stop = FALSE /\ menus = <<>>
        BY DEF StartupInit, Init
      <3>2. <<>> \in Seq(Screen)
        OBVIOUS
      <3> HIDE DEF Screen
      <3> QED BY <3>1, <3>2, StartupAssumption DEF StartupInit, Typed
    <2>3. MenusInv
      BY DEF StartupInit, MenusInv, Booting
    <2> QED
      BY <2>1, <2>2, <2>3
      DEF StartupInit, GameInv, PoppedTogether, NothingLoaded, RunsAtItsBench
  <1>2. GameInv /\ [StartupNext]_allVars => GameInv'
    <2> SUFFICES ASSUME GameInv, [StartupNext]_allVars PROVE GameInv'
      OBVIOUS
    <2> DEFINE Menu == \/ OpenBrowse \/ SelectFolder \/ OpenPlayer
                       \/ \E m \in Map : SelectMap(m)
                       \/ \E s \in Seed : RandomMap(s)
                       \/ \E o \in Param : ChangeOption(o)
                       \/ \E x \in Screen \ Alone, y \in Screen \ Alone : Open(x, y)
                       \/ LeaveToIdle \/ LeaveAndPurge \/ LeavePlayMap \/ GameOver
               Games == \/ InitMenu \/ BackToMain \/ Poll \/ Continue \/ Replay
                        \/ \E kind \in Kind : StartGame(kind)
    <2>1. Menu \/ Games \/ EnterLoop \/ Work \/ UNCHANGED allVars
      <3>1. {"main", "browse", "play_map", "options", "players"} \subseteq Screen \ Alone
        BY DEF Screen, Alone
      <3> HIDE DEF Screen, Alone
      <3> QED BY <3>1 DEF StartupNext, Player
    <2>2. CASE Menu
      <3>1. MenusInv'
        BY <2>2, MenuStacks DEF GameInv
      <3>2. [Next]_vars /\ Typed' /\ PoppedTogether(loaded') /\ RunsAtItsBench'
        BY <2>2, MenuTyped
      <3> QED BY <3>1, <3>2, LoaderKeeps DEF GameInv, PoppedTogether
    <2>3. CASE Games
      <3>1. MenusInv'
        BY <2>3, GameStacks DEF GameInv
      <3>2. [Next]_vars /\ Typed' /\ PoppedTogether(loaded') /\ RunsAtItsBench'
        BY <2>3, GameTyped
      <3> QED BY <3>1, <3>2, LoaderKeeps DEF GameInv, PoppedTogether
    <2>4. CASE EnterLoop
      <3>1. MenusInv'
        BY <2>4, GameStacks DEF GameInv
      <3>2. /\ UNCHANGED <<loaderVars, menus, loaded, playerVars, network>>
            /\ loaded_func' = "idle" /\ param' = option /\ game' = None
        BY <2>4 DEF EnterLoop, Settle
      <3>3. [Next]_vars
        BY <3>2 DEF loaderVars
      <3> QED
        BY <3>1, <3>2, <3>3, LoaderKeeps
        DEF GameInv, PoppedTogether, Typed, loaderVars, vars, playerVars, RunsAtItsBench
    <2>5. CASE Work \/ UNCHANGED allVars
      <3>1. UNCHANGED <<boot, menus, loaded, loaded_func, playerVars, param, network, game>>
        BY <2>5 DEF Work, allVars
      <3>2. [Next]_vars /\ UNCHANGED stop
        BY <2>5
        DEF Work, allVars, loaderVars, vars, Next, WorkerStep, Loop, TakeRequest,
            StoreLevel, TakeSource, StoreGame
      <3> QED
        BY <3>1, <3>2, LoaderKeeps
        DEF GameInv, PoppedTogether, Typed, playerVars, RunsAtItsBench, MenusInv,
            Booting, Browsing, Awaiting, Playing, Base
    <2> QED BY <2>1, <2>2, <2>3, <2>4, <2>5
  <1> QED BY <1>1, <1>2, PTL DEF StartupSpec

\* A game runs on a level that was made for its kind, whatever was asked for,
\* popped and shown before it: the bench value comes with the game it goes with.
THEOREM AlwaysAtItsBench == StartupSpec => []RunsAtItsBench
  <1>1. GameInv => RunsAtItsBench
    BY DEF GameInv
  <1> QED BY GameForever, <1>1, PTL

\* The wait menu is on top exactly while a game is awaited, so that a game that
\* starts takes away that menu and no other; without --quick-start, after which
\* lw6-game-idle forgets the game and leaves the menu.
THEOREM AlwaysWatched ==
  ASSUME QuickStart = FALSE
  PROVE  StartupSpec => []WaitIsWatched
  <1>1. MenusInv => WaitIsWatched
    <2> SUFFICES ASSUME MenusInv, boot = "loop"
                 PROVE  (On("wait") <=> loaded_func \in Kind)
      BY DEF WaitIsWatched
    <2>1. /\ {"wait", "ingame", "score"} \subseteq Screen /\ "wait" \in Alone
      BY DEF Screen, Alone
    <2> HIDE DEF Screen, Alone
    <2>2. CASE Browsing
      <3>1. Last(menus) # "wait"
        BY <2>1, <2>2, BaseFacts DEF Browsing
      <3> QED BY <2>2, <3>1 DEF Browsing, On
    <2>3. CASE Awaiting
      <3> PICK b : Base(b) /\ menus = Append(b, "wait")
        BY <2>3 DEF Awaiting
      <3>1. On("wait")
        BY <2>1, BaseFacts DEF On
      <3> QED BY <2>3, <3>1 DEF Awaiting
    <2>4. CASE Playing
      <3> PICK b : Base(b) /\ menus \in {Append(b, "ingame"), Append(b, "score")}
        BY <2>4 DEF Playing
      <3>1. ~On("wait")
        BY <2>1, BaseFacts DEF On
      <3> QED BY <2>4, <3>1 DEF Playing
    <2> QED BY <2>2, <2>3, <2>4 DEF MenusInv, Booting
  <1>2. GameInv => WaitIsWatched
    BY <1>1 DEF GameInv
  <1> QED BY GameForever, <1>2, PTL
=============================================================================
