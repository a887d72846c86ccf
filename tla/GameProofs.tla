----------------------------- MODULE GameProofs -----------------------------
(***************************************************************************)
(* Proofs about Launch, for any functions of the engine, any of them left  *)
(* alone (Ignored) or not defined by Lua.dll (Missing), and any failure;   *)
(* and about Game: what is proved of its parts holds of the whole.         *)
(***************************************************************************)
EXTENDS Game, TLAPS

Before == {"none", "args", "loadLibraryHook", "engine"}
Loaded == {"import", "initLua", "update", "manager"}
After  == {"openLua", "wakeUp", "console"}

\* What is in place at each step of Run: the process runs after the last one only, the
\* hooks are there before the constructor of ScriptManager is called, and the field
\* is assigned before the process is woken up.
StartInv ==
  /\ process = "running" <=> run = "console"
  /\ run = "none" <=> process \in {"none", "refused"}
  /\ run = "update" => "InitLua" \in hooked
  /\ run \in {"manager", "hookLuaApi"} \cup After => EngineHooks \subseteq hooked
  /\ run \in {"wakeUp", "console"} => scriptManager
  /\ FALSE \notin handled

\* Whose state there is while functions are redirected one by one: the engine's until
\* CloseLua (destroyed tells whether there is one to be closed), none until the loop has
\* come to its end, then the new library's.
RuntimeInv ==
  /\ run \in Before \cup Loaded => redirected \cup reporting = {} /\ luaState # "own"
  /\ run \in Loaded => (destroyed <=> luaState = "none")
  /\ run \in {"hookLuaApi", "openLua"} => luaState = "none"
  /\ run \in After => Symbols = Ignored \cup redirected \cup reporting

-----------------------------------------------------------------------------
\* Every variable of Launch keeps to its type; ignored functions are never redirected.
THEOREM TypeCorrect == Spec => []TypeOK
<1> USE DEF TypeOK, Steps, EngineHooks
<1>1. Init => TypeOK
  BY DEF Init
<1>2. TypeOK /\ [Next]_vars => TypeOK'
  <2> SUFFICES ASSUME TypeOK, [Next]_vars
               PROVE  TypeOK'
    OBVIOUS
  <2> USE DEF hostVars, luaVars, At, Throw
  <2>1. CASE Launcher \/ Bootstrapper \/ Refuse
    BY <2>1 DEF Launcher, Bootstrapper, Refuse, CreateAndInject
  <2>2. CASE ParseArgs \/ HookLoadLibrary \/ LoadEngine \/ ImportSymbols
    BY <2>2 DEF ParseArgs, HookLoadLibrary, LoadEngine, ImportSymbols
  <2>3. CASE HookInitLua \/ HookUpdate \/ CloseLua
    BY <2>3 DEF HookInitLua, HookUpdate, CloseLua
  <2>4. CASE HookSymbol
    BY <2>4 DEF HookSymbol, ToHook
  <2>5. CASE HookLuaApiDone \/ OpenLua \/ WakeUpProcess
    BY <2>5 DEF HookLuaApiDone, OpenLua, WakeUpProcess
  <2>6. CASE RunFails
    BY <2>6 DEF RunFails
  <2>7. CASE GameCalls
    BY <2>7 DEF GameCalls
  <2>8. CASE UNCHANGED vars
    BY <2>8 DEF vars
  <2> QED BY <2>1, <2>2, <2>3, <2>4, <2>5, <2>6, <2>7, <2>8 DEF Next, Run
<1> QED BY <1>1, <1>2, PTL DEF Spec

LEMMA StartStep ==
  ASSUME TypeOK, StartInv, [Next]_vars
  PROVE  StartInv'
<1> USE DEF StartInv, After, EngineHooks, hostVars, luaVars, At, Throw
<1>1. CASE Launcher \/ Bootstrapper \/ Refuse
  BY <1>1 DEF Launcher, Bootstrapper, Refuse, CreateAndInject
<1>2. CASE ParseArgs \/ HookLoadLibrary \/ LoadEngine \/ ImportSymbols
  BY <1>2 DEF ParseArgs, HookLoadLibrary, LoadEngine, ImportSymbols
<1>3. CASE HookInitLua
  BY <1>3 DEF HookInitLua
<1>4. CASE HookUpdate
  BY <1>4 DEF HookUpdate
<1>5. CASE CloseLua
  BY <1>5 DEF CloseLua
<1>6. CASE HookSymbol \/ HookLuaApiDone
  BY <1>6 DEF HookSymbol, HookLuaApiDone
<1>7. CASE OpenLua \/ WakeUpProcess
  BY <1>7 DEF OpenLua, WakeUpProcess
<1>8. CASE RunFails
  <2>1. process' = process /\ run' = "failed" /\ run # "console" /\ run # "none"
    BY <1>8 DEF RunFails
  <2>2. UNCHANGED <<hooked, scriptManager, handled>>
    BY <1>8 DEF RunFails
  <2> QED BY <2>1, <2>2
\* A hooked call is made while the process runs, when the field is assigned.
<1>9. CASE GameCalls
  <2>1. process = "running" /\ handled' = handled \cup {scriptManager}
    BY <1>9 DEF GameCalls
  <2>2. scriptManager
    BY <2>1
  <2>3. FALSE \notin handled'
    BY <2>1, <2>2
  <2>4. UNCHANGED <<process, run, hooked, scriptManager>>
    BY <1>9 DEF GameCalls
  <2> QED BY <2>3, <2>4
<1>10. CASE UNCHANGED vars
  BY <1>10 DEF vars
<1> QED BY <1>1, <1>2, <1>3, <1>4, <1>5, <1>6, <1>7, <1>8, <1>9, <1>10 DEF Next, Run

\* The game runs only with everything in place: with every hook and with the field
\* assigned that the hooked functions use, whatever step of the start has failed.
THEOREM NeverStartsHalfWay == Spec => []NeverHalfStarted
<1>1. Init => StartInv
  BY DEF Init, StartInv, After, EngineHooks
<1>2. TypeOK /\ StartInv /\ [Next]_vars => StartInv'
  BY StartStep
<1>3. StartInv => NeverHalfStarted
  BY DEF StartInv, NeverHalfStarted, After
<1> QED BY <1>1, <1>2, <1>3, TypeCorrect, PTL DEF Spec

-----------------------------------------------------------------------------
LEMMA RuntimeStep ==
  ASSUME TypeOK, StartInv, RuntimeInv, OneRuntimePerState, [Next]_vars
  PROVE  RuntimeInv' /\ OneRuntimePerState'
<1> USE DEF RuntimeInv, OneRuntimePerState, Before, Loaded, After, luaVars, At, Throw
<1>1. CASE Launcher \/ Bootstrapper
  <2>1. run = "none" /\ run' = "args" /\ UNCHANGED luaVars
    BY <1>1 DEF Launcher, Bootstrapper, CreateAndInject, StartInv
  <2> QED BY <2>1
<1>2. CASE Refuse
  BY <1>2 DEF Refuse
<1>3. CASE ParseArgs \/ HookLoadLibrary
  BY <1>3 DEF ParseArgs, HookLoadLibrary
<1>4. CASE LoadEngine
  BY <1>4 DEF LoadEngine
<1>5. CASE ImportSymbols \/ HookInitLua \/ HookUpdate
  BY <1>5 DEF ImportSymbols, HookInitLua, HookUpdate
<1>6. CASE CloseLua
  <2>1. luaState' = "none" /\ run' = "hookLuaApi"
    BY <1>6 DEF CloseLua
  <2>2. UNCHANGED <<redirected, reporting>>
    BY <1>6 DEF CloseLua
  <2> QED BY <2>1, <2>2
<1>7. CASE HookSymbol
  <2>1. luaState' = "none" /\ run' = "hookLuaApi"
    BY <1>7 DEF HookSymbol
  <2> QED BY <2>1
\* The loop ends when nothing is left to be hooked but what is ignored.
<1>8. CASE HookLuaApiDone
  <2>1. ToHook = {} /\ run' = "openLua" /\ UNCHANGED luaVars /\ luaState = "none"
    BY <1>8 DEF HookLuaApiDone
  <2>2. Symbols = Ignored \cup redirected \cup reporting
    BY <2>1, SymbolsAssumption DEF ToHook, TypeOK
  <2> QED BY <2>1, <2>2
<1>9. CASE OpenLua
  BY <1>9 DEF OpenLua
<1>10. CASE WakeUpProcess
  BY <1>10 DEF WakeUpProcess
<1>11. CASE RunFails
  BY <1>11 DEF RunFails
<1>12. CASE GameCalls \/ UNCHANGED vars
  BY <1>12 DEF GameCalls, vars
<1> QED BY <1>1, <1>2, <1>3, <1>4, <1>5, <1>6, <1>7, <1>8, <1>9, <1>10, <1>11, <1>12
     DEF Next, Run

\* A lua_State is only worked on by the library that has made it, also while the functions
\* of the engine are redirected one by one, and when that stops half way.
THEOREM StatesStayWithTheirLibrary == Spec => []OneRuntimePerState
<1>1. Init => StartInv /\ RuntimeInv /\ OneRuntimePerState
  BY DEF Init, StartInv, RuntimeInv, OneRuntimePerState, Before, Loaded, After, EngineHooks
<1>2. TypeOK /\ StartInv /\ [Next]_vars => StartInv'
  BY StartStep
<1>3. TypeOK /\ StartInv /\ RuntimeInv /\ OneRuntimePerState /\ [Next]_vars
        => RuntimeInv' /\ OneRuntimePerState'
  BY RuntimeStep
<1> QED BY <1>1, <1>2, <1>3, TypeCorrect, PTL DEF Spec

-----------------------------------------------------------------------------
(* The parts of Game.  Each of its behaviours is one of each part.          *)

gameVars == <<part, vars, tableVars, callsVars, scriptVars, socketVars, fileVars>>

LEMMA PartsOfGame ==
  /\ GameSpec => Spec
  /\ GameSpec => K!TableSpec
  /\ GameSpec => K!Spec
  /\ GameSpec => F!Spec
  /\ GameSpec => F!SocketsSpec
<1>1. GameInit => Init /\ K!TableInit /\ K!Init /\ F!Init /\ F!SocketsInit
  BY DEF GameInit
<1>2. [GameNext]_gameVars => [Next]_vars
  BY DEF GameNext, gameVars
<1>3. [GameNext]_gameVars => [K!TableNext]_K!tableVars
  BY DEF GameNext, gameVars, K!tableVars, tableVars
<1>4. [GameNext]_gameVars => [K!Next]_K!vars
  BY DEF GameNext, gameVars, K!vars, callsVars
<1>5. [GameNext]_gameVars => [F!Next]_F!vars
  BY DEF GameNext, gameVars, F!vars, fileVars
<1>6. [GameNext]_gameVars => [F!SocketsNext]_F!socketVars
  BY DEF GameNext, gameVars, F!socketVars, socketVars
<1> QED BY <1>1, <1>2, <1>3, <1>4, <1>5, <1>6, PTL
     DEF GameSpec, gameVars, Spec, K!TableSpec, K!Spec, F!Spec, F!SocketsSpec

\* Of the start, in the game.
THEOREM GameStarts == GameSpec => [](NeverHalfStarted /\ OneRuntimePerState)
BY PartsOfGame, NeverStartsHalfWay, StatesStayWithTheirLibrary, PTL

\* However the nodes of a table are moved, chained and rehashed (ltable.c), it is a map,
\* its length a border, its traversal complete: for any keys, hashes and sizes.
THEOREM TablesAreMaps == GameSpec => ImplementsMap
<1>1. K!TableSpec => K!ImplementsMap
  BY K!TableImplementsMap, TableAssumption
<1>2. [K!M!Next]_(K!M!vars) => [part = "table" => K!StepsAsMap]_tableVars
  BY DEF K!StepsAsMap
<1> QED BY <1>1, <1>2, PartsOfGame, PTL
     DEF ImplementsMap, K!ImplementsMap, K!StartsAsMap, K!M!Spec

\* However calls, yields, resumes and errors are nested (ldo.c), threads behave as the
\* coroutines and protected calls of the manual: for any threads and any limits.
THEOREM CallsAreCoroutines == GameSpec => ImplementsCoroutines
<1>1. K!Spec => K!ImplementsCoroutines
  BY K!CallsImplementsCoroutines, CallsAssumption
<1>2. [K!C!Next]_(K!C!vars) => [part = "calls" => K!StepsAsCoroutines]_callsVars
  BY DEF K!StepsAsCoroutines
<1> QED BY <1>1, <1>2, PartsOfGame, PTL
     DEF ImplementsCoroutines, K!ImplementsCoroutines, K!StartsAsCoroutines, K!C!Spec

\* Between the hooks of the engine (ScriptManager.cs) only results of lines and one error
\* for each failure stay on the stack.
THEOREM HostLeavesResultsAndErrors == GameSpec => []OnlyResultsAndErrorsStay
<1>1. H!Spec => []H!OnlyResultsAndErrorsStay
  BY H!StackBetweenHooks
<1>2. GameInit => H!Init \/ part # "host"
  BY DEF GameInit
<1>3. part # "host" /\ [GameNext]_gameVars => (part # "host")'
  BY DEF GameNext, gameVars
<1>4. [GameNext]_gameVars => [H!Next]_H!vars
  BY DEF GameNext, gameVars, H!vars, scriptVars
<1>5. part # "host" => OnlyResultsAndErrorsStay
  BY DEF OnlyResultsAndErrorsStay
<1>6. H!OnlyResultsAndErrorsStay => OnlyResultsAndErrorsStay
  BY DEF OnlyResultsAndErrorsStay
<1> QED BY <1>1, <1>2, <1>3, <1>4, <1>5, <1>6, PTL DEF GameSpec, gameVars, H!Spec

\* What the system has open for a script, sockets, files, pipes, walks and locks, is that
\* of one object, which releases it once: for any number of them.
THEOREM EverythingIsReleasedOnce == GameSpec => []ReleasedOnce
<1>1. F!Spec => []F!EachStreamHasItsHandle
  BY F!StreamsHaveTheirHandles, FilesAssumption
<1>2. F!Spec => []F!LoopsCloseTheirFiles
  BY F!LoopsClose, FilesAssumption
<1>3. F!SocketsSpec => []F!EachSocketHasItsObject
  BY F!SocketsHaveTheirObjects, SocketsAssumption
<1>4. F!EachStreamHasItsHandle /\ F!LoopsCloseTheirFiles /\ F!EachSocketHasItsObject => ReleasedOnce
  BY DEF ReleasedOnce
<1> QED BY <1>1, <1>2, <1>3, <1>4, PartsOfGame, PTL

\* No call of luasocket outlasts the timeouts of its object.
THEOREM NoCallOutlastsItsTimeouts == GameSpec => []WaitsAreBounded
<1>1. F!SocketsSpec => []F!WaitsAreBounded
  BY F!CallsEndInTime, SocketsAssumption
<1>2. F!WaitsAreBounded => WaitsAreBounded
  BY DEF WaitsAreBounded
<1> QED BY <1>1, <1>2, PartsOfGame, PTL
=============================================================================
