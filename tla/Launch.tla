------------------------------- MODULE Launch -------------------------------
(***************************************************************************)
(* How HadesExtender gets into the game: the launcher and the bootstrapper *)
(* (their Program.Main), EntryPoint.Run inside the suspended game process, *)
(* and CustomLuaRuntimeManager.Init, which replaces the Lua of the engine  *)
(* by the project's own while the game stands still.                       *)
(*                                                                         *)
(* Any step of Run may throw: a module or a symbol is missing, a hook      *)
(* cannot be placed.  EasyHook and the engine are external: the first      *)
(* creates the process suspended and starts Run in it, the second makes    *)
(* its Lua state when it is loaded and calls its hooked functions once the *)
(* process has been woken up.                                              *)
(***************************************************************************)
EXTENDS Integers, FiniteSets

CONSTANTS
  Symbols,       (* the engine's functions that FindSymbolsMatching returns *)
  Ignored,       (* ignoreSymbols: the engine keeps its own                 *)
  Missing,       (* what Lua.dll does not define                            *)
  CommandLines   (* what HadesExtender.exe is called with: none, exe, flag  *)

ASSUME SymbolsAssumption == Ignored \subseteq Symbols /\ Missing \subseteq Symbols
ASSUME CommandLinesAssumption == CommandLines \subseteq {"none", "exe", "flag"}

VARIABLES
  commandLine,  (* of the launcher *)
  process,      (* the game: none, refused, suspended, running *)
  flags,        (* the command line that the game was created with *)
  run,          (* where EntryPoint.Run is *)
  hooked,       (* the functions of the engine that are hooked by EntryPoint *)
  redirected,   (* Lua functions of the engine that jump into Lua.dll *)
  reporting,    (* those that report an unresolved symbol *)
  luaState,     (* whose lua_State LUA_INTERFACE points to *)
  destroyed,
  scriptManager,(* the field is assigned *)
  debugEnabled, (* what the ScriptManager was created with *)
  debugger,     (* Debugger.Launch has been called *)
  handled       (* history: hooked calls that found the field assigned, or not *)

hostVars == <<commandLine, process, flags>>
luaVars  == <<redirected, reporting, luaState, destroyed>>
vars == <<hostVars, run, hooked, luaVars, scriptManager, debugEnabled, debugger, handled>>

-----------------------------------------------------------------------------
Steps == {"args", "loadLibraryHook", "engine", "import", "initLua", "update",
          "manager", "hookLuaApi", "openLua", "wakeUp", "console"}
EngineHooks == {"InitLua", "Update"}

TypeOK ==
  /\ commandLine \in CommandLines
  /\ process \in {"none", "refused", "suspended", "running"}
  /\ flags \subseteq {"--launch-debugger", "-d"}
  /\ run \in Steps \cup {"none", "failed"}
  /\ hooked \subseteq EngineHooks \cup {"LoadLibraryA"}
  /\ redirected \subseteq Symbols \ Ignored /\ reporting \subseteq Symbols \ Ignored
  /\ luaState \in {"none", "engine", "own"} /\ destroyed \in BOOLEAN
  /\ scriptManager \in BOOLEAN /\ debugEnabled \in BOOLEAN /\ debugger \in BOOLEAN
  /\ handled \in SUBSET BOOLEAN

Init ==
  /\ commandLine \in CommandLines
  /\ process = "none" /\ flags = {} /\ run = "none" /\ hooked = {}
  /\ redirected = {} /\ reporting = {} /\ luaState = "none" /\ destroyed = FALSE
  /\ scriptManager = FALSE /\ debugEnabled = FALSE /\ debugger = FALSE /\ handled = {}

-----------------------------------------------------------------------------
(* The two programs that create the game process.                           *)

\* CreateAndInject (external): the process stays suspended until WakeUpProcess.
CreateAndInject(args) ==
  /\ process = "none" /\ process' = "suspended" /\ run' = "args"
  /\ flags' = args
  /\ UNCHANGED <<commandLine, hooked, luaVars, scriptManager, debugEnabled, debugger, handled>>

\* args[0] is the path of the game, which must exist; nothing is handed on.
Launcher == commandLine # "flag" /\ CreateAndInject({})

\* The bootstrapper does not look; under a debugger it asks for another one.
Bootstrapper ==
  /\ commandLine # "flag"
  /\ \/ CreateAndInject({})
     \/ CreateAndInject({"--launch-debugger"})

\* A flag in the place of the path names no file.
Refuse ==
  /\ commandLine = "flag" /\ process = "none" /\ process' = "refused"
  /\ UNCHANGED <<commandLine, flags, run, hooked, luaVars, scriptManager, debugEnabled,
                 debugger, handled>>

-----------------------------------------------------------------------------
(* EntryPoint.Run                                                           *)

At(step, then) == run = step /\ run' = then
Throw == run' = "failed"

ParseArgs ==
  /\ At("args", "loadLibraryHook")
  /\ debugger' = (flags # {})
  /\ UNCHANGED <<hostVars, hooked, luaVars, scriptManager, debugEnabled, handled>>

HookLoadLibrary ==
  /\ At("loadLibraryHook", "engine")
  /\ hooked' = hooked \cup {"LoadLibraryA"}
  /\ UNCHANGED <<hostVars, luaVars, scriptManager, debugEnabled, debugger, handled>>

\* The engine's constructors make its Lua state, unless the game does it later.
LoadEngine ==
  /\ At("engine", "import")
  /\ \/ luaState' = "engine" /\ destroyed' = FALSE
     \/ luaState' = "none" /\ destroyed' = TRUE
  /\ UNCHANGED <<hostVars, hooked, redirected, reporting, scriptManager,
                 debugEnabled, debugger, handled>>

ImportSymbols ==
  /\ At("import", "initLua")
  /\ UNCHANGED <<hostVars, hooked, luaVars, scriptManager, debugEnabled, debugger, handled>>

HookInitLua ==
  /\ At("initLua", "update")
  /\ hooked' = hooked \cup {"InitLua"}
  /\ UNCHANGED <<hostVars, luaVars, scriptManager, debugEnabled, debugger, handled>>

\* Wrong: the game is woken up as soon as its functions are hooked.
HookUpdateAndWake ==
  /\ At("update", "manager")
  /\ hooked' = hooked \cup {"Update"}
  /\ process' = "running"
  /\ UNCHANGED <<commandLine, flags, luaVars, scriptManager, debugEnabled, debugger, handled>>

HookUpdate ==
  /\ At("update", "manager")
  /\ hooked' = hooked \cup {"Update"}
  /\ UNCHANGED <<hostVars, luaVars, scriptManager, debugEnabled, debugger, handled>>

-----------------------------------------------------------------------------
(* CustomLuaRuntimeManager.Init, called by the constructor of ScriptManager *)

\* Wrong: the engine's state is kept for the time being.
KeepLua ==
  /\ At("manager", "hookLuaApi")
  /\ UNCHANGED <<hostVars, hooked, luaVars, scriptManager, debugEnabled, debugger, handled>>

CloseLua ==
  /\ At("manager", "hookLuaApi")
  /\ IF destroyed THEN UNCHANGED <<luaState, destroyed>>
                  ELSE luaState' = "none" /\ destroyed' = TRUE
  /\ UNCHANGED <<hostVars, hooked, redirected, reporting, scriptManager, debugEnabled,
                 debugger, handled>>

\* Wrong: ignoreSymbols is not looked at.
ToHookAll == Symbols \ (redirected \cup reporting)

ToHook == Symbols \ (Ignored \cup redirected \cup reporting)

\* One round of the loop in HookLuaApi.
HookSymbol ==
  /\ run = "hookLuaApi" /\ run' = run
  /\ \E s \in ToHook :
       IF s \in Missing
         THEN reporting' = reporting \cup {s} /\ UNCHANGED redirected
         ELSE redirected' = redirected \cup {s} /\ UNCHANGED reporting
  /\ UNCHANGED <<hostVars, hooked, luaState, destroyed, scriptManager, debugEnabled,
                 debugger, handled>>

HookLuaApiDone ==
  /\ At("hookLuaApi", "openLua") /\ ToHook = {}
  /\ UNCHANGED <<hostVars, hooked, luaVars, scriptManager, debugEnabled, debugger, handled>>

\* OpenLua, the end of the constructor, and the assignment of the field.
OpenLua ==
  /\ At("openLua", "wakeUp")
  /\ luaState' = "own" /\ destroyed' = FALSE
  /\ scriptManager' = TRUE
  /\ debugEnabled' = FALSE      \* no argument sets enableDebug
  /\ UNCHANGED <<hostVars, hooked, redirected, reporting, debugger, handled>>

WakeUpProcess ==
  /\ At("wakeUp", "console")
  /\ process' = "running"
  /\ UNCHANGED <<commandLine, flags, hooked, luaVars, scriptManager, debugEnabled,
                 debugger, handled>>

\* Run logs the exception and throws it on; nothing wakes the game up then.
RunFails ==
  /\ run \notin {"none", "failed", "wakeUp", "console"}
  /\ Throw
  /\ UNCHANGED <<hostVars, hooked, luaVars, scriptManager, debugEnabled, debugger, handled>>

-----------------------------------------------------------------------------
\* The engine calls InitLua or Update; a hooked call uses the field.
GameCalls ==
  /\ process = "running" /\ EngineHooks \cap hooked # {}
  /\ handled' = handled \cup {scriptManager}
  /\ UNCHANGED <<hostVars, run, hooked, luaVars, scriptManager, debugEnabled, debugger>>

Run ==
  \/ ParseArgs \/ HookLoadLibrary \/ LoadEngine \/ ImportSymbols \/ HookInitLua \/ HookUpdate
  \/ CloseLua \/ HookSymbol \/ HookLuaApiDone \/ OpenLua \/ WakeUpProcess

Next == Launcher \/ Bootstrapper \/ Refuse \/ Run \/ RunFails \/ GameCalls

Spec == Init /\ [][Next]_vars

-----------------------------------------------------------------------------
(* Properties                                                               *)

\* The game runs only with everything in place: it never calls a hooked function
\* before the field that the callbacks use is assigned, and a start that fails
\* half way never lets it run half hooked.
NeverHalfStarted ==
  /\ FALSE \notin handled
  /\ process = "running" => run = "console" /\ EngineHooks \subseteq hooked

\* A lua_State is only ever worked on by the library that made it: none of the
\* engine's exists while its functions are redirected, none of Lua.dll's while
\* some function that works on it still is the engine's.
OneRuntimePerState ==
  /\ luaState = "engine" => redirected \cup reporting = {}
  /\ luaState = "own" => Symbols = Ignored \cup redirected \cup reporting

\* What README.md says: `HadesExtender.exe -d` launches the game in debug mode.
DebugModeOnFlag ==
  commandLine = "flag" => process # "refused" /\ (scriptManager => debugEnabled)
=============================================================================
