----------------------------- MODULE ScriptHost -----------------------------
(***************************************************************************)
(* What ScriptManager does with the Lua state of the game: OpenLua makes   *)
(* it, the hooks of InitLua and Update work on it in the game's thread,    *)
(* and the console's thread evaluates what is typed.  The state has no     *)
(* lock.  Each does a list of calls of the Lua API, and what a call leaves *)
(* on the stack stays there, below everything that runs later.             *)
(*                                                                         *)
(* The engine (external) finds its message handler by its index on the     *)
(* stack, and leaves the stack of its own calls as it has found it.        *)
(***************************************************************************)
EXTENDS Integers, Sequences

CONSTANT MaxStack  (* bound: slots in use *)

VARIABLES
  debugEnabled,(* what the constructor was given *)
  stack,       (* the values, bottom first *)
  msghander,   (* of LUA_INTERFACE: the index of the handler, or 0 *)
  globals,     (* of the global variables, the type of their values *)
  left,        (* of each thread: the calls it is still to make, <<>> between hooks *)
  oldTop,      (* of each thread: what it has got from lua_gettop *)
  raced,       (* history: a thread has made a call in the midst of the other's *)
  died,        (* an error outside of any protected call: l_panic, abort *)
  unread       (* history: values that were left on the stack for good *)

vars == <<debugEnabled, stack, msghander, globals, left, oldTop, raced, died, unread>>

-----------------------------------------------------------------------------
ThreadNames == {"game", "console"}
Op(name) == [op |-> name]
On(name, what) == [op |-> name, arg |-> what]

RegisterFunction(name) == <<Op("gettop"), On("push", "function"), On("setglobal", name), Op("settop")>>
SetGlobal(name) == <<On("push", "number"), On("setglobal", name)>>

\* Values that are kept are for nobody: Eval has no lua_settop.
Evaluation(kept) == <<On("load", kept), On("pcall", kept), Op("PrintError")>>
Eval == Evaluation(TRUE)

\* Wrong: without the finally.
LoadFileLeaves == <<Op("gettop")>> \o Evaluation(FALSE)

LoadFile == <<Op("gettop")>> \o Evaluation(FALSE) \o <<Op("settop")>>

\* luaL_requiref pushes the module, lua_pop takes it off.
OpenLibraries ==
  LET library == <<On("push", "table"), Op("pop")>> IN library \o library \o library
RestoreSethook ==
  <<Op("gettop"), On("getglobal", "debug"), On("push", "function"), Op("setfield"), Op("settop")>>

ManagerInit ==
  RegisterFunction("TestLog") \o SetGlobal("TestValue") \o OpenLibraries \o RestoreSethook
  \o (IF debugEnabled THEN Eval \o Eval \o Eval \o LoadFile ELSE <<>>)
  \o RegisterFunction("LoadBank")

ManagerUpdate ==
  IF debugEnabled
    THEN <<Op("gettop"), On("getglobal", "OnExtenderDebugUpdate"), Op("isfunction"),
           Op("pcall0"), Op("settop")>>
    ELSE <<>>

-----------------------------------------------------------------------------
(* OpenLua: luaopen_debug is called as a plain function, and its result stays *)

OpenedStack(hooked) == IF hooked THEN <<"handler", "table">> ELSE <<>>

Init ==
  /\ debugEnabled \in BOOLEAN
  /\ \E enableMessageHook \in BOOLEAN :
       /\ stack = OpenedStack(enableMessageHook)
       /\ msghander = IF enableMessageHook THEN 1 ELSE 0
  /\ globals = [debug |-> "table", OnExtenderDebugUpdate |-> "nil",
                TestLog |-> "nil", TestValue |-> "nil", LoadBank |-> "nil"]
  /\ left = [t \in ThreadNames |-> <<>>]
  /\ oldTop = [t \in ThreadNames |-> 0]
  /\ raced = FALSE /\ died = FALSE /\ unread = 0

-----------------------------------------------------------------------------
(* The calls of the Lua API                                                 *)

Pop(n) == SubSeq(stack, 1, Len(stack) - n)
Top == stack[Len(stack)]

\* The next call of a thread; n of them are done or skipped with it.  What a race
\* leaves of the state is anyone's guess, so the model ends with it.
Does(t, op, n) ==
  /\ ~raced /\ ~died /\ left[t] # <<>> /\ left[t][1].op = op
  /\ left' = [left EXCEPT ![t] = SubSeq(@, n + 1, Len(@))]
  /\ UNCHANGED debugEnabled
  /\ raced' = \E u \in ThreadNames \ {t} : left[u] # <<>>

GetTop(t) ==
  /\ Does(t, "gettop", 1)
  /\ oldTop' = [oldTop EXCEPT ![t] = Len(stack)]
  /\ UNCHANGED <<stack, msghander, globals, died, unread>>

SetTop(t) ==
  /\ Does(t, "settop", 1)
  /\ stack' = SubSeq(stack, 1, oldTop[t])
  /\ UNCHANGED <<msghander, globals, oldTop, died, unread>>

Push(t) ==
  /\ \/ Does(t, "push", 1) /\ stack' = Append(stack, left[t][1].arg)
     \/ Does(t, "getglobal", 1) /\ stack' = Append(stack, globals[left[t][1].arg])
  /\ Len(stack) < MaxStack
  /\ UNCHANGED <<msghander, globals, oldTop, died, unread>>

Discard(t) ==
  /\ Does(t, "pop", 1)
  /\ stack' = Pop(1)
  /\ UNCHANGED <<msghander, globals, oldTop, died, unread>>

SetGlobalOp(t) ==
  /\ Does(t, "setglobal", 1)
  /\ globals' = [globals EXCEPT ![left[t][1].arg] = Top]
  /\ stack' = Pop(1)
  /\ UNCHANGED <<msghander, oldTop, died, unread>>

\* lua_setfield below the top, outside of any protected call.
SetField(t) ==
  /\ Does(t, "setfield", 1)
  /\ stack' = Pop(1)
  /\ died' = (stack[Len(stack) - 1] # "table")
  /\ UNCHANGED <<msghander, globals, oldTop, unread>>

Fits(n) == Len(stack) + n <= MaxStack
Unread(kept, n) == unread' = IF kept THEN unread + n ELSE unread

\* luaL_loadbufferx, luaL_loadfilex: a function, or a message and no call.
Load(t) ==
  /\ Fits(1)
  /\ \/ Does(t, "load", 1) /\ stack' = Append(stack, "function") /\ UNCHANGED unread
     \/ /\ Does(t, "load", 2)
        /\ stack' = Append(stack, "string")
        /\ Unread(left[t][1].arg, 1)
  /\ UNCHANGED <<msghander, globals, oldTop, died>>

\* What Lua code does to the globals: InitDebugging.lua defines the one function,
\* and any script may take either away.
RunsCode ==
  \E type \in {"nil", "function"}, debug \in {"table", "nil"} :
    globals' = [globals EXCEPT !.OnExtenderDebugUpdate = type, !.debug = debug]

\* lua_pcallk of the function on the top, with no handler.  An error is mostly a
\* string that begins with the place, but it can be any value.
Failed(kept) ==
  /\ \E error \in {"string", "object"} : stack' = Append(Pop(1), error)
  /\ Unread(kept, 1)

Pcall(t) ==
  /\ Fits(1) /\ RunsCode
  /\ \/ /\ Does(t, "pcall", 2)
        /\ \E n \in 0..2 : stack' = Pop(1) \o [i \in 1..n |-> "result"] /\ Unread(left[t][1].arg, n)
     \/ Does(t, "pcall", 1) /\ Failed(left[t][1].arg)
  /\ UNCHANGED <<msghander, oldTop, died>>

\* luaL_checklstring raises an error if it finds no string.
PrintError(t) ==
  /\ Does(t, "PrintError", 1)
  /\ died' = (Top = "object")
  /\ UNCHANGED <<stack, msghander, globals, oldTop, unread>>

\* Update asks for a function, and takes what it has found off only if it is none.
IsFunction(t) ==
  /\ Does(t, "isfunction", IF Top = "function" THEN 1 ELSE 2)
  /\ UNCHANGED <<stack, msghander, globals, oldTop, died, unread>>

CallUpdate(t) ==
  /\ Does(t, "pcall0", 2) /\ RunsCode
  /\ \/ stack' = Pop(1) /\ UNCHANGED unread
     \/ Failed(TRUE)
  /\ UNCHANGED <<msghander, oldTop, died>>

-----------------------------------------------------------------------------
\* The hooks, after the engine's own function, and a line from the console.
Begin(t, calls) ==
  /\ ~raced /\ ~died /\ left[t] = <<>> /\ calls # <<>> /\ Fits(4)
  /\ left' = [left EXCEPT ![t] = calls]
  /\ UNCHANGED <<debugEnabled, stack, msghander, globals, oldTop, raced, died, unread>>

InitLua == Begin("game", ManagerInit)
ScriptManagerUpdate == Begin("game", ManagerUpdate)
ReadLine == Begin("console", Eval)

Next ==
  \/ InitLua \/ ScriptManagerUpdate \/ ReadLine
  \/ \E t \in ThreadNames :
       GetTop(t) \/ SetTop(t) \/ Push(t) \/ Discard(t) \/ SetGlobalOp(t) \/ SetField(t)
       \/ Load(t) \/ Pcall(t) \/ PrintError(t) \/ IsFunction(t) \/ CallUpdate(t)

Spec == Init /\ [][Next]_vars

-----------------------------------------------------------------------------
(* Properties                                                               *)

\* While the two threads do not meet: between the hooks the stack holds what OpenLua
\* has put there, the engine's message handler at its index first of all, and on
\* top of it the results of evaluated lines and one error for each evaluation or
\* update that has failed, and nothing else.
OnlyResultsAndErrorsStay ==
  (\A t \in ThreadNames : left[t] = <<>>) /\ ~raced /\ ~died =>
    LET opened == OpenedStack(msghander # 0) IN
    /\ Len(stack) = Len(opened) + unread
    /\ SubSeq(stack, 1, Len(opened)) = opened
    /\ \A i \in Len(opened) + 1 .. Len(stack) : stack[i] \in {"result", "string", "object"}
=============================================================================
