-------------------------------- MODULE Game --------------------------------
(***************************************************************************)
(* What is loaded into the game: Launch, and five parts that do not meet   *)
(* in one state with it, side by side.  The part is chosen at the          *)
(* beginning; each behaviour is one of that part, with the others at rest. *)
(* The variables of Launch are its own.  The other parts come with what is *)
(* proved of them.                                                         *)
(***************************************************************************)
EXTENDS Launch

CONSTANTS
  Numbers, Strings, Hash, Powers, None,                 (* of Table *)
  Threads, Main, MaxCCalls, MaxDepth,                   (* of Calls *)
  MaxStack,                                             (* of ScriptHost *)
  Objects, SystemSockets, Timed,                        (* of Sockets *)
  Handles, Streams, Directories, MaxIterators           (* of Files *)

VARIABLES
  part,
  table, cursor, visited, length,                               (* Table *)
  ci, status, pending, nny, nCcalls, chain, cstack, confused,   (* Calls *)
  enabled, stack, msghander, globals, left, oldTop, raced, died, unread, (* ScriptHost *)
  objects, sockets, leaked, overtime,                           (* Sockets *)
  handles, streams, IO_INPUT, IO_OUTPUT, iterators, lost, misused  (* Files *)

tableVars == <<table, cursor, visited, length>>
callsVars == <<ci, status, pending, nny, nCcalls, chain, cstack, confused>>
scriptVars == <<enabled, stack, msghander, globals, left, oldTop, raced, died, unread>>
socketVars == <<objects, sockets, leaked, overtime>>
fileVars == <<handles, streams, IO_INPUT, IO_OUTPUT, iterators, lost, misused>>

K == INSTANCE LuaProofs WITH Nil <- 0
H == INSTANCE ScriptHostProofs WITH debugEnabled <- enabled
F == INSTANCE FilesProofs WITH os <- streams

ASSUME TableAssumption == K!TableLimits
ASSUME CallsAssumption == K!Limits
ASSUME FilesAssumption == F!Distinct
ASSUME SocketsAssumption == F!Numbered

HostAtRest ==
  /\ enabled = FALSE /\ stack = <<>> /\ msghander = 0 /\ globals = <<>> /\ left = <<>>
  /\ oldTop = <<>> /\ raced = FALSE /\ died = FALSE /\ unread = 0

GameInit ==
  /\ part \in {"launch", "table", "calls", "host", "sockets", "files"}
  /\ Init /\ (part # "launch" => commandLine = "exe")
  /\ K!TableInit /\ K!Init /\ F!Init /\ F!SocketsInit
  /\ IF part = "host" THEN H!Init ELSE HostAtRest

GameNext ==
  \/ part = "launch" /\ Next /\ UNCHANGED <<part, tableVars, callsVars, scriptVars, socketVars, fileVars>>
  \/ part = "table" /\ K!TableNext /\ UNCHANGED <<part, vars, callsVars, scriptVars, socketVars, fileVars>>
  \/ part = "calls" /\ K!Next /\ UNCHANGED <<part, vars, tableVars, scriptVars, socketVars, fileVars>>
  \/ part = "host" /\ H!Next /\ UNCHANGED <<part, vars, tableVars, callsVars, socketVars, fileVars>>
  \/ part = "sockets" /\ F!SocketsNext /\ UNCHANGED <<part, vars, tableVars, callsVars, scriptVars, fileVars>>
  \/ part = "files" /\ F!Next /\ UNCHANGED <<part, vars, tableVars, callsVars, scriptVars, socketVars>>

GameSpec == GameInit /\ [][GameNext]_<<part, vars, tableVars, callsVars, scriptVars, socketVars, fileVars>>

-----------------------------------------------------------------------------
(* The properties of the parts                                              *)

\* However the nodes of a table are moved, chained and rehashed (ltable.c), it holds
\* what was stored, its length is a border, and a traversal meets each entry once.
ImplementsMap == K!StartsAsMap /\ [][part = "table" => K!StepsAsMap]_tableVars

\* However calls, yields, resumes, errors and unrolling of C functions are nested
\* (ldo.c), threads behave as the coroutines and protected calls of the manual.
ImplementsCoroutines ==
  K!StartsAsCoroutines /\ [][part = "calls" => K!StepsAsCoroutines]_callsVars

\* Between the hooks of the engine (ScriptManager.cs) its message handler is where
\* it was, and above it are only results of lines and one error for each failure.
OnlyResultsAndErrorsStay == part = "host" => H!OnlyResultsAndErrorsStay

\* What the system has open for a script, a socket (tcp.c, udp.c), a file or pipe
\* (liolib.c), a walk through a directory or the lock of one (lfs.c), is that of one
\* object, which releases it once and does not use it afterwards.
ReleasedOnce ==
  /\ part = "sockets" => F!EachSocketHasItsObject
  /\ part = "files" => F!EachStreamHasItsHandle /\ F!LoopsCloseTheirFiles

\* No call of luasocket waits for longer than the timeouts of its object allow.
WaitsAreBounded == part = "sockets" => F!WaitsAreBounded
=============================================================================
