------------------------------ MODULE Stepper ------------------------------
(***************************************************************************)
(* next, stepIn and stepOut of vscode-debuggee.lua over Lua's coroutines:  *)
(* the step callback that hookfunc calls for every call, return and line   *)
(* event, and the debug loops from which steps are requested.              *)
(*                                                                         *)
(* The Lua 5.2 machine is reduced to what the callback can see: how many   *)
(* script functions each thread has open, which threads have resumed which *)
(* and the order of the events.  The hook runs on the main thread and on   *)
(* what coroutine.create makes, never on what coroutine.wrap makes.        *)
(***************************************************************************)
EXTENDS Integers, Sequences, FiniteSets

CONSTANTS
  Main, Coroutines,   (* the threads *)
  NoThread,           (* Lua's nil, for a thread *)
  Wrapped,            (* the coroutines that coroutine.wrap makes *)
  MaxHeight,          (* bound: script functions open in one thread *)
  Yields,             (* whether coroutines yield *)
  EntryKinds          (* how a debug loop opens, besides the end of a step *)

ASSUME ThreadsAssumption == /\ Main \notin Coroutines
                            /\ NoThread \notin Coroutines \cup {Main}
                            /\ Wrapped \subseteq Coroutines
ASSUME MaxHeightAssumption == MaxHeight \in Nat \ {0}
ASSUME YieldsAssumption == Yields \in BOOLEAN
ASSUME EntryKindsAssumption == EntryKinds \subseteq {"halt", "pause", "api", "apiCo"}

VARIABLES
  height,      (* script functions open in each thread *)
  status,      (* of each coroutine *)
  chain,       (* the main thread and what has been resumed from it *)
  stepTargetHeight, stepTargetThread, hasSteppedIn,
  armed,       (* lineBreakCallback is step *)
  debugTargetCo,
  loop,        (* the open debug loop, by its entry; line: back in hookfunc
                  after a step; none: in the script *)
  asked        (* history: the last step request and where it was made *)

luaVars  == <<height, status, chain>>
stepVars == <<stepTargetHeight, stepTargetThread, hasSteppedIn, armed>>
vars     == <<luaVars, stepVars, debugTargetCo, loop, asked>>

-----------------------------------------------------------------------------
Threads == Coroutines \cup {Main}
Loops == {"step", "halt", "pause", "api", "apiCo"}
StepCmds == {"next", "stepIn", "stepOut"}
Running == chain[Len(chain)]
Below(t) == {chain[i] : i \in {j \in 1..Len(chain) : \E k \in (j+1)..Len(chain) : chain[k] = t}}
Hooked(t) == t \notin Wrapped

NotAsked == [cmd |-> "none", thread |-> NoThread, height |-> 0, below |-> {}, exact |-> FALSE]
Asked == [cmd : StepCmds, thread : Threads, height : 0..MaxHeight, below : SUBSET Threads,
          exact : BOOLEAN] \cup {NotAsked}

TypeOK ==
  /\ height \in [Threads -> 0..MaxHeight]
  /\ status \in [Coroutines -> {"none", "fresh", "suspended", "active", "dead"}]
  /\ chain \in Seq(Threads) /\ Len(chain) \in 1..(Cardinality(Coroutines) + 1)
  /\ stepTargetHeight \in -4..(MaxHeight + 5)
  /\ stepTargetThread \in Threads \cup {NoThread}
  /\ hasSteppedIn \in BOOLEAN /\ armed \in BOOLEAN
  /\ debugTargetCo \in Coroutines \cup {NoThread}
  /\ loop \in {"none", "line"} \cup Loops
  /\ asked \in Asked

Init ==
  /\ height = [t \in Threads |-> 0]
  /\ status = [c \in Coroutines |-> "none"]
  /\ chain = <<Main>>
  /\ stepTargetHeight = 0 /\ stepTargetThread = NoThread
  /\ hasSteppedIn = FALSE /\ armed = FALSE
  /\ debugTargetCo = NoThread /\ loop = "none" /\ asked = NotAsked

-----------------------------------------------------------------------------
(* stackHeight(), with the adapter's own functions that stand on top of the *)
(* script counted in extra.  It looks at debugTargetCo when that is set,    *)
(* whichever thread runs, and getinfo counts one level more there.          *)

\* Wrong: the adapter's functions are not counted.
BareHeight(extra) == height[Running]

StackHeight(extra) ==
  CASE debugTargetCo = NoThread -> height[Running] + extra
    [] debugTargetCo = Running  -> height[Running] + extra + 1
    [] OTHER                    -> height[debugTargetCo] + 1

\* breaker.stackOffset.step
stepOffset == 4

\* Functions between stackHeight and the script: step and hookfunc in the
\* callback; the handler, debugLoop, pcall, startDebugLoop and two more in a
\* loop that the hook or poll opened, one more in enterDebugLoop.
InCallback == 4
InHandler  == IF loop \in {"api", "apiCo"} THEN 7 ELSE 8

\* What the call and return events of thread t make of hasSteppedIn = s.
CalledIn(t, s) == s \/ (armed /\ Hooked(t) /\ t # stepTargetThread)

\* Wrong: a return into another thread clears it as well.
ReturnedAnywhere(t, s) == s /\ ~(armed /\ Hooked(t))

ReturnedIn(t, s) == s /\ ~(armed /\ Hooked(t) /\ t = stepTargetThread)

\* The condition under which a line (or tail call) event stops.  stepIn leaves
\* both targets nil, next and stepOut neither.
StopsHere ==
  /\ armed /\ Hooked(Running)
  /\ \/ stepTargetThread = NoThread
     \/ StackHeight(InCallback) <= stepTargetHeight /\ Running = stepTargetThread
     \/ Running # stepTargetThread /\ ~hasSteppedIn

-----------------------------------------------------------------------------
(* The script.  It runs while no debug loop is open; the engine calls it on *)
(* the main thread.                                                         *)

Script == loop = "none"
InScript == Script /\ height[Running] > 0
Unseen == UNCHANGED <<stepTargetHeight, stepTargetThread, armed, debugTargetCo, loop, asked>>

Call ==
  /\ Script /\ height[Running] < MaxHeight
  /\ height' = [height EXCEPT ![Running] = @ + 1]
  /\ hasSteppedIn' = CalledIn(Running, hasSteppedIn)
  /\ Unseen /\ UNCHANGED <<status, chain>>

\* A C function such as print.
CallC ==
  /\ InScript
  /\ hasSteppedIn' = ReturnedIn(Running, CalledIn(Running, hasSteppedIn))
  /\ Unseen /\ UNCHANGED luaVars

Return ==
  /\ InScript /\ (Running # Main => height[Running] > 1)
  /\ height' = [height EXCEPT ![Running] = @ - 1]
  /\ hasSteppedIn' = ReturnedIn(Running, hasSteppedIn)
  /\ Unseen /\ UNCHANGED <<status, chain>>

\* An error caught by pcall: the functions it leaves raise no event, pcall does.
Catch ==
  /\ InScript
  /\ \E h \in 1..height[Running] : height' = [height EXCEPT ![Running] = h]
  /\ hasSteppedIn' = ReturnedIn(Running, hasSteppedIn)
  /\ Unseen /\ UNCHANGED <<status, chain>>

\* coroutine.create or coroutine.wrap.
Create(c) ==
  /\ InScript /\ status[c] = "none"
  /\ status' = [status EXCEPT ![c] = "fresh"]
  /\ hasSteppedIn' = ReturnedIn(Running, CalledIn(Running, hasSteppedIn))
  /\ Unseen /\ UNCHANGED <<height, chain>>

\* The first resume calls the coroutine's function, a later one returns from
\* the yield that suspended it.
Resume(c) ==
  /\ InScript /\ status[c] \in {"fresh", "suspended"}
  /\ status' = [status EXCEPT ![c] = "active"]
  /\ chain' = Append(chain, c)
  /\ LET s == CalledIn(Running, hasSteppedIn) IN
       IF status[c] = "fresh"
         THEN height' = [height EXCEPT ![c] = 1] /\ hasSteppedIn' = CalledIn(c, s)
         ELSE UNCHANGED height /\ hasSteppedIn' = ReturnedIn(c, s)
  /\ Unseen

\* Control goes back to the resume that waits in the thread below.
BackTo(s) ==
  /\ Len(chain) > 1
  /\ chain' = SubSeq(chain, 1, Len(chain) - 1)
  /\ hasSteppedIn' = ReturnedIn(chain[Len(chain) - 1], s)
  /\ Unseen

Yield ==
  /\ InScript /\ Yields
  /\ BackTo(CalledIn(Running, hasSteppedIn))
  /\ status' = [status EXCEPT ![Running] = "suspended"]
  /\ UNCHANGED height

\* The last function of the coroutine returns, or an error ends it and leaves
\* its stack as it was (with coroutine.wrap it would go on in the thread below).
Finish ==
  /\ InScript
  /\ \/ /\ height[Running] = 1
        /\ BackTo(ReturnedIn(Running, hasSteppedIn))
        /\ height' = [height EXCEPT ![Running] = 0]
     \/ /\ Hooked(Running)
        /\ BackTo(hasSteppedIn)
        /\ UNCHANGED height
  /\ status' = [status EXCEPT ![Running] = "dead"]

\* A line or tail call event at which the callback stops: it disarms itself.
StepStop ==
  /\ InScript /\ StopsHere
  /\ armed' = FALSE /\ loop' = "step"
  /\ UNCHANGED <<luaVars, stepTargetHeight, stepTargetThread, hasSteppedIn,
                 debugTargetCo, asked>>

\* A debug loop that no step opens: a breakpoint's line, a pause that poll takes
\* under OnExtenderDebugUpdate, or the script itself.
Enter(k) ==
  /\ \/ InScript /\ (k = "halt" => Hooked(Running) /\ ~StopsHere)
     \/ loop = "line" /\ k = "halt"
  /\ k = "pause" => Running = Main /\ height[Main] = 1
  /\ loop' = k
  /\ debugTargetCo' \in CASE k = "halt"  -> {debugTargetCo}
                          [] k = "apiCo" -> {c \in Coroutines : status[c] # "none"}
                          [] OTHER       -> {NoThread}
  /\ UNCHANGED <<luaVars, stepVars, asked>>

-----------------------------------------------------------------------------
(* The handlers, in an open loop.                                           *)

\* hookfunc looks for a breakpoint on the line at which the callback stopped.
LoopReturns == loop \in Loops /\ loop' = IF loop = "step" THEN "line" ELSE "none"

LineDone ==
  /\ loop = "line" /\ loop' = "none"
  /\ UNCHANGED <<luaVars, stepVars, debugTargetCo, asked>>

\* The loop returns with the callback installed.  exact: the height was taken
\* of the thread that runs and stackOffset.step fits the loop.
StepFrom(cmd, target, thread) ==
  /\ LoopReturns
  /\ stepTargetHeight' = target /\ stepTargetThread' = thread
  /\ hasSteppedIn' = FALSE /\ armed' = TRUE
  /\ asked' = [cmd |-> cmd, thread |-> Running, height |-> height[Running],
               below |-> Below(Running),
               exact |-> InHandler = 8 /\ debugTargetCo = NoThread]
  /\ UNCHANGED <<luaVars, debugTargetCo>>

next    == StepFrom("next", StackHeight(InHandler) - stepOffset, Running)
stepIn  == StepFrom("stepIn", 0, NoThread)

\* Wrong: stepOut measures like next.
stepOutAsNext == StepFrom("stepOut", StackHeight(InHandler) - stepOffset, Running)

\* Wrong: stepOut goes the other way.
stepOutUp == StepFrom("stepOut", StackHeight(InHandler) + (stepOffset + 1), Running)

stepOut == StepFrom("stepOut", StackHeight(InHandler) - (stepOffset + 1), Running)

\* continue does not disarm a step that has not stopped yet.
continue ==
  /\ LoopReturns
  /\ UNCHANGED <<luaVars, stepVars, debugTargetCo, asked>>

Next ==
  \/ Call \/ CallC \/ Return \/ Catch \/ Yield \/ Finish \/ StepStop \/ LineDone
  \/ \E c \in Coroutines : Create(c) \/ Resume(c)
  \/ \E k \in EntryKinds : Enter(k)
  \/ next \/ stepIn \/ stepOut \/ continue

Spec == Init /\ [][Next]_vars

-----------------------------------------------------------------------------
(* Properties                                                               *)

\* A step over stops in its thread no deeper than it began, a step out further
\* out, whatever the thread did in between, as long as the heights compared
\* were measured alike.
StepKeepsDepth ==
  loop = "step" /\ asked.exact /\ debugTargetCo = NoThread /\ Running = asked.thread =>
    /\ asked.cmd = "next" => height[Running] <= asked.height
    /\ asked.cmd = "stepOut" => height[Running] < asked.height

\* A step over or out misses no line: back in its thread at the depth it is for,
\* the next line stops, even after other threads ran, errors unwound the stack or
\* another debug loop was entered and left by continue.
NeverOverruns ==
  /\ InScript /\ armed /\ asked.exact /\ debugTargetCo = NoThread
  /\ Running = asked.thread /\ Hooked(Running)
  /\ height[Running] < asked.height + (IF asked.cmd = "stepOut" THEN 0 ELSE 1)
  => StopsHere

\* What step's comment says of a stop in another thread than the one the step
\* began in: that thread has resumed it, it is a parent.
OnlyParentsStop ==
  loop = "step" /\ asked.cmd # "stepIn" /\ Running # asked.thread => Running \in asked.below
=============================================================================
