---------------------------- MODULE DebugSession ----------------------------
(***************************************************************************)
(* The debug session of LuaScripts/vscode-debuggee.lua: the adapter that   *)
(* runs inside the game's Lua state, the debug client at the other end of  *)
(* a TCP connection, and the two FIFO channels between them.               *)
(*                                                                         *)
(* Everything the adapter does happens on the game's only script thread,   *)
(* so its control state is a stack of activations:                         *)
(*   start        debuggee.start, blocked in debugLoop until configured    *)
(*   poll         debuggee.poll, called once per frame                     *)
(*   pause        enterDebugLoop(1), called by poll                        *)
(*   api, apiCo   enterDebugLoop(depth) / enterDebugLoop(co) called by     *)
(*                game script                                              *)
(*   halt, step   debugLoop under hookfunc (breakpoint / finished step)    *)
(*   line         the part of hookfunc after its line-break callback       *)
(* The empty stack is the game's own script running.  Each activation      *)
(* holds the request it is answering in cur; while cur is a request, code  *)
(* of the adapter, or game code that it calls, is running above it.        *)
(***************************************************************************)
EXTENDS Integers, Sequences, FiniteSets

CONSTANTS
  MaxSeq,         (* how many requests the client sends                     *)
  MaxNest,        (* bound: debug loops open at the same time               *)
  RedirectPrint,  (* the redirectPrint option given to debuggee.start       *)
  ApiKinds        (* how game script calls enterDebugLoop itself, if at all *)

ASSUME MaxSeqAssumption == MaxSeq \in Nat
ASSUME MaxNestAssumption == MaxNest \in Nat
ASSUME RedirectPrintAssumption == RedirectPrint \in BOOLEAN
ASSUME ApiKindsAssumption == ApiKinds \subseteq {"api", "apiCo"}

VARIABLES
  (* the debug client *)
  cview,      (* what it shows: config, running, stopped or gone           *)
  nextSeq,    (* the seq of its next request                               *)
  refs,       (* the variable references it can expand, with their meaning *)
  (* the connection *)
  c2d, d2c,   (* messages on the way to the adapter, to the client         *)
  connected,  (* the client's end is open                                  *)
  torn,       (* it closed in the middle of a message                      *)
  (* the adapter *)
  phase,      (* of debuggee.start: init, welcome, loop, live, offline, aborted *)
  stack,      (* the activations, outermost first                          *)
  entered,    (* hookfunc's re-entry guard                                 *)
  armed,      (* a step callback is installed by setLineBreak              *)
  bps,        (* breakpointsPerPath holds some line                        *)
  baseDepth,  (* which caller of debugLoop set baseDepth last              *)
  stored,     (* storedVariables: reference -> request that registered it  *)
  print,      (* _G.print is the original or the redirecting one           *)
  raising,    (* a Lua error is propagating through the top activation     *)
  (* history, read by no action *)
  answers,    (* responses sent to each request                            *)
  noticed,    (* recvMessage has reported the end of the connection        *)
  failed,     (* some handler ended in an error instead of a response      *)
  nested,     (* some debug loop was opened while another one was open     *)
  steps       (* step requests handled minus stops made by the callback    *)

clientVars == <<cview, nextSeq, refs>>
wireVars   == <<c2d, d2c, connected, torn>>
hookVars   == <<entered, armed, bps>>
dataVars   == <<baseDepth, stored, print>>
history    == <<answers, noticed, failed, nested, steps>>
vars == <<clientVars, wireVars, phase, stack, hookVars, dataVars, raising, history>>

-----------------------------------------------------------------------------
Seqs == 1..MaxSeq

StepCmds   == {"step"}       \* next, stepIn and stepOut differ in the target only
ResumeCmds == {"configurationDone", "continue"} \cup StepCmds
Commands   == {"setBreakpoints", "threads", "stackTrace", "variables",
               "evaluate", "pause"} \cup ResumeCmds

HookKinds == {"halt", "step"}
LoopKinds == {"start", "pause", "api", "apiCo"} \cup HookKinds
Kinds     == LoopKinds \cup {"poll", "line"}

\* handlers.variables and handlers.evaluate reach game code: the expression,
\* and the __tostring of a value that registerVar shows.
GameCodeCmds == {"variables", "evaluate"}

NoReq == [seq |-> 0, cmd |-> "none", ref |-> 0, val |-> 0]
Requests == [seq : Seqs, cmd : Commands, ref : 0..MaxSeq, val : 0..MaxSeq]
Replies  == [type : {"response"}, seq : Seqs, ref : 0..MaxSeq,
             got : 0..MaxSeq, want : 0..MaxSeq]
Stopped  == [type |-> "stopped"]
Frames   == [kind : Kinds, cur : Requests \cup {NoReq}]

Top  == stack[Len(stack)]
Frame(k) == [kind |-> k, cur |-> NoReq]
UnwindAll(s) == <<>>      \* wrong: one return leaves every activation
Pop(s)   == SubSeq(s, 1, Len(s) - 1)
OpenLoops(s) == {i \in 1..Len(s) : s[i].kind \in LoopKinds}
InHook   == \E i \in 1..Len(stack) : stack[i].kind \in HookKinds \cup {"line"}

\* The activation that will run next, when no error is on its way through it.
At(kinds)   == stack # <<>> /\ Top.kind \in kinds /\ ~raising
Idle(kinds) == At(kinds) /\ Top.cur = NoReq
Busy        == At(LoopKinds \cup {"poll"}) /\ Top.cur # NoReq

\* Wrong: the request stays with the activation after its response.
AnswersAgain(r) ==
  stack' = IF r = NoReq THEN stack ELSE [stack EXCEPT ![Len(stack)].cur = r]
Handling(r) == stack' = [stack EXCEPT ![Len(stack)].cur = r]

TypeOK ==
  /\ cview \in {"none", "config", "running", "stopped", "gone"}
  /\ nextSeq \in 1..(MaxSeq + 1)
  /\ refs \subseteq [ref : Seqs, val : Seqs]
  /\ c2d \in Seq(Requests)
  /\ d2c \in Seq(Replies \cup {Stopped})
  /\ connected \in BOOLEAN /\ torn \in BOOLEAN
  /\ phase \in {"init", "welcome", "loop", "live", "offline", "aborted"}
  /\ stack \in Seq(Frames)
  /\ entered \in BOOLEAN /\ armed \in BOOLEAN /\ bps \in BOOLEAN
  /\ baseDepth \in {"nil", "enter", "zero", "halt", "step"}
  /\ stored \in Seq(Seqs)
  /\ print \in {"original", "redirected"}
  /\ raising \in BOOLEAN
  /\ answers \in [Seqs -> Nat]
  /\ noticed \in BOOLEAN /\ failed \in BOOLEAN /\ nested \in BOOLEAN
  /\ steps \in Int

Init ==
  /\ cview = "none" /\ nextSeq = 1 /\ refs = {}
  /\ c2d = <<>> /\ d2c = <<>> /\ connected = FALSE /\ torn = FALSE
  /\ phase = "init" /\ stack = <<>>
  /\ entered = FALSE /\ armed = FALSE /\ bps = FALSE
  /\ baseDepth = "nil" /\ stored = <<>> /\ print = "original"
  /\ raising = FALSE
  /\ answers = [s \in Seqs |-> 0]
  /\ noticed = FALSE /\ failed = FALSE /\ nested = FALSE /\ steps = 0

-----------------------------------------------------------------------------
(* The client (external): an editor that follows the debug adapter          *)
(* protocol.  What it may send depends on what it shows; sending a request  *)
(* that resumes the program makes it show "running" at once.                *)

Offered ==
  CASE cview = "config"  -> {"setBreakpoints", "threads", "configurationDone"}
    [] cview = "running" -> {"setBreakpoints", "pause", "evaluate"}
    [] cview = "stopped" -> Commands \ {"configurationDone", "pause"}
    [] OTHER             -> {}

\* variables asks for a scope of a frame (ref 0 here) or for a stored value.
Operands(cmd) ==
  {[ref |-> 0, val |-> 0]} \cup (IF cmd = "variables" THEN refs ELSE {})

ClientSend ==
  /\ nextSeq <= MaxSeq
  /\ \E cmd \in Offered : \E o \in Operands(cmd) :
       /\ c2d' = Append(c2d, [seq |-> nextSeq, cmd |-> cmd, ref |-> o.ref, val |-> o.val])
       /\ nextSeq' = nextSeq + 1
       /\ IF cmd \in ResumeCmds
            THEN cview' = "running" /\ refs' = {}
            ELSE UNCHANGED <<cview, refs>>
  /\ UNCHANGED <<d2c, connected, torn, phase, stack, hookVars, dataVars, raising, history>>

ClientReceive ==
  /\ connected /\ d2c # <<>>
  /\ d2c' = Tail(d2c)
  /\ LET m == Head(d2c) IN
       IF m.type = "stopped"
         THEN cview' = "stopped" /\ refs' = {}
         ELSE /\ refs' = IF cview = "stopped" /\ m.ref # 0
                           THEN refs \cup {[ref |-> m.ref, val |-> m.seq]}
                           ELSE refs
              /\ UNCHANGED cview
  /\ UNCHANGED <<nextSeq, c2d, connected, torn, phase, stack, hookVars, dataVars,
                 raising, history>>

\* The client goes away: what it sent last may be lost, or cut in the middle.
ClientClose ==
  /\ connected
  /\ connected' = FALSE /\ cview' = "gone" /\ refs' = {} /\ d2c' = <<>>
  /\ \E n \in 0..Len(c2d) : c2d' = SubSeq(c2d, 1, n)
  /\ torn' \in BOOLEAN
  /\ UNCHANGED <<nextSeq, phase, stack, hookVars, dataVars, raising, history>>

-----------------------------------------------------------------------------
(* sendMessage: sendFully either hands the bytes to the socket or, on a     *)
(* closed connection, may raise.                                            *)

\* Wrong: a stop is not announced.
AcceptResponses(msgs) == d2c' = IF connected /\ msgs # <<Stopped>> THEN d2c \o msgs ELSE d2c

Accept(msgs) == d2c' = IF connected THEN d2c \o msgs ELSE d2c
Deliver(msgs) == Accept(msgs) /\ raising' = FALSE
Break         == ~connected /\ raising' = TRUE /\ UNCHANGED d2c

\* Wrong: the step callback leaves baseDepth to __halt__.
HaltBase(k) ==
  CASE k \in {"pause", "api"} -> "enter"
    [] k = "apiCo"            -> "zero"
    [] OTHER                  -> "halt"

\* Every way into a loop sets baseDepth for its own distance to the script.
NewBase(k) ==
  CASE k \in {"pause", "api"} -> "enter"
    [] k = "apiCo"            -> "zero"
    [] OTHER                  -> k

\* startDebugLoop: announces the stop, then runs debugLoop, which starts with
\* no stored variables.  The announcement is outside of the pcall.
StartDebugLoop(s, k) ==
  /\ Cardinality(OpenLoops(stack)) < MaxNest
  /\ baseDepth' = NewBase(k)
  /\ nested' = (nested \/ OpenLoops(s) # {})
  /\ \/ /\ Deliver(<<Stopped>>)
        /\ stack' = Append(s, Frame(k))
        /\ stored' = <<>>
     \/ /\ Break
        /\ stack' = IF k \in HookKinds THEN Append(s, Frame("line")) ELSE s
        /\ UNCHANGED stored

\* Wrong: hookfunc does not clear its guard after __halt__.
LoopReturnedGuarded(s) ==
  LET k == s[Len(s)].kind IN
  /\ stack' = CASE k = "step"  -> Append(Pop(s), Frame("line"))
                [] k = "pause" -> Pop(Pop(s))
                [] OTHER       -> Pop(s)
  /\ phase' = IF k = "start" THEN "live" ELSE phase
  /\ UNCHANGED entered

\* What runs after debugLoop has returned, normally or through the pcall.
LoopReturned(s) ==
  LET k == s[Len(s)].kind IN
  /\ stack' = CASE k = "step"  -> Append(Pop(s), Frame("line"))
                [] k = "pause" -> Pop(Pop(s))        \* poll returns as well
                [] OTHER       -> Pop(s)
  /\ entered' = IF k = "halt" THEN FALSE ELSE entered
  /\ phase' = IF k = "start" THEN "live" ELSE phase

-----------------------------------------------------------------------------
(* debuggee.start                                                           *)

StartConnect ==
  /\ phase = "init"
  /\ \/ phase' = "offline" /\ UNCHANGED <<connected, cview>>
     \/ phase' = "welcome" /\ connected' = TRUE /\ cview' = "config"
  /\ UNCHANGED <<nextSeq, refs, c2d, d2c, torn, stack, hookVars, dataVars, raising, history>>

\* The client's first message is its welcome, sent as it accepts.
StartWelcome ==
  /\ phase = "welcome"
  /\ \/ /\ phase' = "loop"
        /\ print' = IF RedirectPrint THEN "redirected" ELSE print
        /\ stack' = <<Frame("start")>>
        /\ stored' = <<>>
     \/ /\ ~connected
        /\ phase' = "aborted"
        /\ UNCHANGED <<print, stack, stored>>
  /\ UNCHANGED <<clientVars, wireVars, hookVars, baseDepth, raising, history>>

(* debuggee.poll, called by OnExtenderDebugUpdate after every engine frame  *)

PollBegin ==
  /\ phase = "live" /\ stack = <<>> /\ ~raising
  /\ stack' = <<Frame("poll")>>
  /\ UNCHANGED <<clientVars, wireVars, phase, hookVars, dataVars, raising, history>>

\* Wrong: poll does not wait for select before it gives up.
PollGivesUp ==
  /\ Idle({"poll"})
  /\ stack' = Pop(stack)
  /\ UNCHANGED <<clientVars, wireVars, phase, hookVars, dataVars, raising, history>>

PollTimeout ==
  /\ Idle({"poll"}) /\ connected /\ c2d = <<>>
  /\ stack' = Pop(stack)
  /\ UNCHANGED <<clientVars, wireVars, phase, hookVars, dataVars, raising, history>>

\* Wrong: poll drops a pause as debugLoop does.
PollDropsPause ==
  /\ Idle({"poll"}) /\ c2d # <<>> /\ Head(c2d).cmd = "pause"
  /\ c2d' = Tail(c2d)
  /\ UNCHANGED <<clientVars, d2c, connected, torn, phase, stack, hookVars, dataVars,
                 raising, history>>

\* poll handles pause itself; it never waits for anything else.
PollPause ==
  /\ Idle({"poll"}) /\ c2d # <<>> /\ Head(c2d).cmd = "pause"
  /\ c2d' = Tail(c2d)
  /\ StartDebugLoop(stack, "pause")
  /\ UNCHANGED <<clientVars, connected, torn, phase, hookVars, print,
                 answers, noticed, failed, steps>>

-----------------------------------------------------------------------------
(* recvMessage and the handlers.  A handler runs in two steps: what it does *)
(* before it answers, and the answer.                                       *)

\* debugLoop has no handler for pause.
DropPause ==
  /\ Idle(LoopKinds) /\ c2d # <<>> /\ Head(c2d).cmd = "pause"
  /\ c2d' = Tail(c2d)
  /\ UNCHANGED <<clientVars, d2c, connected, torn, phase, stack, hookVars, dataVars,
                 raising, history>>

Take ==
  /\ Idle(LoopKinds \cup {"poll"}) /\ c2d # <<>> /\ Head(c2d).cmd # "pause"
  /\ c2d' = Tail(c2d)
  /\ Handling(Head(c2d))
  /\ LET cmd == Head(c2d).cmd IN
       /\ bps' \in IF cmd = "setBreakpoints" THEN BOOLEAN ELSE {bps}
       /\ armed' = (armed \/ cmd \in StepCmds)
       /\ steps' = IF cmd \in StepCmds THEN steps + 1 ELSE steps
       \* stackTrace adds baseDepth, which no stop may have set yet
       /\ raising' = (cmd = "stackTrace" /\ baseDepth = "nil")
  /\ UNCHANGED <<clientVars, d2c, connected, torn, phase, entered, dataVars,
                 answers, noticed, failed, nested>>

\* storedVariables[varRef]: nil is shown as a variable without children.
Lookup(ref) == IF ref \in 1..Len(stored) THEN stored[ref] ELSE 0

Response(r, new) ==
  [type |-> "response", seq |-> r.seq, ref |-> new,
   got  |-> IF r.cmd = "variables" THEN Lookup(r.ref) ELSE 0,
   want |-> IF r.cmd = "variables" THEN r.val ELSE 0]

\* Wrong: nextVarRef is not advanced.
RegistersAtOne(r, new) ==
  \/ new = 0 /\ UNCHANGED stored
  \/ r.cmd \in GameCodeCmds /\ new = 1 /\ stored' = <<r.seq>>

\* Wrong: what is stored is the reference of the parent.
RegistersParent(r, new) ==
  \/ new = 0 /\ UNCHANGED stored
  \/ r.cmd \in GameCodeCmds /\ new = Len(stored) + 1 /\ stored' = Append(stored, r.ref)

\* registerVar stores the value it shows if it is a table, function or userdata.
Registers(r, new) ==
  \/ new = 0 /\ UNCHANGED stored
  \/ /\ r.cmd \in GameCodeCmds
     /\ new = Len(stored) + 1
     /\ stored' = Append(stored, r.seq)

\* The response, by a handler whose result is not CONTINUE or is ignored (poll).
Answer ==
  /\ Busy /\ (Top.cur.cmd \notin ResumeCmds \/ Top.kind = "poll")
  /\ Handling(NoReq)
  /\ \E new \in 0..MaxSeq :
       /\ Registers(Top.cur, new)
       /\ \/ /\ Deliver(<<Response(Top.cur, new)>>)
             /\ answers' = [answers EXCEPT ![Top.cur.seq] = @ + 1]
          \/ Break /\ UNCHANGED answers
  /\ UNCHANGED <<clientVars, c2d, connected, torn, phase, hookVars, baseDepth, print,
                 noticed, failed, nested, steps>>

\* The response of a handler that ends the debug loop.
AnswerAndResume ==
  /\ Busy /\ Top.cur.cmd \in ResumeCmds /\ Top.kind # "poll"
  /\ \/ /\ Deliver(<<Response(Top.cur, 0)>>)
        /\ answers' = [answers EXCEPT ![Top.cur.seq] = @ + 1]
        /\ stored' = <<>>
        /\ LoopReturned(stack)
     \/ Break /\ Handling(NoReq) /\ UNCHANGED <<answers, stored, entered, phase>>
  /\ UNCHANGED <<clientVars, c2d, connected, torn, armed, bps, baseDepth, print,
                 noticed, failed, nested, steps>>

\* An error inside of registerVar, outside of evaluate's own pcall.
HandlerError ==
  /\ Busy /\ Top.cur.cmd \in GameCodeCmds
  /\ Handling(NoReq)
  /\ raising' = TRUE
  /\ UNCHANGED <<clientVars, wireVars, phase, hookVars, dataVars, history>>

-----------------------------------------------------------------------------
(* The end of the connection, as recvMessage sees it: no header (nil), or a *)
(* header whose body is missing, which json.decode rejects with an error.   *)

AtEof(kinds) == Idle(kinds) /\ ~connected /\ c2d = <<>>

LoopEof ==
  /\ AtEof(LoopKinds)
  /\ torn' = FALSE
  /\ \/ /\ noticed' = TRUE
        /\ print' = "original"
        /\ stored' = <<>>
        /\ LoopReturned(stack)
        /\ UNCHANGED raising
     \/ /\ torn
        /\ raising' = TRUE
        /\ UNCHANGED <<noticed, print, stored, stack, entered, phase>>
  /\ UNCHANGED <<clientVars, c2d, d2c, connected, armed, bps, baseDepth,
                 answers, failed, nested, steps>>

PollEof ==
  /\ AtEof({"poll"})
  /\ torn' = FALSE
  /\ \/ noticed' = TRUE /\ stack' = Pop(stack) /\ UNCHANGED raising
     \/ torn /\ raising' = TRUE /\ UNCHANGED <<noticed, stack>>
  /\ UNCHANGED <<clientVars, c2d, d2c, connected, phase, hookVars, dataVars,
                 answers, failed, nested, steps>>

-----------------------------------------------------------------------------
(* hookfunc.  Events that stop nowhere change nothing and are left out.     *)

ScriptRuns ==
  /\ ~raising
  /\ \/ stack = <<>> /\ phase \in {"live", "offline", "aborted"}
     \/ Busy /\ Top.cur.cmd \in GameCodeCmds

\* Wrong: the callback stays installed after it has stopped.
StepStopArmed ==
  /\ ~entered /\ armed /\ ~raising
  /\ entered' = TRUE /\ steps' = steps - 1
  /\ StartDebugLoop(stack, "step")
  /\ UNCHANGED <<clientVars, c2d, connected, torn, phase, armed, bps, print,
                 answers, noticed, failed>>

\* The step callback stops: it disarms itself first.  The adapter's own lines
\* count as well, while it was not itself called from the hook.
StepStop ==
  /\ ~entered /\ armed /\ ~raising
  /\ entered' = TRUE /\ armed' = FALSE /\ steps' = steps - 1
  /\ StartDebugLoop(stack, "step")
  /\ UNCHANGED <<clientVars, c2d, connected, torn, phase, bps, print,
                 answers, noticed, failed>>

\* A line with a breakpoint, without a stop by the callback: __halt__.
BreakpointStop ==
  /\ ~entered /\ bps /\ ScriptRuns
  /\ entered' = TRUE
  /\ StartDebugLoop(stack, "halt")
  /\ UNCHANGED <<clientVars, c2d, connected, torn, phase, armed, bps, print,
                 answers, noticed, failed, steps>>

\* The same line may hold a breakpoint too, after the callback has stopped.
LineBreakpoint ==
  /\ Idle({"line"}) /\ bps
  /\ StartDebugLoop(Pop(stack), "halt")
  /\ UNCHANGED <<clientVars, c2d, connected, torn, phase, hookVars, print,
                 answers, noticed, failed, steps>>

LineReturn ==
  /\ Idle({"line"})
  /\ stack' = Pop(stack)
  /\ entered' = FALSE
  /\ UNCHANGED <<clientVars, wireVars, phase, armed, bps, dataVars, raising, history>>

\* Game script calls debuggee.enterDebugLoop, without the optional text.
ApiStop ==
  /\ stack = <<>> /\ ScriptRuns /\ phase # "offline"
  /\ \E k \in ApiKinds : StartDebugLoop(stack, k)
  /\ UNCHANGED <<clientVars, c2d, connected, torn, phase, hookVars, print,
                 answers, noticed, failed, steps>>

\* Without a connection poll returns at once, and without OnExtenderDebugUpdate
\* nothing polls: the game goes on by itself.
GameFrame ==
  /\ phase \in {"offline", "aborted"} /\ stack = <<>> /\ ~raising
  /\ UNCHANGED vars

\* The redirecting print sends an event; only its failure matters here.
GamePrintFails ==
  /\ ScriptRuns /\ print = "redirected" /\ ~connected
  /\ raising' = TRUE
  /\ UNCHANGED <<clientVars, wireVars, phase, stack, hookVars, dataVars, history>>

-----------------------------------------------------------------------------
(* A Lua error on its way out of the top activation.                        *)

\* Out of the game script, of poll (into lua_pcallk of ScriptManager.Update),
\* of hookfunc (which leaves entered set), or of start (which ends the chunk
\* that would have defined OnExtenderDebugUpdate).
ErrorEscapes ==
  /\ raising
  /\ stack # <<>> => Top.kind \in {"poll", "line", "start"}
  /\ stack' = IF stack = <<>> THEN stack ELSE Pop(stack)
  /\ raising' = (stack # <<>> /\ Top.kind = "line")
  /\ phase' = IF stack # <<>> /\ Top.kind = "start" THEN "aborted" ELSE phase
  /\ failed' = (failed \/ (stack # <<>> /\ Top.kind # "line"))
  /\ UNCHANGED <<clientVars, wireVars, hookVars, dataVars, answers, noticed, nested, steps>>

\* The pcall in startDebugLoop ends the loop, whatever the client believes.
\* onError prints, and that may raise again when print sends to a dead socket.
LoopFails ==
  /\ raising
  /\ stack # <<>> /\ Top.kind \in LoopKinds \ {"start"}
  /\ failed' = TRUE
  /\ \/ raising' = FALSE /\ LoopReturned(stack)
     \/ /\ print = "redirected" /\ ~connected
        /\ stack' = IF Top.kind \in HookKinds
                      THEN Append(Pop(stack), Frame("line")) ELSE Pop(stack)
        /\ UNCHANGED <<raising, entered, phase>>
  /\ UNCHANGED <<clientVars, wireVars, armed, bps, dataVars, answers, noticed, nested, steps>>

\* evaluate runs the expression in a pcall: an error of a stop inside of it
\* becomes the failure that it answers.
EvaluateCatches ==
  /\ raising
  /\ stack # <<>> /\ Top.cur.cmd = "evaluate"
  /\ raising' = FALSE
  /\ UNCHANGED <<clientVars, wireVars, phase, stack, hookVars, dataVars, history>>

-----------------------------------------------------------------------------
Client == ClientSend \/ ClientReceive \/ ClientClose

\* What the script thread does next by itself.
Adapter ==
  \/ StartWelcome \/ PollBegin \/ PollTimeout \/ PollPause
  \/ DropPause \/ Take \/ Answer \/ AnswerAndResume \/ LoopEof \/ PollEof
  \/ LineReturn \/ LineBreakpoint \/ ErrorEscapes \/ LoopFails \/ EvaluateCatches

\* What depends on the game's code.
Game ==
  \/ StartConnect \/ StepStop \/ BreakpointStop \/ ApiStop \/ GamePrintFails
  \/ HandlerError \/ GameFrame

Next == Client \/ Adapter \/ Game

Spec == Init /\ [][Next]_vars

\* The engine calls poll once per frame and the script thread never rests; the
\* client reads what it gets.  Neither the client's requests nor the game's
\* stops are due.
FairSpec == Spec /\ WF_vars(Adapter) /\ WF_vars(ClientReceive)

-----------------------------------------------------------------------------
(* Properties                                                               *)

Waiting(s) == \/ \E i \in 1..Len(c2d) : c2d[i].seq = s
              \/ \E i \in 1..Len(stack) : stack[i].cur.seq = s

\* A request is answered at most once, and no answer precedes the end of its
\* handling: across nested loops, poll, handlers that raise and stops that
\* interrupt a handler between its effect and its response.
AtMostOneAnswer ==
  \A s \in Seqs : answers[s] <= IF Waiting(s) \/ s >= nextSeq THEN 0 ELSE 1

\* hookfunc holds the guard exactly while it runs, it never runs twice, and
\* nothing opens above it; the guard is left behind (no breakpoint or step will
\* ever stop again) only by an error that a lost connection caused.
HookGuard ==
  /\ \A i \in 1..Len(stack) :
       stack[i].kind \in HookKinds \cup {"line"} => entered /\ i = Len(stack)
  /\ entered /\ connected => InHook

\* When nothing is in flight the client shows "stopped" exactly while the
\* script thread waits in a debug loop for it, as long as no handler has failed
\* and no stop has interrupted another one.
Quiet == phase = "live" /\ connected /\ c2d = <<>> /\ d2c = <<>> /\ ~raising
StopIsShown ==
  Quiet /\ ~failed /\ ~nested =>
    /\ cview = "stopped" => stack # <<>> /\ Top.kind \in LoopKinds
    /\ stack # <<>> /\ Top.kind \in LoopKinds /\ Top.cur = NoReq => cview = "stopped"

\* A stack trace starts at the frame of the code that the innermost stop has
\* interrupted, unless a stop inside of a stop has replaced baseDepth.
StackTraceBase ==
  ~nested /\ stack # <<>> /\ Top.kind \in LoopKinds =>
    baseDepth = CASE Top.kind \in {"pause", "api"} -> "enter"
                  [] Top.kind = "apiCo"            -> "zero"
                  [] Top.kind = "start"            -> "nil"
                  [] OTHER                         -> Top.kind

\* Expanding a variable shows the children of the value that the client was
\* shown under that reference, although every loop numbers its references anew.
RefsKeepTheirMeaning ==
  ~failed /\ ~nested =>
    \A i \in 1..Len(d2c) : d2c[i].type = "response" => d2c[i].got = d2c[i].want

\* Every step request causes at most one stop by the step callback, and an
\* installed callback always stems from a request that has not stopped yet.
OneStopPerStep == steps >= IF armed THEN 1 ELSE 0

\* What the comments of debugLoop and start say of print: it is put back when
\* the client goes away.
DetachRestoresPrint == noticed => print = "original"

\* A request in the channel is taken by the adapter, in a debug loop or by the
\* next poll, unless the connection is closed or start has failed.
RequestsAreTaken ==
  \A s \in Seqs :
    (\E i \in 1..Len(c2d) : c2d[i].seq = s)
      ~> (~(\E i \in 1..Len(c2d) : c2d[i].seq = s) \/ phase = "aborted")

\* A pause request that the client has not overtaken by resuming again makes it
\* show a stop: the one it asked for, or the one that came first and made the
\* adapter drop the request.
PauseStops ==
  (\E i \in 1..Len(c2d) : /\ c2d[i].cmd = "pause"
                          /\ \A j \in i..Len(c2d) : c2d[j].cmd \notin ResumeCmds)
    ~> (cview = "stopped" \/ ~connected \/ phase = "aborted")
-----------------------------------------------------------------------------
(* The promise about requests, as the client can rely on it.                *)

\* Requests are accepted in order, answered at most once and only while open.
RR == INSTANCE RequestReply WITH
        Ids      <- Seqs,
        next     <- nextSeq,
        pending  <- [i \in 1..Len(c2d) |-> c2d[i].seq],
        open     <- {stack[i].cur.seq : i \in 1..Len(stack)} \ {0},
        answered <- {s \in Seqs : answers[s] > 0}

\* The session implements RequestReply: every step of it accepts, answers,
\* abandons or loses a request as RequestReply allows, or is a stutter.
KeepsRequestReply == RR!Spec

=============================================================================
