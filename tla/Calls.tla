------------------------------- MODULE Calls -------------------------------
(***************************************************************************)
(* Calls, errors and coroutines of the Lua runtime that replaces the       *)
(* engine's: the call frames of each thread (CallInfo), and the one C      *)
(* stack that all threads share.  A call between Lua functions makes a     *)
(* frame and no C call; a C function that calls back makes both.  A yield  *)
(* and an error throw a part of the C stack away with longjmp, and the     *)
(* frames that lose their C calls by it are finished later by unroll.  As  *)
(* a coroutine's C calls are all above those of the thread that has        *)
(* resumed it, and errorJmp is each thread's own, the C stack is kept in   *)
(* the parts that belong to the threads.                                   *)
(*                                                                         *)
(* The C functions are pcall, which has a continuation, each (any function *)
(* that calls back without one, such as table.sort), coroutine.resume and  *)
(* coroutine.yield; host is the caller of lua_pcall in the main thread.    *)
(* Values, hooks, tail calls and yields inside of metamethods are left out.*)
(***************************************************************************)
EXTENDS Integers, Sequences, FiniteSets

CONSTANTS
  Threads, Main,
  MaxCCalls,   (* LUAI_MAXCCALLS *)
  MaxDepth     (* bound: frames of a thread *)

\* What the proofs assume: nny and nCcalls are unsigned shorts.
Limits ==
  /\ Main \in Threads /\ MaxDepth \in Nat
  /\ MaxCCalls \in Nat /\ MaxCCalls + MaxCCalls \div 8 < 65535

VARIABLES
  ci,       (* of each thread: its frames above base_ci, outermost first *)
  status,   (* ok, yield or error *)
  pending,  (* the function of the coroutine waits on its stack, not yet called *)
  nny,      (* number of non-yieldable calls *)
  nCcalls,
  chain,    (* the threads that run: each has resumed the next one *)
  cstack,   (* of each thread: its C functions that are active, innermost last *)
  confused  (* history: a thread that was not suspended has been resumed *)

vars == <<ci, status, pending, nny, nCcalls, chain, cstack, confused>>

-----------------------------------------------------------------------------
CFunctions == {"pcall", "each", "resume", "yield"}

Frame(what, reentry) ==
  [what |-> what, reentry |-> reentry, called |-> FALSE, ypcall |-> FALSE]

\* unsigned short
Short(n) == n % 65536

\* Active C functions: luaV_execute, the body of a C function, luaD_call,
\* luaD_pcall and lua_resume with what they restore, and unroll.
Execute == [op |-> "execute"]
Body == [op |-> "body"]
Call(noyield) == [op |-> "call", noyield |-> noyield]
Unroll == [op |-> "unroll"]

Init ==
  /\ ci = [t \in Threads |-> IF t = Main THEN <<Frame("host", FALSE)>> ELSE <<>>]
  /\ status = [t \in Threads |-> "ok"]
  /\ pending = [t \in Threads |-> t # Main]
  /\ nny = [t \in Threads |-> 1]
  /\ nCcalls = [t \in Threads |-> 0]
  /\ chain = <<Main>>
  /\ cstack = [t \in Threads |-> IF t = Main THEN <<Body>> ELSE <<>>]
  /\ confused = FALSE

Running == chain[Len(chain)]
InChain(t) == \E i \in DOMAIN chain : chain[i] = t
Active == cstack[Running]
Frames == ci[Running]
Innermost == Active[Len(Active)]
Top == Frames[Len(Frames)]
\* The model ends with the resume of a thread that is running: nny is 1 after it,
\* however many calls of that thread cannot yield.
In(op) == ~confused /\ Innermost.op = op
InBody(what) == In("body") /\ Top.what = what

WithActive(active) == [cstack EXCEPT ![Running] = active]
WithFrames(frames) == [ci EXCEPT ![Running] = frames]
Cut(active, n) == SubSeq(active, 1, n)
Below == Cut(Active, Len(Active) - 1)
PopFrame == WithFrames(Cut(Frames, Len(Frames) - 1))
Topped(frame) == [Frames EXCEPT ![Len(Frames)] = frame]

-----------------------------------------------------------------------------
(* Errors and yields: luaD_throw                                            *)

IsTry(c) == c.op \in {"pcall", "resume"}
InnermostTry == CHOOSE i \in DOMAIN Active :
                  IsTry(Active[i]) /\ \A j \in i + 1 .. Len(Active) : ~IsTry(Active[j])

\* The end of lua_resume, whatever its result is: back in the thread that called it.
EndResume ==
  /\ cstack' = WithActive(<<>>)
  /\ chain' = Cut(chain, Len(chain) - 1)
  /\ nny' = [nny EXCEPT ![Running] = 1]
  /\ nCcalls' = [nCcalls EXCEPT ![Running] = Short(Active[1].nCcalls - 1)]

\* luaD_pcall, when the function it has called does not return.
EndPcall(i) ==
  /\ cstack' = WithActive(Cut(Active, i - 1))
  /\ ci' = WithFrames(Cut(Frames, Active[i].frames))
  /\ nny' = [nny EXCEPT ![Running] = Active[i].nny]
  /\ nCcalls' = [nCcalls EXCEPT ![Running] = Active[i].nCcalls]
  /\ UNCHANGED chain

\* findpcall, and the candidates that it looks at.
Recoverable == {i \in DOMAIN Frames : Frames[i].ypcall}
Findpcall == CHOOSE i \in Recoverable : \A j \in Recoverable : j <= i

Recover ==
  /\ ci' = WithFrames(Cut(Frames, Findpcall))
  /\ nny' = [nny EXCEPT ![Running] = 0]
  /\ nCcalls' = [nCcalls EXCEPT ![Running] = Active[1].nCcalls]
  /\ cstack' = WithActive(<<Active[1], Unroll>>)
  /\ UNCHANGED <<status, chain>>

Dies ==
  /\ EndResume
  /\ status' = [status EXCEPT ![Running] = "error"]
  /\ UNCHANGED ci

Thrown(i) ==
  /\ UNCHANGED <<pending, confused>>
  /\ \/ Active[i].op = "pcall" /\ EndPcall(i) /\ UNCHANGED status
     \/ Active[i].op = "resume" /\ Recoverable # {} /\ Recover
     \/ Active[i].op = "resume" /\ Recoverable = {} /\ Dies

Throw ==
  /\ \/ In("execute")
     \/ InBody("each")
  /\ Thrown(InnermostTry)

-----------------------------------------------------------------------------
(* Calls                                                                    *)

\* luaD_precall: the frame of the callee, above frames.
Enter(what, frames, active) ==
  /\ Len(frames) < MaxDepth
  /\ ci' = WithFrames(Append(frames, Frame(what, FALSE)))
  /\ cstack' = WithActive(Append(active, IF what = "lua" THEN Execute ELSE Body))

\* OP_CALL: a Lua function goes on in the same luaV_execute.
CallFromLua(what) ==
  /\ In("execute")
  /\ IF what = "lua"
       THEN /\ Len(Frames) < MaxDepth
            /\ ci' = WithFrames(Append(Frames, Frame(what, TRUE)))
            /\ UNCHANGED cstack
       ELSE Enter(what, Frames, Active)
  /\ UNCHANGED <<status, pending, nny, nCcalls, chain, confused>>

\* luaD_call, from a C function with the frame top.
Overflow(n) == n = MaxCCalls \/ n >= MaxCCalls + MaxCCalls \div 8

DCall(what, top, tries, noyield) ==
  LET n == Short(nCcalls[Running] + 1) IN
  /\ ~Overflow(n)
  /\ Enter(what, Topped(top), Active \o tries \o <<Call(noyield)>>)
  /\ nCcalls' = [nCcalls EXCEPT ![Running] = n]
  /\ nny' = IF noyield THEN [nny EXCEPT ![Running] = Short(@ + 1)] ELSE nny
  /\ UNCHANGED <<status, pending, chain, confused>>

Called == [Top EXCEPT !.called = TRUE]

Try == [op |-> "pcall", frames |-> Len(Frames), nny |-> nny[Running],
        nCcalls |-> nCcalls[Running]]

\* lua_pcallk: with a continuation only where the thread may yield.
Pcallk(what) ==
  \/ /\ \/ InBody("host")
        \/ InBody("pcall") /\ ~Top.called /\ nny[Running] > 0
     /\ DCall(what, Called, <<Try>>, TRUE)
  \/ /\ InBody("pcall") /\ ~Top.called /\ nny[Running] = 0
     /\ DCall(what, [Called EXCEPT !.ypcall = TRUE], <<>>, FALSE)

\* Wrong: the callee of a function that has no continuation may yield.
CallkYieldable(what) == InBody("each") /\ DCall(what, Called, <<>>, FALSE)

\* lua_callk without a continuation.
Callk(what) == InBody("each") /\ DCall(what, Called, <<>>, TRUE)

\* luaD_call at the limit: the error is thrown before the callee has a frame, and
\* for pcall inside of the protection it has just made.
CallOverflow ==
  /\ Overflow(Short(nCcalls[Running] + 1))
  /\ \/ InBody("each") /\ Thrown(InnermostTry)
     \/ /\ InBody("pcall") /\ ~Top.called
        /\ ci' = WithFrames(Topped(Called))
        /\ IF nny[Running] > 0
             THEN UNCHANGED <<cstack, nCcalls>>
             ELSE /\ cstack' = WithActive(<<Active[1], Unroll>>)
                  /\ nCcalls' = [nCcalls EXCEPT ![Running] = Active[1].nCcalls]
        /\ UNCHANGED <<status, pending, nny, chain, confused>>

-----------------------------------------------------------------------------
(* Returns                                                                  *)

\* OP_RETURN, and the return of a C function to luaD_precall; luaD_poscall.
Return ==
  /\ \/ In("execute") /\ Top.reentry /\ UNCHANGED cstack
     \/ In("execute") /\ ~Top.reentry /\ cstack' = WithActive(Below)
     \/ (InBody("pcall") \/ InBody("resume")) /\ Top.called /\ cstack' = WithActive(Below)
     \/ InBody("each") /\ cstack' = WithActive(Below)
  /\ ci' = PopFrame
  /\ UNCHANGED <<status, pending, nny, nCcalls, chain, confused>>

\* The callee of luaD_call has returned.
EndCall ==
  /\ In("call")
  /\ nny' = IF Innermost.noyield THEN [nny EXCEPT ![Running] = Short(@ - 1)] ELSE nny
  /\ nCcalls' = [nCcalls EXCEPT ![Running] = Short(@ - 1)]
  /\ ci' = WithFrames(Topped([Top EXCEPT !.ypcall = FALSE]))
  /\ cstack' = WithActive(Below)
  /\ UNCHANGED <<status, pending, chain, confused>>

\* luaD_rawrunprotected, without an error.
EndTry ==
  /\ In("pcall")
  /\ cstack' = WithActive(Below)
  /\ nCcalls' = [nCcalls EXCEPT ![Running] = Innermost.nCcalls]
  /\ UNCHANGED <<ci, status, pending, nny, chain, confused>>

\* One round of the loop in unroll.  A frame of a C function is finished by its
\* continuation; each has none, and what is called then is not known.
FinishCcall ==
  /\ Top.what = "pcall"
  /\ nCcalls' = [nCcalls EXCEPT ![Running] = Short(@ - 1)]
  /\ ci' = WithFrames(Topped([Top EXCEPT !.ypcall = FALSE]))
  /\ cstack' = WithActive(Append(Active, Body))

UnrollStep ==
  /\ In("unroll")
  /\ IF Frames = <<>> THEN cstack' = WithActive(Below) /\ UNCHANGED <<ci, nCcalls>>
     ELSE \/ Top.what = "lua" /\ cstack' = WithActive(Append(Active, Execute))
             /\ UNCHANGED <<ci, nCcalls>>
          \/ FinishCcall
  /\ UNCHANGED <<status, pending, nny, chain, confused>>

-----------------------------------------------------------------------------
(* Coroutines                                                               *)

\* lua_yieldk, called by luaB_yield.
Yield ==
  /\ InBody("yield")
  /\ LET i == InnermostTry IN
     IF nny[Running] > 0 THEN Thrown(i)
     ELSE /\ status' = [status EXCEPT ![Running] = "yield"]
          /\ IF Active[i].op = "pcall" THEN EndPcall(i) ELSE EndResume /\ UNCHANGED ci
          /\ UNCHANGED <<pending, confused>>

\* auxresume and lua_resume: a coroutine that has not run yet, or that has yielded.
Resuming(t, op, n) ==
  /\ chain' = Append(chain, t)
  /\ cstack' = [cstack EXCEPT ![t] = <<[op |-> "resume", nCcalls |-> n], op>>]

Start(t, n) ==
  /\ status[t] = "ok" /\ pending[t]
  /\ pending' = [pending EXCEPT ![t] = FALSE]
  /\ ci' = [WithFrames(Topped(Called)) EXCEPT ![t] = <<Frame("lua", FALSE)>>]
  /\ Resuming(t, Execute, n)
  /\ nCcalls' = [nCcalls EXCEPT ![t] = n]
  /\ UNCHANGED status

GoOn(t, n) ==
  /\ status[t] = "yield"
  /\ status' = [status EXCEPT ![t] = "ok"]
  /\ ci' = [WithFrames(Topped(Called)) EXCEPT ![t] = Cut(@, Len(@) - 1)]
  /\ Resuming(t, Unroll, n)
  /\ nCcalls' = [nCcalls EXCEPT ![t] = Short(n - 1)]
  /\ UNCHANGED pending

Resume(t) ==
  /\ InBody("resume") /\ ~Top.called /\ ~InChain(t)
  /\ LET n == Short(nCcalls[Running] + 1) IN
     n < MaxCCalls /\ (Start(t, n) \/ GoOn(t, n))
  /\ nny' = [nny EXCEPT ![t] = 0]
  /\ UNCHANGED confused

\* resume_error; nny and nCcalls of a thread that is running are lost by it.
\* A coroutine that has returned is refused by auxresume already.
Refused(t) ==
  /\ InBody("resume") /\ ~Top.called
  /\ \/ InChain(t) \/ status[t] = "error" \/ Short(nCcalls[Running] + 1) >= MaxCCalls
     \/ status[t] = "ok" /\ ~pending[t]
  /\ ci' = WithFrames(Topped(Called))
  /\ IF ~InChain(t) /\ status[t] = "ok" /\ ~pending[t]
       THEN UNCHANGED <<nny, nCcalls>>
       ELSE /\ nny' = [nny EXCEPT ![t] = 1]
            /\ nCcalls' = [nCcalls EXCEPT ![t] = nCcalls[Running]]
  /\ confused' = (confused \/ InChain(t))
  /\ UNCHANGED <<status, pending, chain, cstack>>

\* The coroutine's function has returned.
EndCoroutine ==
  /\ In("resume") /\ EndResume
  /\ UNCHANGED <<ci, status, pending, confused>>

-----------------------------------------------------------------------------
Next ==
  \/ \E what \in CFunctions \cup {"lua"} :
       CallFromLua(what) \/ Pcallk(what) \/ Callk(what)
  \/ CallOverflow \/ Throw \/ Return \/ EndCall \/ EndTry \/ UnrollStep \/ Yield
  \/ \E t \in Threads : Resume(t) \/ Refused(t)
  \/ EndCoroutine

Spec == Init /\ [][Next]_vars

-----------------------------------------------------------------------------
(* Properties                                                               *)

\* The frames as the manual sees them: a yield is not a call.
Name(frame) == IF frame.what = "host" THEN "pcall" ELSE frame.what
Shown(frames) ==
  IF frames # <<>> /\ frames[Len(frames)].what = "yield" THEN Len(frames) - 1 ELSE Len(frames)
Abstract(frames) == [i \in 1..Shown(frames) |-> Name(frames[i])]

C == INSTANCE Coroutines WITH
       calls <- [t \in Threads |-> IF status[t] = "error" THEN <<>> ELSE Abstract(ci[t])],
       chain <- chain,
       status <- [t \in Threads |->
                    IF pending[t] THEN "fresh"
                    ELSE IF status[t] = "error" \/ (ci[t] = <<>> /\ ~InChain(t))
                      THEN "dead" ELSE "live"]

\* Every step does what the manual says, or nothing that a program could see: an
\* error arrives at the innermost pcall of its thread even if that pcall has lost
\* its C calls to a yield, a yield gives up no call that cannot be finished, and a
\* coroutine that goes on finds the calls that it has left.
StartsAsCoroutines == C!Init
StepsAsCoroutines == [C!Next]_(C!vars)
ImplementsCoroutines == C!Spec
=============================================================================
