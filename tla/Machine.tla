------------------------------- MODULE Machine -------------------------------
(***************************************************************************)
(* luaV_execute of lvm.c over the code of Compiler: one action for each    *)
(* instruction, the frames of ldo.c and the upvalues of lfunc.c.  Each     *)
(* frame has registers of its own; those that nothing has been written to  *)
(* hold junk.  The external function returns its arguments.                *)
(***************************************************************************)
EXTENDS Meaning

CONSTANTS
  Chunks,      (* functions: their parameters and body *)
  Arguments,   (* what they are called with *)
  Parse(_, _),       (* Parser of Compiler: the code of a function *)
  Meaning(_, _, _),  (* Outcome of Meaning: what a function does with arguments *)
  FieldsPerFlush,
  Registers    (* size of a frame *)

VARIABLES
  chunk,       (* what is compiled and run, and its arguments *)
  proto,       (* the prototype made of it *)
  broken,      (* history: an assertion of the compiler has failed *)
  status,      (* "compile", "run", "return", "error" or "illegal" *)
  frames,      (* the CallInfos and their registers, innermost last *)
  closures,    (* Lua functions: the place of the prototype and the upvalues *)
  upvals,      (* UpVals, open or closed *)
  tables,
  out          (* what the external function was called with; at the end, what is returned *)

vars == <<chunk, proto, broken, status, frames, closures, upvals, tables, out>>
Heap == <<closures, upvals, tables, out>>
Fixed == <<chunk, proto, broken>>

MULTRET == -1
IsK(x) == x >= 256    \* ISK: the operand is a constant

Junk == -9
NoProto == [code |-> <<>>]

RECURSIVE ProtoAt(_, _)
ProtoAt(p, path) == IF path = <<>> THEN p ELSE ProtoAt(p.protos[path[1]], Tail(path))

N == Len(frames)
ci == frames[N]
cl == closures[ci.cl]
p == ProtoAt(proto, cl.path)
i == p.code[ci.pc + 1]
R(r) == ci.regs[r]
RK(x) == IF IsK(x) THEN x - 256 ELSE R(x)

\* UpVal v: a register of a frame below, or its own value.
UpValue(u) == IF u.open THEN frames[u.frame].regs[u.reg] ELSE u.v
Up(n) == UpValue(upvals[cl.ups[n + 1]])

Init ==
  /\ chunk \in [c : Chunks, args : Arguments]
  /\ proto = NoProto
  /\ broken = FALSE
  /\ status = "compile"
  /\ frames = <<>>
  /\ closures = <<>>
  /\ upvals = <<[open |-> FALSE, frame |-> 0, reg |-> 0, v |-> TableId(0)]>>
  /\ tables = << Name("f") :> External >>
  /\ out = <<>>

Frame(c, nparams, args, want, ret) ==
  [cl |-> c, pc |-> 0, top |-> 0, want |-> want, ret |-> ret,
   regs |-> [r \in 0 .. Registers - 1 |-> IF r < nparams THEN Nth(args, r + 1) ELSE Junk]]

Compile ==
  LET c == Parse(chunk.c.params, chunk.c.body) IN
  /\ status = "compile"
  /\ status' = IF c.error THEN "illegal" ELSE "run"
  /\ broken' = (~c.error /\ c.broken)
  /\ proto' = IF c.error THEN NoProto ELSE c.proto
  /\ closures' = IF c.error THEN <<>> ELSE <<[path |-> <<>>, ups |-> <<1>>]>>
  /\ frames' = IF c.error THEN <<>> ELSE <<Frame(1, c.proto.nparams, chunk.args, MULTRET, 0)>>
  /\ UNCHANGED <<chunk, upvals, tables, out>>

-----------------------------------------------------------------------------
(* Instructions                                                             *)

Is(op) == status = "run" /\ i.op = op

Goto(pc) == frames' = [frames EXCEPT ![N].pc = pc]
Set(values, pc) == frames' = [frames EXCEPT ![N].pc = pc, ![N].regs = values @@ @]
Next1 == ci.pc + 1

Assigns(op, value) ==
  /\ Is(op)
  /\ Set(i.a :> value, Next1)
  /\ UNCHANGED <<Fixed, status, Heap>>

Move == Is("MOVE") /\ Assigns("MOVE", R(i.b))
LoadK == Is("LOADK") /\ Assigns("LOADK", i.b)
Not == Is("NOT") /\ Assigns("NOT", Bool(IsFalse(R(i.b))))
Getupval == Is("GETUPVAL") /\ Assigns("GETUPVAL", Up(i.b))

LoadBool ==
  /\ Is("LOADBOOL")
  /\ Set(i.a :> Bool(i.b = 1), Next1 + i.c)
  /\ UNCHANGED <<Fixed, status, Heap>>

LoadNils ==
  /\ Is("LOADNIL")
  /\ Set([r \in i.a .. i.a + i.b |-> Nil], Next1)
  /\ UNCHANGED <<Fixed, status, Heap>>

Gettable(op, t) == Is(op) /\ IsTable(t) /\ Assigns(op, Field(tables[t - 999], RK(i.c)))
GetTab == Is("GETTABLE") /\ Gettable("GETTABLE", R(i.b))
GetTabUp == Is("GETTABUP") /\ Gettable("GETTABUP", Up(i.b))

Settable(t) ==
  /\ IsTable(t) /\ RK(i.b) # Nil
  /\ tables' = [tables EXCEPT ![t - 999] = (RK(i.b) :> RK(i.c)) @@ @]
  /\ Goto(Next1)
  /\ UNCHANGED <<Fixed, status, closures, upvals, out>>
SetTab == Is("SETTABLE") /\ Settable(R(i.a))
SetTabUp == Is("SETTABUP") /\ Settable(Up(i.a))

SetUpval ==
  /\ Is("SETUPVAL")
  /\ LET n == cl.ups[i.b + 1]
         u == upvals[n]
     IN /\ frames' = IF u.open THEN [frames EXCEPT ![u.frame].regs[u.reg] = R(i.a), ![N].pc = Next1]
                     ELSE [frames EXCEPT ![N].pc = Next1]
        /\ upvals' = IF u.open THEN upvals ELSE [upvals EXCEPT ![n].v = R(i.a)]
  /\ UNCHANGED <<Fixed, status, closures, tables, out>>

NewTable ==
  /\ Is("NEWTABLE")
  /\ tables' = Append(tables, <<>>)
  /\ Set(i.a :> TableId(Len(tables)), Next1)
  /\ UNCHANGED <<Fixed, status, closures, upvals, out>>

SetListItems ==
  /\ Is("SETLIST")
  /\ LET n == IF i.b = 0 THEN ci.top - i.a - 1 ELSE i.b
         first == (i.c - 1) * FieldsPerFlush
         items == [k \in {Number(first + j) : j \in 1..n} |-> R(i.a + (k - 20) - first)]
     IN tables' = [tables EXCEPT ![R(i.a) - 999] = items @@ @]
  /\ Goto(Next1)
  /\ UNCHANGED <<Fixed, status, closures, upvals, out>>

Sub == Is("SUB") /\ Defined("sub", RK(i.b), RK(i.c)) /\ Assigns("SUB", Apply("sub", RK(i.b), RK(i.c)))
Unm == Is("UNM") /\ IsNumber(R(i.b)) /\ Assigns("UNM", Negated(R(i.b)))

\* luaF_close: the open upvalues of this frame from a register on.
Closed(level) ==
  [n \in DOMAIN upvals |->
     IF upvals[n].open /\ upvals[n].frame = N /\ upvals[n].reg >= level
       THEN [open |-> FALSE, frame |-> 0, reg |-> 0, v |-> UpValue(upvals[n])] ELSE upvals[n]]

\* dojump with the jump at pc: A is the level to close from.
DoJump(pc, values) ==
  LET j == p.code[pc + 1] IN
  /\ upvals' = IF j.a > 0 THEN Closed(j.a - 1) ELSE upvals
  /\ Set(values, pc + 1 + j.b)

\* A test skips the jump that follows, or takes it (donextjump).
Test(op, holds, values) ==
  /\ Is(op)
  /\ IF holds THEN DoJump(Next1, values) ELSE Goto(Next1 + 1) /\ UNCHANGED upvals
  /\ UNCHANGED <<Fixed, status, closures, tables, out>>

Compare(op, with) ==
  /\ Is(op) /\ Defined(with, RK(i.b), RK(i.c))
  /\ Test(op, Apply(with, RK(i.b), RK(i.c)) = Bool(i.a = 1), <<>>)
Eq == Is("EQ") /\ Compare("EQ", "eq")
Lt == Is("LT") /\ Compare("LT", "lt")
Le == Is("LE") /\ Compare("LE", "le")

TestJump == Is("TEST") /\ Test("TEST", (i.c = 1) = ~IsFalse(R(i.a)), <<>>)
TestSet == Is("TESTSET") /\ Test("TESTSET", (i.c = 1) = ~IsFalse(R(i.b)), i.a :> R(i.b))

JumpTo ==
  /\ Is("JMP")
  /\ DoJump(ci.pc, <<>>)
  /\ UNCHANGED <<Fixed, status, closures, tables, out>>

ForPrep ==
  /\ Is("FORPREP")
  /\ \A r \in i.a .. i.a + 2 : IsNumber(R(r))
  /\ Set(i.a :> Apply("sub", R(i.a), R(i.a + 2)), Next1 + i.b)
  /\ UNCHANGED <<Fixed, status, Heap>>

ForLoopStep ==
  /\ Is("FORLOOP")
  /\ LET index == R(i.a) + R(i.a + 2) - 20
     IN IF index <= R(i.a + 1) THEN Set((i.a :> index) @@ (i.a + 3 :> index), Next1 + i.b) ELSE Goto(Next1)
  /\ UNCHANGED <<Fixed, status, Heap>>

-----------------------------------------------------------------------------
(* Calls                                                                    *)

Args == [n \in 1 .. (IF i.b = 0 THEN ci.top - i.a - 1 ELSE i.b - 1) |-> R(i.a + n)]

\* luaD_poscall: the results wanted, from register ret on; an open call sets top.
Results(fs, ret, want, vs) ==
  LET n == IF want = MULTRET THEN Len(vs) ELSE want
  IN [fs EXCEPT ![Len(fs)].regs = [r \in ret .. ret + n - 1 |-> Nth(vs, r - ret + 1)] @@ @,
                ![Len(fs)].top = ret + n]

CallExternal ==
  /\ status = "run" /\ i.op \in {"CALL", "TAILCALL"} /\ R(i.a) = External
  /\ out' = Append(out, Args)
  /\ frames' = Results([frames EXCEPT ![N].pc = Next1], i.a, IF i.op = "CALL" THEN i.c - 1 ELSE MULTRET, Args)
  /\ UNCHANGED <<Fixed, status, closures, upvals, tables>>

ProtoOf(c) == ProtoAt(proto, closures[c].path)

CallLua ==
  /\ Is("CALL") /\ IsClosure(R(i.a))
  /\ LET c == R(i.a) - 1999
     IN frames' = Append([frames EXCEPT ![N].pc = Next1], Frame(c, ProtoOf(c).nparams, Args, i.c - 1, i.a))
  /\ UNCHANGED <<Fixed, status, Heap>>

\* The new frame takes the place of the old one.
TailCallLua ==
  /\ Is("TAILCALL") /\ IsClosure(R(i.a))
  /\ LET c == R(i.a) - 1999
     IN frames' = [frames EXCEPT ![N] = Frame(c, ProtoOf(c).nparams, Args, ci.want, ci.ret)]
  /\ upvals' = IF p.protos # <<>> THEN Closed(0) ELSE upvals
  /\ UNCHANGED <<Fixed, status, closures, tables, out>>

\* What a reader of the log can tell of a value.
Shown(v) == IF IsClosure(v) THEN ClosureId(0) ELSE v
Seen(vs) == [n \in DOMAIN vs |-> Shown(vs[n])]

Return ==
  /\ Is("RETURN")
  /\ LET vs == [n \in 1 .. (IF i.b = 0 THEN ci.top - i.a ELSE i.b - 1) |-> R(i.a + n - 1)]
     IN IF N = 1 THEN /\ status' = "return" /\ frames' = <<>> /\ out' = Append(out, vs)
        ELSE frames' = Results(Front(frames), ci.ret, ci.want, vs) /\ UNCHANGED <<status, out>>
  /\ upvals' = IF p.protos # <<>> THEN Closed(0) ELSE upvals
  /\ UNCHANGED <<Fixed, closures, tables>>

\* luaF_findupval: the open upvalue of a register, or its place as a new one.
FindUpval(ups, reg) ==
  LET is == {n \in DOMAIN ups : ups[n].open /\ ups[n].frame = N /\ ups[n].reg = reg}
  IN IF is = {} THEN Len(ups) + 1 ELSE CHOOSE n \in is : TRUE

OpenAt(ups, reg) ==
  IF FindUpval(ups, reg) <= Len(ups) THEN ups
  ELSE Append(ups, [open |-> TRUE, frame |-> N, reg |-> reg, v |-> Nil])

\* getcached and pushclosure: the last closure of the prototype is used again when its upvalues fit.
Closure ==
  /\ Is("CLOSURE")
  /\ LET path == Append(cl.path, i.b + 1)
         desc == ProtoAt(proto, path).upvalues
         take(s, d) == IF d.instack THEN [ups |-> Append(s.ups, FindUpval(s.all, d.idx)), all |-> OpenAt(s.all, d.idx)]
                       ELSE [s EXCEPT !.ups = Append(@, cl.ups[d.idx + 1])]
         s == FoldLeft(take, [ups |-> <<>>, all |-> upvals], desc)
         made == {c \in DOMAIN closures : closures[c].path = path}
         cached == {c \in made : (\A d \in made : d <= c) /\ closures[c].ups = s.ups}
     IN /\ upvals' = s.all
        /\ closures' = IF cached # {} THEN closures ELSE Append(closures, [path |-> path, ups |-> s.ups])
        /\ Set(i.a :> (IF cached # {} THEN 1999 + Max(cached) ELSE ClosureId(Len(closures))), Next1)
  /\ UNCHANGED <<Fixed, status, tables, out>>

\* luaG_typeerror and its like.
Fails ==
  CASE i.op = "GETTABLE" -> ~IsTable(R(i.b))
    [] i.op = "GETTABUP" -> ~IsTable(Up(i.b))
    [] i.op = "SETTABLE" -> ~IsTable(R(i.a)) \/ RK(i.b) = Nil
    [] i.op = "SETTABUP" -> ~IsTable(Up(i.a)) \/ RK(i.b) = Nil
    [] i.op = "SUB" -> ~Defined("sub", RK(i.b), RK(i.c))
    [] i.op = "UNM" -> ~IsNumber(R(i.b))
    [] i.op \in {"LT", "LE"} -> ~Defined("lt", RK(i.b), RK(i.c))
    [] i.op \in {"CALL", "TAILCALL"} -> R(i.a) # External /\ ~IsClosure(R(i.a))
    [] i.op = "FORPREP" -> \E r \in i.a .. i.a + 2 : ~IsNumber(R(r))
    [] OTHER -> FALSE

RunError ==
  /\ status = "run" /\ Fails
  /\ status' = "error"
  /\ frames' = <<>>
  /\ UNCHANGED <<Fixed, Heap>>

Next ==
  \/ Compile
  \/ Move \/ LoadK \/ LoadBool \/ LoadNils \/ Not
  \/ Getupval \/ SetUpval \/ GetTab \/ GetTabUp \/ SetTab \/ SetTabUp
  \/ NewTable \/ SetListItems \/ Sub \/ Unm
  \/ Eq \/ Lt \/ Le \/ TestJump \/ TestSet \/ JumpTo \/ ForPrep \/ ForLoopStep
  \/ CallExternal \/ CallLua \/ TailCallLua \/ Return \/ Closure
  \/ RunError

Spec == Init /\ [][Next]_vars

-----------------------------------------------------------------------------
(* Properties                                                               *)

Ran == [how |-> status, out |-> [n \in DOMAIN out |-> Seen(out[n])]]
Said ==
  LET m == Meaning(chunk.c.body, chunk.c.params, chunk.args) IN [how |-> m.how, out |-> [n \in DOMAIN m.out |-> Seen(m.out[n])]]

(***************************************************************************)
(* The code that lparser.c and lcode.c make of a function does, executed   *)
(* by lvm.c, what the function means: it calls what it should in the right *)
(* order and returns what it should; it shares and closes variables as the *)
(* scopes have it; and a goto is refused exactly where the rules forbid    *)
(* it.  No assertion of the compiler fails on the way.                     *)
(***************************************************************************)
CodeMeansProgram ==
  /\ ~broken
  /\ status \in {"return", "error", "illegal"} => Ran = Said
=============================================================================
