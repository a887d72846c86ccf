------------------------------ MODULE Compiler ------------------------------
(***************************************************************************)
(* The one-pass compiler of Lua 5.2.0: lparser.c and lcode.c.  Registers   *)
(* are given out like a stack, jumps with an open end are threaded through *)
(* the code itself, and an expression is coded only when it is known where *)
(* its value is wanted.                                                    *)
(*                                                                         *)
(* A grammar rule takes the syntax tree of what it would read; fs is the   *)
(* FuncState with its Proto, and the list of FuncStates is fs.prev.        *)
(* Constants are operands of their own; lines, limits of sizes and debug   *)
(* information are left out.                                               *)
(***************************************************************************)
EXTENDS Meaning

CONSTANT FieldsPerFlush    (* LFIELDS_PER_FLUSH *)

NO_JUMP == -1
NO_REG == 255
MULTRET == -1

\* RKASK and ISK: the operands above the registers are constants.
RkAsK(v) == 256 + v
IsK(x) == x >= 256

\* testTMode of lopcodes.c
Tests == {"EQ", "LT", "LE", "TEST", "TESTSET"}

Instruction(op, a, b, c) == [op |-> op, a |-> a, b |-> b, c |-> c]
Exp(k, info) == [k |-> k, info |-> info, t |-> NO_JUMP, f |-> NO_JUMP]
P(fs, e) == [fs |-> fs, e |-> e]    \* a FuncState and an expression in it

\* Then(x), with x evaluated first.
Now(x, Then(_)) == CHOOSE r \in {Then(y) : y \in {x}} : TRUE

HasJumps(e) == e.t # e.f
IsNumeral(e) == e.k = "NUM" /\ e.t = NO_JUMP /\ e.f = NO_JUMP
HasMultRet(e) == e.k = "CALL"

Pc(fs) == Len(fs.code)
At(fs, pc) == fs.code[pc + 1]
SetA(fs, pc, a) == [fs EXCEPT !.code[pc + 1].a = a]
SetB(fs, pc, b) == [fs EXCEPT !.code[pc + 1].b = b]
SetC(fs, pc, c) == [fs EXCEPT !.code[pc + 1].c = c]
Checked(fs, c) == [fs EXCEPT !.broken = @ \/ ~c]
NActVar(fs) == Len(fs.actvar)

-----------------------------------------------------------------------------
(* Jumps: B of a jump that is not fixed is the distance to the next one of  *)
(* its list                                                                 *)

GetJump(fs, pc) == IF At(fs, pc).b = NO_JUMP THEN NO_JUMP ELSE pc + 1 + At(fs, pc).b
FixJump(fs, pc, dest) == SetB(Checked(fs, dest # NO_JUMP), pc, dest - (pc + 1))

RECURSIVE JumpList(_, _)
JumpList(fs, l) == IF l = NO_JUMP THEN <<>> ELSE <<l>> \o JumpList(fs, GetJump(fs, l))

\* luaK_concat: the joined list, and the code with the one tied to the other.
Joined(l1, l2) == IF l1 = NO_JUMP THEN l2 ELSE l1
Tied(fs, l1, l2) ==
  IF NO_JUMP \in {l1, l2} THEN fs ELSE FixJump(fs, Last(JumpList(fs, l1)), l2)

\* getjumpcontrol: the test before a jump, or the jump.
Control(fs, pc) == IF pc >= 1 /\ At(fs, pc - 1).op \in Tests THEN pc - 1 ELSE pc
IsTestSet(fs, node) == At(fs, Control(fs, node)).op = "TESTSET"

NeedValue(fs, l) == \E i \in Range(JumpList(fs, l)) : ~IsTestSet(fs, i)

PatchTestReg(fs, node, reg) ==
  LET c == Control(fs, node)
      i == At(fs, c)
  IN IF i.op # "TESTSET" THEN fs
     ELSE IF reg # NO_REG /\ reg # i.b THEN SetA(fs, c, reg)
     ELSE [fs EXCEPT !.code[c + 1] = Instruction("TEST", i.b, 0, i.c)]

RemoveValues(fs, l) == FoldLeft(LAMBDA s, j : PatchTestReg(s, j, NO_REG), fs, JumpList(fs, l))

PatchListAux(fs, l, vtarget, reg, dtarget) ==
  FoldLeft(LAMBDA s, j : FixJump(PatchTestReg(s, j, reg), j, IF IsTestSet(s, j) THEN vtarget ELSE dtarget),
           fs, JumpList(fs, l))

DischargeJpc(fs) == [PatchListAux(fs, fs.jpc, Pc(fs), NO_REG, Pc(fs)) EXCEPT !.jpc = NO_JUMP]

\* luaK_code; the instruction is at the old Pc.
Code(fs, op, a, b, c) == [DischargeJpc(fs) EXCEPT !.code = Append(@, Instruction(op, a, b, c))]

GetLabel(fs) == [fs EXCEPT !.lasttarget = Pc(fs)]

\* luaK_jump: the jumps to here are kept on hold with the new one, at Pc.
Jump(fs) == Tied(Code([fs EXCEPT !.jpc = NO_JUMP], "JMP", 0, NO_JUMP, 0), Pc(fs), fs.jpc)

PatchToHere(fs, l) == [Tied(GetLabel(fs), fs.jpc, l) EXCEPT !.jpc = Joined(@, l)]
PatchList(fs, l, target) ==
  IF target = Pc(fs) THEN PatchToHere(fs, l) ELSE PatchListAux(fs, l, target, NO_REG, target)

PatchClose(fs, l, level) ==
  FoldLeft(LAMBDA s, j : SetA(Checked(s, At(s, j).op = "JMP" /\ (At(s, j).a = 0 \/ At(s, j).a > level)), j, level + 1),
           fs, JumpList(fs, l))

-----------------------------------------------------------------------------
(* Registers and constants                                                  *)

ReserveRegs(fs, n) == [fs EXCEPT !.freereg = @ + n, !.maxstack = IF fs.freereg + n > @ THEN fs.freereg + n ELSE @]
FreeReg(fs, reg) ==
  IF IsK(reg) \/ reg < NActVar(fs) THEN fs ELSE [Checked(fs, reg = fs.freereg - 1) EXCEPT !.freereg = @ - 1]
FreeExp(fs, e) == IF e.k = "NONRELOC" THEN FreeReg(fs, e.info) ELSE fs

\* Wrong: also over a jump target.
LoadNilAlways(fs, from, n) ==
  LET prev == At(fs, Pc(fs) - 1)
  IN IF Pc(fs) > 0 /\ prev.op = "LOADNIL" /\ prev.a <= from /\ from <= prev.a + prev.b + 1
     THEN SetB(fs, Pc(fs) - 1, from + n - 1 - prev.a)
     ELSE Code(fs, "LOADNIL", from, n - 1, 0)

\* luaK_nil: nils of neighbouring registers are joined, unless a jump leads here.
LoadNil(fs, from, n) ==
  LET last == from + n - 1
      prev == At(fs, Pc(fs) - 1)
      to == prev.a + prev.b
      low == IF prev.a < from THEN prev.a ELSE from
      high == IF to > last THEN to ELSE last
  IN IF /\ Pc(fs) > fs.lasttarget /\ Pc(fs) > 0 /\ prev.op = "LOADNIL"
        /\ (prev.a <= from /\ from <= to + 1) \/ (from <= prev.a /\ prev.a <= last + 1)
     THEN SetB(SetA(fs, Pc(fs) - 1, low), Pc(fs) - 1, high - low)
     ELSE Code(fs, "LOADNIL", from, n - 1, 0)

-----------------------------------------------------------------------------
(* Expressions get a place                                                  *)

\* Calls give one result; variables become values.
DischargeVars(p) ==
  LET fs == p.fs e == p.e IN
  CASE e.k = "LOCAL" -> P(fs, [e EXCEPT !.k = "NONRELOC"])
    [] e.k = "UPVAL" -> P(Code(fs, "GETUPVAL", 0, e.info, 0), [e EXCEPT !.k = "RELOCABLE", !.info = Pc(fs)])
    [] e.k = "INDEXED" ->
         LET inReg == e.info.vt = "LOCAL"
             f1 == FreeReg(fs, e.info.idx)
             f2 == IF inReg THEN FreeReg(f1, e.info.t) ELSE f1
         IN P(Code(f2, IF inReg THEN "GETTABLE" ELSE "GETTABUP", 0, e.info.t, e.info.idx),
              [e EXCEPT !.k = "RELOCABLE", !.info = Pc(fs)])
    [] e.k = "CALL" -> P(fs, [e EXCEPT !.k = "NONRELOC", !.info = At(fs, e.info).a])
    [] OTHER -> p

Discharge2Reg(p0, reg) ==
  LET p == DischargeVars(p0)
      fs == p.fs e == p.e
      coded ==
        CASE e.k = "NIL" -> LoadNil(fs, reg, 1)
          [] e.k \in {"FALSE", "TRUE"} -> Code(fs, "LOADBOOL", reg, IF e.k = "TRUE" THEN 1 ELSE 0, 0)
          [] e.k \in {"K", "NUM"} -> Code(fs, "LOADK", reg, e.info, 0)
          [] e.k = "RELOCABLE" -> SetA(fs, e.info, reg)
          [] e.k = "NONRELOC" /\ e.info # reg -> Code(fs, "MOVE", reg, e.info, 0)
          [] OTHER -> fs
  IN IF e.k \in {"VOID", "JMP"} THEN p ELSE P(coded, [e EXCEPT !.k = "NONRELOC", !.info = reg])

Discharge2AnyReg(p) ==
  IF p.e.k = "NONRELOC" THEN p
  ELSE LET r == P(ReserveRegs(p.fs, 1), p.e) IN Discharge2Reg(r, r.fs.freereg - 1)

CodeLabel(fs, a, b, jump) == Code(GetLabel(fs), "LOADBOOL", a, b, jump)

\* The two LOADBOOLs for jumps that carry no value.
Exp2Reg(p0, reg) ==
  LET p == Discharge2Reg(p0, reg)
      isJump == p.e.k = "JMP"
      t == IF isJump THEN Joined(p.e.t, p.e.info) ELSE p.e.t
      fs == IF isJump THEN Tied(p.fs, p.e.t, p.e.info) ELSE p.fs
      needed == NeedValue(fs, t) \/ NeedValue(fs, p.e.f)
      over == IF isJump THEN fs ELSE Jump(fs)
      fj == IF isJump THEN NO_JUMP ELSE Pc(fs)
      loads == PatchToHere(CodeLabel(CodeLabel(over, reg, 0, 1), reg, 1, 0), fj)
      end == GetLabel(IF needed THEN loads ELSE fs)
      p_f == IF needed THEN Pc(over) ELSE NO_JUMP
      p_t == IF needed THEN Pc(over) + 1 ELSE NO_JUMP
      done == PatchListAux(PatchListAux(end, p.e.f, Pc(end), reg, p_f), t, Pc(end), reg, p_t)
  IN P(IF t # p.e.f THEN done ELSE fs, Exp("NONRELOC", reg))

Exp2NextReg(p0) ==
  LET p == DischargeVars(p0)
      fs == ReserveRegs(FreeExp(p.fs, p.e), 1)
  IN Exp2Reg(P(fs, p.e), fs.freereg - 1)

Exp2AnyReg(p0) ==
  LET p == DischargeVars(p0) IN
  IF p.e.k = "NONRELOC" /\ ~HasJumps(p.e) THEN p
  ELSE IF p.e.k = "NONRELOC" /\ p.e.info >= NActVar(p.fs) THEN Exp2Reg(p, p.e.info)
  ELSE Exp2NextReg(p)

Exp2AnyRegUp(p) == IF p.e.k # "UPVAL" \/ HasJumps(p.e) THEN Exp2AnyReg(p) ELSE p
Exp2Val(p) == IF HasJumps(p.e) THEN Exp2AnyReg(p) ELSE DischargeVars(p)

ConstantOf(e) == CASE e.k = "NIL" -> Nil [] e.k = "FALSE" -> False [] e.k = "TRUE" -> True [] OTHER -> e.info

\* The operand is RK of the result.
Exp2RK(p0) ==
  LET p == Exp2Val(p0) IN
  IF p.e.k \in {"NIL", "FALSE", "TRUE", "NUM", "K"}
    THEN P(p.fs, [p.e EXCEPT !.k = "K", !.info = ConstantOf(p.e)])
  ELSE Exp2AnyReg(p)
Operand(e) == IF e.k = "K" THEN RkAsK(e.info) ELSE e.info

SetReturns(p, n) == IF p.e.k = "CALL" THEN P(SetC(p.fs, p.e.info, n + 1), p.e) ELSE p
SetOneRet(p) == IF p.e.k = "CALL" THEN DischargeVars(p) ELSE p

StoreVar(var, p) ==
  CASE var.k = "LOCAL" -> Exp2Reg(P(FreeExp(p.fs, p.e), p.e), var.info).fs
    [] var.k = "UPVAL" ->
         LET r == Exp2AnyReg(p) IN FreeExp(Code(r.fs, "SETUPVAL", r.e.info, var.info, 0), r.e)
    [] OTHER ->
         LET r == Exp2RK(p)
             op == IF var.info.vt = "LOCAL" THEN "SETTABLE" ELSE "SETTABUP"
         IN FreeExp(Code(r.fs, op, var.info.t, var.info.idx, Operand(r.e)), r.e)

-----------------------------------------------------------------------------
(* Conditions                                                               *)

InvertJump(fs, e) ==
  LET c == Control(fs, e.info)
  IN SetA(Checked(fs, At(fs, c).op \in {"EQ", "LT", "LE"}), c, 1 - At(fs, c).a)

\* The jump is at Pc - 1 of the result.
CondJump(fs, op, a, b, c) == Jump(Code(fs, op, a, b, c))

JumpOnCond(p, cond) ==
  IF p.e.k = "RELOCABLE" /\ At(p.fs, p.e.info).op = "NOT"
    THEN CondJump([p.fs EXCEPT !.code = Front(@)], "TEST", At(p.fs, p.e.info).b, 0, 1 - cond)
  ELSE LET r == Discharge2AnyReg(p) IN CondJump(FreeExp(r.fs, r.e), "TESTSET", NO_REG, r.e.info, cond)

GoIfTrue(p0) ==
  LET p == DischargeVars(p0)
      always == p.e.k \in {"K", "NUM", "TRUE"}
      fs == CASE p.e.k = "JMP" -> InvertJump(p.fs, p.e) [] always -> p.fs [] OTHER -> JumpOnCond(p, 0)
      pc == CASE p.e.k = "JMP" -> p.e.info [] always -> NO_JUMP [] OTHER -> Pc(fs) - 1
  IN P(PatchToHere(Tied(fs, p.e.f, pc), p.e.t), [p.e EXCEPT !.f = Joined(@, pc), !.t = NO_JUMP])

GoIfFalse(p0) ==
  LET p == DischargeVars(p0)
      never == p.e.k \in {"NIL", "FALSE"}
      fs == IF p.e.k = "JMP" \/ never THEN p.fs ELSE JumpOnCond(p, 1)
      pc == CASE p.e.k = "JMP" -> p.e.info [] never -> NO_JUMP [] OTHER -> Pc(fs) - 1
  IN P(PatchToHere(Tied(fs, p.e.t, pc), p.e.f), [p.e EXCEPT !.t = Joined(@, pc), !.f = NO_JUMP])

CodeNot(p0) ==
  LET p == DischargeVars(p0)
      r == Discharge2AnyReg(p)
      q == CASE p.e.k \in {"NIL", "FALSE"} -> P(p.fs, [p.e EXCEPT !.k = "TRUE"])
             [] p.e.k \in {"K", "NUM", "TRUE"} -> P(p.fs, [p.e EXCEPT !.k = "FALSE"])
             [] p.e.k = "JMP" -> P(InvertJump(p.fs, p.e), p.e)
             [] OTHER -> P(Code(FreeExp(r.fs, r.e), "NOT", 0, r.e.info, 0),
                           [r.e EXCEPT !.k = "RELOCABLE", !.info = Pc(r.fs)])
  IN P(RemoveValues(RemoveValues(q.fs, q.e.t), q.e.f), [q.e EXCEPT !.t = q.e.f, !.f = q.e.t])

-----------------------------------------------------------------------------
(* Operators                                                                *)

Indexed(t, p) ==
  LET k == Exp2RK(p)
  IN P(Checked(k.fs, ~HasJumps(t)),
       [t EXCEPT !.k = "INDEXED",
                 !.info = [t |-> t.info, idx |-> Operand(k.e), vt |-> IF t.k = "UPVAL" THEN "UPVAL" ELSE "LOCAL"]])

FreeBoth(fs, e1, e2) ==
  IF Operand(e1) > Operand(e2) THEN FreeExp(FreeExp(fs, e1), e2) ELSE FreeExp(FreeExp(fs, e2), e1)

CodeArith(op, e1, p2) ==
  IF IsNumeral(e1) /\ IsNumeral(p2.e) THEN P(p2.fs, [e1 EXCEPT !.info = Apply(op, e1.info, p2.e.info)])
  ELSE LET r2 == Exp2RK(p2)
           r1 == Exp2RK(P(r2.fs, e1))
           fs == FreeBoth(r1.fs, r1.e, r2.e)
       IN P(Code(fs, "SUB", 0, Operand(r1.e), Operand(r2.e)), [r1.e EXCEPT !.k = "RELOCABLE", !.info = Pc(fs)])

\* Greater and not equal are less and equal, with the operands or the condition exchanged.
CodeComp(op, e1, p2) ==
  LET r1 == Exp2RK(P(p2.fs, e1))
      r2 == Exp2RK(P(r1.fs, p2.e))
      swap == op \in {"gt", "ge"}
      code == CASE op \in {"eq", "ne"} -> "EQ" [] op \in {"lt", "gt"} -> "LT" [] OTHER -> "LE"
      x == Operand(r1.e) y == Operand(r2.e)
      fs == CondJump(FreeExp(FreeExp(r2.fs, r2.e), r1.e), code, IF op = "ne" THEN 0 ELSE 1,
                     IF swap THEN y ELSE x, IF swap THEN x ELSE y)
  IN P(fs, [r1.e EXCEPT !.k = "JMP", !.info = Pc(fs) - 1])

Prefix(op, p) ==
  IF op = "not" THEN CodeNot(p)
  ELSE IF IsNumeral(p.e) THEN P(p.fs, [p.e EXCEPT !.info = Negated(@)])
  ELSE LET r == Exp2AnyReg(p)
           fs == FreeExp(r.fs, r.e)
       IN P(Code(fs, "UNM", 0, r.e.info, 0), [r.e EXCEPT !.k = "RELOCABLE", !.info = Pc(fs)])

Infix(op, p) ==
  CASE op = "and" -> GoIfTrue(p)
    [] op = "or" -> GoIfFalse(p)
    [] op = "sub" /\ IsNumeral(p.e) -> p
    [] OTHER -> Exp2RK(p)

Posfix(op, e1, p2) ==
  LET p == DischargeVars(p2) IN
  CASE op = "and" -> P(Tied(Checked(p.fs, e1.t = NO_JUMP), p.e.f, e1.f), [p.e EXCEPT !.f = Joined(@, e1.f)])
    [] op = "or" -> P(Tied(Checked(p.fs, e1.f = NO_JUMP), p.e.t, e1.t), [p.e EXCEPT !.t = Joined(@, e1.t)])
    [] op = "sub" -> CodeArith(op, e1, p2)
    [] OTHER -> CodeComp(op, e1, p2)

-----------------------------------------------------------------------------
(* Variables, upvalues, blocks, labels                                      *)

NoFunc == [none |-> TRUE]

NewFunc(prev) ==
  [prev |-> prev, code |-> <<>>, jpc |-> NO_JUMP, lasttarget |-> 0, freereg |-> 0, maxstack |-> 2,
   actvar |-> <<>>, upvalues |-> <<>>, protos |-> <<>>, blocks |-> <<>>, labels |-> <<>>, gotos |-> <<>>,
   broken |-> FALSE, error |-> FALSE]

Position(seq, Test(_)) ==
  LET is == {i \in DOMAIN seq : Test(seq[i])} IN IF is = {} THEN 0 ELSE CHOOSE i \in is : \A j \in is : j <= i

\* The innermost block that has the variable in its scope.
MarkUpval(fs, level) ==
  LET bl == Position(fs.blocks, LAMBDA b : b.nactvar <= level) IN [fs EXCEPT !.blocks[bl].upval = TRUE]

RECURSIVE SingleVarAux(_, _, _)
SingleVarAux(fs, n, base) ==
  LET v == Position(fs.actvar, LAMBDA x : x = n)
      u == Position(fs.upvalues, LAMBDA x : x.name = n)
      outer == SingleVarAux(fs.prev, n, FALSE)
      new == [name |-> n, instack |-> outer.e.k = "LOCAL", idx |-> outer.e.info]
  IN IF fs = NoFunc THEN P(fs, Exp("VOID", 0))
     ELSE IF v > 0 THEN P(IF base THEN fs ELSE MarkUpval(fs, v - 1), Exp("LOCAL", v - 1))
     ELSE IF u > 0 THEN P(fs, Exp("UPVAL", u - 1))
     ELSE IF outer.e.k = "VOID" THEN outer
     ELSE P([fs EXCEPT !.prev = outer.fs, !.upvalues = Append(@, new)], Exp("UPVAL", Len(fs.upvalues)))

SingleVar(fs, n) ==
  LET p == SingleVarAux(fs, n, TRUE)
      env == SingleVarAux(fs, "_ENV", TRUE)
  IN IF p.e.k = "VOID" THEN Indexed(env.e, P(env.fs, Exp("K", Name(n)))) ELSE p

AdjustLocalVars(fs, names) == [fs EXCEPT !.actvar = @ \o names]

AdjustAssign(nvars, nexps, p) ==
  LET extra == nvars - nexps
      wanted == IF extra + 1 < 0 THEN 0 ELSE extra + 1
      called == SetReturns(p, wanted).fs
      closed == IF p.e.k = "VOID" THEN p.fs ELSE Exp2NextReg(p).fs
  IN IF HasMultRet(p.e) THEN IF wanted > 1 THEN ReserveRegs(called, wanted - 1) ELSE called
     ELSE IF extra > 0 THEN LoadNil(ReserveRegs(closed, extra), closed.freereg, extra)
     ELSE closed

EnterBlock(fs, isloop) ==
  [Checked(fs, fs.freereg = NActVar(fs)) EXCEPT
     !.blocks = Append(@, [isloop |-> isloop, nactvar |-> NActVar(fs), upval |-> FALSE,
                           firstlabel |-> Len(fs.labels), firstgoto |-> Len(fs.gotos)])]
Bl(fs) == Last(fs.blocks)

LabelEntry(fs, name, pc) == [name |-> name, pc |-> pc, nactvar |-> NActVar(fs)]

CloseGoto(fs, g, label) ==
  LET gt == fs.gotos[g]
      patched == PatchList(fs, gt.pc, label.pc)
  IN [patched EXCEPT !.gotos = RemoveAt(@, g), !.error = @ \/ gt.nactvar < label.nactvar]

\* A goto back, with the labels of the current block; at most one label matches.
FindLabel(fs, g) ==
  LET gt == fs.gotos[g]
      bl == Bl(fs)
      l == SelectInSeq([i \in DOMAIN fs.labels |-> i], LAMBDA i : i > bl.firstlabel /\ fs.labels[i].name = gt.name)
      lb == fs.labels[l]
      close == gt.nactvar > lb.nactvar /\ (bl.upval \/ Len(fs.labels) > bl.firstlabel)
  IN IF l = 0 THEN fs ELSE CloseGoto(IF close THEN PatchClose(fs, gt.pc, lb.nactvar) ELSE fs, g, lb)

\* The gotos of the current block that wait for a new label.
RECURSIVE FindGotos(_, _, _)
FindGotos(fs, label, i) ==
  IF i > Len(fs.gotos) THEN fs
  ELSE IF fs.gotos[i].name = label.name THEN FindGotos(CloseGoto(fs, i, label), label, i)
  ELSE FindGotos(fs, label, i + 1)

RECURSIVE MoveGotosOut(_, _, _)
MoveGotosOut(fs, bl, i) ==
  LET gt == fs.gotos[i]
      leaves == gt.nactvar > bl.nactvar
      closed == IF leaves /\ bl.upval THEN PatchClose(fs, gt.pc, bl.nactvar) ELSE fs
      out == IF leaves THEN [closed EXCEPT !.gotos[i].nactvar = bl.nactvar] ELSE closed
      found == FindLabel(out, i)
  IN IF i > Len(fs.gotos) THEN fs
     ELSE MoveGotosOut(found, bl, IF Len(found.gotos) < Len(fs.gotos) THEN i ELSE i + 1)

BreakLabel(fs) ==
  LET l == LabelEntry(fs, "break", Pc(fs))
  IN FindGotos([fs EXCEPT !.labels = Append(@, l)], l, Bl(fs).firstgoto + 1)

LeaveBlock(fs) ==
  LET bl == Bl(fs)
      inner == Len(fs.blocks) > 1
      closing == PatchToHere(PatchClose(Jump(fs), Pc(fs), bl.nactvar), Pc(fs))
      f1 == IF inner /\ bl.upval THEN closing ELSE fs
      f2 == IF bl.isloop THEN BreakLabel(f1) ELSE f1
      f3 == [f2 EXCEPT !.blocks = Front(@), !.actvar = SubSeq(@, 1, bl.nactvar), !.freereg = bl.nactvar,
                       !.labels = SubSeq(@, 1, bl.firstlabel)]
  IN IF inner THEN MoveGotosOut(f3, bl, bl.firstgoto + 1)
     ELSE [f3 EXCEPT !.error = @ \/ Len(f3.gotos) > bl.firstgoto]

-----------------------------------------------------------------------------
(* Grammar rules: expressions                                               *)

RECURSIVE Expr(_, _)
RECURSIVE StatList(_, _, _)

\* explist: all but the last in registers.
ExpList(fs, xs) ==
  LET next(s, x) == Exp2NextReg(Expr(s, x)).fs
  IN Now(FoldLeft(next, fs, Front(xs)), LAMBDA s : Expr(s, Last(xs)))

FuncArgs(p, args) ==
  LET base == p.e.info
      call(last) ==
        LET open == args # <<>> /\ HasMultRet(last.e)
            fs == CASE args = <<>> -> last.fs
                    [] open -> SetReturns(last, MULTRET).fs
                    [] OTHER -> Exp2NextReg(last).fs
            nparams == IF open THEN MULTRET ELSE fs.freereg - (base + 1)
        IN P([Code(Checked(fs, p.e.k = "NONRELOC"), "CALL", base, nparams + 1, 2) EXCEPT !.freereg = base + 1],
             Exp("CALL", Pc(fs)))
  IN Now(IF args = <<>> THEN p ELSE ExpList(p.fs, args), call)

SetList(fs, base, nelems, tostore) ==
  [Code(Checked(fs, tostore # 0), "SETLIST", base, IF tostore = MULTRET THEN 0 ELSE tostore,
        ((nelems - 1) \div FieldsPerFlush) + 1) EXCEPT !.freereg = base + 1]

\* The list items of a constructor: stored in groups, the last with all of its values.
Constructor(fs, items) ==
  LET p == Exp2NextReg(P(Code(fs, "NEWTABLE", 0, 0, 0), Exp("RELOCABLE", Pc(fs))))
      t == p.e.info
      n == Len(items)
      close(s, i) ==
        LET c == Exp2NextReg(Expr(s, items[i])).fs
        IN IF i % FieldsPerFlush = 0 THEN SetList(c, t, i, FieldsPerFlush) ELSE c
      before == FoldLeft(close, p.fs, [i \in 1 .. n - 1 |-> i])
      last == Expr(before, items[n])
      pending == ((n - 1) % FieldsPerFlush) + 1
  IN P(IF n = 0 THEN p.fs
       ELSE IF HasMultRet(last.e) THEN SetList(SetReturns(last, MULTRET).fs, t, n, MULTRET)
       ELSE SetList(Exp2NextReg(last).fs, t, n, pending), p.e)

\* body with open_func, codeclosure and close_func.
Body(fs, params, stats) ==
  LET open == EnterBlock(NewFunc(fs), FALSE)
      start == ReserveRegs(AdjustLocalVars(open, params), Len(params))
      close(end) ==
        LET inner == LeaveBlock(Code(end, "RETURN", 0, 1, 0))
            outer == inner.prev
            proto == [code |-> inner.code, upvalues |-> inner.upvalues, protos |-> inner.protos,
                      maxstack |-> inner.maxstack, nparams |-> Len(params)]
            with == [outer EXCEPT !.protos = Append(@, proto), !.broken = @ \/ inner.broken, !.error = @ \/ inner.error]
        IN Exp2NextReg(P(Code(with, "CLOSURE", 0, Len(outer.protos), 0), Exp("RELOCABLE", Pc(outer))))
  IN Now(StatList(start, stats, FALSE), close)

ConstantKind(v) ==
  CASE v = Nil -> Exp("NIL", 0) [] v = False -> Exp("FALSE", 0) [] v = True -> Exp("TRUE", 0)
    [] IsNumber(v) -> Exp("NUM", v) [] OTHER -> Exp("K", v)

\* simpleexp, primaryexp, subexpr
Expr(fs, x) ==
  CASE x.x = "const" -> P(fs, ConstantKind(x.v))
    [] x.x = "var" -> SingleVar(fs, x.name)
    [] x.x = "paren" -> DischargeVars(Expr(fs, x.e))
    [] x.x = "function" -> Body(fs, x.params, x.body)
    [] x.x = "table" -> Constructor(fs, x.items)
    [] x.x = "index" ->
         LET t == Exp2AnyRegUp(Expr(fs, x.l)) IN Indexed(t.e, Exp2Val(Expr(t.fs, x.r)))
    [] x.x = "call" -> Now(Exp2NextReg(Expr(fs, x.f)), LAMBDA q : FuncArgs(q, x.args))
    [] x.x = "unary" -> Prefix(x.op, Expr(fs, x.e))
    [] x.x = "binary" ->
         Now(Infix(x.op, Expr(fs, x.l)), LAMBDA q : Posfix(x.op, q.e, Expr(q.fs, x.r)))

-----------------------------------------------------------------------------
(* Grammar rules: statements                                                *)

Block(fs, stats) == Now(StatList(EnterBlock(fs, FALSE), stats, FALSE), LeaveBlock)

\* check_conflict: targets that use the variable assigned now get a copy of it.
Conflicts(lh, e) ==
  lh.k = "INDEXED" /\ ((lh.info.vt = e.k /\ lh.info.t = e.info) \/ (e.k = "LOCAL" /\ lh.info.idx = e.info))
SafeCopy(lh, e, extra) ==
  IF ~Conflicts(lh, e) THEN lh
  ELSE LET table == lh.info.vt = e.k /\ lh.info.t = e.info
           index == e.k = "LOCAL" /\ lh.info.idx = e.info
       IN [lh EXCEPT !.info = [t |-> IF table THEN extra ELSE @.t, vt |-> IF table THEN "LOCAL" ELSE @.vt,
                               idx |-> IF index THEN extra ELSE @.idx]]

CheckConflict(fs, lhs, e) ==
  IF e.k = "INDEXED" \/ ~\E i \in DOMAIN lhs : Conflicts(lhs[i], e) THEN [fs |-> fs, lhs |-> Append(lhs, e)]
  ELSE [fs |-> ReserveRegs(Code(fs, IF e.k = "LOCAL" THEN "MOVE" ELSE "GETUPVAL", fs.freereg, e.info, 0), 1),
        lhs |-> Append([i \in DOMAIN lhs |-> SafeCopy(lhs[i], e, fs.freereg)], e)]

Assignment(fs, vars, exps) ==
  LET nvars == Len(vars)
      nexps == Len(exps)
      target(s, x) == LET p == Expr(s.fs, x) IN CheckConflict(p.fs, s.lhs, p.e)
      left == FoldLeft(target, [fs |-> fs, lhs |-> <<>>], vars)
      lhs == Reverse(left.lhs)
      default(s, v) == StoreVar(v, P(s, Exp("NONRELOC", s.freereg - 1)))
      adjusted(e) == LET s == AdjustAssign(nvars, nexps, e)
                     IN IF nexps > nvars THEN [s EXCEPT !.freereg = @ - (nexps - nvars)] ELSE s
      store(e) == IF nvars = nexps THEN FoldLeft(default, StoreVar(lhs[1], SetOneRet(e)), Tail(lhs))
                  ELSE FoldLeft(default, adjusted(e), lhs)
  IN Now(ExpList(left.fs, exps), store)

Cond(fs, x) ==
  LET p == Expr(fs, x) IN GoIfTrue(IF p.e.k = "NIL" THEN P(p.fs, [p.e EXCEPT !.k = "FALSE"]) ELSE p)

GotoStat(fs, name, pc) ==
  FindLabel([fs EXCEPT !.gotos = Append(@, LabelEntry(fs, name, pc))], Len(fs.gotos) + 1)

\* The labels that follow at once are done first.
RECURSIVE LabelStat(_, _, _)
LabelStat(fs, stats, until) ==
  LET l == Len(fs.labels) + 1
      repeated == \E i \in Bl(fs).firstlabel + 1 .. l - 1 : fs.labels[i].name = stats[1].name
      f1 == [fs EXCEPT !.labels = Append(@, LabelEntry(fs, stats[1].name, Pc(fs))), !.error = @ \/ repeated]
      more == Len(stats) > 1 /\ stats[2].s = "label"
      f2 == IF more THEN LabelStat(f1, Tail(stats), until) ELSE f1
      last == ~until /\ \A i \in DOMAIN stats : stats[i].s = "label"
      f3 == IF last THEN [f2 EXCEPT !.labels[l].nactvar = Bl(f2).nactvar] ELSE f2
  IN FindGotos(f3, f3.labels[l], Bl(f3).firstgoto + 1)

WhileStat(fs, stat) ==
  LET init == GetLabel(fs)
      loop(c) == LET body == Block(EnterBlock(c.fs, TRUE), stat.body)
                     back == PatchList(Jump(body), Pc(body), Pc(init))
                 IN PatchToHere(LeaveBlock(back), c.e.f)
  IN Now(Cond(init, stat.cond), loop)

RepeatStat(fs, stat) ==
  LET init == GetLabel(fs)
      loop(body) ==
        LET c == Cond(body, stat.cond)
            closed == IF Bl(c.fs).upval THEN PatchClose(c.fs, c.e.f, Bl(c.fs).nactvar) ELSE c.fs
        IN LeaveBlock(PatchList(LeaveBlock(closed), c.e.f, Pc(init)))
  IN Now(StatList(EnterBlock(EnterBlock(init, TRUE), FALSE), stat.body, TRUE), loop)

\* forstat, fornum and forbody
ForStat(fs0, stat) ==
  LET fs == EnterBlock(fs0, TRUE)
      base == fs.freereg
      exp1(s, x) == Exp2NextReg(Expr(s, x)).fs
      limits == exp1(exp1(fs, stat.first), stat.limit)
      step == ReserveRegs(Code(limits, "LOADK", limits.freereg, Number(1), 0), 1)
      control == AdjustLocalVars(step, <<"(for index)", "(for limit)", "(for step)">>)
      prep == Code(control, "FORPREP", base, NO_JUMP, 0)
      scope == ReserveRegs(AdjustLocalVars(EnterBlock(prep, FALSE), <<stat.name>>), 1)
      end == PatchToHere(LeaveBlock(Block(scope, stat.body)), Pc(control))
      loop == PatchList(Code(end, "FORLOOP", base, NO_JUMP, 0), Pc(end), Pc(prep))
  IN LeaveBlock(loop)

\* test_then_block; the jump that skips the block and the escape list.
ThenBlock(fs, stat) ==
  LET p == Expr(fs, stat.cond)
      jumps == stat.then # <<>> /\ stat.then[1].s = "goto"
      no == GoIfFalse(p)
      gone == GotoStat(EnterBlock(no.fs, FALSE), stat.then[1].name, no.e.t)
      yes == GoIfTrue(p)
      start == IF jumps THEN Jump(gone) ELSE EnterBlock(yes.fs, FALSE)
      jf == IF jumps THEN Pc(gone) ELSE yes.e.f
      then == Now(StatList(start, IF jumps THEN Tail(stat.then) ELSE stat.then, FALSE), LeaveBlock)
      hasElse == stat.else # <<>>
  IN IF jumps /\ Len(stat.then) = 1 THEN [fs |-> LeaveBlock(gone), escape |-> NO_JUMP]
     ELSE [fs |-> PatchToHere(IF hasElse THEN Jump(then) ELSE then, jf),
           escape |-> IF hasElse THEN Pc(then) ELSE NO_JUMP]

IfStat(fs, stat) ==
  Now(ThenBlock(fs, stat),
      LAMBDA t : PatchToHere(IF stat.else # <<>> THEN Block(t.fs, stat.else) ELSE t.fs, t.escape))

RetStat(fs, exps) ==
  LET nret == Len(exps)
      first == NActVar(fs)
      open(p) == SetReturns(p, MULTRET).fs
      tail(p) == LET t == [open(p) EXCEPT !.code[p.e.info + 1].op = "TAILCALL"]
                 IN Checked(t, At(t, p.e.info).a = first)
      one(p) == LET v == Exp2AnyReg(p) IN Code(v.fs, "RETURN", v.e.info, 2, 0)
      many(p) == LET s == Exp2NextReg(p).fs
                 IN Code(Checked(s, nret = s.freereg - first), "RETURN", first, nret + 1, 0)
      return(p) == IF HasMultRet(p.e) THEN Code(IF nret = 1 THEN tail(p) ELSE open(p), "RETURN", first, 0, 0)
                   ELSE IF nret = 1 THEN one(p) ELSE many(p)
  IN IF exps = <<>> THEN Code(fs, "RETURN", 0, 1, 0) ELSE Now(ExpList(fs, exps), return)

LocalStat(fs, names, exps) ==
  Now(IF exps = <<>> THEN P(fs, Exp("VOID", 0)) ELSE ExpList(fs, exps),
      LAMBDA p : AdjustLocalVars(AdjustAssign(Len(names), Len(exps), p), names))

ExprStat(fs, x) == LET p == Expr(fs, x) IN SetC(p.fs, p.e.info, 1)

Stat(fs, stat) ==
  CASE stat.s = "local" -> LocalStat(fs, stat.names, stat.exps)
    [] stat.s = "localfunction" -> Expr(AdjustLocalVars(fs, <<stat.name>>), stat.exp).fs
    [] stat.s = "assign" -> Assignment(fs, stat.vars, stat.exps)
    [] stat.s = "call" -> ExprStat(fs, stat.exp)
    [] stat.s = "do" -> Block(fs, stat.body)
    [] stat.s = "while" -> WhileStat(fs, stat)
    [] stat.s = "repeat" -> RepeatStat(fs, stat)
    [] stat.s = "for" -> ForStat(fs, stat)
    [] stat.s = "if" -> IfStat(fs, stat)
    [] stat.s = "goto" -> GotoStat(Jump(fs), stat.name, Pc(fs))
    [] stat.s = "return" -> RetStat(fs, stat.exps)

\* statement frees the temporary registers at its end.
Freed(fs) ==
  [Checked(fs, fs.maxstack >= fs.freereg /\ fs.freereg >= NActVar(fs)) EXCEPT !.freereg = NActVar(fs)]

\* The first statement, or the labels that come first, and what is left.
First(fs, stats, until) ==
  LET others == {i \in DOMAIN stats : stats[i].s # "label"}
      n == IF others = {} THEN Len(stats) ELSE (CHOOSE i \in others : \A j \in others : i <= j) - 1
  IN IF n > 0 THEN [fs |-> Freed(LabelStat(fs, stats, until)), rest |-> SubSeq(stats, n + 1, Len(stats))]
     ELSE [fs |-> Freed(Stat(fs, stats[1])), rest |-> Tail(stats)]

StatList(fs, stats, until) ==
  IF stats = <<>> THEN fs
  ELSE Now(fs, LAMBDA s : Now(First(s, stats, until), LAMBDA r : StatList(r.fs, r.rest, until)))

\* luaY_parser: the main function has the environment as its upvalue.
Parser(params, stats) ==
  LET main == [NewFunc(NoFunc) EXCEPT !.upvalues = <<[name |-> "_ENV", instack |-> TRUE, idx |-> 0]>>]
      fs == Body([main EXCEPT !.blocks = <<[isloop |-> FALSE, nactvar |-> 0, upval |-> FALSE,
                                            firstlabel |-> 0, firstgoto |-> 0]>>], params, stats).fs
  IN [error |-> fs.error, broken |-> fs.broken, proto |-> fs.protos[1]]
=============================================================================
