------------------------- MODULE DebugSessionProofs -------------------------
(***************************************************************************)
(* Proofs about DebugSession, for every number of requests, every nesting  *)
(* bound and every choice of options.                                      *)
(***************************************************************************)
EXTENDS DebugSession, SequenceTheorems, TLAPS

-----------------------------------------------------------------------------
(* What the operations on the stack of activations do to it.                *)

LEMMA PopLength ==
  ASSUME NEW n \in Nat, n >= 1
  PROVE  (IF 1 <= n - 1 THEN (n - 1) - 1 + 1 ELSE 0) = n - 1
OBVIOUS

LEMMA PopFacts ==
  ASSUME NEW S, NEW s \in Seq(S), s # <<>>
  PROVE  /\ Pop(s) \in Seq(S)
         /\ Len(Pop(s)) = Len(s) - 1
         /\ \A i \in 1..(Len(s) - 1) : Pop(s)[i] = s[i]
<1>1. Len(s) \in Nat /\ Len(s) >= 1
  BY EmptySeq
<1>2. \A i \in 1..(Len(s) - 1) : s[i] \in S
  BY <1>1, ElementOfSeq
<1>3. Len(SubSeq(s, 1, Len(s) - 1)) = Len(s) - 1
  <2>1. Len(s) - 1 \in Int
    BY <1>1
  <2>2. Len(SubSeq(s, 1, Len(s) - 1)) =
          IF 1 <= Len(s) - 1 THEN (Len(s) - 1) - 1 + 1 ELSE 0
    BY <1>2, <2>1, SubSeqProperties
  <2> QED BY <1>1, <2>2, PopLength
<1> QED
  BY <1>1, <1>3 DEF Pop

LEMMA HandlingFacts ==
  ASSUME stack \in Seq(Frames), stack # <<>>,
         NEW r \in Requests \cup {NoReq}, Handling(r)
  PROVE  /\ stack' \in Seq(Frames)
         /\ Len(stack') = Len(stack)
         /\ \A i \in 1..Len(stack) :
              stack'[i] = IF i = Len(stack) THEN [kind |-> Top.kind, cur |-> r]
                                            ELSE stack[i]
<1>1. Len(stack) \in Nat /\ Len(stack) >= 1
  BY EmptySeq
<1>2. \A i \in 1..Len(stack) : stack[i] \in Frames
  BY ElementOfSeq
<1>3. [Top EXCEPT !.cur = r] = [kind |-> Top.kind, cur |-> r]
  BY <1>1, <1>2 DEF Top, Frames
<1>4. [kind |-> Top.kind, cur |-> r] \in Frames
  BY <1>1, <1>2 DEF Top, Frames
<1>5. stack' = [stack EXCEPT ![Len(stack)] = [kind |-> Top.kind, cur |-> r]]
  BY <1>3 DEF Handling, Top
<1> QED
  BY <1>1, <1>2, <1>4, <1>5, ExceptSeq

LEMMA FrameType ==
  ASSUME NEW k \in Kinds
  PROVE  Frame(k) \in Frames /\ Frame(k).kind = k /\ Frame(k).cur = NoReq
BY DEF Frame, Frames

LEMMA NoReqFacts == NoReq.seq = 0 /\ NoReq.cmd = "none"
BY DEF NoReq

LEMMA PopType ==
  ASSUME NEW S, NEW s \in Seq(S)
  PROVE  Pop(s) \in Seq(S)
<1>1. Len(s) \in Nat /\ \A i \in 1..Len(s) : s[i] \in S
  BY LenProperties, ElementOfSeq
<1>2. Len(s) - 1 \in Int /\ \A i \in 1..(Len(s) - 1) : i \in 1..Len(s)
  BY <1>1
<1> QED
  BY <1>1, <1>2, SubSeqProperties DEF Pop

LEMMA TopType ==
  ASSUME stack \in Seq(Frames), stack # <<>>
  PROVE  /\ Top \in Frames /\ Len(stack) \in Nat \ {0}
         /\ Top.kind \in Kinds /\ Top.cur \in Requests \cup {NoReq}
<1>1. Len(stack) \in Nat \ {0}
  BY EmptySeq
<1>2. Len(stack) \in 1..Len(stack)
  BY <1>1
<1>3. Top \in Frames
  BY <1>2, ElementOfSeq DEF Top
<1> QED
  BY <1>1, <1>3 DEF Frames

\* startDebugLoop, on whatever activations are left below.
LEMMA StartDebugLoopType ==
  ASSUME TypeOK, NEW s \in Seq(Frames),
         NEW k \in {"pause", "api", "apiCo", "halt", "step"}, StartDebugLoop(s, k)
  PROVE  /\ stack' \in Seq(Frames) /\ stored' \in Seq(Seqs)
         /\ baseDepth' \in {"nil", "enter", "zero", "halt", "step"}
         /\ d2c' \in Seq(Replies \cup {Stopped})
         /\ raising' \in BOOLEAN /\ nested' \in BOOLEAN
<1>1. k \in Kinds /\ "line" \in Kinds
  BY DEF Kinds, LoopKinds, HookKinds
<1>2. /\ Append(s, Frame(k)) \in Seq(Frames)
      /\ Append(s, Frame("line")) \in Seq(Frames)
  BY <1>1, FrameType, AppendProperties
<1>3. stack' \in Seq(Frames)
  BY <1>2 DEF StartDebugLoop
<1>4. stored' \in Seq(Seqs)
  <2>1. <<>> \in Seq(Seqs)
    BY EmptySeq
  <2> QED BY <2>1 DEF StartDebugLoop, TypeOK
<1>5. baseDepth' \in {"nil", "enter", "zero", "halt", "step"}
  BY DEF StartDebugLoop, NewBase
<1>6. raising' \in BOOLEAN /\ nested' \in BOOLEAN
  BY DEF StartDebugLoop, Deliver, Break, TypeOK
<1>7. d2c \o <<Stopped>> \in Seq(Replies \cup {Stopped})
  <2>1. <<Stopped>> \in Seq(Replies \cup {Stopped})
    OBVIOUS
  <2> QED BY <2>1, ConcatProperties DEF TypeOK
<1>8. d2c' \in Seq(Replies \cup {Stopped})
  BY <1>7 DEF StartDebugLoop, Deliver, Accept, Break, TypeOK
<1> QED
  BY <1>3, <1>4, <1>5, <1>6, <1>8

LEMMA LoopReturnedType ==
  ASSUME TypeOK, stack # <<>>, LoopReturned(stack)
  PROVE  /\ stack' \in Seq(Frames) /\ entered' \in BOOLEAN
         /\ phase' \in {"init", "welcome", "loop", "live", "offline", "aborted"}
<1>1. Pop(stack) \in Seq(Frames) /\ Pop(Pop(stack)) \in Seq(Frames)
  BY PopType DEF TypeOK
<1>2. Append(Pop(stack), Frame("line")) \in Seq(Frames)
  BY <1>1, FrameType, AppendProperties DEF Kinds, LoopKinds, HookKinds
<1> QED
  BY <1>1, <1>2 DEF LoopReturned, TypeOK


-----------------------------------------------------------------------------
(* Type correctness.                                                        *)

\* What a request carries, and what is said in answer to it.
LEMMA ResponseType ==
  ASSUME TypeOK, NEW r \in Requests, NEW new \in 0..MaxSeq
  PROVE  Response(r, new) \in Replies
<1>1. Lookup(r.ref) \in 0..MaxSeq
  <2>1. CASE r.ref \in 1..Len(stored)
    <3>1. stored[r.ref] \in Seqs
      BY <2>1, ElementOfSeq DEF TypeOK
    <3> QED BY <2>1, <3>1, MaxSeqAssumption DEF Lookup, Seqs
  <2>2. CASE r.ref \notin 1..Len(stored)
    BY <2>2, MaxSeqAssumption DEF Lookup
  <2> QED BY <2>1, <2>2
<1> QED
  BY <1>1, MaxSeqAssumption DEF Response, Requests, Replies

LEMMA DeliverType ==
  ASSUME TypeOK, NEW m \in Replies \cup {Stopped}, Deliver(<<m>>) \/ Break
  PROVE  d2c' \in Seq(Replies \cup {Stopped}) /\ raising' \in BOOLEAN
<1>1. <<m>> \in Seq(Replies \cup {Stopped})
  OBVIOUS
<1>2. d2c \o <<m>> \in Seq(Replies \cup {Stopped})
  BY <1>1, ConcatProperties DEF TypeOK
<1> QED
  BY <1>2 DEF Deliver, Accept, Break, TypeOK

LEMMA TakeType ==
  ASSUME TypeOK, c2d # <<>>
  PROVE  Tail(c2d) \in Seq(Requests) /\ Head(c2d) \in Requests
BY HeadTailProperties DEF TypeOK

\* Every variable keeps its type (debuggee.start, poll, debugLoop, hookfunc).
THEOREM TypeCorrect == Spec => []TypeOK
<1>1. Init => TypeOK
  <2> SUFFICES ASSUME Init PROVE TypeOK
    OBVIOUS
  <2>1. /\ <<>> \in Seq(Requests) /\ <<>> \in Seq(Replies \cup {Stopped})
        /\ <<>> \in Seq(Frames) /\ <<>> \in Seq(Seqs)
    BY EmptySeq
  <2>2. answers \in [Seqs -> Nat] /\ nextSeq \in 1..(MaxSeq + 1)
    BY MaxSeqAssumption DEF Init
  <2>3. /\ connected \in BOOLEAN /\ torn \in BOOLEAN /\ entered \in BOOLEAN
        /\ armed \in BOOLEAN /\ bps \in BOOLEAN /\ raising \in BOOLEAN
        /\ noticed \in BOOLEAN /\ failed \in BOOLEAN /\ nested \in BOOLEAN
    BY Zenon DEF Init
  <2>4. /\ cview \in {"none", "config", "running", "stopped", "gone"}
        /\ refs \subseteq [ref : Seqs, val : Seqs]
        /\ phase \in {"init", "welcome", "loop", "live", "offline", "aborted"}
        /\ baseDepth \in {"nil", "enter", "zero", "halt", "step"}
        /\ print \in {"original", "redirected"} /\ steps \in Int
    BY DEF Init
  <2>5. /\ c2d \in Seq(Requests) /\ d2c \in Seq(Replies \cup {Stopped})
        /\ stack \in Seq(Frames) /\ stored \in Seq(Seqs)
    BY <2>1, Zenon DEF Init
  <2> QED
    BY <2>2, <2>3, <2>4, <2>5, Zenon DEF TypeOK
<1>2. TypeOK /\ [Next]_vars => TypeOK'
  <2> SUFFICES ASSUME TypeOK, [Next]_vars PROVE TypeOK'
    OBVIOUS
  <2> USE DEF clientVars, wireVars, hookVars, dataVars, history
  <2>1. ASSUME ClientSend PROVE TypeOK'
    <3>1. c2d' \in Seq(Requests)
      <4>1. PICK cmd \in Offered : \E o \in Operands(cmd) :
              c2d' = Append(c2d, [seq |-> nextSeq, cmd |-> cmd,
                                  ref |-> o.ref, val |-> o.val])
        BY <2>1 DEF ClientSend
      <4>0. PICK o \in Operands(cmd) :
              c2d' = Append(c2d, [seq |-> nextSeq, cmd |-> cmd,
                                  ref |-> o.ref, val |-> o.val])
        BY <4>1
      <4>2. cmd \in Commands
        BY DEF Offered, Commands, ResumeCmds, StepCmds
      <4>3. o.ref \in 0..MaxSeq /\ o.val \in 0..MaxSeq
        BY MaxSeqAssumption DEF Operands, TypeOK, Seqs
      <4>4. nextSeq \in Seqs
        BY <2>1, MaxSeqAssumption DEF ClientSend, TypeOK, Seqs
      <4>5. [seq |-> nextSeq, cmd |-> cmd, ref |-> o.ref, val |-> o.val] \in Requests
        BY <4>2, <4>3, <4>4 DEF Requests
      <4> QED BY <4>0, <4>5, AppendProperties DEF TypeOK
    <3>2. nextSeq' \in 1..(MaxSeq + 1)
      BY <2>1, MaxSeqAssumption DEF ClientSend, TypeOK
    <3>3. /\ cview' \in {"none", "config", "running", "stopped", "gone"}
          /\ refs' \subseteq [ref : Seqs, val : Seqs]
      BY <2>1 DEF ClientSend, TypeOK
    <3> QED BY <2>1, <3>1, <3>2, <3>3 DEF ClientSend, TypeOK
  <2>2. ASSUME ClientReceive PROVE TypeOK'
    <3>1. /\ d2c' \in Seq(Replies \cup {Stopped})
          /\ Head(d2c) \in Replies \cup {Stopped}
      BY <2>2, HeadTailProperties DEF ClientReceive, TypeOK
    <3>2. refs' \subseteq [ref : Seqs, val : Seqs]
      <4>1. CASE Head(d2c).type = "stopped"
        BY <2>2, <4>1 DEF ClientReceive
      <4>2. CASE Head(d2c).type # "stopped"
        <5>1. Head(d2c) \in Replies
          BY <3>1, <4>2 DEF Stopped
        <5>2. Head(d2c).ref # 0 => Head(d2c).ref \in Seqs
          BY <5>1, MaxSeqAssumption DEF Replies, Seqs
        <5>3. Head(d2c).seq \in Seqs
          BY <5>1 DEF Replies
        <5> QED BY <2>2, <4>2, <5>2, <5>3 DEF ClientReceive, TypeOK
      <4> QED BY <4>1, <4>2
    <3>3. cview' \in {"none", "config", "running", "stopped", "gone"}
      BY <2>2 DEF ClientReceive, TypeOK
    <3> QED BY <2>2, <3>1, <3>2, <3>3 DEF ClientReceive, TypeOK
  <2>3. ASSUME ClientClose PROVE TypeOK'
    <3>1. \A n \in 0..Len(c2d) : SubSeq(c2d, 1, n) \in Seq(Requests)
      <4> TAKE n \in 0..Len(c2d)
      <4>1. n \in Int /\ \A i \in 1..n : c2d[i] \in Requests
        BY LenProperties, ElementOfSeq DEF TypeOK
      <4> QED BY <4>1, SubSeqProperties
    <3>2. c2d' \in Seq(Requests) /\ d2c' \in Seq(Replies \cup {Stopped})
      BY <2>3, <3>1, EmptySeq DEF ClientClose
    <3>3. connected' \in BOOLEAN /\ torn' \in BOOLEAN
      BY <2>3, Zenon DEF ClientClose
    <3>4. refs' \subseteq [ref : Seqs, val : Seqs] /\ cview' = "gone"
      BY <2>3 DEF ClientClose
    <3>5. UNCHANGED <<nextSeq, phase, stack, hookVars, dataVars, raising, history>>
      BY <2>3 DEF ClientClose
    <3> QED BY <3>2, <3>3, <3>4, <3>5 DEF TypeOK
  <2>4. ASSUME StartConnect PROVE TypeOK'
    <3>1. connected' \in BOOLEAN
      BY <2>4, Zenon DEF StartConnect, TypeOK
    <3>2. /\ phase' \in {"init", "welcome", "loop", "live", "offline", "aborted"}
          /\ cview' \in {"none", "config", "running", "stopped", "gone"}
      BY <2>4 DEF StartConnect, TypeOK
    <3>3. UNCHANGED <<nextSeq, refs, c2d, d2c, torn, stack, hookVars, dataVars,
                      raising, history>>
      BY <2>4 DEF StartConnect
    <3>4. /\ nextSeq' \in 1..(MaxSeq + 1) /\ refs' \subseteq [ref : Seqs, val : Seqs]
          /\ c2d' \in Seq(Requests) /\ d2c' \in Seq(Replies \cup {Stopped})
          /\ stack' \in Seq(Frames) /\ stored' \in Seq(Seqs)
          /\ answers' \in [Seqs -> Nat] /\ steps' \in Int
      BY <3>3 DEF TypeOK
    <3>5. /\ torn' \in BOOLEAN /\ entered' \in BOOLEAN /\ armed' \in BOOLEAN
          /\ bps' \in BOOLEAN /\ raising' \in BOOLEAN
          /\ noticed' \in BOOLEAN /\ failed' \in BOOLEAN /\ nested' \in BOOLEAN
      BY <3>3, Zenon DEF TypeOK
    <3>6. /\ baseDepth' \in {"nil", "enter", "zero", "halt", "step"}
          /\ print' \in {"original", "redirected"}
      BY <3>3 DEF TypeOK
    <3> QED BY <3>1, <3>2, <3>4, <3>5, <3>6, Zenon DEF TypeOK
  <2>5. ASSUME StartWelcome PROVE TypeOK'
    <3>1. stack' \in Seq(Frames)
      <4>1. Frame("start") \in Frames
        BY FrameType DEF Kinds, LoopKinds
      <4>2. <<Frame("start")>> \in Seq(Frames)
        BY <4>1
      <4> QED BY <2>5, <4>2, Zenon DEF StartWelcome, TypeOK
    <3>2. stored' \in Seq(Seqs)
      BY <2>5, EmptySeq DEF StartWelcome, TypeOK
    <3> QED BY <2>5, <3>1, <3>2 DEF StartWelcome, TypeOK
  <2>6. ASSUME PollBegin PROVE TypeOK'
    <3>1. Frame("poll") \in Frames
      BY FrameType DEF Kinds
    <3>2. stack' \in Seq(Frames)
      BY <2>6, <3>1 DEF PollBegin
    <3> QED BY <2>6, <3>2 DEF PollBegin, TypeOK
  <2>7. ASSUME PollTimeout PROVE TypeOK'
    <3>1. stack' \in Seq(Frames)
      BY <2>7, PopType DEF PollTimeout, TypeOK
    <3> QED BY <2>7, <3>1 DEF PollTimeout, TypeOK
  <2>8. ASSUME PollPause PROVE TypeOK'
    <3>1. c2d' \in Seq(Requests)
      BY <2>8, TakeType DEF PollPause
    <3>2. stack \in Seq(Frames) /\ StartDebugLoop(stack, "pause")
      BY <2>8 DEF PollPause, TypeOK
    <3> QED BY <2>8, <3>1, <3>2, StartDebugLoopType DEF PollPause, TypeOK
  <2>9. ASSUME DropPause PROVE TypeOK'
    <3>1. c2d' \in Seq(Requests)
      BY <2>9, TakeType DEF DropPause
    <3> QED BY <2>9, <3>1 DEF DropPause, TypeOK
  <2>10. ASSUME Take PROVE TypeOK'
    <3>1. c2d' \in Seq(Requests) /\ stack' \in Seq(Frames)
      BY <2>10, TakeType, HandlingFacts DEF Take, Idle, At, TypeOK
    <3>2. bps' \in BOOLEAN /\ armed' \in BOOLEAN /\ raising' \in BOOLEAN /\ steps' \in Int
      BY <2>10 DEF Take, TypeOK
    <3> QED BY <2>10, <3>1, <3>2 DEF Take, TypeOK
  <2>11. ASSUME Answer \/ AnswerAndResume PROVE TypeOK'
    <3> DEFINE r == Top.cur
    <3>1. stack # <<>> /\ r \in Requests
      BY <2>11, TopType DEF Answer, AnswerAndResume, Busy, At, TypeOK
    <3>2. answers' \in [Seqs -> Nat]
      <4>1. answers' = answers \/ answers' = [answers EXCEPT ![r.seq] = @ + 1]
        BY <2>11, Zenon DEF Answer, AnswerAndResume
      <4>2. answers \in [Seqs -> Nat] /\ r.seq \in Seqs
        BY <3>1 DEF TypeOK, Requests
      <4> QED BY <4>1, <4>2
    <3>3. d2c' \in Seq(Replies \cup {Stopped}) /\ raising' \in BOOLEAN
      <4>1. PICK new \in 0..MaxSeq : Deliver(<<Response(r, new)>>) \/ Break
        BY <2>11, MaxSeqAssumption DEF Answer, AnswerAndResume
      <4> QED BY <3>1, <4>1, ResponseType, DeliverType
    <3>4. stored' \in Seq(Seqs)
      <4>1. r.seq \in Seqs
        BY <3>1 DEF Requests
      <4>2. CASE Answer
        <5>1. stored' = stored \/ stored' = Append(stored, r.seq)
          BY <4>2, Zenon DEF Answer, Registers
        <5>2. Append(stored, r.seq) \in Seq(Seqs)
          BY <4>1, AppendProperties DEF TypeOK
        <5> QED BY <5>1, <5>2 DEF TypeOK
      <4>3. CASE AnswerAndResume
        BY <4>3, EmptySeq DEF AnswerAndResume, TypeOK
      <4> QED BY <2>11, <4>2, <4>3
    <3>5. /\ stack' \in Seq(Frames) /\ entered' \in BOOLEAN
          /\ phase' \in {"init", "welcome", "loop", "live", "offline", "aborted"}
      <4>1. Handling(NoReq) => stack' \in Seq(Frames)
        BY <3>1, HandlingFacts DEF TypeOK
      <4> QED BY <2>11, <3>1, <4>1, LoopReturnedType DEF Answer, AnswerAndResume, TypeOK
    <3> QED
      BY <2>11, <3>2, <3>3, <3>4, <3>5 DEF Answer, AnswerAndResume, TypeOK
  <2>13. ASSUME HandlerError PROVE TypeOK'
    <3>1. stack' \in Seq(Frames)
      BY <2>13, HandlingFacts DEF HandlerError, Busy, At, TypeOK
    <3> QED BY <2>13, <3>1 DEF HandlerError, TypeOK
  <2>14. ASSUME LoopEof PROVE TypeOK'
    <3>1. /\ stack' \in Seq(Frames) /\ entered' \in BOOLEAN
          /\ phase' \in {"init", "welcome", "loop", "live", "offline", "aborted"}
      BY <2>14, LoopReturnedType DEF LoopEof, AtEof, Idle, At, TypeOK
    <3>2. stored' \in Seq(Seqs)
      BY <2>14, EmptySeq DEF LoopEof, TypeOK
    <3>3. torn' \in BOOLEAN /\ noticed' \in BOOLEAN /\ raising' \in BOOLEAN
      BY <2>14, Zenon DEF LoopEof, TypeOK
    <3>4. print' \in {"original", "redirected"}
      BY <2>14 DEF LoopEof, TypeOK
    <3> QED BY <2>14, <3>1, <3>2, <3>3, <3>4 DEF LoopEof, TypeOK
  <2>15. ASSUME PollEof PROVE TypeOK'
    <3>1. stack' \in Seq(Frames)
      BY <2>15, PopType DEF PollEof, TypeOK
    <3>2. torn' \in BOOLEAN /\ noticed' \in BOOLEAN /\ raising' \in BOOLEAN
      BY <2>15, Zenon DEF PollEof, TypeOK
    <3> QED BY <2>15, <3>1, <3>2 DEF PollEof, TypeOK
  <2>16. ASSUME StepStop \/ BreakpointStop \/ LineBreakpoint \/ ApiStop PROVE TypeOK'
    <3>1. PICK s \in Seq(Frames), k \in {"api", "apiCo", "halt", "step"} :
            StartDebugLoop(s, k)
      <4>1. stack \in Seq(Frames) /\ Pop(stack) \in Seq(Frames)
        BY PopType DEF TypeOK
      <4> QED BY <2>16, <4>1, ApiKindsAssumption
              DEF StepStop, BreakpointStop, LineBreakpoint, ApiStop
    <3>2. /\ stack' \in Seq(Frames) /\ stored' \in Seq(Seqs)
          /\ baseDepth' \in {"nil", "enter", "zero", "halt", "step"}
          /\ d2c' \in Seq(Replies \cup {Stopped})
          /\ raising' \in BOOLEAN /\ nested' \in BOOLEAN
      BY <3>1, StartDebugLoopType
    <3>3. entered' \in BOOLEAN /\ armed' \in BOOLEAN /\ steps' \in Int
      <4>1. entered' \in BOOLEAN /\ armed' \in BOOLEAN
        BY <2>16, Zenon DEF StepStop, BreakpointStop, LineBreakpoint, ApiStop, TypeOK
      <4>2. steps' \in Int
        BY <2>16 DEF StepStop, BreakpointStop, LineBreakpoint, ApiStop, TypeOK
      <4> QED BY <4>1, <4>2
    <3> QED BY <2>16, <3>2, <3>3
            DEF StepStop, BreakpointStop, LineBreakpoint, ApiStop, TypeOK
  <2>19. ASSUME LineReturn PROVE TypeOK'
    <3>1. stack' \in Seq(Frames)
      BY <2>19, PopType DEF LineReturn, TypeOK
    <3>2. entered' \in BOOLEAN
      BY <2>19, Zenon DEF LineReturn
    <3> QED BY <2>19, <3>1, <3>2 DEF LineReturn, TypeOK
  <2>21. ASSUME GamePrintFails PROVE TypeOK'
    BY <2>21 DEF GamePrintFails, TypeOK
  <2>22. ASSUME ErrorEscapes PROVE TypeOK'
    <3>1. stack' \in Seq(Frames)
      BY <2>22, PopType DEF ErrorEscapes, TypeOK
    <3>2. raising' \in BOOLEAN /\ failed' \in BOOLEAN
      BY <2>22 DEF ErrorEscapes, TypeOK
    <3> QED BY <2>22, <3>1, <3>2 DEF ErrorEscapes, TypeOK
  <2>23. ASSUME LoopFails PROVE TypeOK'
    <3>1. Pop(stack) \in Seq(Frames) /\ Append(Pop(stack), Frame("line")) \in Seq(Frames)
      BY PopType, FrameType, AppendProperties DEF TypeOK, Kinds
    <3>2. /\ stack' \in Seq(Frames) /\ entered' \in BOOLEAN /\ raising' \in BOOLEAN
          /\ phase' \in {"init", "welcome", "loop", "live", "offline", "aborted"}
      BY <2>23, <3>1, LoopReturnedType DEF LoopFails, TypeOK
    <3> QED BY <2>23, <3>2 DEF LoopFails, TypeOK
  <2>24. ASSUME EvaluateCatches PROVE TypeOK'
    <3>1. raising' \in BOOLEAN
      BY <2>24, Zenon DEF EvaluateCatches
    <3> QED BY <2>24, <3>1 DEF EvaluateCatches, TypeOK
  <2>25. ASSUME UNCHANGED vars PROVE TypeOK'
    BY <2>25 DEF vars, TypeOK
  <2> QED
    BY <2>1, <2>2, <2>3, <2>4, <2>5, <2>6, <2>7, <2>8, <2>9, <2>10, <2>11,
       <2>13, <2>14, <2>15, <2>16, <2>19, <2>21, <2>22, <2>23, <2>24, <2>25
    DEF Next, Client, Adapter, Game, GameFrame
<1> QED
  BY <1>1, <1>2, PTL DEF Spec

-----------------------------------------------------------------------------
(* Step requests and stops.                                                 *)

\* Each next, stepIn or stepOut request makes the step callback stop at most
\* once: step() removes the callback before it opens its debug loop.
THEOREM StepsAreConsumed == Spec => []OneStopPerStep
<1>1. Init => OneStopPerStep
  BY DEF Init, OneStopPerStep
<1>2. TypeOK /\ OneStopPerStep /\ [Next]_vars => OneStopPerStep'
  <2> SUFFICES ASSUME TypeOK, OneStopPerStep, [Next]_vars PROVE OneStopPerStep'
    OBVIOUS
  <2> USE DEF hookVars, history
  <2>1. CASE Take
    <3>1. CASE Head(c2d).cmd \in StepCmds
      BY <2>1, <3>1 DEF Take, OneStopPerStep, TypeOK
    <3>2. CASE Head(c2d).cmd \notin StepCmds
      <4>1. steps' = steps /\ (armed' => armed)
        BY <2>1, <3>2 DEF Take
      <4> QED BY <4>1 DEF OneStopPerStep, TypeOK
    <3> QED BY <3>1, <3>2
  <2>2. CASE StepStop
    BY <2>2 DEF StepStop, OneStopPerStep, TypeOK
  <2>3. CASE UNCHANGED <<armed, steps>>
    BY <2>3 DEF OneStopPerStep
  <2>4. Next /\ ~Take /\ ~StepStop => UNCHANGED <<armed, steps>>
    BY DEF Next, Client, Adapter, Game, ClientSend, ClientReceive, ClientClose,
           StartConnect, StartWelcome, PollBegin, PollTimeout, PollPause, DropPause,
           Answer, AnswerAndResume, HandlerError, LoopEof, PollEof, BreakpointStop,
           LineBreakpoint, LineReturn, ApiStop, GameFrame, GamePrintFails,
           ErrorEscapes, LoopFails, EvaluateCatches, vars
  <2> QED
    BY <2>1, <2>2, <2>3, <2>4 DEF vars
<1> QED
  BY <1>1, <1>2, TypeCorrect, PTL DEF Spec

-----------------------------------------------------------------------------
(* The re-entry guard of hookfunc.                                          *)

HK == HookKinds \cup {"line"}
NoHook(s) == \A i \in 1..Len(s) : s[i].kind \notin HK

\* The guard on its own is not inductive.  While an error propagates out of the
\* tail of hookfunc the connection is down, which is what later leaves the guard
\* behind; and before start has connected nothing has been hooked yet.
GuardInv ==
  /\ HookGuard
  /\ raising /\ stack # <<>> /\ Top.kind = "line" => ~connected
  /\ phase \in {"init", "welcome"} => stack = <<>> /\ ~entered /\ ~armed

LEMMA PopPrefix ==
  ASSUME NEW S, NEW s \in Seq(S)
  PROVE  /\ Pop(s) \in Seq(S) /\ Len(Pop(s)) \in Nat /\ Len(s) \in Nat
         /\ \A i \in 1..Len(Pop(s)) : i \in 1..Len(s) /\ i # Len(s) /\ Pop(s)[i] = s[i]
<1>1. Pop(s) \in Seq(S) /\ Len(Pop(s)) \in Nat /\ Len(s) \in Nat
  BY PopType, LenProperties
<1>2. CASE s = <<>>
  <2>1. Len(s) = 0 /\ Len(s) - 1 = -1
    BY <1>2, EmptySeq
  <2>2. Pop(s) = <<>>
    BY <2>1, SubSeqEmpty DEF Pop
  <2> QED BY <1>1, <2>2, EmptySeq
<1>3. CASE s # <<>>
  <2>1. Len(Pop(s)) = Len(s) - 1 /\ \A i \in 1..(Len(s) - 1) : Pop(s)[i] = s[i]
    BY <1>3, PopFacts
  <2>2. Len(s) - 1 \in Nat
    BY <1>1, <2>1
  <2> QED BY <1>1, <2>1, <2>2
<1> QED BY <1>2, <1>3

LEMMA AppendFrame ==
  ASSUME NEW s \in Seq(Frames), NEW k \in Kinds
  PROVE  LET t == Append(s, Frame(k)) IN
         /\ t \in Seq(Frames) /\ t # <<>> /\ Len(s) \in Nat /\ Len(t) = Len(s) + 1
         /\ \A i \in 1..Len(s) : t[i] = s[i]
         /\ t[Len(t)].kind = k /\ t[Len(t)].cur = NoReq
<1>1. Frame(k) \in Frames /\ Frame(k).kind = k /\ Frame(k).cur = NoReq
  BY FrameType
<1> QED BY <1>1, AppendProperties, LenProperties

\* Nothing but the top activation can be in the hook.
LEMMA BelowTopNoHook ==
  ASSUME TypeOK, HookGuard
  PROVE  NoHook(Pop(stack)) /\ NoHook(Pop(Pop(stack)))
<1>1. Pop(stack) \in Seq(Frames)
  BY PopType DEF TypeOK
<1>2. \A i \in 1..Len(Pop(stack)) :
        i \in 1..Len(stack) /\ i # Len(stack) /\ Pop(stack)[i] = stack[i]
  BY PopPrefix DEF TypeOK
<1>3. NoHook(Pop(stack))
  BY <1>2 DEF NoHook, HookGuard, HK
<1>4. \A i \in 1..Len(Pop(Pop(stack))) :
        i \in 1..Len(Pop(stack)) /\ Pop(Pop(stack))[i] = Pop(stack)[i]
  BY <1>1, PopPrefix
<1> QED BY <1>3, <1>4 DEF NoHook

\* Pushing on activations that are not in the hook keeps the first half of
\* HookGuard, if a push by the hook finds the guard set.
LEMMA PushKeepsGuard ==
  ASSUME NEW s \in Seq(Frames), NoHook(s), NEW k \in Kinds, k \in HK => entered',
         stack' = Append(s, Frame(k))
  PROVE  /\ \A i \in 1..Len(stack') : stack'[i].kind \in HK => entered' /\ i = Len(stack')
         /\ k \in HK => InHook'
         /\ stack' # <<>> /\ Top'.kind = k
<1>1. /\ stack' # <<>> /\ Len(s) \in Nat /\ Len(stack') = Len(s) + 1
      /\ \A i \in 1..Len(s) : stack'[i] = s[i]
      /\ stack'[Len(stack')].kind = k
  BY AppendFrame
<1>2. \A i \in 1..Len(stack') : i \in 1..Len(s) \/ i = Len(stack')
  BY <1>1
<1>3. Len(stack') \in 1..Len(stack')
  BY <1>1
<1> QED BY <1>1, <1>2, <1>3 DEF NoHook, InHook, HK, Top


\* Marking the request of the top activation changes no kind.
LEMMA HandlingKeepsGuard ==
  ASSUME TypeOK, GuardInv, stack # <<>>, Top.kind # "line",
         NEW r \in Requests \cup {NoReq}, Handling(r),
         UNCHANGED <<entered, phase>>, connected' => connected
  PROVE  GuardInv'
<1>1. /\ stack' \in Seq(Frames) /\ Len(stack') = Len(stack)
      /\ \A i \in 1..Len(stack) : stack'[i].kind = stack[i].kind
  <2>1. /\ stack' \in Seq(Frames) /\ Len(stack') = Len(stack)
        /\ \A i \in 1..Len(stack) :
             stack'[i] = IF i = Len(stack) THEN [kind |-> Top.kind, cur |-> r] ELSE stack[i]
    BY HandlingFacts DEF TypeOK
  <2> QED BY <2>1 DEF Top
<1>2. HookGuard' /\ (InHook <=> InHook')
  BY <1>1 DEF GuardInv, HookGuard, InHook
<1>3. Len(stack) \in 1..Len(stack)
  BY TopType DEF TypeOK
<1>4. Top'.kind = Top.kind
  BY <1>1, <1>3 DEF Top
<1> QED BY <1>2, <1>4 DEF GuardInv, HK

\* Dropping activations, when the top one was not in the hook or the hook has
\* released the guard.
LEMMA DropKeepsGuard ==
  ASSUME TypeOK, GuardInv, stack # <<>>,
         stack' = Pop(stack) \/ stack' = Pop(Pop(stack)),
         (Top.kind \notin HK /\ entered' = entered) \/ entered' = FALSE,
         connected' = connected, phase' \notin {"init", "welcome"}
  PROVE  GuardInv'
<1>1. NoHook(stack')
  BY BelowTopNoHook DEF GuardInv
<1>2. stack' \in Seq(Frames)
  BY PopType DEF TypeOK
<1>3. entered' /\ connected' => InHook'
  <2>1. CASE entered' = FALSE
    BY <2>1
  <2>2. CASE Top.kind \notin HK /\ entered' = entered
    <3>1. ~InHook
      BY <2>2, TopType DEF GuardInv, HookGuard, InHook, Top, TypeOK, HK
    <3> QED BY <2>2, <3>1 DEF GuardInv, HookGuard
  <2> QED BY <2>1, <2>2
<1>4. HookGuard'
  BY <1>1, <1>3 DEF HookGuard, NoHook, HK
<1>5. stack' # <<>> => Top'.kind \notin HK
  <2> SUFFICES ASSUME stack' # <<>> PROVE Top'.kind \notin HK
    OBVIOUS
  <2>1. Len(stack') \in 1..Len(stack')
    BY <1>2, EmptySeq
  <2> QED BY <1>1, <2>1 DEF NoHook, Top
<1> QED BY <1>4, <1>5 DEF GuardInv, HK

\* startDebugLoop, from the hook (the guard is set) or from outside of it (the
\* guard is as before, which with a connection means it is clear).
LEMMA StartDebugLoopKeepsGuard ==
  ASSUME TypeOK, NEW s \in Seq(Frames), NoHook(s),
         NEW k \in {"pause", "api", "apiCo", "halt", "step"}, StartDebugLoop(s, k),
         k \in HookKinds => entered',
         k \notin HookKinds => ~(entered' /\ connected'),
         connected' = connected, phase' \notin {"init", "welcome"}
  PROVE  GuardInv'
<1>1. k \in Kinds /\ "line" \in Kinds
  BY DEF Kinds, LoopKinds, HookKinds
<1>2. \/ stack' = Append(s, Frame(k))
      \/ ~connected /\ k \in HookKinds /\ stack' = Append(s, Frame("line"))
      \/ ~connected /\ stack' = s
  BY DEF StartDebugLoop, Break
<1>3. CASE stack' = Append(s, Frame(k))
  <2>1. k \in HK => k \in HookKinds
    BY DEF HK, HookKinds
  <2>2. /\ \A i \in 1..Len(stack') : stack'[i].kind \in HK => entered' /\ i = Len(stack')
        /\ k \in HK => InHook'
        /\ stack' # <<>> /\ Top'.kind = k
    BY <1>1, <1>3, <2>1, PushKeepsGuard
  <2> QED BY <2>1, <2>2 DEF GuardInv, HookGuard, HK
<1>4. CASE ~connected /\ k \in HookKinds /\ stack' = Append(s, Frame("line"))
  <2>1. \A i \in 1..Len(stack') : stack'[i].kind \in HK => entered' /\ i = Len(stack')
    BY <1>1, <1>4, PushKeepsGuard
  <2> QED BY <1>4, <2>1 DEF GuardInv, HookGuard, HK
<1>5. CASE ~connected /\ stack' = s
  <2>1. HookGuard'
    BY <1>5 DEF HookGuard, NoHook, HK
  <2> QED BY <1>5, <2>1 DEF GuardInv
<1> QED BY <1>2, <1>3, <1>4, <1>5

\* The return of a debug loop; a step loop returns into hookfunc.
LEMMA LoopReturnedKeepsGuard ==
  ASSUME TypeOK, GuardInv, stack # <<>>, Top.kind \in LoopKinds, LoopReturned(stack),
         connected' = connected, raising' = FALSE
  PROVE  GuardInv'
<1>1. phase' \notin {"init", "welcome"}
  BY DEF LoopReturned, GuardInv
<1>2. CASE Top.kind = "step"
  <2>1. stack' = Append(Pop(stack), Frame("line")) /\ entered' = entered
    BY <1>2 DEF LoopReturned, Top
  <2>2. entered
    BY <1>2, TopType DEF GuardInv, HookGuard, Top, HookKinds, TypeOK
  <2>3. Pop(stack) \in Seq(Frames) /\ NoHook(Pop(stack))
    BY PopType, BelowTopNoHook DEF TypeOK, GuardInv
  <2>4. /\ \A i \in 1..Len(stack') : stack'[i].kind \in HK => entered' /\ i = Len(stack')
        /\ "line" \in HK => InHook'
    BY <2>1, <2>2, <2>3, PushKeepsGuard DEF Kinds
  <2> QED BY <1>1, <2>4 DEF GuardInv, HookGuard, HK
<1>3. CASE Top.kind # "step"
  <2>1. stack' = Pop(stack) \/ stack' = Pop(Pop(stack))
    BY <1>3 DEF LoopReturned, Top
  <2>2. (Top.kind \notin HK /\ entered' = entered) \/ entered' = FALSE
    BY <1>3 DEF LoopReturned, Top, HK, HookKinds, LoopKinds
  <2> QED BY <1>1, <2>1, <2>2, DropKeepsGuard
<1> QED BY <1>2, <1>3


\* The guard of hookfunc and what keeps it, through every step.
LEMMA GuardInvariant == Spec => []GuardInv
<1>1. Init => GuardInv
  BY EmptySeq DEF Init, GuardInv, HookGuard
<1>2. TypeOK /\ GuardInv /\ [Next]_vars => GuardInv'
  <2> SUFFICES ASSUME TypeOK, GuardInv, [Next]_vars PROVE GuardInv'
    OBVIOUS
  <2> USE DEF clientVars, wireVars, hookVars, dataVars, history
  <2>1. CASE ClientSend \/ ClientReceive \/ ClientClose \/ DropPause \/ EvaluateCatches
             \/ UNCHANGED vars
    <3>1. UNCHANGED <<stack, entered, armed, phase>> /\ (raising' => raising)
      BY <2>1 DEF ClientSend, ClientReceive, ClientClose, DropPause, EvaluateCatches, vars
    <3>2. connected' => connected
      BY <2>1 DEF ClientSend, ClientReceive, ClientClose, DropPause, EvaluateCatches, vars
    <3> QED BY <3>1, <3>2 DEF GuardInv, HookGuard, InHook, Top
  <2>2. CASE StartConnect
    <3>1. stack = <<>> /\ ~entered /\ ~armed
      BY <2>2 DEF StartConnect, GuardInv
    <3>2. UNCHANGED <<stack, entered, armed>>
      BY <2>2 DEF StartConnect
    <3> QED BY <3>1, <3>2, EmptySeq DEF GuardInv, HookGuard
  <2>3. CASE StartWelcome
    <3>1. phase = "welcome" /\ stack = <<>> /\ ~entered /\ ~entered'
      BY <2>3 DEF StartWelcome, GuardInv
    <3>2. CASE stack' = <<Frame("start")>>
      <4>1. Frame("start").kind = "start" /\ Len(stack') = 1 /\ stack'[1] = Frame("start")
        BY <3>2 DEF Frame
      <4>2. \A i \in 1..Len(stack') : i = 1
        BY <4>1
      <4>3. NoHook(stack') /\ Top'.kind \notin HK
        BY <4>1, <4>2 DEF NoHook, Top, HK, HookKinds
      <4> QED BY <2>3, <3>1, <3>2, <4>3 DEF StartWelcome, GuardInv, HookGuard, NoHook, HK
    <3>3. CASE stack' # <<Frame("start")>>
      <4>1. stack' = <<>> /\ phase' = "aborted"
        BY <2>3, <3>1, <3>3 DEF StartWelcome
      <4> QED BY <3>1, <4>1, EmptySeq DEF GuardInv, HookGuard
    <3> QED BY <3>2, <3>3
  <2>4. CASE PollBegin
    <3>1. stack' = <<Frame("poll")>> /\ phase' = "live" /\ stack = <<>>
      BY <2>4 DEF PollBegin
    <3>2. Frame("poll").kind = "poll" /\ Len(stack') = 1 /\ stack'[1] = Frame("poll")
      BY <3>1 DEF Frame
    <3>3. \A i \in 1..Len(stack') : i = 1
      BY <3>2
    <3>4. NoHook(stack') /\ Top'.kind \notin HK
      BY <3>2, <3>3 DEF NoHook, Top, HK, HookKinds
    <3>5. ~InHook /\ UNCHANGED <<entered, connected>>
      BY <2>4, <3>1, EmptySeq DEF PollBegin, InHook
    <3> QED BY <3>1, <3>4, <3>5 DEF GuardInv, HookGuard, NoHook, HK
  <2>5. CASE PollTimeout \/ PollEof
    <3>1. /\ stack # <<>> /\ Top.kind = "poll" /\ phase' = phase /\ entered' = entered
          /\ connected' = connected
          /\ stack' = Pop(stack) \/ UNCHANGED stack
      BY <2>5 DEF PollTimeout, PollEof, AtEof, Idle, At
    <3>2. phase' \notin {"init", "welcome"} /\ Top.kind \notin HK
      BY <3>1 DEF GuardInv, HK, HookKinds
    <3>3. CASE stack' = Pop(stack)
      BY <3>1, <3>2, <3>3, DropKeepsGuard
    <3>4. CASE UNCHANGED stack
      BY <3>1, <3>2, <3>4 DEF GuardInv, HookGuard, InHook, Top, HK
    <3> QED BY <3>1, <3>3, <3>4
  <2>6. CASE PollPause
    <3>1. /\ stack # <<>> /\ Top.kind = "poll" /\ StartDebugLoop(stack, "pause")
          /\ UNCHANGED <<phase, entered, connected>>
      BY <2>6 DEF PollPause, Idle, At
    <3>2. NoHook(stack)
      BY <3>1, TopType DEF GuardInv, HookGuard, NoHook, Top, HK, HookKinds, TypeOK
    <3>3. ~(entered /\ connected)
      BY <3>2 DEF GuardInv, HookGuard, InHook, NoHook, HK
    <3>4. phase' \notin {"init", "welcome"} /\ "pause" \notin HookKinds /\ stack \in Seq(Frames)
      BY <3>1 DEF GuardInv, HookKinds, TypeOK
    <3> QED BY <3>1, <3>2, <3>3, <3>4, StartDebugLoopKeepsGuard
  <2>7. CASE Take \/ Answer \/ HandlerError
    <3>1. /\ stack # <<>> /\ Top.kind # "line"
          /\ UNCHANGED <<entered, phase, connected>>
      BY <2>7 DEF Take, Answer, HandlerError, Idle, Busy, At, LoopKinds, HookKinds
    <3>2. CASE Handling(NoReq)
      BY <3>1, <3>2, HandlingKeepsGuard
    <3>3. CASE ~Handling(NoReq)
      <4>1. c2d # <<>> /\ Handling(Head(c2d))
        BY <2>7, <3>3 DEF Take, Answer, HandlerError
      <4>2. Head(c2d) \in Requests
        BY <4>1, TakeType
      <4> QED BY <3>1, <4>1, <4>2, HandlingKeepsGuard
    <3> QED BY <3>2, <3>3
  <2>8. CASE AnswerAndResume \/ LoopEof
    <3>1. /\ stack # <<>> /\ Top.kind \in LoopKinds /\ Top.kind # "line"
          /\ connected' = connected /\ ~raising
      BY <2>8 DEF AnswerAndResume, LoopEof, AtEof, Idle, Busy, At, LoopKinds, HookKinds
    <3>2. CASE LoopReturned(stack) /\ raising' = FALSE
      BY <3>1, <3>2, LoopReturnedKeepsGuard
    <3>3. CASE Handling(NoReq) /\ UNCHANGED <<entered, phase>>
      BY <3>1, <3>3, HandlingKeepsGuard
    <3>4. CASE UNCHANGED <<stack, entered, phase>>
      BY <3>1, <3>4 DEF GuardInv, HookGuard, InHook, Top
    <3>5. \/ LoopReturned(stack) /\ raising' = FALSE
          \/ Handling(NoReq) /\ UNCHANGED <<entered, phase>>
          \/ UNCHANGED <<stack, entered, phase>>
      BY <2>8, <3>1 DEF AnswerAndResume, LoopEof, Deliver
    <3> QED BY <3>2, <3>3, <3>4, <3>5
  <2>9. CASE StepStop \/ BreakpointStop
    <3>1. /\ ~entered /\ entered' /\ UNCHANGED <<phase, connected>>
          /\ \E k \in HookKinds : StartDebugLoop(stack, k)
      BY <2>9 DEF StepStop, BreakpointStop, HookKinds
    <3>2. NoHook(stack) /\ stack \in Seq(Frames)
      BY <3>1 DEF GuardInv, HookGuard, NoHook, HK, TypeOK
    <3>3. phase' \notin {"init", "welcome"}
      BY <2>9, <3>1 DEF StepStop, BreakpointStop, ScriptRuns, Busy, At, GuardInv
    <3> QED BY <3>1, <3>2, <3>3, StartDebugLoopKeepsGuard DEF HookKinds
  <2>10. CASE LineBreakpoint
    <3>1. /\ stack # <<>> /\ Top.kind = "line" /\ StartDebugLoop(Pop(stack), "halt")
          /\ UNCHANGED <<phase, entered, connected>>
      BY <2>10 DEF LineBreakpoint, Idle, At
    <3>2. entered
      BY <3>1, TopType DEF GuardInv, HookGuard, Top, TypeOK
    <3>3. NoHook(Pop(stack)) /\ Pop(stack) \in Seq(Frames)
      BY BelowTopNoHook, PopType DEF GuardInv, TypeOK
    <3>4. phase' \notin {"init", "welcome"} /\ "halt" \in HookKinds
      BY <3>1 DEF GuardInv, HookKinds
    <3> QED BY <3>1, <3>2, <3>3, <3>4, StartDebugLoopKeepsGuard
  <2>11. CASE LineReturn
    <3>1. /\ stack # <<>> /\ stack' = Pop(stack) /\ entered' = FALSE
          /\ connected' = connected /\ phase' = phase
      BY <2>11 DEF LineReturn, Idle, At
    <3> QED BY <3>1, DropKeepsGuard DEF GuardInv
  <2>12. CASE ApiStop
    <3>1. /\ stack = <<>> /\ phase \in {"live", "aborted"}
          /\ \E k \in {"api", "apiCo"} : StartDebugLoop(stack, k)
          /\ UNCHANGED <<phase, entered, connected>>
      BY <2>12, ApiKindsAssumption DEF ApiStop, ScriptRuns, Busy, At
    <3>2. NoHook(stack) /\ stack \in Seq(Frames) /\ ~(entered /\ connected)
      BY <3>1, EmptySeq DEF GuardInv, HookGuard, InHook, NoHook, TypeOK
    <3> QED BY <3>1, <3>2, StartDebugLoopKeepsGuard DEF HookKinds
  <2>13. CASE GamePrintFails
    <3>1. /\ ~connected /\ UNCHANGED <<stack, entered, armed, phase, connected>>
      BY <2>13 DEF GamePrintFails
    <3> QED BY <3>1 DEF GuardInv, HookGuard, InHook, Top
  <2>14. CASE ErrorEscapes
    <3>1. UNCHANGED <<entered, connected>>
      BY <2>14 DEF ErrorEscapes
    <3>2. CASE stack = <<>>
      <4>1. stack' = <<>> /\ phase' = phase /\ ~InHook
        BY <2>14, <3>2, EmptySeq DEF ErrorEscapes, InHook
      <4> QED BY <2>14, <3>1, <4>1, <3>2, EmptySeq DEF GuardInv, HookGuard, ErrorEscapes
    <3>3. CASE stack # <<>>
      <4>1. /\ stack' = Pop(stack) /\ phase' \notin {"init", "welcome"}
            /\ Top.kind \in {"poll", "line", "start"} /\ raising
        BY <2>14, <3>3 DEF ErrorEscapes, GuardInv
      <4>2. CASE Top.kind = "line"
        <5>1. ~connected /\ NoHook(stack')
          BY <3>3, <4>1, <4>2, BelowTopNoHook DEF GuardInv
        <5>2. stack' \in Seq(Frames)
          BY <4>1, PopType DEF TypeOK
        <5>3. HookGuard'
          BY <3>1, <5>1 DEF HookGuard, NoHook, HK
        <5> QED BY <3>1, <4>1, <5>1, <5>3 DEF GuardInv
      <4>3. CASE Top.kind # "line"
        BY <3>1, <3>3, <4>1, <4>3, DropKeepsGuard DEF HK, HookKinds
      <4> QED BY <4>2, <4>3
    <3> QED BY <3>2, <3>3
  <2>15. CASE LoopFails
    <3>1. /\ stack # <<>> /\ Top.kind \in LoopKinds /\ connected' = connected
      BY <2>15 DEF LoopFails
    <3>2. CASE raising' = FALSE /\ LoopReturned(stack)
      BY <3>1, <3>2, LoopReturnedKeepsGuard
    <3>3. CASE /\ ~connected /\ UNCHANGED <<entered, phase>>
               /\ Top.kind \in HookKinds /\ stack' = Append(Pop(stack), Frame("line"))
      <4>1. entered /\ NoHook(Pop(stack)) /\ Pop(stack) \in Seq(Frames)
        BY <3>1, <3>3, TopType, BelowTopNoHook, PopType
           DEF GuardInv, HookGuard, Top, TypeOK
      <4>2. \A i \in 1..Len(stack') : stack'[i].kind \in HK => entered' /\ i = Len(stack')
        BY <3>3, <4>1, PushKeepsGuard DEF Kinds
      <4> QED BY <3>1, <3>3, <4>2 DEF GuardInv, HookGuard, HK
    <3>4. CASE /\ ~connected /\ UNCHANGED <<entered, phase>>
               /\ Top.kind \notin HookKinds /\ stack' = Pop(stack)
      BY <3>1, <3>4, DropKeepsGuard DEF HK, LoopKinds, HookKinds, GuardInv
    <3>5. \/ raising' = FALSE /\ LoopReturned(stack)
          \/ /\ ~connected /\ UNCHANGED <<entered, phase>>
             /\ stack' = IF Top.kind \in HookKinds
                           THEN Append(Pop(stack), Frame("line")) ELSE Pop(stack)
      BY <2>15 DEF LoopFails
    <3> QED BY <3>2, <3>3, <3>4, <3>5
  <2> QED
    BY <2>1, <2>2, <2>3, <2>4, <2>5, <2>6, <2>7, <2>8, <2>9, <2>10, <2>11, <2>12,
       <2>13, <2>14, <2>15 DEF Next, Client, Adapter, Game, GameFrame
<1> QED
  BY <1>1, <1>2, TypeCorrect, PTL DEF Spec

\* hookfunc is never re-entered and opens nothing above itself; without a broken
\* connection its guard is clear whenever it is not running.
THEOREM HookGuardHolds == Spec => []HookGuard
<1>1. GuardInv => HookGuard
  BY DEF GuardInv
<1> QED
  BY <1>1, GuardInvariant, PTL


-----------------------------------------------------------------------------
(* Requests and responses.                                                  *)

\* Where a request can be: in the channel, in order, or in one activation.
SeqInv ==
  /\ \A i \in 1..Len(c2d) : c2d[i].seq < nextSeq
  /\ \A i, j \in 1..Len(c2d) : i # j => c2d[i].seq # c2d[j].seq
  /\ \A i \in 1..Len(stack) : stack[i].cur.seq < nextSeq
  /\ \A i \in 1..Len(stack), j \in 1..Len(c2d) : stack[i].cur.seq # c2d[j].seq
  /\ \A i, j \in 1..Len(stack) :
       i # j /\ stack[i].cur.seq # 0 => stack[i].cur.seq # stack[j].cur.seq
  /\ AtMostOneAnswer

\* t holds no request that the activations do not hold, at the same place.
CurKept(t) ==
  \A i \in 1..Len(t) :
    t[i].cur = NoReq \/ (i \in 1..Len(stack) /\ t[i].cur = stack[i].cur)

LEMMA CurKeptPop ==
  ASSUME NEW t \in Seq(Frames), CurKept(t)
  PROVE  CurKept(Pop(t)) /\ Pop(t) \in Seq(Frames)
BY PopPrefix DEF CurKept

LEMMA CurKeptAppend ==
  ASSUME NEW t \in Seq(Frames), CurKept(t), NEW k \in Kinds
  PROVE  CurKept(Append(t, Frame(k)))
<1> DEFINE u == Append(t, Frame(k))
<1>1. /\ Len(t) \in Nat /\ Len(u) = Len(t) + 1 /\ \A i \in 1..Len(t) : u[i] = t[i]
      /\ u[Len(u)].cur = NoReq
  BY AppendFrame
<1>2. \A i \in 1..Len(u) : i \in 1..Len(t) \/ i = Len(u)
  BY <1>1
<1> HIDE DEF u
<1>3. CurKept(u)
  BY <1>1, <1>2 DEF CurKept
<1> QED BY <1>3 DEF u

LEMMA CurKeptStack ==
  ASSUME TypeOK
  PROVE  /\ CurKept(stack) /\ CurKept(Pop(stack)) /\ CurKept(Pop(Pop(stack)))
         /\ stack \in Seq(Frames) /\ Pop(stack) \in Seq(Frames)
<1>1. stack \in Seq(Frames) /\ CurKept(stack)
  BY DEF TypeOK, CurKept
<1> QED BY <1>1, CurKeptPop

LEMMA CurKeptHandling ==
  ASSUME TypeOK, stack # <<>>, Handling(NoReq)
  PROVE  CurKept(stack')
<1>1. /\ Len(stack') = Len(stack)
      /\ \A i \in 1..Len(stack) :
           stack'[i] = IF i = Len(stack) THEN [kind |-> Top.kind, cur |-> NoReq] ELSE stack[i]
  BY HandlingFacts DEF TypeOK
<1> QED BY <1>1 DEF CurKept

LEMMA CurKeptLoopReturned ==
  ASSUME TypeOK, LoopReturned(stack)
  PROVE  CurKept(stack')
<1>1. "line" \in Kinds
  BY DEF Kinds
<1>2. CurKept(Append(Pop(stack), Frame("line")))
  BY <1>1, CurKeptStack, CurKeptAppend
<1> QED BY <1>2, CurKeptStack DEF LoopReturned

LEMMA CurKeptStartDebugLoop ==
  ASSUME TypeOK, NEW t \in Seq(Frames), CurKept(t),
         NEW k \in {"pause", "api", "apiCo", "halt", "step"}, StartDebugLoop(t, k)
  PROVE  CurKept(stack')
<1>1. k \in Kinds /\ "line" \in Kinds
  BY DEF Kinds, LoopKinds, HookKinds
<1>2. CurKept(Append(t, Frame(k))) /\ CurKept(Append(t, Frame("line")))
  BY <1>1, CurKeptAppend
<1> QED BY <1>2 DEF StartDebugLoop

\* Whatever follows a debug loop holds no request in its activation.
LEMMA LoopReturnedTop ==
  ASSUME TypeOK, stack # <<>>, LoopReturned(stack)
  PROVE  \A i \in 1..Len(stack') : i = Len(stack) => stack'[i].cur = NoReq
<1>1. /\ Len(stack) \in Nat /\ Pop(stack) \in Seq(Frames)
      /\ Len(Pop(stack)) = Len(stack) - 1
  BY PopFacts, PopType DEF TypeOK
<1>2. Len(Pop(Pop(stack))) <= Len(stack) - 1
  <2>1. CASE Pop(stack) # <<>>
    BY <1>1, <2>1, PopFacts
  <2>2. CASE Pop(stack) = <<>>
    <3>1. Pop(Pop(stack)) = <<>> /\ Len(stack) - 1 = 0
      <4>1. Len(Pop(stack)) = 0
        BY <2>2
      <4>2. SubSeq(<<>>, 1, 0 - 1) = <<>>
        BY SubSeqEmpty
      <4> QED BY <1>1, <2>2, <4>1, <4>2 DEF Pop
    <3> QED BY <3>1
  <2> QED BY <2>1, <2>2
<1>3. Append(Pop(stack), Frame("line"))[Len(stack)].cur = NoReq
  BY <1>1, AppendFrame DEF Kinds
<1> QED BY <1>1, <1>2, <1>3 DEF LoopReturned

\* The channel and the activations only lose requests.
LEMMA FewerWaiting ==
  ASSUME TypeOK, TypeOK', SeqInv, CurKept(stack'),
         NEW d \in {0, 1}, Len(c2d') + d <= Len(c2d),
         \A i \in 1..Len(c2d') : c2d'[i] = c2d[i + d],
         nextSeq' = nextSeq, answers' = answers
  PROVE  SeqInv'
<1>1. Len(c2d) \in Nat /\ Len(c2d') \in Nat
  BY LenProperties DEF TypeOK
<1>2. \A i \in 1..Len(c2d') : i + d \in 1..Len(c2d)
  BY <1>1
<1>3. \A i, j \in 1..Len(c2d') : i # j => i + d # j + d
  BY <1>1
<1>4. nextSeq \in Nat /\ nextSeq > 0
  BY DEF TypeOK
<1>5. \A j \in 1..Len(c2d) : c2d[j] \in Requests
  BY ElementOfSeq DEF TypeOK
<1>6. \A j \in 1..Len(c2d) : c2d[j].seq # 0
  BY <1>5 DEF Requests, Seqs
<1>7. \A s \in Seqs : Waiting(s)' => Waiting(s)
  <2> SUFFICES ASSUME NEW s \in Seqs, Waiting(s)' PROVE Waiting(s)
    OBVIOUS
  <2>1. CASE \E i \in 1..Len(c2d') : c2d'[i].seq = s
    BY <1>2, <2>1 DEF Waiting
  <2>2. CASE \E i \in 1..Len(stack') : stack'[i].cur.seq = s
    <3>1. PICK i \in 1..Len(stack') : stack'[i].cur.seq = s
      BY <2>2
    <3>2. s # 0
      BY MaxSeqAssumption DEF Seqs
    <3> QED BY <3>1, <3>2, NoReqFacts DEF CurKept, Waiting
  <2> QED BY <2>1, <2>2 DEF Waiting
<1>8. AtMostOneAnswer'
  <2> SUFFICES ASSUME NEW s \in Seqs
               PROVE  answers[s] <= IF Waiting(s)' \/ s >= nextSeq THEN 0 ELSE 1
    BY DEF AtMostOneAnswer
  <2>1. answers[s] <= IF Waiting(s) \/ s >= nextSeq THEN 0 ELSE 1
    BY DEF SeqInv, AtMostOneAnswer
  <2>2. answers[s] \in Nat
    BY DEF TypeOK
  <2> QED BY <1>7, <2>1, <2>2
<1>9. /\ \A i \in 1..Len(c2d') : c2d'[i].seq < nextSeq
      /\ \A i, j \in 1..Len(c2d') : i # j => c2d'[i].seq # c2d'[j].seq
  <2>1. \A i \in 1..Len(c2d) : c2d[i].seq < nextSeq
    BY DEF SeqInv
  <2>2. \A i, j \in 1..Len(c2d) : i # j => c2d[i].seq # c2d[j].seq
    BY DEF SeqInv
  <2>3. ASSUME NEW i \in 1..Len(c2d'), NEW j \in 1..Len(c2d'), i # j
        PROVE  c2d'[i].seq # c2d'[j].seq
    <3>1. c2d'[i] = c2d[i + d] /\ c2d'[j] = c2d[j + d] /\ i + d # j + d
      BY <1>3, <2>3
    <3>2. i + d \in 1..Len(c2d) /\ j + d \in 1..Len(c2d)
      BY <1>2
    <3> QED BY <2>2, <3>1, <3>2
  <2> QED BY <1>2, <2>1, <2>3
<1>10. \A i \in 1..Len(stack') : stack'[i].cur.seq < nextSeq
  BY <1>4, NoReqFacts DEF SeqInv, CurKept
<1>11. \A i \in 1..Len(stack'), j \in 1..Len(c2d') : stack'[i].cur.seq # c2d'[j].seq
  <2> SUFFICES ASSUME NEW i \in 1..Len(stack'), NEW j \in 1..Len(c2d')
               PROVE  stack'[i].cur.seq # c2d'[j].seq
    OBVIOUS
  <2>1. c2d'[j] = c2d[j + d] /\ j + d \in 1..Len(c2d)
    BY <1>2
  <2>2. CASE stack'[i].cur = NoReq
    BY <1>6, <2>1, <2>2, NoReqFacts
  <2>3. CASE i \in 1..Len(stack) /\ stack'[i].cur = stack[i].cur
    <3>1. \A m \in 1..Len(c2d) : stack[i].cur.seq # c2d[m].seq
      BY <2>3 DEF SeqInv
    <3> QED BY <2>1, <2>3, <3>1
  <2> QED BY <2>2, <2>3 DEF CurKept
<1>12. \A i, j \in 1..Len(stack') :
         i # j /\ stack'[i].cur.seq # 0 => stack'[i].cur.seq # stack'[j].cur.seq
  BY NoReqFacts DEF SeqInv, CurKept
<1> QED BY <1>8, <1>9, <1>10, <1>11, <1>12 DEF SeqInv


\* The response to the request of the top activation, which then holds none.
LEMMA AnswerKeepsSeqInv ==
  ASSUME TypeOK, TypeOK', SeqInv, stack # <<>>, Top.cur \in Requests,
         CurKept(stack'), \A i \in 1..Len(stack') : i = Len(stack) => stack'[i].cur = NoReq,
         answers' = [answers EXCEPT ![Top.cur.seq] = @ + 1],
         UNCHANGED <<c2d, nextSeq>>
  PROVE  SeqInv'
<1>0. Top.cur.seq \in Seqs
  BY DEF Requests
<1>1. PICK q \in Seqs : q = Top.cur.seq
  BY <1>0
<1>2. /\ q # 0 /\ Len(stack) \in 1..Len(stack) /\ q = stack[Len(stack)].cur.seq
      /\ answers' = [answers EXCEPT ![q] = @ + 1]
  <2>1. Len(stack) \in Nat /\ Len(stack) # 0
    BY EmptySeq DEF TypeOK
  <2> QED BY <1>1, <2>1 DEF Top, Seqs
<1>3. Waiting(q) /\ q < nextSeq /\ answers[q] = 0
  <2>1. Waiting(q) /\ q < nextSeq
    BY <1>2 DEF Waiting, SeqInv
  <2>2. answers[q] <= 0 /\ answers[q] \in Nat
    BY <1>2, <2>1 DEF SeqInv, AtMostOneAnswer, TypeOK
  <2> QED BY <2>1, <2>2
<1>4. ~Waiting(q)'
  <2>1. \A i \in 1..Len(c2d) : c2d[i].seq # q
    BY <1>2 DEF SeqInv
  <2>2. \A i \in 1..Len(stack') : stack'[i].cur.seq # q
    <3> SUFFICES ASSUME NEW i \in 1..Len(stack') PROVE stack'[i].cur.seq # q
      OBVIOUS
    <3>1. CASE stack'[i].cur = NoReq
      BY <1>2, <3>1, NoReqFacts
    <3>2. CASE /\ i \in 1..Len(stack) /\ i # Len(stack)
               /\ stack'[i].cur = stack[i].cur
      BY <1>2, <3>2 DEF SeqInv
    <3> QED BY <3>1, <3>2 DEF CurKept
  <2>3. \A i \in 1..Len(c2d') : c2d'[i].seq # q
    BY <2>1
  <2> QED BY <2>2, <2>3 DEF Waiting
<1>5. \A s \in Seqs : s # q => answers'[s] = answers[s]
  BY <1>2 DEF TypeOK
<1>6. answers'[q] = 1
  BY <1>2, <1>3 DEF TypeOK
<1>7. \A s \in Seqs : Waiting(s)' => Waiting(s)
  <2> SUFFICES ASSUME NEW s \in Seqs, Waiting(s)' PROVE Waiting(s)
    OBVIOUS
  <2>1. CASE \E i \in 1..Len(c2d') : c2d'[i].seq = s
    BY <2>1 DEF Waiting
  <2>2. CASE \E i \in 1..Len(stack') : stack'[i].cur.seq = s
    <3>1. PICK i \in 1..Len(stack') : stack'[i].cur.seq = s
      BY <2>2
    <3>2. s # 0
      BY MaxSeqAssumption DEF Seqs
    <3> QED BY <3>1, <3>2, NoReqFacts DEF CurKept, Waiting
  <2> QED BY <2>1, <2>2 DEF Waiting
<1>8. AtMostOneAnswer'
  <2> SUFFICES ASSUME NEW s \in Seqs
               PROVE  answers'[s] <= IF Waiting(s)' \/ s >= nextSeq THEN 0 ELSE 1
    BY DEF AtMostOneAnswer
  <2>1. CASE s = q
    <3>1. ~(s >= nextSeq)
      BY <1>3, <2>1, MaxSeqAssumption DEF Seqs, TypeOK
    <3>2. ~Waiting(s)'
      BY <1>4, <2>1
    <3>3. answers'[s] = 1
      BY <1>6, <2>1
    <3>4. (IF Waiting(s)' \/ s >= nextSeq THEN 0 ELSE 1) = 1
      BY <3>1, <3>2
    <3> QED BY <3>3, <3>4
  <2>2. CASE s # q
    <3>1. answers[s] <= IF Waiting(s) \/ s >= nextSeq THEN 0 ELSE 1
      BY DEF SeqInv, AtMostOneAnswer
    <3>2. answers[s] \in Nat /\ answers'[s] = answers[s]
      BY <1>5, <2>2 DEF TypeOK
    <3> QED BY <1>7, <3>1, <3>2
  <2> QED BY <2>1, <2>2
<1>9. nextSeq \in Nat /\ nextSeq > 0
  BY DEF TypeOK
<1>10. /\ \A i \in 1..Len(c2d') : c2d'[i].seq < nextSeq'
      /\ \A i, j \in 1..Len(c2d') : i # j => c2d'[i].seq # c2d'[j].seq
  BY DEF SeqInv
<1>11. \A i \in 1..Len(stack') : stack'[i].cur.seq < nextSeq'
  BY <1>9, NoReqFacts DEF SeqInv, CurKept
<1>12. \A i \in 1..Len(stack'), j \in 1..Len(c2d') : stack'[i].cur.seq # c2d'[j].seq
  <2>1. \A j \in 1..Len(c2d) : c2d[j].seq # 0
    <3> SUFFICES ASSUME NEW j \in 1..Len(c2d) PROVE c2d[j].seq # 0
      OBVIOUS
    <3>1. c2d[j] \in Requests
      BY ElementOfSeq DEF TypeOK
    <3> QED BY <3>1 DEF Requests, Seqs
  <2> QED BY <2>1, NoReqFacts DEF SeqInv, CurKept
<1>13. \A i, j \in 1..Len(stack') :
         i # j /\ stack'[i].cur.seq # 0 => stack'[i].cur.seq # stack'[j].cur.seq
  BY NoReqFacts DEF SeqInv, CurKept
<1> QED BY <1>8, <1>10, <1>11, <1>12, <1>13 DEF SeqInv

\* recvMessage hands the oldest request to the top activation.
LEMMA TakeKeepsSeqInv ==
  ASSUME TypeOK, TypeOK', SeqInv, stack # <<>>, Top.cur = NoReq, c2d # <<>>,
         c2d' = Tail(c2d), Handling(Head(c2d)), UNCHANGED <<nextSeq, answers>>
  PROVE  SeqInv'
<1> DEFINE h == Head(c2d)
<1>1. /\ h \in Requests /\ h = c2d[1] /\ Len(c2d) \in Nat \ {0}
      /\ Len(c2d') = Len(c2d) - 1 /\ \A i \in 1..Len(c2d') : c2d'[i] = c2d[i + 1]
  BY HeadTailProperties, EmptySeq DEF TypeOK
<1>2. /\ Len(stack') = Len(stack) /\ Len(stack) \in 1..Len(stack)
      /\ \A i \in 1..Len(stack) :
           stack'[i].cur = IF i = Len(stack) THEN h ELSE stack[i].cur
  <2>1. /\ Len(stack') = Len(stack)
        /\ \A i \in 1..Len(stack) :
             stack'[i] = IF i = Len(stack) THEN [kind |-> Top.kind, cur |-> h] ELSE stack[i]
    BY <1>1, HandlingFacts DEF TypeOK
  <2> QED BY <2>1, TopType DEF TypeOK
<1> HIDE DEF h
<1>3. \A i \in 1..Len(c2d') : i + 1 \in 1..Len(c2d) /\ i + 1 # 1 /\ 1 \in 1..Len(c2d)
  BY <1>1
<1>4. 1 \in 1..Len(c2d)
  BY <1>1
<1>5. /\ \A i \in 1..Len(c2d) : c2d[i].seq < nextSeq
      /\ \A i, j \in 1..Len(c2d) : i # j => c2d[i].seq # c2d[j].seq
      /\ \A i \in 1..Len(stack) : stack[i].cur.seq < nextSeq
      /\ \A i \in 1..Len(stack), j \in 1..Len(c2d) : stack[i].cur.seq # c2d[j].seq
      /\ \A i, j \in 1..Len(stack) :
           i # j /\ stack[i].cur.seq # 0 => stack[i].cur.seq # stack[j].cur.seq
  BY DEF SeqInv
<1>6. \A s \in Seqs : Waiting(s)' => Waiting(s)
  <2> SUFFICES ASSUME NEW s \in Seqs, Waiting(s)' PROVE Waiting(s)
    OBVIOUS
  <2>1. CASE \E i \in 1..Len(c2d') : c2d'[i].seq = s
    BY <1>1, <1>3, <2>1 DEF Waiting
  <2>2. CASE \E i \in 1..Len(stack') : stack'[i].cur.seq = s
    BY <1>1, <1>2, <1>4, <2>2 DEF Waiting
  <2> QED BY <2>1, <2>2 DEF Waiting
<1>7. AtMostOneAnswer'
  <2> SUFFICES ASSUME NEW s \in Seqs
               PROVE  answers[s] <= IF Waiting(s)' \/ s >= nextSeq THEN 0 ELSE 1
    BY DEF AtMostOneAnswer
  <2>1. answers[s] <= IF Waiting(s) \/ s >= nextSeq THEN 0 ELSE 1
    BY DEF SeqInv, AtMostOneAnswer
  <2>2. answers[s] \in Nat
    BY DEF TypeOK
  <2> QED BY <1>6, <2>1, <2>2
<1>8. /\ \A i \in 1..Len(c2d') : c2d'[i].seq < nextSeq'
      /\ \A i, j \in 1..Len(c2d') : i # j => c2d'[i].seq # c2d'[j].seq
  <2>1. ASSUME NEW i \in 1..Len(c2d'), NEW j \in 1..Len(c2d'), i # j
        PROVE  c2d'[i].seq # c2d'[j].seq
    <3>1. i + 1 # j + 1
      BY <1>1, <2>1
    <3> QED BY <1>1, <1>3, <1>5, <3>1
  <2> QED BY <1>1, <1>3, <1>5, <2>1
<1>9. \A i \in 1..Len(stack') : stack'[i].cur.seq < nextSeq'
  BY <1>1, <1>2, <1>4, <1>5
<1>10. \A i \in 1..Len(stack'), j \in 1..Len(c2d') : stack'[i].cur.seq # c2d'[j].seq
  <2> SUFFICES ASSUME NEW i \in 1..Len(stack'), NEW j \in 1..Len(c2d')
               PROVE  stack'[i].cur.seq # c2d'[j].seq
    OBVIOUS
  <2>1. c2d'[j] = c2d[j + 1] /\ j + 1 \in 1..Len(c2d) /\ j + 1 # 1
    BY <1>1, <1>3
  <2> QED BY <1>1, <1>2, <1>4, <1>5, <2>1
<1>11. \A i, j \in 1..Len(stack') :
         i # j /\ stack'[i].cur.seq # 0 => stack'[i].cur.seq # stack'[j].cur.seq
  <2> SUFFICES ASSUME NEW i \in 1..Len(stack), NEW j \in 1..Len(stack), i # j,
                      stack'[i].cur.seq # 0
               PROVE  stack'[i].cur.seq # stack'[j].cur.seq
    BY <1>2
  <2> QED BY <1>1, <1>2, <1>4, <1>5
<1> QED BY <1>7, <1>8, <1>9, <1>10, <1>11 DEF SeqInv

\* A new request carries a seq that no other one has.
LEMMA SendKeepsSeqInv ==
  ASSUME TypeOK, SeqInv, NEW m \in Requests, m.seq = nextSeq,
         c2d' = Append(c2d, m), nextSeq' = nextSeq + 1, UNCHANGED <<stack, answers>>
  PROVE  SeqInv'
<1>1. /\ Len(c2d) \in Nat /\ Len(c2d') = Len(c2d) + 1 /\ c2d'[Len(c2d) + 1] = m
      /\ \A i \in 1..Len(c2d) : c2d'[i] = c2d[i]
  BY AppendProperties DEF TypeOK
<1>2. /\ nextSeq \in Nat /\ \A s \in Seqs : s \in Nat /\ answers[s] \in Nat
      /\ nextSeq' \in Nat /\ nextSeq # 0
  <2>1. nextSeq \in Nat /\ nextSeq # 0
    BY DEF TypeOK
  <2>2. \A s \in Seqs : s \in Nat
    BY DEF Seqs
  <2>3. \A s \in Seqs : answers[s] \in Nat
    BY DEF TypeOK
  <2> QED BY <2>1, <2>2, <2>3
<1>3. \A i \in 1..Len(c2d') : i \in 1..Len(c2d) \/ i = Len(c2d) + 1
  BY <1>1
<1>4. \A i \in 1..Len(c2d) : i # Len(c2d) + 1
  BY <1>1
<1>5. \A i \in 1..Len(c2d) : c2d[i].seq \in Nat
  <2> SUFFICES ASSUME NEW i \in 1..Len(c2d) PROVE c2d[i].seq \in Nat
    OBVIOUS
  <2>1. c2d[i] \in Requests
    BY ElementOfSeq DEF TypeOK
  <2> QED BY <2>1 DEF Requests, Seqs
<1>6. \A i \in 1..Len(stack) : stack[i].cur.seq \in Nat
  <2> SUFFICES ASSUME NEW i \in 1..Len(stack) PROVE stack[i].cur.seq \in Nat
    OBVIOUS
  <2>1. stack[i] \in Frames
    BY ElementOfSeq DEF TypeOK
  <2>2. stack[i].cur \in Requests \cup {NoReq}
    BY <2>1 DEF Frames
  <2>3. \A r \in Requests : r.seq \in Nat
    BY DEF Requests, Seqs
  <2> QED BY <2>2, <2>3, NoReqFacts
<1>7. /\ \A i \in 1..Len(c2d) : c2d[i].seq < nextSeq
      /\ \A i, j \in 1..Len(c2d) : i # j => c2d[i].seq # c2d[j].seq
      /\ \A i \in 1..Len(stack) : stack[i].cur.seq < nextSeq
      /\ \A i \in 1..Len(stack), j \in 1..Len(c2d) : stack[i].cur.seq # c2d[j].seq
      /\ \A i, j \in 1..Len(stack) :
           i # j /\ stack[i].cur.seq # 0 => stack[i].cur.seq # stack[j].cur.seq
  BY DEF SeqInv
<1>8. \A s \in Seqs : Waiting(s)' => Waiting(s) \/ s = nextSeq
  BY <1>1, <1>3 DEF Waiting
<1>9. AtMostOneAnswer'
  <2> SUFFICES ASSUME NEW s \in Seqs
               PROVE  answers[s] <= IF Waiting(s)' \/ s >= nextSeq + 1 THEN 0 ELSE 1
    BY DEF AtMostOneAnswer
  <2>1. answers[s] <= IF Waiting(s) \/ s >= nextSeq THEN 0 ELSE 1
    BY DEF SeqInv, AtMostOneAnswer
  <2>2. s >= nextSeq + 1 => s >= nextSeq
    BY <1>2
  <2>3. s = nextSeq => s >= nextSeq
    BY <1>2
  <2>4. CASE Waiting(s) \/ s >= nextSeq
    <3>1. answers[s] <= 0
      BY <2>1, <2>4
    <3> QED BY <1>2, <3>1
  <2>5. CASE ~(Waiting(s) \/ s >= nextSeq)
    <3>1. ~(Waiting(s)' \/ s >= nextSeq + 1)
      BY <1>8, <2>2, <2>3, <2>5
    <3> QED BY <2>1, <2>5, <3>1
  <2> QED BY <2>4, <2>5
<1>10. /\ \A i \in 1..Len(c2d') : c2d'[i].seq < nextSeq'
       /\ \A i, j \in 1..Len(c2d') : i # j => c2d'[i].seq # c2d'[j].seq
  <2>1. \A i \in 1..Len(c2d) : c2d'[i].seq # nextSeq
    BY <1>1, <1>2, <1>5, <1>7
  <2>2. ASSUME NEW i \in 1..Len(c2d'), NEW j \in 1..Len(c2d'), i # j
        PROVE  c2d'[i].seq # c2d'[j].seq
    BY <1>1, <1>3, <1>4, <1>7, <2>1, <2>2
  <2>3. ASSUME NEW i \in 1..Len(c2d') PROVE c2d'[i].seq < nextSeq'
    BY <1>1, <1>2, <1>3, <1>5, <1>7
  <2> QED BY <2>2, <2>3
<1>11. \A i \in 1..Len(stack') : stack'[i].cur.seq < nextSeq'
  BY <1>2, <1>6, <1>7
<1>12. \A i \in 1..Len(stack'), j \in 1..Len(c2d') : stack'[i].cur.seq # c2d'[j].seq
  <2>1. \A i \in 1..Len(stack) : stack[i].cur.seq # nextSeq
    BY <1>2, <1>6, <1>7
  <2> QED BY <1>1, <1>3, <1>7, <2>1
<1> QED BY <1>7, <1>9, <1>10, <1>11, <1>12 DEF SeqInv

\* Steps that leave the requests in the channel alone, or lose the last ones.
LEMMA QuietKeepsSeqInv ==
  ASSUME TypeOK, TypeOK', SeqInv, CurKept(stack'),
         NEW n \in 0..Len(c2d), c2d' = c2d \/ c2d' = SubSeq(c2d, 1, n),
         UNCHANGED <<nextSeq, answers>>
  PROVE  SeqInv'
<1>1. Len(c2d') <= Len(c2d) /\ \A i \in 1..Len(c2d') : c2d'[i] = c2d[i]
  <2>1. Len(c2d) \in Nat
    BY LenProperties DEF TypeOK
  <2>2. CASE c2d' = c2d
    BY <2>1, <2>2
  <2>3. CASE c2d' = SubSeq(c2d, 1, n)
    <3>1. Len(c2d') = n /\ \A i \in 1..n : c2d'[i] = c2d[i]
      BY <2>1, <2>3, SubSeqProperties DEF TypeOK
    <3> QED BY <2>1, <3>1
  <2> QED BY <2>2, <2>3
<1>2. Len(c2d') + 0 <= Len(c2d) /\ \A i \in 1..Len(c2d') : c2d'[i] = c2d[i + 0]
  BY <1>1, LenProperties DEF TypeOK
<1> QED BY <1>2, FewerWaiting

\* A pause request is taken from the channel and held by nobody.
LEMMA DropKeepsSeqInv ==
  ASSUME TypeOK, TypeOK', SeqInv, CurKept(stack'), c2d # <<>>, c2d' = Tail(c2d),
         UNCHANGED <<nextSeq, answers>>
  PROVE  SeqInv'
<1>1. Len(c2d') + 1 <= Len(c2d) /\ \A i \in 1..Len(c2d') : c2d'[i] = c2d[i + 1]
  BY HeadTailProperties, EmptySeq DEF TypeOK
<1> QED BY <1>1, FewerWaiting


\* Every request is in one place, through every step.
LEMMA SeqInvariant == Spec => []SeqInv
<1>1. Init => SeqInv
  <2> SUFFICES ASSUME Init PROVE SeqInv
    OBVIOUS
  <2>1. c2d = <<>> /\ stack = <<>> /\ Len(c2d) = 0 /\ Len(stack) = 0
    BY DEF Init
  <2>2. \A s \in Seqs : answers[s] = 0
    BY DEF Init
  <2> QED BY <2>1, <2>2 DEF SeqInv, AtMostOneAnswer
<1>2. TypeOK /\ TypeOK' /\ SeqInv /\ [Next]_vars => SeqInv'
  <2> SUFFICES ASSUME TypeOK, TypeOK', SeqInv, [Next]_vars PROVE SeqInv'
    OBVIOUS
  <2> USE DEF clientVars, wireVars, hookVars, dataVars, history
  <2>0. Len(c2d) \in 0..Len(c2d)
    BY LenProperties DEF TypeOK
  <2>1. CASE ClientSend
    <3>1. PICK cmd \in Offered : \E o \in Operands(cmd) :
            c2d' = Append(c2d, [seq |-> nextSeq, cmd |-> cmd, ref |-> o.ref, val |-> o.val])
      BY <2>1 DEF ClientSend
    <3>2. PICK o \in Operands(cmd) :
            c2d' = Append(c2d, [seq |-> nextSeq, cmd |-> cmd, ref |-> o.ref, val |-> o.val])
      BY <3>1
    <3>3. [seq |-> nextSeq, cmd |-> cmd, ref |-> o.ref, val |-> o.val] \in Requests
      <4>1. nextSeq \in Seqs
        BY <2>1 DEF ClientSend, TypeOK, Seqs
      <4>2. cmd \in Commands
        BY DEF Offered, Commands, ResumeCmds
      <4>3. o.ref \in 0..MaxSeq /\ o.val \in 0..MaxSeq
        <5>1. CASE o = [ref |-> 0, val |-> 0]
          BY <5>1, MaxSeqAssumption
        <5>2. CASE o \in refs
          <6>1. o \in [ref : Seqs, val : Seqs]
            BY <5>2 DEF TypeOK
          <6> QED BY <6>1 DEF Seqs
        <5> QED BY <5>1, <5>2 DEF Operands
      <4> QED BY <4>1, <4>2, <4>3 DEF Requests
    <3>4. nextSeq' = nextSeq + 1 /\ UNCHANGED <<stack, answers>>
      BY <2>1 DEF ClientSend
    <3> QED BY <3>2, <3>3, <3>4, SendKeepsSeqInv
  <2>2. CASE ClientReceive \/ HandlerError \/ EvaluateCatches \/ GamePrintFails
             \/ GameFrame \/ UNCHANGED vars
    <3>1. UNCHANGED <<c2d, nextSeq, answers>>
      BY <2>2 DEF ClientReceive, HandlerError, EvaluateCatches, GamePrintFails, GameFrame, vars
    <3>2. CASE HandlerError
      <4>1. CurKept(stack')
        BY <3>2, CurKeptHandling DEF HandlerError, Busy, At
      <4> QED BY <2>0, <3>1, <4>1, QuietKeepsSeqInv
    <3>3. CASE ~HandlerError
      <4>1. stack' = stack
        BY <2>2, <3>3 DEF ClientReceive, EvaluateCatches, GamePrintFails, GameFrame, vars
      <4> QED BY <2>0, <3>1, <4>1, CurKeptStack, QuietKeepsSeqInv
    <3> QED BY <3>2, <3>3
  <2>3. CASE ClientClose
    <3>1. PICK n \in 0..Len(c2d) : c2d' = SubSeq(c2d, 1, n)
      BY <2>3 DEF ClientClose
    <3>2. UNCHANGED <<stack, nextSeq, answers>>
      BY <2>3 DEF ClientClose
    <3> QED BY <3>1, <3>2, CurKeptStack, QuietKeepsSeqInv
  <2>4. CASE StartConnect \/ StartWelcome \/ PollBegin
    <3>1. UNCHANGED <<c2d, nextSeq, answers>>
      BY <2>4 DEF StartConnect, StartWelcome, PollBegin
    <3>2. stack' = stack \/ stack' = <<Frame("start")>> \/ stack' = <<Frame("poll")>>
      BY <2>4 DEF StartConnect, StartWelcome, PollBegin
    <3>3. ASSUME NEW k \in Kinds, stack' = <<Frame(k)>> PROVE CurKept(stack')
      <4>1. Len(stack') = 1 /\ stack'[1].cur = NoReq
        BY <3>3 DEF Frame
      <4>2. \A i \in 1..Len(stack') : i = 1
        BY <4>1
      <4> QED BY <4>1, <4>2 DEF CurKept
    <3>4. CurKept(stack')
      BY <3>2, <3>3, CurKeptStack DEF Kinds, LoopKinds
    <3> QED BY <2>0, <3>1, <3>4, QuietKeepsSeqInv
  <2>5. CASE PollTimeout \/ PollEof \/ LineReturn \/ ErrorEscapes
    <3>1. UNCHANGED <<c2d, nextSeq, answers>>
      BY <2>5 DEF PollTimeout, PollEof, LineReturn, ErrorEscapes
    <3>2. stack' = stack \/ stack' = Pop(stack)
      BY <2>5 DEF PollTimeout, PollEof, LineReturn, ErrorEscapes
    <3> QED BY <2>0, <3>1, <3>2, CurKeptStack, QuietKeepsSeqInv
  <2>6. CASE PollPause
    <3>1. c2d # <<>> /\ c2d' = Tail(c2d) /\ UNCHANGED <<nextSeq, answers>>
      BY <2>6 DEF PollPause
    <3>2. CurKept(stack')
      BY <2>6, CurKeptStack, CurKeptStartDebugLoop DEF PollPause
    <3> QED BY <3>1, <3>2, DropKeepsSeqInv
  <2>7. CASE DropPause
    BY <2>7, CurKeptStack, DropKeepsSeqInv DEF DropPause
  <2>8. CASE Take
    BY <2>8, TakeKeepsSeqInv DEF Take, Idle, At
  <2>9. CASE Answer
    <3>1. /\ stack # <<>> /\ Top.cur # NoReq /\ Handling(NoReq) /\ UNCHANGED <<c2d, nextSeq>>
          /\ \/ answers' = [answers EXCEPT ![Top.cur.seq] = @ + 1]
             \/ answers' = answers
      BY <2>9 DEF Answer, Busy, At
    <3>2. Top.cur \in Requests
      BY <3>1, TopType DEF TypeOK
    <3>3. CurKept(stack')
      BY <3>1, CurKeptHandling
    <3>4. \A i \in 1..Len(stack') : i = Len(stack) => stack'[i].cur = NoReq
      <4>1. /\ Len(stack') = Len(stack)
            /\ \A i \in 1..Len(stack) :
                 stack'[i] = IF i = Len(stack) THEN [kind |-> Top.kind, cur |-> NoReq]
                                               ELSE stack[i]
        BY <3>1, HandlingFacts DEF TypeOK
      <4> QED BY <4>1
    <3>5. CASE answers' = [answers EXCEPT ![Top.cur.seq] = @ + 1]
      BY <3>1, <3>2, <3>3, <3>4, <3>5, AnswerKeepsSeqInv
    <3>6. CASE answers' = answers
      BY <2>0, <3>1, <3>3, <3>6, QuietKeepsSeqInv
    <3> QED BY <3>1, <3>5, <3>6
  <2>10. CASE AnswerAndResume
    <3>1. /\ stack # <<>> /\ Top.cur # NoReq /\ UNCHANGED <<c2d, nextSeq>>
          /\ \/ /\ answers' = [answers EXCEPT ![Top.cur.seq] = @ + 1]
                /\ LoopReturned(stack)
             \/ Handling(NoReq) /\ answers' = answers
      BY <2>10 DEF AnswerAndResume, Busy, At
    <3>2. Top.cur \in Requests
      BY <3>1, TopType DEF TypeOK
    <3>3. CASE answers' = answers /\ Handling(NoReq)
      BY <2>0, <3>1, <3>3, CurKeptHandling, QuietKeepsSeqInv
    <3>4. CASE answers' = [answers EXCEPT ![Top.cur.seq] = @ + 1] /\ LoopReturned(stack)
      <4>1. CurKept(stack')
        BY <3>4, CurKeptLoopReturned
      <4>2. \A i \in 1..Len(stack') : i = Len(stack) => stack'[i].cur = NoReq
        BY <3>1, <3>4, LoopReturnedTop
      <4> QED BY <3>1, <3>2, <3>4, <4>1, <4>2, AnswerKeepsSeqInv
    <3> QED BY <3>1, <3>3, <3>4
  <2>11. CASE LoopEof \/ LoopFails
    <3>1. UNCHANGED <<c2d, nextSeq, answers>>
      BY <2>11 DEF LoopEof, LoopFails
    <3>2. \/ LoopReturned(stack) \/ stack' = stack \/ stack' = Pop(stack)
          \/ stack' = Append(Pop(stack), Frame("line"))
      BY <2>11 DEF LoopEof, LoopFails
    <3>3. CurKept(Append(Pop(stack), Frame("line")))
      BY CurKeptStack, CurKeptAppend DEF Kinds
    <3> QED BY <2>0, <3>1, <3>2, <3>3, CurKeptStack, CurKeptLoopReturned, QuietKeepsSeqInv
  <2>12. CASE StepStop \/ BreakpointStop \/ LineBreakpoint \/ ApiStop
    <3>1. UNCHANGED <<c2d, nextSeq, answers>>
      BY <2>12 DEF StepStop, BreakpointStop, LineBreakpoint, ApiStop
    <3>2. \E k \in {"pause", "api", "apiCo", "halt", "step"} :
            StartDebugLoop(stack, k) \/ StartDebugLoop(Pop(stack), k)
      BY <2>12, ApiKindsAssumption DEF StepStop, BreakpointStop, LineBreakpoint, ApiStop
    <3>3. CurKept(stack')
      BY <3>2, CurKeptStack, CurKeptStartDebugLoop
    <3> QED BY <2>0, <3>1, <3>3, QuietKeepsSeqInv
  <2> QED
    BY <2>1, <2>2, <2>3, <2>4, <2>5, <2>6, <2>7, <2>8, <2>9, <2>10, <2>11, <2>12
       DEF Next, Client, Adapter, Game
<1>3. Spec => []TypeOK
  BY TypeCorrect
<1> QED
  BY <1>1, <1>2, <1>3, PTL DEF Spec

\* Every request is answered at most once, and never before its handling ends.
THEOREM AnsweredAtMostOnce == Spec => []AtMostOneAnswer
<1>1. SeqInv => AtMostOneAnswer
  BY DEF SeqInv
<1> QED
  BY <1>1, SeqInvariant, PTL

-----------------------------------------------------------------------------
(* The session implements RequestReply.  poll has no request of its own     *)
(* while the loop that it opened is there.                                  *)

PauseInv ==
  \A i \in 1..Len(stack) : stack[i].kind = "pause" => i > 1 /\ stack[i - 1].cur = NoReq

\* Every pause of t stands where the activations have it, on the same frame.
PausesKept(t) ==
  \A i \in 1..Len(t) :
    t[i].kind = "pause" =>
      /\ i \in 1..Len(stack) /\ stack[i].kind = "pause"
      /\ i > 1 => t[i - 1].cur = NoReq \/ t[i - 1].cur = stack[i - 1].cur

LEMMA PausesKeptPop ==
  ASSUME NEW t \in Seq(Frames), PausesKept(t)
  PROVE  PausesKept(Pop(t)) /\ Pop(t) \in Seq(Frames)
<1>1. /\ Pop(t) \in Seq(Frames)
      /\ \A i \in 1..Len(Pop(t)) : i \in 1..Len(t) /\ Pop(t)[i] = t[i]
  BY PopPrefix
<1>2. \A i \in 1..Len(Pop(t)) : i > 1 => i - 1 \in 1..Len(Pop(t))
  BY <1>1, LenProperties
<1> QED BY <1>1, <1>2 DEF PausesKept

LEMMA PausesKeptStack ==
  ASSUME TypeOK
  PROVE  /\ PausesKept(stack) /\ PausesKept(Pop(stack)) /\ PausesKept(Pop(Pop(stack)))
         /\ stack \in Seq(Frames) /\ Pop(stack) \in Seq(Frames)
<1>1. stack \in Seq(Frames) /\ PausesKept(stack)
  BY DEF TypeOK, PausesKept
<1> QED BY <1>1, PausesKeptPop

LEMMA PausesKeptAppend ==
  ASSUME NEW t \in Seq(Frames), PausesKept(t), NEW k \in Kinds, k # "pause"
  PROVE  PausesKept(Append(t, Frame(k)))
<1> DEFINE u == Append(t, Frame(k))
<1>1. /\ Len(t) \in Nat /\ Len(u) = Len(t) + 1 /\ \A i \in 1..Len(t) : u[i] = t[i]
      /\ u[Len(u)].kind = k
  BY AppendFrame
<1>2. \A i \in 1..Len(u) : i \in 1..Len(t) \/ i = Len(u)
  BY <1>1
<1>3. \A i \in 1..Len(t) : i > 1 => i - 1 \in 1..Len(t)
  BY <1>1
<1> HIDE DEF u
<1>4. PausesKept(u)
  BY <1>1, <1>2, <1>3 DEF PausesKept
<1> QED BY <1>4 DEF u

\* Marking the request of the top activation, which no pause stands on.
LEMMA PausesKeptHandling ==
  ASSUME TypeOK, stack # <<>>, NEW r \in Requests \cup {NoReq}, Handling(r)
  PROVE  PausesKept(stack')
<1>1. /\ Len(stack') = Len(stack) /\ Len(stack) \in Nat
      /\ \A i \in 1..Len(stack) :
           stack'[i] = IF i = Len(stack) THEN [kind |-> Top.kind, cur |-> r] ELSE stack[i]
  BY HandlingFacts, TopType DEF TypeOK
<1>2. \A i \in 1..Len(stack) : stack'[i].kind = stack[i].kind
  BY <1>1 DEF Top
<1>3. \A i \in 1..Len(stack) : i > 1 => i - 1 \in 1..Len(stack) /\ i - 1 # Len(stack)
  BY <1>1
<1> QED BY <1>1, <1>2, <1>3 DEF PausesKept

LEMMA KeptPausesKeepInv ==
  ASSUME PauseInv, PausesKept(stack')
  PROVE  PauseInv'
BY DEF PauseInv, PausesKept

\* The loop that poll opens stands on poll itself.
LEMMA PauseOnIdle ==
  ASSUME TypeOK, PauseInv, stack # <<>>, Top.cur = NoReq,
         stack' = stack \/ stack' = Append(stack, Frame("pause"))
  PROVE  PauseInv'
<1>1. CASE stack' = stack
  BY <1>1 DEF PauseInv
<1>2. CASE stack' = Append(stack, Frame("pause"))
  <2>1. /\ Len(stack) \in Nat /\ Len(stack) # 0 /\ Len(stack') = Len(stack) + 1
        /\ \A i \in 1..Len(stack) : stack'[i] = stack[i]
    BY <1>2, AppendFrame, TopType DEF TypeOK, Kinds, LoopKinds
  <2>2. \A i \in 1..Len(stack') : i \in 1..Len(stack) \/ i = Len(stack) + 1
    BY <2>1
  <2>3. \A i \in 1..Len(stack) : i > 1 => i - 1 \in 1..Len(stack)
    BY <2>1
  <2>4. Len(stack) + 1 > 1 /\ (Len(stack) + 1) - 1 = Len(stack) /\ Len(stack) \in 1..Len(stack)
    BY <2>1
  <2>5. stack'[Len(stack)].cur = NoReq
    BY <2>1, <2>4 DEF Top
  <2> QED BY <2>1, <2>2, <2>3, <2>4, <2>5 DEF PauseInv
<1> QED BY <1>1, <1>2

LEMMA PausesKeptStartDebugLoop ==
  ASSUME TypeOK, NEW t \in Seq(Frames), PausesKept(t),
         NEW k \in {"api", "apiCo", "halt", "step"}, StartDebugLoop(t, k)
  PROVE  PausesKept(stack')
<1>1. k \in Kinds /\ "line" \in Kinds
  BY DEF Kinds, LoopKinds, HookKinds
<1>2. PausesKept(Append(t, Frame(k))) /\ PausesKept(Append(t, Frame("line")))
  BY <1>1, PausesKeptAppend
<1> QED BY <1>2 DEF StartDebugLoop

LEMMA PauseInvariant == Spec => []PauseInv
<1>1. Init => PauseInv
  BY EmptySeq DEF Init, PauseInv
<1>2. TypeOK /\ GuardInv /\ PauseInv /\ [Next]_vars => PauseInv'
  <2> SUFFICES ASSUME TypeOK, GuardInv, PauseInv, [Next]_vars PROVE PauseInv'
    OBVIOUS
  <2>1. CASE PollPause
    <3>1. stack # <<>> /\ Top.cur = NoReq
      BY <2>1 DEF PollPause, Idle, At
    <3>2. stack' = stack \/ stack' = Append(stack, Frame("pause"))
      BY <2>1 DEF PollPause, StartDebugLoop, HookKinds
    <3> QED BY <3>1, <3>2, PauseOnIdle
  <2>2. CASE StartWelcome \/ PollBegin
    <3>1. PICK k \in {"start", "poll"} : stack' = <<>> \/ stack' = <<Frame(k)>>
      BY <2>2 DEF StartWelcome, PollBegin, GuardInv
    <3>2. CASE stack' = <<>>
      BY <3>2, EmptySeq DEF PauseInv
    <3>3. CASE stack' = <<Frame(k)>>
      <4>1. Len(stack') = 1 /\ stack'[1].kind = k
        BY <3>3 DEF Frame
      <4> QED BY <4>1 DEF PauseInv
    <3> QED BY <3>1, <3>2, <3>3
  <2>3. CASE StepStop \/ BreakpointStop \/ LineBreakpoint \/ ApiStop
    <3>1. \E k \in {"api", "apiCo", "halt", "step"} :
            StartDebugLoop(stack, k) \/ StartDebugLoop(Pop(stack), k)
      BY <2>3, ApiKindsAssumption DEF StepStop, BreakpointStop, LineBreakpoint, ApiStop
    <3> QED BY <3>1, PausesKeptStack, PausesKeptStartDebugLoop, KeptPausesKeepInv
  <2>4. CASE Take \/ Answer \/ HandlerError
    <3>1. stack # <<>>
      BY <2>4 DEF Take, Answer, HandlerError, Idle, Busy, At
    <3>2. PICK r \in Requests \cup {NoReq} : Handling(r)
      BY <2>4, TakeType DEF Take, Answer, HandlerError
    <3> QED BY <3>1, <3>2, PausesKeptHandling, KeptPausesKeepInv
  <2>5. CASE AnswerAndResume \/ LoopEof \/ LoopFails
    <3>1. stack # <<>>
      BY <2>5 DEF AnswerAndResume, LoopEof, LoopFails, AtEof, Idle, Busy, At
    <3>2. \/ Handling(NoReq) \/ stack' = stack \/ stack' = Pop(stack)
          \/ stack' = Pop(Pop(stack)) \/ stack' = Append(Pop(stack), Frame("line"))
      BY <2>5 DEF AnswerAndResume, LoopEof, LoopFails, LoopReturned
    <3>3. PausesKept(Append(Pop(stack), Frame("line")))
      BY PausesKeptStack, PausesKeptAppend DEF Kinds
    <3>4. PausesKept(stack')
      BY <3>1, <3>2, <3>3, PausesKeptStack, PausesKeptHandling
    <3> QED BY <3>4, KeptPausesKeepInv
  <2>6. CASE PollTimeout \/ PollEof \/ LineReturn \/ ErrorEscapes
    <3>1. stack' = stack \/ stack' = Pop(stack)
      BY <2>6 DEF PollTimeout, PollEof, LineReturn, ErrorEscapes
    <3> QED BY <3>1, PausesKeptStack, KeptPausesKeepInv
  <2>7. CASE stack' = stack
    BY <2>7 DEF PauseInv
  <2> QED
    BY <2>1, <2>2, <2>3, <2>4, <2>5, <2>6, <2>7
       DEF Next, Client, Adapter, Game, GameFrame, vars, ClientSend, ClientReceive, ClientClose,
           StartConnect, DropPause, GamePrintFails, EvaluateCatches
<1> QED
  BY <1>1, <1>2, TypeCorrect, GuardInvariant, PTL DEF Spec

-----------------------------------------------------------------------------
(* The requests that the activations hold, as RequestReply sees them.       *)

OpenSeqs(t) == {t[i].cur.seq : i \in 1..Len(t)} \ {0}

Distinct(t) ==
  \A i, j \in 1..Len(t) : i # j /\ t[i].cur.seq # 0 => t[i].cur.seq # t[j].cur.seq

LEMMA OpenSeqsAppend ==
  ASSUME NEW t \in Seq(Frames), NEW k \in Kinds
  PROVE  OpenSeqs(Append(t, Frame(k))) = OpenSeqs(t)
<1> DEFINE u == Append(t, Frame(k))
<1>1. /\ Len(t) \in Nat /\ Len(u) = Len(t) + 1 /\ \A i \in 1..Len(t) : u[i] = t[i]
      /\ u[Len(u)].cur = NoReq
  BY AppendFrame
<1>2. \A i \in 1..Len(u) : i \in 1..Len(t) \/ i = Len(u)
  BY <1>1
<1>3. \A i \in 1..Len(t) : i \in 1..Len(u)
  BY <1>1
<1> HIDE DEF u
<1>4. OpenSeqs(u) = OpenSeqs(t)
  BY <1>1, <1>2, <1>3, NoReqFacts DEF OpenSeqs
<1> QED BY <1>4 DEF u

LEMMA OpenSeqsPop ==
  ASSUME NEW t \in Seq(Frames), t # <<>>, Distinct(t)
  PROVE  /\ OpenSeqs(Pop(t)) = OpenSeqs(t) \ {t[Len(t)].cur.seq}
         /\ Distinct(Pop(t)) /\ Pop(t) \in Seq(Frames)
<1>1. /\ Pop(t) \in Seq(Frames) /\ Len(t) \in Nat \ {0} /\ Len(Pop(t)) = Len(t) - 1
      /\ \A i \in 1..(Len(t) - 1) : Pop(t)[i] = t[i]
  BY PopFacts, EmptySeq
<1>2. \A i \in 1..(Len(t) - 1) : i \in 1..Len(t) /\ i # Len(t)
  BY <1>1
<1>3. \A i \in 1..Len(t) : i \in 1..(Len(t) - 1) \/ i = Len(t)
  BY <1>1
<1>4. Len(t) \in 1..Len(t)
  BY <1>1
<1>5. Distinct(Pop(t))
  BY <1>1, <1>2 DEF Distinct
<1>6. OpenSeqs(Pop(t)) = OpenSeqs(t) \ {t[Len(t)].cur.seq}
  <2>1. ASSUME NEW x \in OpenSeqs(Pop(t)) PROVE x \in OpenSeqs(t) \ {t[Len(t)].cur.seq}
    BY <1>1, <1>2, <1>4, <2>1 DEF OpenSeqs, Distinct
  <2>2. ASSUME NEW x \in OpenSeqs(t) \ {t[Len(t)].cur.seq} PROVE x \in OpenSeqs(Pop(t))
    BY <1>1, <1>3, <2>2 DEF OpenSeqs
  <2> QED BY <2>1, <2>2
<1> QED BY <1>1, <1>5, <1>6

LEMMA OpenSeqsHandling ==
  ASSUME TypeOK, stack # <<>>, Distinct(stack), NEW r \in Requests \cup {NoReq}, Handling(r)
  PROVE  OpenSeqs(stack') = ((OpenSeqs(stack) \ {Top.cur.seq}) \cup {r.seq}) \ {0}
<1>1. /\ Len(stack') = Len(stack) /\ Len(stack) \in 1..Len(stack)
      /\ \A i \in 1..Len(stack) :
           stack'[i].cur = IF i = Len(stack) THEN r ELSE stack[i].cur
  <2>1. /\ Len(stack') = Len(stack)
        /\ \A i \in 1..Len(stack) :
             stack'[i] = IF i = Len(stack) THEN [kind |-> Top.kind, cur |-> r] ELSE stack[i]
    BY HandlingFacts DEF TypeOK
  <2> QED BY <2>1, TopType DEF TypeOK
<1>2. ASSUME NEW x \in OpenSeqs(stack')
      PROVE  x \in ((OpenSeqs(stack) \ {Top.cur.seq}) \cup {r.seq}) \ {0}
  BY <1>1, <1>2 DEF OpenSeqs, Distinct, Top
<1>3. ASSUME NEW x \in ((OpenSeqs(stack) \ {Top.cur.seq}) \cup {r.seq}) \ {0}
      PROVE  x \in OpenSeqs(stack')
  <2>1. CASE x = r.seq
    BY <1>1, <1>3, <2>1 DEF OpenSeqs
  <2>2. CASE x # r.seq
    <3>1. PICK i \in 1..Len(stack) : stack[i].cur.seq = x
      BY <1>3, <2>2 DEF OpenSeqs
    <3>2. i # Len(stack)
      BY <1>3, <2>2, <3>1 DEF Top
    <3> QED BY <1>1, <1>3, <3>1, <3>2 DEF OpenSeqs
  <2> QED BY <2>1, <2>2
<1> QED BY <1>2, <1>3

\* A debug loop returns: its request is gone, and with a pause the poll that has none.
LEMMA OpenSeqsLoopReturned ==
  ASSUME TypeOK, stack # <<>>, Distinct(stack), PauseInv, LoopReturned(stack)
  PROVE  OpenSeqs(stack') = OpenSeqs(stack) \ {Top.cur.seq}
<1>1. /\ OpenSeqs(Pop(stack)) = OpenSeqs(stack) \ {Top.cur.seq}
      /\ Distinct(Pop(stack)) /\ Pop(stack) \in Seq(Frames)
  BY OpenSeqsPop DEF Top, TypeOK
<1>2. CASE Top.kind = "step"
  BY <1>1, <1>2, OpenSeqsAppend DEF LoopReturned, Top, Kinds
<1>3. CASE Top.kind = "pause"
  <2>1. Len(stack) \in 1..Len(stack) /\ Len(stack) > 1 /\ stack[Len(stack) - 1].cur = NoReq
    BY <1>3, TopType DEF PauseInv, Top, TypeOK
  <2>2. Len(Pop(stack)) = Len(stack) - 1 /\ Pop(stack)[Len(stack) - 1] = stack[Len(stack) - 1]
    BY <2>1, PopFacts DEF TypeOK
  <2>3. Pop(stack) # <<>>
    BY <2>1, <2>2, EmptySeq
  <2>4. OpenSeqs(Pop(Pop(stack))) = OpenSeqs(Pop(stack)) \ {0}
    BY <1>1, <2>1, <2>2, <2>3, OpenSeqsPop, NoReqFacts
  <2>5. stack' = Pop(Pop(stack))
    BY <1>3 DEF LoopReturned, Top
  <2> QED BY <1>1, <2>4, <2>5 DEF OpenSeqs
<1>4. CASE Top.kind \notin {"step", "pause"}
  BY <1>1, <1>4 DEF LoopReturned, Top
<1> QED BY <1>2, <1>3, <1>4

-----------------------------------------------------------------------------
(* The requests on their way, and the steps of RequestReply.                *)

SeqsOf(q) == [i \in 1..Len(q) |-> q[i].seq]
Pending   == SeqsOf(c2d)
Answered  == {s \in Seqs : answers[s] > 0}

LEMMA SeqsOfType ==
  ASSUME NEW q \in Seq(Requests)
  PROVE  /\ SeqsOf(q) \in Seq(Seqs) /\ Len(SeqsOf(q)) = Len(q) /\ Len(q) \in Nat
         /\ \A i \in 1..Len(q) : SeqsOf(q)[i] = q[i].seq
<1>1. Len(q) \in Nat
  BY LenProperties
<1>2. \A i \in 1..Len(q) : q[i].seq \in Seqs
  <2> SUFFICES ASSUME NEW i \in 1..Len(q) PROVE q[i].seq \in Seqs
    OBVIOUS
  <2>1. q[i] \in Requests
    BY ElementOfSeq
  <2> QED BY <2>1 DEF Requests
<1>3. SeqsOf(q) \in [1..Len(q) -> Seqs]
  BY <1>2 DEF SeqsOf
<1>4. SeqsOf(q) \in Seq(Seqs)
  BY <1>1, <1>3, SeqDef
<1>5. DOMAIN SeqsOf(q) = 1..Len(q)
  BY <1>3
<1>6. DOMAIN SeqsOf(q) = 1..Len(SeqsOf(q)) /\ Len(SeqsOf(q)) \in Nat
  BY <1>4, LenProperties
<1>7. Len(SeqsOf(q)) = Len(q)
  BY <1>1, <1>5, <1>6
<1> QED BY <1>1, <1>4, <1>7 DEF SeqsOf

\* In both states, since TypeOK holds in both.
LEMMA PendingType ==
  ASSUME TypeOK, TypeOK'
  PROVE  /\ Pending \in Seq(Seqs) /\ Len(Pending) = Len(c2d) /\ Len(c2d) \in Nat
         /\ \A i \in 1..Len(c2d) : Pending[i] = c2d[i].seq
         /\ Pending' \in Seq(Seqs) /\ Len(Pending') = Len(c2d')
         /\ \A i \in 1..Len(c2d') : Pending'[i] = c2d'[i].seq
<1>1. c2d \in Seq(Requests) /\ c2d' \in Seq(Requests)
  BY DEF TypeOK
<1>2. Pending = SeqsOf(c2d) /\ Pending' = SeqsOf(c2d')
  BY DEF Pending, SeqsOf
<1> QED BY <1>1, <1>2, SeqsOfType

LEMMA PendingAppend ==
  ASSUME TypeOK, TypeOK', NEW m \in Requests, c2d' = Append(c2d, m)
  PROVE  Pending' = Append(Pending, m.seq)
<1>1. /\ Len(c2d') = Len(c2d) + 1 /\ c2d'[Len(c2d) + 1] = m /\ Len(c2d) \in Nat
      /\ \A i \in 1..Len(c2d) : c2d'[i] = c2d[i]
  BY AppendProperties, LenProperties DEF TypeOK
<1>2. m.seq \in Seqs
  BY DEF Requests
<1>3. /\ Pending \in Seq(Seqs) /\ Len(Pending) = Len(c2d)
      /\ \A i \in 1..Len(c2d) : Pending[i] = c2d[i].seq
  BY PendingType
<1>4. /\ Pending' \in Seq(Seqs) /\ Len(Pending') = Len(c2d')
      /\ \A i \in 1..Len(c2d') : Pending'[i] = c2d'[i].seq
  BY PendingType
<1> DEFINE q == Append(Pending, m.seq)
<1>5. /\ q \in Seq(Seqs) /\ Len(q) = Len(c2d) + 1 /\ q[Len(c2d) + 1] = m.seq
      /\ \A i \in 1..Len(c2d) : q[i] = c2d[i].seq
  BY <1>2, <1>3, AppendProperties
<1> HIDE DEF q
<1>6. \A i \in 1..Len(Pending') : i \in 1..Len(c2d) \/ i = Len(c2d) + 1
  BY <1>1, <1>4
<1>7. \A i \in 1..Len(Pending') : Pending'[i] = q[i]
  BY <1>1, <1>4, <1>5, <1>6
<1>8. Pending' = q
  BY <1>1, <1>4, <1>5, <1>7, SeqEqual
<1> QED BY <1>8 DEF q

LEMMA PendingTail ==
  ASSUME TypeOK, TypeOK', c2d # <<>>, c2d' = Tail(c2d)
  PROVE  Pending # <<>> /\ Pending' = Tail(Pending) /\ Head(Pending) = Head(c2d).seq
<1>1. /\ Len(c2d) \in Nat \ {0} /\ Len(c2d') = Len(c2d) - 1 /\ Head(c2d) = c2d[1]
      /\ \A i \in 1..(Len(c2d) - 1) : c2d'[i] = c2d[i + 1]
  BY HeadTailProperties, EmptySeq DEF TypeOK
<1>2. /\ Pending \in Seq(Seqs) /\ Len(Pending) = Len(c2d)
      /\ \A i \in 1..Len(c2d) : Pending[i] = c2d[i].seq
  BY PendingType
<1>3. /\ Pending' \in Seq(Seqs) /\ Len(Pending') = Len(c2d')
      /\ \A i \in 1..Len(c2d') : Pending'[i] = c2d'[i].seq
  BY PendingType
<1>4. Pending # <<>>
  BY <1>1, <1>2, EmptySeq
<1>5. /\ Tail(Pending) \in Seq(Seqs) /\ Len(Tail(Pending)) = Len(c2d) - 1
      /\ Head(Pending) = Pending[1]
      /\ \A i \in 1..(Len(c2d) - 1) : Tail(Pending)[i] = Pending[i + 1]
  BY <1>2, <1>4, HeadTailProperties
<1>6. \A i \in 1..(Len(c2d) - 1) : i + 1 \in 1..Len(c2d)
  BY <1>1
<1>7. \A i \in 1..Len(Pending') : Pending'[i] = Tail(Pending)[i]
  BY <1>1, <1>2, <1>3, <1>5, <1>6
<1>8. Pending' = Tail(Pending)
  BY <1>1, <1>3, <1>5, <1>7, SeqEqual
<1>9. 1 \in 1..Len(c2d)
  BY <1>1
<1> QED BY <1>1, <1>2, <1>4, <1>5, <1>8, <1>9

LEMMA PendingCut ==
  ASSUME TypeOK, TypeOK', NEW n \in 0..Len(c2d), c2d' = SubSeq(c2d, 1, n)
  PROVE  n \in 0..Len(Pending) /\ Pending' = SubSeq(Pending, 1, n)
<1>1. Len(c2d) \in Nat /\ Len(c2d') = n /\ \A i \in 1..n : c2d'[i] = c2d[i]
  <2>1. Len(c2d) \in Nat /\ n \in Int /\ \A i \in 1..n : c2d[i] \in Requests
    BY LenProperties, ElementOfSeq DEF TypeOK
  <2> QED BY <2>1, SubSeqProperties
<1>2. /\ Pending \in Seq(Seqs) /\ Len(Pending) = Len(c2d)
      /\ \A i \in 1..Len(c2d) : Pending[i] = c2d[i].seq
  BY PendingType
<1>3. /\ Pending' \in Seq(Seqs) /\ Len(Pending') = Len(c2d')
      /\ \A i \in 1..Len(c2d') : Pending'[i] = c2d'[i].seq
  BY PendingType
<1>4. \A i \in 1..n : i \in 1..Len(c2d)
  BY <1>1
<1>5. /\ SubSeq(Pending, 1, n) \in Seq(Seqs) /\ Len(SubSeq(Pending, 1, n)) = n
      /\ \A i \in 1..n : SubSeq(Pending, 1, n)[i] = Pending[i]
  <2>1. 1 \in Int /\ n \in Int /\ \A i \in 1..n : Pending[i] \in Seqs
    BY <1>2, <1>4, ElementOfSeq
  <2> QED BY <2>1, SubSeqProperties
<1>6. \A i \in 1..Len(Pending') : Pending'[i] = SubSeq(Pending, 1, n)[i]
  BY <1>1, <1>2, <1>3, <1>4, <1>5
<1>7. Pending' = SubSeq(Pending, 1, n)
  BY <1>1, <1>3, <1>5, <1>6, SeqEqual
<1> QED BY <1>2, <1>7

\* What each kind of step does, as a step of RequestReply.
Stutters == /\ Pending' = Pending /\ nextSeq' = nextSeq
            /\ OpenSeqs(stack') = OpenSeqs(stack) /\ answers' = answers

RRStep == [RR!Next]_(RR!vars)

LEMMA StutterStep ==
  ASSUME Stutters
  PROVE  RRStep
BY DEF Stutters, RRStep, RR!vars, Pending, SeqsOf, OpenSeqs, Answered

LEMMA AbandonStep ==
  ASSUME TypeOK, stack # <<>>, Pending' = Pending, UNCHANGED <<nextSeq, answers>>,
         OpenSeqs(stack') = OpenSeqs(stack) \ {Top.cur.seq}
  PROVE  RRStep
<1>1. Len(stack) \in 1..Len(stack) /\ Top.cur \in Requests \cup {NoReq}
  BY TopType DEF TypeOK
<1>2. CASE Top.cur.seq \in OpenSeqs(stack)
  <2>1. PICK q \in Seqs : q = Top.cur.seq
    BY <1>1, <1>2, NoReqFacts DEF OpenSeqs, Requests
  <2>2. RR!Abandon(q)
    BY <1>2, <2>1 DEF RR!Abandon, Pending, SeqsOf, OpenSeqs
  <2> QED BY <2>1, <2>2 DEF RRStep, RR!Next
<1>3. CASE Top.cur.seq \notin OpenSeqs(stack)
  BY <1>3, StutterStep DEF Stutters
<1> QED BY <1>2, <1>3

LEMMA ReplyStep ==
  ASSUME TypeOK, stack # <<>>, Top.cur \in Requests, Pending' = Pending, nextSeq' = nextSeq,
         OpenSeqs(stack') = OpenSeqs(stack) \ {Top.cur.seq},
         answers' = [answers EXCEPT ![Top.cur.seq] = @ + 1]
  PROVE  RRStep
<1>1. PICK q \in Seqs : q = Top.cur.seq
  BY DEF Requests
<1>2. q \in OpenSeqs(stack)
  <2>1. Len(stack) \in 1..Len(stack) /\ q # 0
    BY TopType DEF TypeOK, Seqs
  <2> QED BY <1>1, <2>1 DEF OpenSeqs, Top
<1>3. Answered' = Answered \cup {q}
  <2>1. answers \in [Seqs -> Nat] /\ answers' = [answers EXCEPT ![q] = @ + 1]
    BY <1>1 DEF TypeOK
  <2>2. answers'[q] > 0 /\ \A s \in Seqs : s # q => answers'[s] = answers[s]
    BY <2>1
  <2> QED BY <2>2 DEF Answered
<1>4. RR!Reply(q)
  BY <1>1, <1>2, <1>3 DEF RR!Reply, Pending, SeqsOf, OpenSeqs, Answered
<1> QED BY <1>4 DEF RRStep, RR!Next

\* What the invariants of the session say of the requests that it holds.
Held == TypeOK /\ GuardInv /\ SeqInv /\ PauseInv

LEMMA HeldFacts ==
  ASSUME Held
  PROVE  /\ Distinct(stack) /\ Distinct(Pop(stack))
         /\ stack # <<>> => OpenSeqs(Pop(stack)) = OpenSeqs(stack) \ {Top.cur.seq}
         /\ Pop(stack) \in Seq(Frames)
<1>1. Distinct(stack) /\ stack \in Seq(Frames)
  BY DEF Held, SeqInv, Distinct, TypeOK
<1>2. Pop(stack) \in Seq(Frames) /\ (stack = <<>> => Pop(stack) = <<>>)
  BY <1>1, PopPrefix, EmptySeq
<1>3. CASE stack = <<>>
  BY <1>1, <1>2, <1>3
<1>4. CASE stack # <<>>
  BY <1>1, <1>4, OpenSeqsPop DEF Top
<1> QED BY <1>1, <1>2, <1>3, <1>4

\* An activation without a request leaves as quietly as it came.
LEMMA IdlePops ==
  ASSUME Held, stack # <<>>, Top.cur = NoReq
  PROVE  OpenSeqs(Pop(stack)) = OpenSeqs(stack)
<1>1. OpenSeqs(Pop(stack)) = OpenSeqs(stack) \ {0}
  BY HeldFacts, NoReqFacts DEF Held
<1> QED BY <1>1 DEF OpenSeqs

LEMMA LoopsOpenNothing ==
  ASSUME NEW t \in Seq(Frames), NEW k \in {"api", "apiCo", "halt", "step", "pause"},
         StartDebugLoop(t, k)
  PROVE  OpenSeqs(stack') = OpenSeqs(t)
<1>1. k \in Kinds /\ "line" \in Kinds
  BY DEF Kinds, LoopKinds, HookKinds
<1> QED BY <1>1, OpenSeqsAppend DEF StartDebugLoop

\* What the client sends is a request, whatever it shows.
LEMMA SentType ==
  ASSUME TypeOK, nextSeq \in Seqs, NEW cmd \in Offered, NEW o \in Operands(cmd)
  PROVE  [seq |-> nextSeq, cmd |-> cmd, ref |-> o.ref, val |-> o.val] \in Requests
<1>1. cmd \in Commands
  BY DEF Offered, Commands, ResumeCmds
<1>2. o.ref \in 0..MaxSeq /\ o.val \in 0..MaxSeq
  <2>1. CASE o = [ref |-> 0, val |-> 0]
    BY <2>1, MaxSeqAssumption
  <2>2. CASE o \in refs
    <3>1. o \in [ref : Seqs, val : Seqs]
      BY <2>2 DEF TypeOK
    <3> QED BY <3>1 DEF Seqs
  <2> QED BY <2>1, <2>2 DEF Operands
<1> QED BY <1>1, <1>2 DEF Requests

\* Every step of the session is one of RequestReply or changes nothing there.
LEMMA SessionSteps ==
  ASSUME Held, TypeOK', [Next]_vars
  PROVE  RRStep
<1> USE DEF Held
<1>1. CASE ClientSend
  <2>1. PICK cmd \in Offered : \E o \in Operands(cmd) :
          c2d' = Append(c2d, [seq |-> nextSeq, cmd |-> cmd, ref |-> o.ref, val |-> o.val])
    BY <1>1 DEF ClientSend
  <2>2. PICK o \in Operands(cmd) :
          c2d' = Append(c2d, [seq |-> nextSeq, cmd |-> cmd, ref |-> o.ref, val |-> o.val])
    BY <2>1
  <2>3. PICK m : m = [seq |-> nextSeq, cmd |-> cmd, ref |-> o.ref, val |-> o.val]
    OBVIOUS
  <2>4. nextSeq \in Seqs
    BY <1>1 DEF ClientSend, TypeOK, Seqs
  <2>5. m \in Requests
    BY <2>3, <2>4, SentType
  <2>6. Pending' = Append(Pending, nextSeq)
    BY <2>2, <2>3, <2>5, PendingAppend
  <2>7. RR!Send
    BY <1>1, <2>4, <2>6 DEF ClientSend, history, RR!Send, Pending, SeqsOf
  <2> QED BY <2>7 DEF RRStep, RR!Next
<1>2. CASE ClientClose
  <2>1. PICK n \in 0..Len(c2d) : c2d' = SubSeq(c2d, 1, n)
    BY <1>2 DEF ClientClose
  <2>2. n \in 0..Len(Pending) /\ Pending' = SubSeq(Pending, 1, n)
    BY <2>1, PendingCut
  <2>3. RR!Lose
    BY <1>2, <2>2 DEF ClientClose, history, RR!Lose, Pending, SeqsOf
  <2> QED BY <2>3 DEF RRStep, RR!Next
<1>3. CASE Take
  <2>1. stack # <<>> /\ Top.cur = NoReq /\ c2d # <<>> /\ c2d' = Tail(c2d) /\ Handling(Head(c2d))
    BY <1>3 DEF Take, Idle, At
  <2>2. Pending # <<>> /\ Pending' = Tail(Pending) /\ Head(Pending) = Head(c2d).seq
    BY <2>1, PendingTail
  <2>3. Head(c2d) \in Requests /\ Head(c2d).seq # 0
    <3>1. Head(c2d) \in Requests
      BY <2>1, HeadTailProperties DEF TypeOK
    <3>2. Head(c2d).seq \in Seqs
      BY <3>1 DEF Requests
    <3> QED BY <3>1, <3>2 DEF Seqs
  <2>4. OpenSeqs(stack') = ((OpenSeqs(stack) \ {0}) \cup {Head(c2d).seq}) \ {0}
    BY <2>1, <2>3, HeldFacts, NoReqFacts, OpenSeqsHandling
  <2>5. OpenSeqs(stack') = OpenSeqs(stack) \cup {Head(Pending)}
    BY <2>2, <2>3, <2>4 DEF OpenSeqs
  <2>6. RR!Accept
    BY <1>3, <2>2, <2>5 DEF Take, clientVars, RR!Accept, Pending, SeqsOf, OpenSeqs
  <2> QED BY <2>6 DEF RRStep, RR!Next
<1>4. CASE DropPause \/ PollPause
  <2>1. c2d # <<>> /\ c2d' = Tail(c2d) /\ UNCHANGED <<nextSeq, answers>>
    BY <1>4 DEF DropPause, PollPause, clientVars, history
  <2>2. Pending # <<>> /\ Pending' = Tail(Pending)
    BY <2>1, PendingTail
  <2>3. OpenSeqs(stack') = OpenSeqs(stack)
    BY <1>4, LoopsOpenNothing DEF DropPause, PollPause, TypeOK
  <2>4. RR!Discard
    BY <2>1, <2>2, <2>3 DEF RR!Discard, Pending, SeqsOf, OpenSeqs
  <2> QED BY <2>4 DEF RRStep, RR!Next
<1>5. CASE Answer \/ AnswerAndResume
  <2>1. stack # <<>> /\ Top.cur \in Requests /\ Pending' = Pending /\ nextSeq' = nextSeq
    BY <1>5, TopType DEF Answer, AnswerAndResume, Busy, At, clientVars, TypeOK, Pending, SeqsOf
  <2>2. Handling(NoReq) \/ LoopReturned(stack)
    BY <1>5 DEF Answer, AnswerAndResume
  <2>3. OpenSeqs(stack') = OpenSeqs(stack) \ {Top.cur.seq}
    <3>1. CASE Handling(NoReq)
      BY <2>1, <3>1, HeldFacts, NoReqFacts, OpenSeqsHandling DEF OpenSeqs
    <3>2. CASE LoopReturned(stack)
      BY <2>1, <3>2, HeldFacts, OpenSeqsLoopReturned
    <3> QED BY <2>2, <3>1, <3>2
  <2>4. answers' = answers \/ answers' = [answers EXCEPT ![Top.cur.seq] = @ + 1]
    BY <1>5 DEF Answer, AnswerAndResume
  <2> QED BY <2>1, <2>3, <2>4, ReplyStep, AbandonStep
<1>6. CASE HandlerError \/ LoopFails \/ ErrorEscapes \/ LoopEof
  <2>1. Pending' = Pending /\ UNCHANGED <<nextSeq, answers>>
    BY <1>6 DEF HandlerError, LoopFails, ErrorEscapes, LoopEof, wireVars, clientVars, history,
                Pending, SeqsOf
  <2>2. CASE stack = <<>>
    <3>1. stack' = stack
      BY <1>6, <2>2 DEF HandlerError, LoopFails, ErrorEscapes, LoopEof, AtEof, Idle, Busy, At
    <3> QED BY <2>1, <3>1, StutterStep DEF Stutters
  <2>3. CASE stack # <<>>
    <3>1. \/ Handling(NoReq) \/ LoopReturned(stack) \/ stack' = Pop(stack)
          \/ stack' = Append(Pop(stack), Frame("line")) \/ stack' = stack
      BY <1>6 DEF HandlerError, LoopFails, ErrorEscapes, LoopEof
    <3>2. OpenSeqs(stack') = OpenSeqs(stack) \ {Top.cur.seq} \/ stack' = stack
      <4>1. CASE Handling(NoReq)
        BY <2>3, <4>1, HeldFacts, NoReqFacts, OpenSeqsHandling DEF OpenSeqs
      <4>2. CASE LoopReturned(stack)
        BY <2>3, <4>2, HeldFacts, OpenSeqsLoopReturned
      <4>3. CASE stack' = Pop(stack) \/ stack' = Append(Pop(stack), Frame("line"))
        BY <2>3, <4>3, HeldFacts, OpenSeqsAppend DEF Kinds
      <4> QED BY <3>1, <4>1, <4>2, <4>3
    <3> QED BY <2>1, <2>3, <3>2, AbandonStep, StutterStep DEF Stutters
  <2> QED BY <2>2, <2>3
<1>7. CASE PollTimeout \/ PollEof \/ LineReturn \/ LineBreakpoint
  <2>1. Pending' = Pending /\ UNCHANGED <<nextSeq, answers>>
    BY <1>7 DEF PollTimeout, PollEof, LineReturn, LineBreakpoint, wireVars, clientVars, history,
                Pending, SeqsOf
  <2>2. stack # <<>> /\ Top.cur = NoReq
    BY <1>7 DEF PollTimeout, PollEof, LineReturn, LineBreakpoint, AtEof, Idle, At
  <2>3. stack' = stack \/ stack' = Pop(stack) \/ StartDebugLoop(Pop(stack), "halt")
    BY <1>7 DEF PollTimeout, PollEof, LineReturn, LineBreakpoint
  <2>4. OpenSeqs(stack') = OpenSeqs(stack)
    BY <2>2, <2>3, IdlePops, HeldFacts, LoopsOpenNothing
  <2> QED BY <2>1, <2>4, StutterStep DEF Stutters
<1>8. CASE StepStop \/ BreakpointStop \/ ApiStop
  <2>1. Pending' = Pending /\ UNCHANGED <<nextSeq, answers>>
    BY <1>8 DEF StepStop, BreakpointStop, ApiStop, clientVars, Pending, SeqsOf
  <2>2. PICK k \in {"api", "apiCo", "halt", "step"} : StartDebugLoop(stack, k)
    BY <1>8, ApiKindsAssumption DEF StepStop, BreakpointStop, ApiStop
  <2>3. OpenSeqs(stack') = OpenSeqs(stack)
    BY <2>2, LoopsOpenNothing DEF TypeOK
  <2> QED BY <2>1, <2>3, StutterStep DEF Stutters
<1>9. CASE StartWelcome \/ PollBegin
  <2>1. Pending' = Pending /\ UNCHANGED <<nextSeq, answers>>
    BY <1>9 DEF StartWelcome, PollBegin, wireVars, clientVars, history, Pending, SeqsOf
  <2>2. stack = <<>> /\ (stack' = <<>> \/ \E k \in Kinds : stack' = <<Frame(k)>>)
    BY <1>9 DEF StartWelcome, PollBegin, GuardInv, Kinds, LoopKinds
  <2>3. OpenSeqs(stack') = OpenSeqs(stack)
    <3>1. \A k \in Kinds : <<Frame(k)>> = Append(<<>>, Frame(k))
      OBVIOUS
    <3> QED BY <2>2, <3>1, OpenSeqsAppend, EmptySeq
  <2> QED BY <2>1, <2>3, StutterStep DEF Stutters
<1>10. CASE UNCHANGED <<c2d, nextSeq, stack, answers>>
  BY <1>10, StutterStep DEF Stutters, Pending, SeqsOf
<1>11. ASSUME \/ ClientReceive \/ StartConnect \/ GamePrintFails \/ EvaluateCatches
              \/ GameFrame \/ UNCHANGED vars
       PROVE  UNCHANGED <<c2d, nextSeq, stack, answers>>
  BY <1>11 DEF ClientReceive, StartConnect, GamePrintFails, EvaluateCatches, GameFrame, vars,
               clientVars, wireVars, history
<1> QED
  BY <1>1, <1>2, <1>3, <1>4, <1>5, <1>6, <1>7, <1>8, <1>9, <1>10, <1>11
     DEF Next, Client, Adapter, Game

\* The session implements RequestReply: whatever loops, polls, stops and errors
\* interleave, requests are accepted in order, are answered at most once and
\* only while open, and what was answered is never open again.
THEOREM SessionKeepsRequestReply == Spec => KeepsRequestReply
<1>1. Init => RR!Init
  BY DEF Init, RR!Init
<1>2. Held /\ TypeOK' /\ [Next]_vars => RRStep
  BY SessionSteps
<1> QED
  BY <1>1, <1>2, TypeCorrect, GuardInvariant, SeqInvariant, PauseInvariant, PTL
     DEF Spec, KeepsRequestReply, RR!Spec, RRStep, Held

-----------------------------------------------------------------------------
(* What the client sees of a stop: where its stack trace begins, whether    *)
(* the stop is shown, and what the references it was given stand for.       *)

-----------------------------------------------------------------------------
(* What a step leaves of the activations.                                   *)

LoopEntries == {"pause", "api", "apiCo"} \cup HookKinds

\* Every debug loop of t is open already, at the same place.
LoopsKept(t) ==
  \A i \in OpenLoops(t) : i \in OpenLoops(stack) /\ t[i].kind = stack[i].kind

LEMMA LoopsKeptPop ==
  ASSUME NEW t \in Seq(Frames), LoopsKept(t)
  PROVE  LoopsKept(Pop(t)) /\ Pop(t) \in Seq(Frames)
<1>1. /\ Pop(t) \in Seq(Frames)
      /\ \A i \in 1..Len(Pop(t)) : i \in 1..Len(t) /\ Pop(t)[i] = t[i]
  BY PopPrefix
<1>2. \A i \in OpenLoops(Pop(t)) : i \in OpenLoops(t) /\ Pop(t)[i] = t[i]
  BY <1>1 DEF OpenLoops
<1> QED BY <1>1, <1>2 DEF LoopsKept

LEMMA LoopsKeptStack ==
  ASSUME TypeOK
  PROVE  /\ stack \in Seq(Frames) /\ Pop(stack) \in Seq(Frames)
         /\ Pop(Pop(stack)) \in Seq(Frames)
         /\ LoopsKept(stack) /\ LoopsKept(Pop(stack)) /\ LoopsKept(Pop(Pop(stack)))
<1>1. stack \in Seq(Frames) /\ LoopsKept(stack)
  BY DEF TypeOK, LoopsKept
<1> QED BY <1>1, LoopsKeptPop

\* A new activation on top of t: the loops of t, and its own if it is one.
LEMMA LoopsOfAppend ==
  ASSUME NEW t \in Seq(Frames), NEW k \in Kinds
  PROVE  LET u == Append(t, Frame(k)) IN
         /\ \A i \in OpenLoops(u) : \/ i \in OpenLoops(t) /\ u[i] = t[i]
                                    \/ i = Len(u) /\ u[i].kind = k /\ k \in LoopKinds
         /\ u \in Seq(Frames) /\ u # <<>> /\ u[Len(u)].kind = k /\ u[Len(u)].cur = NoReq
<1> DEFINE u == Append(t, Frame(k))
<1>1. /\ Len(t) \in Nat /\ Len(u) = Len(t) + 1 /\ \A i \in 1..Len(t) : u[i] = t[i]
      /\ u[Len(u)].kind = k /\ u \in Seq(Frames) /\ u # <<>> /\ u[Len(u)].cur = NoReq
  BY AppendFrame
<1>2. \A i \in 1..Len(u) : i \in 1..Len(t) \/ i = Len(u)
  BY <1>1
<1> HIDE DEF u
<1>3. \A i \in OpenLoops(u) : \/ i \in OpenLoops(t) /\ u[i] = t[i]
                              \/ i = Len(u) /\ u[i].kind = k /\ k \in LoopKinds
  BY <1>1, <1>2 DEF OpenLoops
<1> QED BY <1>1, <1>3 DEF u

LEMMA LoopsKeptAppend ==
  ASSUME NEW t \in Seq(Frames), LoopsKept(t), NEW k \in {"line", "poll"}
  PROVE  LoopsKept(Append(t, Frame(k)))
<1>1. k \in Kinds /\ k \notin LoopKinds
  BY DEF Kinds, LoopKinds, HookKinds
<1> DEFINE u == Append(t, Frame(k))
<1>2. \A i \in OpenLoops(u) : i \in OpenLoops(t) /\ u[i] = t[i]
  BY <1>1, LoopsOfAppend
<1> HIDE DEF u
<1>3. LoopsKept(u)
  BY <1>2 DEF LoopsKept
<1> QED BY <1>3 DEF u

LEMMA LoopsKeptHandling ==
  ASSUME TypeOK, stack # <<>>, NEW r \in Requests \cup {NoReq}, Handling(r)
  PROVE  /\ LoopsKept(stack') /\ OpenLoops(stack') = OpenLoops(stack)
         /\ Len(stack') = Len(stack) /\ stack' # <<>>
         /\ Top'.kind = Top.kind /\ Top'.cur = r
         /\ \A i \in 1..Len(stack) : i # Len(stack) => stack'[i] = stack[i]
<1>1. /\ stack' \in Seq(Frames) /\ Len(stack') = Len(stack) /\ Len(stack) \in 1..Len(stack)
      /\ \A i \in 1..Len(stack) :
           stack'[i] = IF i = Len(stack) THEN [kind |-> Top.kind, cur |-> r] ELSE stack[i]
  BY HandlingFacts, TopType DEF TypeOK
<1>2. \A i \in 1..Len(stack) : stack'[i].kind = stack[i].kind
  BY <1>1 DEF Top
<1>3. Top'.kind = Top.kind /\ Top'.cur = r /\ stack' # <<>>
  BY <1>1, EmptySeq DEF Top
<1>4. OpenLoops(stack') = OpenLoops(stack)
  BY <1>1, <1>2 DEF OpenLoops
<1> QED BY <1>1, <1>2, <1>3, <1>4 DEF LoopsKept, OpenLoops

LEMMA LoopsKeptLoopReturned ==
  ASSUME TypeOK, LoopReturned(stack)
  PROVE  LoopsKept(stack')
BY LoopsKeptStack, LoopsKeptAppend DEF LoopReturned

-----------------------------------------------------------------------------
(* The frame at which a stack trace begins.                                 *)

BaseOf(k) == IF k = "start" THEN "nil" ELSE NewBase(k)

\* As long as no loop was opened inside of another one there is one loop at
\* most, and baseDepth is still what its entry has set.
BaseInv ==
  /\ phase \in {"init", "welcome"} => baseDepth = "nil"
  /\ ~nested => /\ \A i \in OpenLoops(stack) : baseDepth = BaseOf(stack[i].kind)
                /\ \A i, j \in OpenLoops(stack) : i = j

\* Activations end, or are marked, or one that is no debug loop is added.
LEMMA KeptLoopsKeepBase ==
  ASSUME BaseInv, LoopsKept(stack'), UNCHANGED <<baseDepth, nested>>,
         phase' \in {"init", "welcome"} => phase \in {"init", "welcome"}
  PROVE  BaseInv'
BY DEF BaseInv, LoopsKept

\* startDebugLoop in the code: the loop it opens is the only one, or nested.
LEMMA StartDebugLoopKeepsBase ==
  ASSUME TypeOK, BaseInv, NEW s \in Seq(Frames), NEW k \in LoopEntries,
         StartDebugLoop(s, k), phase' \notin {"init", "welcome"}
  PROVE  BaseInv'
<1>1. k \in Kinds /\ k # "start" /\ "line" \in Kinds /\ "line" \notin LoopKinds
  BY DEF LoopEntries, Kinds, LoopKinds, HookKinds
<1>2. baseDepth' = BaseOf(k) /\ (~nested' => OpenLoops(s) = {})
  BY <1>1 DEF StartDebugLoop, BaseOf
<1>3. CASE stack' = Append(s, Frame(k))
  <2>1. ASSUME ~nested', NEW i \in OpenLoops(stack')
        PROVE  i = Len(stack') /\ stack'[i].kind = k
    BY <1>1, <1>2, <1>3, <2>1, LoopsOfAppend
  <2> QED BY <1>2, <2>1 DEF BaseInv
<1>4. CASE stack' = Append(s, Frame("line")) \/ stack' = s
  <2>1. ~nested' => OpenLoops(stack') = {}
    BY <1>1, <1>2, <1>4, LoopsOfAppend
  <2> QED BY <2>1 DEF BaseInv
<1> QED BY <1>3, <1>4 DEF StartDebugLoop

\* baseDepth belongs to the one debug loop that is open, through every step.
LEMMA BaseInvariant == Spec => []BaseInv
<1>1. Init => BaseInv
  <2> SUFFICES ASSUME Init PROVE BaseInv
    OBVIOUS
  <2>1. stack = <<>> /\ baseDepth = "nil" /\ OpenLoops(stack) = {}
    BY EmptySeq DEF Init, OpenLoops
  <2> QED BY <2>1 DEF BaseInv
<1>2. TypeOK /\ GuardInv /\ BaseInv /\ [Next]_vars => BaseInv'
  <2> SUFFICES ASSUME TypeOK, GuardInv, BaseInv, [Next]_vars PROVE BaseInv'
    OBVIOUS
  <2> USE DEF clientVars, wireVars, hookVars, dataVars, history
  <2>1. CASE ClientSend \/ ClientReceive \/ ClientClose \/ StartConnect \/ DropPause
             \/ GamePrintFails \/ EvaluateCatches \/ UNCHANGED vars
    <3>1. /\ UNCHANGED <<stack, baseDepth, nested>>
          /\ phase' \in {"init", "welcome"} => phase \in {"init", "welcome"}
      BY <2>1 DEF ClientSend, ClientReceive, ClientClose, StartConnect, DropPause,
                  GamePrintFails, EvaluateCatches, vars
    <3> QED BY <3>1, LoopsKeptStack, KeptLoopsKeepBase
  <2>2. CASE StartWelcome
    <3>1. /\ baseDepth' = "nil" /\ stack = <<>> /\ phase' \notin {"init", "welcome"}
          /\ stack' = <<Frame("start")>> \/ stack' = <<>>
      BY <2>2 DEF StartWelcome, BaseInv, GuardInv
    <3>2. CASE stack' = <<>>
      <4>1. OpenLoops(stack') = {}
        BY <3>2, EmptySeq DEF OpenLoops
      <4> QED BY <3>1, <4>1 DEF BaseInv
    <3>3. CASE stack' = <<Frame("start")>>
      <4>1. Len(stack') = 1 /\ stack'[1].kind = "start"
        BY <3>3 DEF Frame
      <4>2. \A i \in OpenLoops(stack') : i = 1
        BY <4>1 DEF OpenLoops
      <4> QED BY <3>1, <4>1, <4>2 DEF BaseInv, BaseOf
    <3> QED BY <3>1, <3>2, <3>3
  <2>3. CASE PollBegin
    <3>1. stack' = <<Frame("poll")>> /\ UNCHANGED <<baseDepth, nested, phase>>
      BY <2>3 DEF PollBegin
    <3>2. Len(stack') = 1 /\ stack'[1].kind = "poll"
      BY <3>1 DEF Frame
    <3>3. \A i \in 1..Len(stack') : i = 1
      BY <3>2
    <3>4. OpenLoops(stack') = {}
      BY <3>2, <3>3 DEF OpenLoops, LoopKinds, HookKinds
    <3> QED BY <3>1, <3>4, KeptLoopsKeepBase DEF LoopsKept
  <2>4. CASE PollTimeout \/ PollEof \/ LineReturn \/ ErrorEscapes
    <3>1. /\ stack' = stack \/ stack' = Pop(stack)
          /\ UNCHANGED <<baseDepth, nested>>
          /\ phase' \in {"init", "welcome"} => phase \in {"init", "welcome"}
      BY <2>4 DEF PollTimeout, PollEof, LineReturn, ErrorEscapes
    <3> QED BY <3>1, LoopsKeptStack, KeptLoopsKeepBase
  <2>5. CASE Take \/ Answer \/ HandlerError
    <3>1. stack # <<>> /\ UNCHANGED <<baseDepth, nested, phase>>
      BY <2>5 DEF Take, Answer, HandlerError, Idle, Busy, At
    <3>2. PICK r \in Requests \cup {NoReq} : Handling(r)
      BY <2>5, TakeType DEF Take, Answer, HandlerError
    <3> QED BY <3>1, <3>2, LoopsKeptHandling, KeptLoopsKeepBase
  <2>6. CASE AnswerAndResume \/ LoopEof \/ LoopFails
    <3>1. /\ stack # <<>> /\ UNCHANGED <<baseDepth, nested>>
          /\ phase' \in {"init", "welcome"} => phase \in {"init", "welcome"}
      BY <2>6 DEF AnswerAndResume, LoopEof, LoopFails, LoopReturned, AtEof, Idle, Busy, At
    <3>2. \/ LoopReturned(stack) \/ Handling(NoReq) \/ stack' = stack \/ stack' = Pop(stack)
          \/ stack' = Append(Pop(stack), Frame("line"))
      BY <2>6 DEF AnswerAndResume, LoopEof, LoopFails
    <3>3. LoopsKept(stack')
      BY <3>1, <3>2, LoopsKeptStack, LoopsKeptAppend, LoopsKeptHandling, LoopsKeptLoopReturned
    <3> QED BY <3>1, <3>3, KeptLoopsKeepBase
  <2>7. CASE PollPause \/ StepStop \/ BreakpointStop \/ LineBreakpoint \/ ApiStop
    <3>1. phase' \notin {"init", "welcome"}
      BY <2>7 DEF PollPause, StepStop, BreakpointStop, LineBreakpoint, ApiStop, Idle, Busy,
                  ScriptRuns, At, GuardInv
    <3>2. \E k \in LoopEntries : StartDebugLoop(stack, k) \/ StartDebugLoop(Pop(stack), k)
      BY <2>7, ApiKindsAssumption
         DEF PollPause, StepStop, BreakpointStop, LineBreakpoint, ApiStop, LoopEntries, HookKinds
    <3> QED BY <3>1, <3>2, LoopsKeptStack, StartDebugLoopKeepsBase
  <2> QED
    BY <2>1, <2>2, <2>3, <2>4, <2>5, <2>6, <2>7 DEF Next, Client, Adapter, Game, GameFrame
<1> QED
  BY <1>1, <1>2, TypeCorrect, GuardInvariant, PTL DEF Spec

\* A stack trace begins at the code that the stop has interrupted: every way into
\* a debug loop sets baseDepth, and only another stop inside of it can replace it.
THEOREM StackTraceBaseHolds == Spec => []StackTraceBase
<1>1. TypeOK /\ BaseInv => StackTraceBase
  <2> SUFFICES ASSUME TypeOK, BaseInv, ~nested, stack # <<>>, Top.kind \in LoopKinds
               PROVE  baseDepth = BaseOf(Top.kind)
    BY DEF StackTraceBase, BaseOf, NewBase
  <2>1. Len(stack) \in OpenLoops(stack)
    BY TopType DEF OpenLoops, Top, TypeOK
  <2> QED BY <2>1 DEF BaseInv, Top
<1> QED
  BY <1>1, TypeCorrect, BaseInvariant, PTL

-----------------------------------------------------------------------------
(* Whether a stop is shown.                                                 *)

Stops    == {i \in 1..Len(d2c) : d2c[i].type = "stopped"}
Resuming == {i \in 1..Len(c2d) : c2d[i].cmd \in ResumeCmds}
InLoop   == stack # <<>> /\ Top.kind \in LoopKinds
LoopDue  == phase = "welcome" \/ InLoop
ResumeTaken == InLoop /\ Top.cur.cmd \in ResumeCmds

\* Connected, and no handler has failed and no stop has interrupted another one.
Flat == connected /\ ~failed /\ ~nested

\* Without a connection there is nothing for the client to read, and before there
\* was one nothing to write either.
WireInv ==
  /\ ~connected => d2c = <<>>
  /\ phase = "init" => ~connected /\ c2d = <<>> /\ cview = "none" /\ refs = {}

\* The one thing that the client and the script thread wait for: a stopped event,
\* a request that resumes, the response to one, or each other's next move.
ShownInv ==
  /\ \A i \in OpenLoops(stack) : i = Len(stack)
  /\ cview \in {"config", "running", "stopped"}
  /\ cview = "config" => phase \in {"welcome", "loop"}
  /\ phase = "welcome" => Stops = {} /\ cview # "stopped"
  /\ \A i, j \in Stops : i = j
  /\ \A i, j \in Resuming : i = j
  /\ ~LoopDue => Resuming = {} /\ Stops = {} /\ cview = "running"
  /\ LoopDue /\ Resuming = {} /\ ~ResumeTaken => (cview = "running" <=> Stops # {})
  /\ LoopDue /\ (Resuming # {} \/ ResumeTaken) => cview = "running" /\ Stops = {}
  /\ ResumeTaken => Resuming = {}

StopInv == WireInv /\ (Flat => ShownInv)

\* What reading and writing do to the two channels.
LEMMA StopsAfterWrite ==
  ASSUME TypeOK, NEW m \in Replies \cup {Stopped}, d2c' = d2c \o <<m>>
  PROVE  Stops' = IF m.type = "stopped" THEN Stops \cup {Len(d2c) + 1} ELSE Stops
<1>1. d2c' = Append(d2c, m)
  BY AppendIsConcat DEF TypeOK
<1>2. /\ Len(d2c) \in Nat /\ Len(d2c') = Len(d2c) + 1 /\ d2c'[Len(d2c) + 1] = m
      /\ \A i \in 1..Len(d2c) : d2c'[i] = d2c[i]
  BY <1>1, AppendProperties, LenProperties DEF TypeOK
<1>3. \A i : i \in 1..(Len(d2c) + 1) <=> i \in 1..Len(d2c) \/ i = Len(d2c) + 1
  BY <1>2
<1> QED BY <1>2, <1>3 DEF Stops

LEMMA ResumingAfterSend ==
  ASSUME TypeOK, NEW m \in Requests, c2d' = Append(c2d, m)
  PROVE  Resuming' = IF m.cmd \in ResumeCmds THEN Resuming \cup {Len(c2d) + 1} ELSE Resuming
<1>1. /\ Len(c2d) \in Nat /\ Len(c2d') = Len(c2d) + 1 /\ c2d'[Len(c2d) + 1] = m
      /\ \A i \in 1..Len(c2d) : c2d'[i] = c2d[i]
  BY AppendProperties, LenProperties DEF TypeOK
<1>2. \A i : i \in 1..(Len(c2d) + 1) <=> i \in 1..Len(c2d) \/ i = Len(c2d) + 1
  BY <1>1
<1> QED BY <1>1, <1>2 DEF Resuming

\* Reading the first message moves every other one up by one place.
LEMMA TailMoves ==
  ASSUME NEW S, NEW q \in Seq(S), q # <<>>
  PROVE  /\ Head(q) = q[1] /\ 1 \in 1..Len(q) /\ Len(q) \in Nat
         /\ \A i \in 1..Len(Tail(q)) : i + 1 \in 1..Len(q) /\ i + 1 # 1 /\ Tail(q)[i] = q[i + 1]
         /\ \A i \in 1..Len(q) : i # 1 => i - 1 \in 1..Len(Tail(q)) /\ Tail(q)[i - 1] = q[i]
<1>1. /\ Len(q) \in Nat /\ Len(q) # 0 /\ Len(Tail(q)) = Len(q) - 1 /\ Head(q) = q[1]
      /\ \A i \in 1..(Len(q) - 1) : Tail(q)[i] = q[i + 1]
  BY HeadTailProperties, EmptySeq, LenProperties
<1>2. \A i \in 1..(Len(q) - 1) : i + 1 \in 1..Len(q) /\ i + 1 # 1
  BY <1>1
<1>3. \A i \in 1..Len(q) : i # 1 => i - 1 \in 1..(Len(q) - 1) /\ (i - 1) + 1 = i
  BY <1>1
<1>4. 1 \in 1..Len(q)
  BY <1>1
<1> QED BY <1>1, <1>2, <1>3, <1>4

LEMMA StopsAfterRead ==
  ASSUME TypeOK, d2c # <<>>, d2c' = Tail(d2c)
  PROVE  /\ \A i \in Stops' : i + 1 \in Stops /\ i + 1 # 1
         /\ \A i \in Stops : i # 1 => i - 1 \in Stops'
         /\ 1 \in Stops <=> Head(d2c).type = "stopped"
BY TailMoves DEF Stops, TypeOK

LEMMA ResumingAfterTake ==
  ASSUME TypeOK, c2d # <<>>, c2d' = Tail(c2d)
  PROVE  /\ \A i \in Resuming' : i + 1 \in Resuming /\ i + 1 # 1
         /\ \A i \in Resuming : i # 1 => i - 1 \in Resuming'
         /\ 1 \in Resuming <=> Head(c2d).cmd \in ResumeCmds
BY TailMoves DEF Resuming, TypeOK

\* Uniqueness and emptiness after a read.
LEMMA ReadKeepsOne ==
  ASSUME NEW A \in SUBSET Int, NEW B \in SUBSET Int,
         \A i \in B : i + 1 \in A /\ i + 1 # 1, \A i \in A : i # 1 => i - 1 \in B,
         \A i, j \in A : i = j
  PROVE  /\ \A i, j \in B : i = j
         /\ 1 \in A => B = {}
         /\ 1 \notin A => (B = {} <=> A = {})
<1>1. \A i, j \in B : i + 1 = j + 1 => i = j
  OBVIOUS
<1> QED BY <1>1

\* Only the top activation can be a debug loop.
LEMMA OnlyTopLoop ==
  ASSUME TypeOK, \A i \in OpenLoops(stack) : i = Len(stack)
  PROVE  /\ OpenLoops(Pop(stack)) = {} /\ OpenLoops(Pop(Pop(stack))) = {}
         /\ ~InLoop <=> OpenLoops(stack) = {}
<1>1. stack \in Seq(Frames) /\ Pop(stack) \in Seq(Frames)
  BY PopType DEF TypeOK
<1>2. OpenLoops(Pop(stack)) = {}
  BY <1>1, PopPrefix DEF OpenLoops
<1>3. OpenLoops(Pop(Pop(stack))) = {}
  <2>1. \A i \in 1..Len(Pop(Pop(stack))) :
          i \in 1..Len(Pop(stack)) /\ Pop(Pop(stack))[i] = Pop(stack)[i]
    BY <1>1, PopPrefix
  <2> QED BY <1>2, <2>1 DEF OpenLoops
<1>4. ~InLoop <=> OpenLoops(stack) = {}
  <2>1. stack # <<>> => Len(stack) \in 1..Len(stack)
    BY <1>1, EmptySeq, LenProperties
  <2>2. stack = <<>> => OpenLoops(stack) = {}
    BY EmptySeq DEF OpenLoops
  <2> QED BY <2>1, <2>2 DEF OpenLoops, InLoop, Top
<1> QED BY <1>2, <1>3, <1>4

\* Without a loop, and with nothing about one on its way.
LEMMA NoLoopShown ==
  ASSUME TypeOK', OpenLoops(stack') = {}, phase' # "welcome", Stops' = {}, Resuming' = {},
         cview' = "running"
  PROVE  ShownInv'
<1>1. ~InLoop'
  <2>1. stack' # <<>> => Len(stack') \in 1..Len(stack')
    BY EmptySeq, LenProperties DEF TypeOK
  <2> QED BY <2>1 DEF InLoop, OpenLoops, Top
<1> QED BY <1>1 DEF ShownInv, LoopDue, ResumeTaken

\* startDebugLoop, outside of any other loop: its event is on the way.
LEMMA OpeningIsShown ==
  ASSUME TypeOK, ShownInv, ~LoopDue, connected, NEW s \in Seq(Frames), NEW k \in LoopEntries,
         StartDebugLoop(s, k), ~nested', Resuming' = {}, UNCHANGED <<cview, phase>>
  PROVE  ShownInv'
<1>1. k \in Kinds /\ k \in LoopKinds /\ NoReq.cmd \notin ResumeCmds
  BY NoReqFacts DEF LoopEntries, Kinds, LoopKinds, ResumeCmds, StepCmds
<1>2. /\ d2c' = d2c \o <<Stopped>> /\ stack' = Append(s, Frame(k)) /\ OpenLoops(s) = {}
  BY DEF StartDebugLoop, Deliver, Accept, Break
<1>3. Stops' = {Len(d2c) + 1}
  <2>1. Stopped.type = "stopped" /\ Stops = {}
    BY DEF Stopped, ShownInv
  <2> QED BY <1>2, <2>1, StopsAfterWrite
<1>4. /\ InLoop' /\ ~ResumeTaken'
      /\ \A i \in OpenLoops(stack') : i = Len(stack')
  BY <1>1, <1>2, LoopsOfAppend DEF InLoop, ResumeTaken, Top
<1>5. cview' = "running" /\ phase' # "welcome"
  BY DEF ShownInv, LoopDue
<1> QED BY <1>3, <1>4, <1>5 DEF ShownInv, LoopDue

\* What the client shows, and what is on the way to it, through every step.
LEMMA StopInvariant == Spec => []StopInv
<1>1. Init => StopInv
  BY DEF Init, StopInv, WireInv, Flat
<1>2. TypeOK /\ TypeOK' /\ GuardInv /\ StopInv /\ [Next]_vars => StopInv'
  <2> SUFFICES ASSUME TypeOK, TypeOK', GuardInv, StopInv, [Next]_vars PROVE StopInv'
    OBVIOUS
  <2> USE DEF clientVars, wireVars, hookVars, dataVars, history
  <2>1. WireInv'
    <3>1. CASE ClientSend
      BY <3>1 DEF ClientSend, Offered, StopInv, WireInv
    <3>2. CASE ClientReceive \/ ClientClose \/ StartConnect
      BY <3>2 DEF ClientReceive, ClientClose, StartConnect, StopInv, WireInv
    <3>3. CASE ~ClientSend /\ ~ClientReceive /\ ~ClientClose /\ ~StartConnect
      <4>1. UNCHANGED <<connected, cview, refs>>
        BY <3>3 DEF Next, Client, Adapter, Game, StartWelcome, PollBegin, PollTimeout,
             PollPause, DropPause, Take, Answer, AnswerAndResume, LoopEof, PollEof,
             LineReturn, LineBreakpoint, ErrorEscapes, LoopFails, EvaluateCatches, StepStop,
             BreakpointStop, ApiStop, GamePrintFails, HandlerError, GameFrame, vars
      <4>2. ~connected => d2c' = d2c
        BY <3>3 DEF Next, Client, Adapter, Game, StartWelcome, PollBegin, PollTimeout,
             PollPause, DropPause, Take, Answer, AnswerAndResume, LoopEof, PollEof,
             LineReturn, LineBreakpoint, ErrorEscapes, LoopFails, EvaluateCatches, StepStop,
             BreakpointStop, ApiStop, GamePrintFails, HandlerError, GameFrame, vars,
             StartDebugLoop, Deliver, Accept, Break
      <4>3. phase' = "init" => phase = "init" /\ c2d' = c2d
        BY <3>3 DEF Next, Client, Adapter, Game, StartWelcome, PollBegin, PollTimeout,
             PollPause, DropPause, Take, Answer, AnswerAndResume, LoopEof, PollEof,
             LineReturn, LineBreakpoint, ErrorEscapes, LoopFails, EvaluateCatches, StepStop,
             BreakpointStop, ApiStop, GamePrintFails, HandlerError, GameFrame, vars,
             LoopReturned, Idle, At, GuardInv
      <4> QED BY <4>1, <4>2, <4>3 DEF StopInv, WireInv
    <3> QED BY <3>1, <3>2, <3>3
  <2>2. ASSUME Flat' PROVE ShownInv'
    <3>1. CASE StartConnect
      <4>1. /\ phase' = "welcome" /\ cview' = "config" /\ stack' = <<>>
            /\ c2d' = <<>> /\ d2c' = <<>>
        BY <2>2, <3>1 DEF StartConnect, StopInv, WireInv, Flat, GuardInv
      <4>2. Stops' = {} /\ Resuming' = {} /\ OpenLoops(stack') = {} /\ ~InLoop'
        BY <4>1, EmptySeq DEF Stops, Resuming, OpenLoops, InLoop
      <4> QED BY <4>1, <4>2 DEF ShownInv, LoopDue, ResumeTaken
    <3>2. ~StartConnect => /\ connected /\ ~failed /\ ~nested /\ ShownInv
                           /\ connected' /\ ~nested' /\ ~failed'
      <4>1. ~StartConnect => /\ connected' => connected
                             /\ failed => failed'
                             /\ nested => nested'
        BY DEF Next, Client, Adapter, Game, StartWelcome, PollBegin, PollTimeout,
             PollPause, DropPause, Take, Answer, AnswerAndResume, LoopEof, PollEof,
             LineReturn, LineBreakpoint, ErrorEscapes, LoopFails, EvaluateCatches, StepStop,
             BreakpointStop, ApiStop, GamePrintFails, HandlerError, GameFrame, vars,
             StartDebugLoop, ClientSend, ClientReceive, ClientClose
      <4>2. connected' /\ ~failed' /\ ~nested'
        BY <2>2 DEF Flat
      <4>3. connected /\ ~failed /\ ~nested => ShownInv
        BY DEF StopInv, Flat
      <4> QED BY <4>1, <4>2, <4>3
    <3>3. CASE ClientSend
      <4>0. ShownInv /\ UNCHANGED <<stack, phase, d2c>>
        BY <3>2, <3>3 DEF ClientSend, StartConnect
      <4>9. PICK cmd \in Offered : \E o \in Operands(cmd) :
              /\ c2d' = Append(c2d, [seq |-> nextSeq, cmd |-> cmd, ref |-> o.ref, val |-> o.val])
              /\ IF cmd \in ResumeCmds
                   THEN cview' = "running" /\ refs' = {} ELSE UNCHANGED <<cview, refs>>
        BY <3>3 DEF ClientSend
      <4>1. PICK o \in Operands(cmd) :
              /\ c2d' = Append(c2d, [seq |-> nextSeq, cmd |-> cmd, ref |-> o.ref, val |-> o.val])
              /\ IF cmd \in ResumeCmds
                   THEN cview' = "running" /\ refs' = {} ELSE UNCHANGED <<cview, refs>>
        BY <4>9
      <4>2. PICK m \in Requests : m.cmd = cmd /\ c2d' = Append(c2d, m)
        <5>1. [seq |-> nextSeq, cmd |-> cmd, ref |-> o.ref, val |-> o.val] \in Requests
          <6>1. nextSeq \in Seqs
            BY <3>3 DEF ClientSend, TypeOK, Seqs
          <6>2. cmd \in Commands
            BY DEF Offered, Commands, ResumeCmds
          <6>3. o.ref \in 0..MaxSeq /\ o.val \in 0..MaxSeq
            <7>1. CASE o = [ref |-> 0, val |-> 0]
              BY <7>1, MaxSeqAssumption
            <7>2. CASE o \in refs
              <8>1. o \in [ref : Seqs, val : Seqs]
                BY <7>2 DEF TypeOK
              <8> QED BY <8>1 DEF Seqs
            <7> QED BY <7>1, <7>2 DEF Operands
          <6> QED BY <6>1, <6>2, <6>3 DEF Requests
        <5> QED BY <4>1, <5>1
      <4>3. /\ Resuming' = IF cmd \in ResumeCmds THEN Resuming \cup {Len(c2d) + 1} ELSE Resuming
            /\ Stops' = Stops /\ (LoopDue' <=> LoopDue) /\ (ResumeTaken' <=> ResumeTaken)
        BY <4>0, <4>2, ResumingAfterSend DEF Stops, LoopDue, ResumeTaken, InLoop, Top
      <4>4. CASE cmd \notin ResumeCmds
        BY <4>0, <4>1, <4>3, <4>4 DEF ShownInv
      <4>5. CASE cmd \in ResumeCmds
        <5>1. cview \in {"config", "stopped"}
          BY <4>0, <4>5 DEF Offered, ResumeCmds, StepCmds, ShownInv
        <5>2. LoopDue /\ Resuming = {} /\ ~ResumeTaken /\ Stops = {}
          BY <4>0, <5>1 DEF ShownInv
        <5> QED BY <4>0, <4>1, <4>3, <4>5, <5>1, <5>2 DEF ShownInv
      <4> QED BY <4>4, <4>5
    <3>4. CASE ClientReceive
      <4>0. /\ ShownInv /\ UNCHANGED <<stack, phase, c2d>> /\ d2c # <<>> /\ d2c' = Tail(d2c)
            /\ cview' = IF Head(d2c).type = "stopped" THEN "stopped" ELSE cview
        BY <3>2, <3>4 DEF ClientReceive, StartConnect
      <4>1. /\ Resuming' = Resuming
            /\ (LoopDue' <=> LoopDue) /\ (ResumeTaken' <=> ResumeTaken)
        BY <4>0 DEF Resuming, LoopDue, ResumeTaken, InLoop, Top
      <4>2. /\ \A i, j \in Stops' : i = j
            /\ Head(d2c).type = "stopped" => Stops # {} /\ Stops' = {}
            /\ Head(d2c).type # "stopped" => (Stops' = {} <=> Stops = {})
        <5>1. Stops \in SUBSET Int /\ Stops' \in SUBSET Int
          BY DEF Stops
        <5>2. \A i, j \in Stops : i = j
          BY <4>0 DEF ShownInv
        <5> QED BY <4>0, <5>1, <5>2, StopsAfterRead, ReadKeepsOne
      <4> QED BY <4>0, <4>1, <4>2 DEF ShownInv
    <3>5. CASE StartWelcome
      <4>1. /\ ShownInv /\ UNCHANGED <<c2d, d2c, cview>> /\ phase = "welcome" /\ phase' = "loop"
            /\ stack = <<>> /\ stack' = <<Frame("start")>>
        BY <3>2, <3>5 DEF StartWelcome, StartConnect, GuardInv
      <4>2. Len(stack') = 1 /\ stack'[1].kind = "start" /\ stack'[1].cur = NoReq
        BY <4>1 DEF Frame
      <4>3. InLoop' /\ ~ResumeTaken' /\ \A i \in OpenLoops(stack') : i = Len(stack')
        BY <4>1, <4>2, NoReqFacts
           DEF InLoop, ResumeTaken, Top, OpenLoops, LoopKinds, ResumeCmds, StepCmds
      <4>4. Stops' = Stops /\ Resuming' = Resuming /\ LoopDue /\ ~ResumeTaken /\ LoopDue'
        BY <4>1, <4>3 DEF Stops, Resuming, LoopDue, ResumeTaken, InLoop
      <4> QED BY <4>1, <4>3, <4>4 DEF ShownInv
    <3>6. CASE PollBegin \/ PollTimeout \/ LineReturn
      <4>1. /\ ShownInv /\ UNCHANGED <<c2d, d2c, cview, phase>> /\ phase # "welcome"
            /\ ~InLoop
        BY <3>2, <3>6 DEF PollBegin, PollTimeout, LineReturn, StartConnect, GuardInv, Idle, At,
                          InLoop, LoopKinds, HookKinds
      <4>2. OpenLoops(stack') = {}
        <5>1. CASE PollBegin
          <6>1. Len(stack') = 1 /\ stack'[1].kind = "poll"
            BY <5>1 DEF PollBegin, Frame
          <6> QED BY <6>1 DEF OpenLoops, LoopKinds, HookKinds
        <5>2. CASE ~PollBegin
          BY <3>6, <4>1, <5>2, OnlyTopLoop DEF PollTimeout, LineReturn, ShownInv
        <5> QED BY <5>1, <5>2
      <4>3. Stops' = {} /\ Resuming' = {} /\ cview' = "running"
        BY <4>1 DEF ShownInv, LoopDue, Stops, Resuming
      <4> QED BY <4>1, <4>2, <4>3, NoLoopShown
    <3>7. CASE PollPause \/ StepStop \/ BreakpointStop \/ LineBreakpoint \/ ApiStop
      <4>1. /\ ShownInv /\ connected /\ ~nested' /\ UNCHANGED <<cview, phase>>
            /\ phase \notin {"init", "welcome"}
        BY <3>2, <3>7 DEF PollPause, StepStop, BreakpointStop, LineBreakpoint, ApiStop, Idle,
                  Busy, ScriptRuns, At, GuardInv, StartConnect
      <4>2. PICK k \in LoopEntries, q \in {stack, Pop(stack)} : StartDebugLoop(q, k)
        BY <3>7, ApiKindsAssumption
           DEF PollPause, StepStop, BreakpointStop, LineBreakpoint, ApiStop, LoopEntries, HookKinds
      <4>3. ~InLoop
        <5>1. CASE PollPause \/ LineBreakpoint
          BY <5>1 DEF PollPause, LineBreakpoint, Idle, At, InLoop, LoopKinds, HookKinds
        <5>2. CASE StepStop \/ BreakpointStop \/ ApiStop
          <6>1. OpenLoops(stack) = {}
            BY <4>1, <5>2 DEF StepStop, BreakpointStop, ApiStop, StartDebugLoop
          <6> QED BY <4>1, <6>1, OnlyTopLoop DEF ShownInv
        <5> QED BY <3>7, <5>1, <5>2
      <4>4. ~LoopDue /\ Resuming = {}
        BY <4>1, <4>3 DEF LoopDue, ShownInv
      <4>5. Resuming' = {}
        <5>1. CASE c2d' = c2d
          BY <4>4, <5>1 DEF Resuming
        <5>2. CASE c2d # <<>> /\ c2d' = Tail(c2d)
          BY <4>4, <5>2, ResumingAfterTake
        <5> QED BY <3>7, <5>1, <5>2 DEF PollPause, StepStop, BreakpointStop, LineBreakpoint, ApiStop
      <4>6. q \in Seq(Frames)
        BY LoopsKeptStack
      <4> QED BY <4>1, <4>2, <4>4, <4>5, <4>6, OpeningIsShown
    <3>8. CASE DropPause
      <4>1. /\ ShownInv /\ UNCHANGED <<stack, d2c, cview, phase>> /\ c2d # <<>>
            /\ c2d' = Tail(c2d) /\ Head(c2d).cmd = "pause"
        BY <3>2, <3>8 DEF DropPause, StartConnect
      <4>2. (\A i, j \in Resuming' : i = j) /\ (Resuming' = {} <=> Resuming = {})
        <5>1. Resuming \in SUBSET Int /\ Resuming' \in SUBSET Int
          BY DEF Resuming
        <5>2. (\A i, j \in Resuming : i = j) /\ 1 \notin Resuming
          BY <4>1, ResumingAfterTake DEF ShownInv, ResumeCmds, StepCmds
        <5> QED BY <4>1, <5>1, <5>2, ResumingAfterTake, ReadKeepsOne
      <4>3. Stops' = Stops /\ (LoopDue' <=> LoopDue) /\ (ResumeTaken' <=> ResumeTaken)
        BY <4>1 DEF Stops, LoopDue, ResumeTaken, InLoop, Top
      <4> QED BY <4>1, <4>2, <4>3 DEF ShownInv
    <3>9. CASE Take
      <4>1. /\ ShownInv /\ UNCHANGED <<d2c, cview, phase>> /\ c2d # <<>> /\ c2d' = Tail(c2d)
            /\ stack # <<>> /\ Top.cur = NoReq /\ Handling(Head(c2d)) /\ Head(c2d) \in Requests
        BY <3>2, <3>9, TakeType DEF Take, Idle, At, StartConnect
      <4>2. /\ OpenLoops(stack') = OpenLoops(stack) /\ Len(stack') = Len(stack)
            /\ (InLoop' <=> InLoop) /\ (LoopDue' <=> LoopDue) /\ Stops' = Stops
            /\ ResumeTaken' <=> InLoop /\ Head(c2d).cmd \in ResumeCmds
        BY <4>1, LoopsKeptHandling DEF InLoop, LoopDue, ResumeTaken, Stops
      <4>3. /\ \A i, j \in Resuming' : i = j
            /\ Head(c2d).cmd \in ResumeCmds => Resuming # {} /\ Resuming' = {}
            /\ Head(c2d).cmd \notin ResumeCmds => (Resuming' = {} <=> Resuming = {})
        <5>1. Resuming \in SUBSET Int /\ Resuming' \in SUBSET Int
          BY DEF Resuming
        <5>2. \A i, j \in Resuming : i = j
          BY <4>1 DEF ShownInv
        <5> QED BY <4>1, <5>1, <5>2, ResumingAfterTake, ReadKeepsOne
      <4>4. ~ResumeTaken /\ phase # "welcome"
        BY <4>1, NoReqFacts DEF ResumeTaken, ResumeCmds, StepCmds, GuardInv
      <4> QED BY <4>1, <4>2, <4>3, <4>4 DEF ShownInv, LoopDue
    <3>10. CASE Answer \/ HandlerError
      <4>1. /\ ShownInv /\ UNCHANGED <<c2d, cview, phase>> /\ stack # <<>> /\ Handling(NoReq)
            /\ Top.cur.cmd \notin ResumeCmds \/ Top.kind = "poll"
            /\ Top.cur \in Requests
        BY <3>2, <3>10, TopType DEF Answer, HandlerError, Busy, At, StartConnect, GameCodeCmds,
             ResumeCmds, StepCmds, TypeOK
      <4>2. ~ResumeTaken
        BY <4>1 DEF ResumeTaken, InLoop, LoopKinds, HookKinds
      <4>3. /\ OpenLoops(stack') = OpenLoops(stack) /\ Len(stack') = Len(stack)
            /\ (InLoop' <=> InLoop) /\ (LoopDue' <=> LoopDue) /\ ~ResumeTaken'
        BY <4>1, LoopsKeptHandling, NoReqFacts
           DEF InLoop, LoopDue, ResumeTaken, ResumeCmds, StepCmds
      <4>4. Resuming' = Resuming
        BY <4>1 DEF Resuming
      <4>5. Stops' = Stops
        <5>1. CASE d2c' = d2c
          BY <5>1 DEF Stops
        <5>2. ASSUME NEW new \in 0..MaxSeq, d2c' = d2c \o <<Response(Top.cur, new)>>
              PROVE  Stops' = Stops
          <6>1. Response(Top.cur, new) \in Replies
            BY <4>1, ResponseType
          <6>2. Response(Top.cur, new).type # "stopped"
            BY DEF Response
          <6> QED BY <5>2, <6>1, <6>2, StopsAfterWrite
        <5> QED BY <3>2, <3>10, <5>1, <5>2
                DEF Answer, HandlerError, Deliver, Accept, Break
      <4> QED BY <4>1, <4>2, <4>3, <4>4, <4>5 DEF ShownInv
    <3>11. CASE AnswerAndResume
      <4>1. /\ ShownInv /\ UNCHANGED <<c2d, cview>> /\ ResumeTaken /\ stack # <<>>
            /\ d2c' = d2c \o <<Response(Top.cur, 0)>> /\ LoopReturned(stack)
            /\ Top.cur \in Requests
        BY <3>2, <3>11, TopType DEF AnswerAndResume, StartConnect, Busy, At, ResumeTaken, InLoop,
             Deliver, Accept, Break, TypeOK, GuardInv
      <4>2. OpenLoops(stack') = {}
        <5>1. /\ OpenLoops(Pop(stack)) = {} /\ OpenLoops(Pop(Pop(stack))) = {}
          BY <4>1, OnlyTopLoop DEF ShownInv
        <5>2. OpenLoops(Append(Pop(stack), Frame("line"))) = {}
          <6>1. "line" \in Kinds /\ "line" \notin LoopKinds
            BY DEF Kinds, LoopKinds, HookKinds
          <6> QED BY <5>1, <6>1, LoopsKeptStack, LoopsOfAppend
        <5> QED BY <4>1, <5>1, <5>2 DEF LoopReturned
      <4>3. phase' # "welcome"
        BY <4>1 DEF LoopReturned, GuardInv
      <4>4. Stops = {} /\ Resuming = {} /\ cview = "running"
        BY <4>1 DEF ShownInv, LoopDue, ResumeTaken
      <4>5. Stops' = {} /\ Resuming' = {}
        <5>1. Response(Top.cur, 0) \in Replies /\ Response(Top.cur, 0).type # "stopped"
          BY <4>1, ResponseType, MaxSeqAssumption DEF Response
        <5> QED BY <4>1, <4>4, <5>1, StopsAfterWrite DEF Resuming
      <4> QED BY <4>1, <4>2, <4>3, <4>4, <4>5, NoLoopShown
    <3>12. CASE EvaluateCatches \/ GameFrame \/ UNCHANGED vars
                \/ (ErrorEscapes /\ stack = <<>>)
      <4>1. ShownInv /\ UNCHANGED <<c2d, d2c, cview, stack, phase>>
        BY <3>2, <3>12 DEF EvaluateCatches, GameFrame, vars, ErrorEscapes, StartConnect
      <4> QED BY <4>1 DEF ShownInv, Stops, Resuming, LoopDue, ResumeTaken, InLoop, Top
    <3>13. ~StartConnect => /\ ~ClientClose /\ ~LoopFails /\ ~GamePrintFails
                            /\ ~LoopEof /\ ~PollEof /\ ~(ErrorEscapes /\ stack # <<>>)
      BY <3>2 DEF ClientClose, LoopFails, GamePrintFails, LoopEof, PollEof, AtEof, ErrorEscapes,
                  GuardInv
    <3> QED
      BY <3>1, <3>3, <3>4, <3>5, <3>6, <3>7, <3>8, <3>9, <3>10, <3>11, <3>12, <3>13
         DEF Next, Client, Adapter, Game
  <2> QED BY <2>1, <2>2 DEF StopInv
<1> QED
  BY <1>1, <1>2, TypeCorrect, GuardInvariant, PTL DEF Spec

\* The client shows "stopped" exactly while a debug loop waits for it: what the
\* stopped event announces and what the resuming requests end are one thing.
THEOREM StopIsShownHolds == Spec => []StopIsShown
<1>1. TypeOK /\ StopInv => StopIsShown
  <2> SUFFICES ASSUME StopInv, Quiet, ~failed, ~nested
               PROVE  /\ cview = "stopped" => stack # <<>> /\ Top.kind \in LoopKinds
                      /\ stack # <<>> /\ Top.kind \in LoopKinds /\ Top.cur = NoReq =>
                           cview = "stopped"
    BY DEF StopIsShown
  <2>1. ShownInv /\ phase = "live" /\ Stops = {} /\ Resuming = {}
    BY EmptySeq DEF Quiet, StopInv, Flat, Stops, Resuming
  <2>2. Top.cur = NoReq => ~ResumeTaken
    BY NoReqFacts DEF ResumeTaken, ResumeCmds, StepCmds
  <2> QED BY <2>1, <2>2 DEF ShownInv, LoopDue, InLoop
<1> QED
  BY <1>1, TypeCorrect, StopInvariant, PTL

-----------------------------------------------------------------------------
(* What the references of a stop stand for.                                 *)

Means(st, ref, val) == ref \in 1..Len(st) /\ st[ref] = val

\* A request asks for a scope, or for a value under the reference it has now.
Fits(st, r) == (r.ref = 0 /\ r.val = 0) \/ Means(st, r.ref, r.val)

\* A response that the client will read while it shows the stop that is on.
ReadInStop(i) == cview = "stopped" \/ \E p \in Stops : p < i

\* The client's references, and those on their way to it, are those of the loop
\* that is open, until a request that resumes has passed them.
RefInv ==
  /\ cview # "stopped" => refs = {}
  /\ \A o \in refs : Means(stored, o.ref, o.val)
  /\ \A i \in 1..Len(d2c) : d2c[i].type = "response" => d2c[i].got = d2c[i].want
  /\ \A i \in 1..Len(d2c) :
       d2c[i].type = "response" /\ d2c[i].ref # 0 /\ ReadInStop(i) =>
         Means(stored, d2c[i].ref, d2c[i].seq)
  /\ \A i \in 1..Len(c2d) :
       c2d[i].cmd = "variables" =>
         /\ InLoop /\ ~ResumeTaken /\ Fits(stored, c2d[i])
         /\ cview = "stopped" \/ \E p \in Resuming : i < p
  /\ \A i \in 1..Len(stack) :
       stack[i].cur.cmd = "variables" => i = Len(stack) /\ InLoop /\ Fits(stored, stack[i].cur)

RefsInv == Flat => RefInv

NoneAsked ==
  /\ \A i \in 1..Len(c2d) : c2d[i].cmd # "variables"
  /\ \A i \in 1..Len(stack) : stack[i].cur.cmd # "variables"

\* Outside of a loop no reference is in use, so all may lose their meaning.
LEMMA NoRefsOutside ==
  ASSUME TypeOK, RefInv, NoneAsked, cview # "stopped", Stops = {}, CurKept(stack'),
         c2d' = c2d \/ (c2d # <<>> /\ c2d' = Tail(c2d)),
         d2c' = d2c \/ d2c' = d2c \o <<Stopped>>, UNCHANGED <<cview, refs>>
  PROVE  RefInv'
<1>1. \A i \in 1..Len(c2d') : c2d'[i].cmd # "variables"
  <2>1. CASE c2d' = c2d
    BY <2>1 DEF NoneAsked
  <2>2. CASE c2d # <<>> /\ c2d' = Tail(c2d)
    <3>1. \A i \in 1..Len(c2d') : i + 1 \in 1..Len(c2d) /\ c2d'[i] = c2d[i + 1]
      BY <2>2, TailMoves DEF TypeOK
    <3> QED BY <3>1 DEF NoneAsked
  <2> QED BY <2>1, <2>2
<1>2. \A i \in 1..Len(stack') : stack'[i].cur.cmd # "variables"
  BY NoReqFacts DEF CurKept, NoneAsked
<1>3. refs' = {}
  BY DEF RefInv
<1>4. CASE d2c' = d2c
  BY <1>1, <1>2, <1>3, <1>4 DEF RefInv, ReadInStop, Stops
<1>5. CASE d2c' = d2c \o <<Stopped>>
  <2>1. d2c' = Append(d2c, Stopped)
    BY <1>5, AppendIsConcat DEF TypeOK
  <2>2. /\ Len(d2c) \in Nat /\ Len(d2c') = Len(d2c) + 1 /\ d2c'[Len(d2c) + 1] = Stopped
        /\ \A i \in 1..Len(d2c) : d2c'[i] = d2c[i]
    BY <2>1, AppendProperties, LenProperties DEF TypeOK
  <2>3. Stopped.type = "stopped"
    BY DEF Stopped
  <2>4. \A i \in 1..Len(d2c') : d2c'[i].type = "response" => i \in 1..Len(d2c)
    BY <2>2, <2>3
  <2>5. Stops' = {Len(d2c) + 1}
    BY <1>5, <2>3, StopsAfterWrite
  <2>6. \A i \in 1..Len(d2c) : ~(Len(d2c) + 1 < i)
    BY <2>2
  <2>7. \A i \in 1..Len(d2c') : d2c'[i].type = "response" => ~ReadInStop(i)'
    BY <2>4, <2>5, <2>6 DEF ReadInStop
  <2> QED BY <1>1, <1>2, <1>3, <2>2, <2>4, <2>7 DEF RefInv
<1> QED BY <1>4, <1>5

\* New references are added behind the ones that are in use.
LEMMA MeansKept ==
  ASSUME TypeOK, NEW x \in Seqs, stored' = stored \/ stored' = Append(stored, x),
         NEW ref, NEW val, Means(stored, ref, val)
  PROVE  Means(stored', ref, val)
<1>1. CASE stored' = stored
  BY <1>1 DEF Means
<1>2. CASE stored' = Append(stored, x)
  <2>1. Len(stored) \in Nat /\ Len(stored') = Len(stored) + 1
        /\ \A i \in 1..Len(stored) : stored'[i] = stored[i]
    BY <1>2, AppendProperties, LenProperties DEF TypeOK
  <2>2. \A i \in 1..Len(stored) : i \in 1..Len(stored')
    BY <2>1
  <2> QED BY <2>1, <2>2 DEF Means
<1> QED BY <1>1, <1>2

\* What the references mean, on both sides and in between, through every step.
LEMMA RefInvariant == Spec => []RefsInv
<1>1. Init => RefsInv
  BY DEF Init, Flat, RefsInv
<1>2. TypeOK /\ TypeOK' /\ GuardInv /\ StopInv /\ StopInv' /\ RefsInv /\ [Next]_vars
      => RefsInv'
  <2> SUFFICES ASSUME TypeOK, TypeOK', GuardInv, StopInv, StopInv', Flat => RefInv,
                      [Next]_vars, Flat'
               PROVE  RefInv'
    BY DEF RefsInv
  <2> USE DEF clientVars, wireVars, hookVars, dataVars, history
  <2>1. CASE StartConnect
    <3>1. c2d' = <<>> /\ d2c' = <<>> /\ stack' = <<>> /\ refs' = {}
      BY <2>1 DEF StartConnect, StopInv, WireInv, GuardInv
    <3> QED BY <3>1, EmptySeq DEF RefInv
  <2>2. ~StartConnect => /\ connected /\ ~failed /\ ~nested /\ ShownInv /\ RefInv
                         /\ connected' /\ ~nested' /\ ~failed'
    <3>1. ~StartConnect => /\ connected' => connected
                           /\ failed => failed'
                           /\ nested => nested'
      BY DEF Next, Client, Adapter, Game, StartWelcome, PollBegin, PollTimeout,
           PollPause, DropPause, Take, Answer, AnswerAndResume, LoopEof, PollEof,
           LineReturn, LineBreakpoint, ErrorEscapes, LoopFails, EvaluateCatches, StepStop,
           BreakpointStop, ApiStop, GamePrintFails, HandlerError, GameFrame, vars,
           StartDebugLoop, ClientSend, ClientReceive, ClientClose
    <3>2. connected' /\ ~failed' /\ ~nested'
      BY DEF Flat
    <3>3. connected /\ ~failed /\ ~nested => ShownInv /\ RefInv
      BY DEF StopInv, Flat
    <3> QED BY <3>1, <3>2, <3>3
  <2>3. CASE ~StartConnect /\ ClientSend
    <3>0. RefInv /\ ShownInv /\ UNCHANGED <<stack, phase, d2c, stored>>
      BY <2>2, <2>3 DEF ClientSend
    <3>1. PICK cmd \in Offered : \E o \in Operands(cmd) :
            /\ c2d' = Append(c2d, [seq |-> nextSeq, cmd |-> cmd, ref |-> o.ref, val |-> o.val])
            /\ IF cmd \in ResumeCmds
                 THEN cview' = "running" /\ refs' = {} ELSE UNCHANGED <<cview, refs>>
      BY <2>3 DEF ClientSend
    <3>2. PICK o \in Operands(cmd) :
            /\ c2d' = Append(c2d, [seq |-> nextSeq, cmd |-> cmd, ref |-> o.ref, val |-> o.val])
            /\ IF cmd \in ResumeCmds
                 THEN cview' = "running" /\ refs' = {} ELSE UNCHANGED <<cview, refs>>
      BY <3>1
    <3> DEFINE m == [seq |-> nextSeq, cmd |-> cmd, ref |-> o.ref, val |-> o.val]
    <3>3. m \in Requests
      <4>1. nextSeq \in Seqs
        BY <2>3 DEF ClientSend, TypeOK, Seqs
      <4>2. cmd \in Commands
        BY DEF Offered, Commands, ResumeCmds
      <4>3. o.ref \in 0..MaxSeq /\ o.val \in 0..MaxSeq
        <5>1. CASE o = [ref |-> 0, val |-> 0]
          BY <5>1, MaxSeqAssumption
        <5>2. CASE o \in refs
          <6>1. o \in [ref : Seqs, val : Seqs]
            BY <5>2 DEF TypeOK
          <6> QED BY <6>1 DEF Seqs
        <5> QED BY <5>1, <5>2 DEF Operands
      <4> QED BY <4>1, <4>2, <4>3 DEF Requests
    <3>4. /\ Len(c2d) \in Nat /\ Len(c2d') = Len(c2d) + 1 /\ c2d'[Len(c2d) + 1] = m
          /\ \A i \in 1..Len(c2d) : c2d'[i] = c2d[i]
          /\ \A i \in 1..Len(c2d') : i \in 1..Len(c2d) \/ i = Len(c2d) + 1
      <4>1. /\ Len(c2d) \in Nat /\ Len(c2d') = Len(c2d) + 1 /\ c2d'[Len(c2d) + 1] = m
            /\ \A i \in 1..Len(c2d) : c2d'[i] = c2d[i]
        BY <3>2, <3>3, AppendProperties, LenProperties DEF TypeOK
      <4> QED BY <4>1
    <3>5. /\ Resuming' = IF cmd \in ResumeCmds THEN Resuming \cup {Len(c2d) + 1} ELSE Resuming
          /\ Stops' = Stops /\ (InLoop' <=> InLoop) /\ (ResumeTaken' <=> ResumeTaken)
          /\ stored' = stored
      BY <3>0, <3>2, <3>3, ResumingAfterSend DEF Stops, ResumeTaken, InLoop, Top
    <3>6. cmd = "variables" => /\ cview = "stopped" /\ InLoop /\ ~ResumeTaken /\ Fits(stored, m)
      <4> SUFFICES ASSUME cmd = "variables"
                   PROVE  cview = "stopped" /\ InLoop /\ ~ResumeTaken /\ Fits(stored, m)
        OBVIOUS
      <4>1. cview = "stopped"
        BY DEF Offered
      <4>2. InLoop /\ ~ResumeTaken
        BY <3>0, <4>1 DEF ShownInv, LoopDue
      <4>3. Fits(stored, m)
        <5>1. CASE o = [ref |-> 0, val |-> 0]
          BY <5>1 DEF Fits
        <5>2. CASE o \in refs
          BY <3>0, <5>2 DEF RefInv, Fits
        <5> QED BY <5>1, <5>2 DEF Operands
      <4> QED BY <4>1, <4>2, <4>3
    <3> HIDE DEF m
    <3>7. m.cmd = cmd
      BY DEF m
    <3>8. /\ cview' # "stopped" => refs' = {}
          /\ \A q \in refs' : Means(stored', q.ref, q.val)
          /\ cview' = "stopped" => cview = "stopped"
      BY <3>0, <3>2, <3>5 DEF RefInv
    <3>9. \A i \in 1..Len(c2d') :
            c2d'[i].cmd = "variables" =>
              /\ InLoop' /\ ~ResumeTaken' /\ Fits(stored', c2d'[i])
              /\ cview' = "stopped" \/ \E p \in Resuming' : i < p
      <4> SUFFICES ASSUME NEW i \in 1..Len(c2d'), c2d'[i].cmd = "variables"
                   PROVE  /\ InLoop' /\ ~ResumeTaken' /\ Fits(stored', c2d'[i])
                          /\ cview' = "stopped" \/ \E p \in Resuming' : i < p
        OBVIOUS
      <4>1. CASE i \in 1..Len(c2d)
        <5>1. /\ InLoop /\ ~ResumeTaken /\ Fits(stored, c2d[i])
              /\ cview = "stopped" \/ \E p \in Resuming : i < p
          BY <3>0, <3>4, <4>1 DEF RefInv
        <5>2. i < Len(c2d) + 1
          BY <3>4, <4>1
        <5> QED BY <3>2, <3>4, <3>5, <4>1, <5>1, <5>2 DEF Fits
      <4>2. CASE i = Len(c2d) + 1
        <5>1. cmd = "variables" /\ cmd \notin ResumeCmds /\ c2d'[i] = m
          BY <3>4, <3>7, <4>2 DEF ResumeCmds, StepCmds
        <5> QED BY <3>2, <3>5, <3>6, <5>1 DEF Fits
      <4> QED BY <3>4, <4>1, <4>2
    <3>10. \A i \in 1..Len(d2c') :
             d2c'[i].type = "response" /\ d2c'[i].ref # 0 /\ ReadInStop(i)' =>
               Means(stored', d2c'[i].ref, d2c'[i].seq)
      BY <3>0, <3>5, <3>8 DEF RefInv, ReadInStop
    <3>11. /\ \A i \in 1..Len(d2c') : d2c'[i].type = "response" => d2c'[i].got = d2c'[i].want
           /\ \A i \in 1..Len(stack') :
                stack'[i].cur.cmd = "variables" =>
                  i = Len(stack') /\ InLoop' /\ Fits(stored', stack'[i].cur)
      BY <3>0, <3>5 DEF RefInv, Fits
    <3> QED BY <3>8, <3>9, <3>10, <3>11 DEF RefInv
  <2>4. CASE ~StartConnect /\ ClientReceive
    <3>0. /\ RefInv /\ ShownInv /\ UNCHANGED <<stack, phase, c2d, stored>>
          /\ d2c # <<>> /\ d2c' = Tail(d2c)
          /\ IF Head(d2c).type = "stopped"
               THEN cview' = "stopped" /\ refs' = {}
               ELSE /\ refs' = IF cview = "stopped" /\ Head(d2c).ref # 0
                                 THEN refs \cup {[ref |-> Head(d2c).ref, val |-> Head(d2c).seq]}
                                 ELSE refs
                    /\ cview' = cview
      BY <2>2, <2>4 DEF ClientReceive
    <3>1. /\ Head(d2c) = d2c[1] /\ 1 \in 1..Len(d2c) /\ Len(d2c) \in Nat
          /\ \A i \in 1..Len(d2c') : i + 1 \in 1..Len(d2c) /\ i + 1 # 1 /\ d2c'[i] = d2c[i + 1]
      BY <3>0, TailMoves DEF TypeOK
    <3>2. /\ \A i \in Stops' : i + 1 \in Stops
          /\ 1 \in Stops <=> Head(d2c).type = "stopped"
      BY <3>0, StopsAfterRead
    <3>3. /\ (InLoop' <=> InLoop) /\ (ResumeTaken' <=> ResumeTaken) /\ Resuming' = Resuming
          /\ stored' = stored
      BY <3>0 DEF InLoop, ResumeTaken, Top, Resuming
    <3>4. ASSUME NEW i \in 1..Len(d2c'), ReadInStop(i)' PROVE ReadInStop(i + 1)
      <4>1. CASE Head(d2c).type = "stopped"
        <5>1. 1 < i + 1
          BY <3>1
        <5> QED BY <3>2, <4>1, <5>1 DEF ReadInStop
      <4>2. CASE Head(d2c).type # "stopped"
        <5>1. CASE cview' = "stopped"
          BY <3>0, <4>2, <5>1 DEF ReadInStop
        <5>2. CASE \E p \in Stops' : p < i
          <6>1. PICK p \in Stops' : p < i
            BY <5>2
          <6>2. p + 1 \in Stops /\ p + 1 < i + 1
            BY <3>2, <6>1 DEF Stops
          <6> QED BY <6>2 DEF ReadInStop
        <5> QED BY <3>4, <5>1, <5>2 DEF ReadInStop
      <4> QED BY <4>1, <4>2
    <3>5. \A q \in refs' : Means(stored, q.ref, q.val)
      <4> SUFFICES ASSUME NEW q \in refs' PROVE Means(stored, q.ref, q.val)
        OBVIOUS
      <4>1. CASE q \in refs
        BY <3>0, <4>1 DEF RefInv
      <4>2. CASE q \notin refs
        <5>1. /\ Head(d2c).type # "stopped" /\ cview = "stopped" /\ Head(d2c).ref # 0
              /\ q = [ref |-> Head(d2c).ref, val |-> Head(d2c).seq]
          BY <3>0, <4>2
        <5>2. Head(d2c) \in Replies \cup {Stopped}
          BY <3>0, HeadTailProperties DEF TypeOK
        <5>3. Head(d2c).type = "response"
          BY <5>1, <5>2 DEF Replies, Stopped
        <5>4. Means(stored, Head(d2c).ref, Head(d2c).seq)
          BY <3>0, <3>1, <5>1, <5>3 DEF RefInv, ReadInStop
        <5> QED BY <5>1, <5>4
      <4> QED BY <4>1, <4>2
    <3>6. cview' # "stopped" => refs' = {}
      BY <3>0 DEF RefInv
    <3>7. \A i \in 1..Len(d2c') :
            /\ d2c'[i].type = "response" => d2c'[i].got = d2c'[i].want
            /\ d2c'[i].type = "response" /\ d2c'[i].ref # 0 /\ ReadInStop(i)' =>
                 Means(stored, d2c'[i].ref, d2c'[i].seq)
      BY <3>0, <3>1, <3>4 DEF RefInv
    <3>8. \A i \in 1..Len(c2d') :
            c2d'[i].cmd = "variables" =>
              /\ InLoop' /\ ~ResumeTaken' /\ Fits(stored', c2d'[i])
              /\ cview' = "stopped" \/ \E p \in Resuming' : i < p
      BY <3>0, <3>3 DEF RefInv, Fits
    <3>9. \A i \in 1..Len(stack') :
            stack'[i].cur.cmd = "variables" =>
              i = Len(stack') /\ InLoop' /\ Fits(stored', stack'[i].cur)
      BY <3>0, <3>3 DEF RefInv, Fits
    <3> QED BY <3>3, <3>5, <3>6, <3>7, <3>8, <3>9 DEF RefInv
  <2>5. CASE /\ ~StartConnect
             /\ \/ StartWelcome \/ PollBegin \/ PollTimeout \/ LineReturn \/ PollPause
                \/ StepStop \/ BreakpointStop \/ LineBreakpoint \/ ApiStop
    <3>0. RefInv /\ ShownInv /\ connected /\ connected' /\ ~nested'
      BY <2>2, <2>5
    <3>1. /\ c2d' = c2d \/ (c2d # <<>> /\ c2d' = Tail(c2d))
          /\ UNCHANGED <<cview, refs>>
      BY <2>5 DEF StartWelcome, PollBegin, PollTimeout, LineReturn, PollPause, StepStop,
           BreakpointStop, LineBreakpoint, ApiStop
    <3>2. d2c' = d2c \/ d2c' = d2c \o <<Stopped>>
      BY <2>5, <3>0 DEF StartWelcome, PollBegin, PollTimeout, LineReturn, PollPause, StepStop,
           BreakpointStop, LineBreakpoint, ApiStop, StartDebugLoop, Deliver, Accept, Break
    <3>3. ~InLoop
      <4>1. CASE StartWelcome \/ PollBegin \/ ApiStop
        BY <4>1 DEF StartWelcome, PollBegin, ApiStop, GuardInv, InLoop
      <4>2. CASE PollTimeout \/ LineReturn \/ PollPause \/ LineBreakpoint
        BY <4>2 DEF PollTimeout, LineReturn, PollPause, LineBreakpoint, Idle, At, InLoop,
                    LoopKinds, HookKinds
      <4>3. CASE StepStop \/ BreakpointStop
        <5>1. OpenLoops(stack) = {}
          BY <3>0, <4>3 DEF StepStop, BreakpointStop, StartDebugLoop
        <5> QED BY <3>0, <5>1, OnlyTopLoop DEF ShownInv
      <4> QED BY <2>5, <4>1, <4>2, <4>3
    <3>4. cview # "stopped" /\ Stops = {}
      <4>1. CASE phase = "welcome"
        BY <3>0, <4>1 DEF ShownInv
      <4>2. CASE phase # "welcome"
        BY <3>0, <3>3, <4>2 DEF ShownInv, LoopDue
      <4> QED BY <4>1, <4>2
    <3>5. NoneAsked
      BY <3>0, <3>3 DEF RefInv, NoneAsked
    <3>6. CurKept(stack')
      <4>1. CASE StartWelcome \/ PollBegin
        <5>1. PICK k \in Kinds : stack' = <<>> \/ stack' = <<Frame(k)>>
          BY <4>1 DEF StartWelcome, PollBegin, GuardInv, Kinds, LoopKinds
        <5>2. CASE stack' = <<>>
          BY <5>2, EmptySeq DEF CurKept
        <5>3. CASE stack' = <<Frame(k)>>
          <6>1. Len(stack') = 1 /\ stack'[1].cur = NoReq
            BY <5>3 DEF Frame
          <6>2. \A i \in 1..Len(stack') : i = 1
            BY <6>1
          <6> QED BY <6>1, <6>2 DEF CurKept
        <5> QED BY <5>1, <5>2, <5>3
      <4>2. CASE PollTimeout \/ LineReturn
        BY <4>2, CurKeptStack DEF PollTimeout, LineReturn
      <4>3. CASE PollPause \/ StepStop \/ BreakpointStop \/ LineBreakpoint \/ ApiStop
        <5>1. \E k \in {"pause", "api", "apiCo", "halt", "step"} :
                StartDebugLoop(stack, k) \/ StartDebugLoop(Pop(stack), k)
          BY <4>3, ApiKindsAssumption
             DEF PollPause, StepStop, BreakpointStop, LineBreakpoint, ApiStop
        <5> QED BY <5>1, CurKeptStack, CurKeptStartDebugLoop
      <4> QED BY <2>5, <4>1, <4>2, <4>3
    <3> QED BY <3>0, <3>1, <3>2, <3>4, <3>5, <3>6, NoRefsOutside
  <2>6. CASE ~StartConnect /\ (DropPause \/ Take)
    <3>0. /\ RefInv /\ ShownInv /\ UNCHANGED <<d2c, cview, refs, stored>>
          /\ c2d # <<>> /\ c2d' = Tail(c2d) /\ stack # <<>> /\ Top.cur = NoReq
          /\ stack' = stack \/ Handling(Head(c2d))
          /\ DropPause <=> Head(c2d).cmd = "pause"
          /\ DropPause => stack' = stack
          /\ Take => Handling(Head(c2d))
      BY <2>2, <2>6 DEF DropPause, Take, Idle, At
    <3>1. /\ Head(c2d) = c2d[1] /\ 1 \in 1..Len(c2d) /\ Len(c2d) \in Nat /\ Head(c2d) \in Requests
          /\ \A i \in 1..Len(c2d') : i + 1 \in 1..Len(c2d) /\ i + 1 # 1 /\ c2d'[i] = c2d[i + 1]
      BY <3>0, TailMoves, TakeType DEF TypeOK
    <3>2. /\ Stops' = Stops /\ (InLoop' <=> InLoop) /\ Len(stack') = Len(stack)
          /\ \A i \in 1..Len(stack) : i # Len(stack) => stack'[i] = stack[i]
          /\ Top'.cur = IF Take THEN Head(c2d) ELSE NoReq
      <4>1. CASE Take
        BY <3>0, <3>1, <4>1, LoopsKeptHandling DEF Stops, InLoop
      <4>2. CASE ~Take
        <5>1. stack' = stack
          BY <2>6, <3>0, <4>2
        <5> QED BY <3>0, <4>2, <5>1 DEF Stops, InLoop, Top
      <4> QED BY <4>1, <4>2
    <3>3. /\ \A i \in Resuming : i # 1 => i - 1 \in Resuming'
          /\ 1 \in Resuming <=> Head(c2d).cmd \in ResumeCmds
      BY <3>0, ResumingAfterTake
    <3>4. \A i \in 1..Len(c2d') :
            c2d'[i].cmd = "variables" =>
              /\ InLoop' /\ ~ResumeTaken' /\ Fits(stored', c2d'[i])
              /\ cview' = "stopped" \/ \E p \in Resuming' : i < p
      <4> SUFFICES ASSUME NEW i \in 1..Len(c2d'), c2d'[i].cmd = "variables"
                   PROVE  /\ InLoop' /\ ~ResumeTaken' /\ Fits(stored', c2d'[i])
                          /\ cview' = "stopped" \/ \E p \in Resuming' : i < p
        OBVIOUS
      <4>1. /\ InLoop /\ ~ResumeTaken /\ Fits(stored, c2d[i + 1])
            /\ cview = "stopped" \/ \E p \in Resuming : i + 1 < p
        BY <3>0, <3>1 DEF RefInv
      <4>2. cview = "stopped" \/ \E p \in Resuming' : i < p
        <5>1. CASE \E p \in Resuming : i + 1 < p
          <6>1. PICK p \in Resuming : i + 1 < p
            BY <5>1
          <6>2. p \in Int /\ p # 1 /\ i < p - 1
            BY <6>1 DEF Resuming
          <6> QED BY <3>3, <6>1, <6>2
        <5> QED BY <4>1, <5>1
      <4>3. Head(c2d).cmd \notin ResumeCmds
        <5>1. CASE cview = "stopped"
          BY <3>0, <3>3, <4>1, <5>1 DEF ShownInv, LoopDue
        <5>2. CASE \E p \in Resuming : i + 1 < p
          <6>1. PICK p \in Resuming : i + 1 < p
            BY <5>2
          <6>2. p # 1 /\ p \in Int
            BY <6>1 DEF Resuming
          <6> QED BY <3>0, <3>3, <6>1, <6>2 DEF ShownInv
        <5> QED BY <4>1, <5>1, <5>2
      <4>4. ~ResumeTaken'
        BY <3>2, <4>3, NoReqFacts DEF ResumeTaken, ResumeCmds, StepCmds
      <4> QED BY <3>0, <3>1, <3>2, <4>1, <4>2, <4>4
    <3>5. \A i \in 1..Len(stack') :
            stack'[i].cur.cmd = "variables" =>
              i = Len(stack') /\ InLoop' /\ Fits(stored', stack'[i].cur)
      <4> SUFFICES ASSUME NEW i \in 1..Len(stack'), stack'[i].cur.cmd = "variables"
                   PROVE  i = Len(stack') /\ InLoop' /\ Fits(stored', stack'[i].cur)
        OBVIOUS
      <4>1. CASE i # Len(stack)
        BY <3>0, <3>2, <4>1 DEF RefInv
      <4>2. CASE i = Len(stack)
        <5>1. stack'[i].cur = Top'.cur
          BY <3>2, <4>2 DEF Top
        <5>2. Top'.cur = Head(c2d) /\ Head(c2d).cmd = "variables"
          BY <3>2, <5>1, NoReqFacts
        <5> QED BY <3>0, <3>1, <3>2, <4>2, <5>1, <5>2 DEF RefInv
      <4> QED BY <4>1, <4>2
    <3> QED BY <3>0, <3>2, <3>4, <3>5 DEF RefInv, ReadInStop
  <2>7. CASE ~StartConnect /\ (Answer \/ HandlerError)
    <3> DEFINE r == Top.cur
    <3>0. /\ RefInv /\ ShownInv /\ UNCHANGED <<c2d, cview, refs>> /\ stack # <<>>
          /\ Handling(NoReq) /\ r \in Requests
          /\ r.cmd \notin ResumeCmds \/ Top.kind = "poll"
          /\ \E x \in Seqs : stored' = stored \/ stored' = Append(stored, x)
      <4>1. RefInv /\ ShownInv /\ UNCHANGED <<c2d, cview, refs>> /\ stack # <<>> /\ Handling(NoReq)
        BY <2>2, <2>7 DEF Answer, HandlerError, Busy, At
      <4>2. r \in Requests
        BY <2>7, TopType DEF Answer, HandlerError, Busy, At, TypeOK
      <4>3. r.cmd \notin ResumeCmds \/ Top.kind = "poll"
        BY <2>7 DEF Answer, HandlerError, GameCodeCmds, ResumeCmds, StepCmds
      <4>4. r.seq \in Seqs
        BY <4>2 DEF Requests
      <4>5. stored' = stored \/ stored' = Append(stored, r.seq)
        BY <2>7 DEF Answer, HandlerError, Registers
      <4> QED BY <4>1, <4>2, <4>3, <4>4, <4>5
    <3>1. \A ref, val : Means(stored, ref, val) => Means(stored', ref, val)
      BY <3>0, MeansKept
    <3>2. /\ (InLoop' <=> InLoop) /\ Len(stack') = Len(stack) /\ Top'.cur = NoReq
          /\ \A i \in 1..Len(stack) : i # Len(stack) => stack'[i] = stack[i]
      BY <3>0, LoopsKeptHandling DEF InLoop
    <3>3. ~ResumeTaken'
      BY <3>2, NoReqFacts DEF ResumeTaken, ResumeCmds, StepCmds
    <3>4. Resuming' = Resuming
      BY <3>0 DEF Resuming
    <3>5. \A i \in 1..Len(c2d') :
            c2d'[i].cmd = "variables" =>
              /\ InLoop' /\ ~ResumeTaken' /\ Fits(stored', c2d'[i])
              /\ cview' = "stopped" \/ \E p \in Resuming' : i < p
      BY <3>0, <3>1, <3>2, <3>3, <3>4 DEF RefInv, Fits
    <3>6. \A i \in 1..Len(stack') :
            stack'[i].cur.cmd = "variables" =>
              i = Len(stack') /\ InLoop' /\ Fits(stored', stack'[i].cur)
      <4> SUFFICES ASSUME NEW i \in 1..Len(stack'), stack'[i].cur.cmd = "variables"
                   PROVE  i = Len(stack') /\ InLoop' /\ Fits(stored', stack'[i].cur)
        OBVIOUS
      <4>1. i # Len(stack)
        BY <3>2, NoReqFacts DEF Top
      <4> QED BY <3>0, <3>2, <4>1 DEF RefInv
    <3>7. /\ cview' # "stopped" => refs' = {}
          /\ \A o \in refs' : Means(stored', o.ref, o.val)
      BY <3>0, <3>1 DEF RefInv
    <3>8. /\ \A i \in 1..Len(d2c') : d2c'[i].type = "response" => d2c'[i].got = d2c'[i].want
          /\ \A i \in 1..Len(d2c') :
               d2c'[i].type = "response" /\ d2c'[i].ref # 0 /\ ReadInStop(i)' =>
                 Means(stored', d2c'[i].ref, d2c'[i].seq)
      <4>1. CASE d2c' = d2c
        <5>1. Stops' = Stops
          BY <4>1 DEF Stops
        <5> QED BY <3>0, <3>1, <4>1, <5>1 DEF RefInv, ReadInStop
      <4>2. CASE \E new \in 0..MaxSeq :
                   Registers(r, new) /\ d2c' = d2c \o <<Response(r, new)>>
        <5>1. PICK new \in 0..MaxSeq :
                Registers(r, new) /\ d2c' = d2c \o <<Response(r, new)>>
          BY <4>2
        <5>2. PICK m \in Replies : m = Response(r, new)
          BY <3>0, ResponseType
        <5>3. /\ m.type = "response" /\ m.seq = r.seq /\ m.ref = new
              /\ m.got = (IF r.cmd = "variables" THEN Lookup(r.ref) ELSE 0)
              /\ m.want = (IF r.cmd = "variables" THEN r.val ELSE 0)
          BY <5>2 DEF Response
        <5>4. /\ Len(d2c) \in Nat /\ Len(d2c') = Len(d2c) + 1 /\ d2c'[Len(d2c) + 1] = m
              /\ \A i \in 1..Len(d2c) : d2c'[i] = d2c[i]
          <6>1. d2c' = Append(d2c, m)
            BY <5>1, <5>2, AppendIsConcat DEF TypeOK
          <6> QED BY <6>1, AppendProperties, LenProperties DEF TypeOK
        <5>5. Stops' = Stops
          BY <5>1, <5>2, <5>3, StopsAfterWrite
        <5>6. m.got = m.want
          <6>1. CASE r.cmd = "variables"
            <7>1. Len(stack) \in 1..Len(stack)
              BY <3>0, TopType DEF TypeOK
            <7>2. Fits(stored, r)
              BY <3>0, <6>1, <7>1 DEF RefInv, Top
            <7>3. Len(stored) \in Nat
              BY LenProperties DEF TypeOK
            <7>4. Lookup(r.ref) = r.val
              BY <7>2, <7>3 DEF Fits, Means, Lookup
            <7> QED BY <5>3, <6>1, <7>4
          <6>2. CASE r.cmd # "variables"
            BY <5>3, <6>2
          <6> QED BY <6>1, <6>2
        <5>7. m.ref # 0 => Means(stored', m.ref, m.seq)
          <6> SUFFICES ASSUME m.ref # 0 PROVE Means(stored', m.ref, m.seq)
            OBVIOUS
          <6>1. new = Len(stored) + 1 /\ stored' = Append(stored, r.seq)
            BY <5>1, <5>3 DEF Registers
          <6>2. r.seq \in Seqs
            BY <3>0 DEF Requests
          <6>3. /\ Len(stored) \in Nat /\ Len(stored') = Len(stored) + 1
                /\ stored'[Len(stored) + 1] = r.seq
            BY <6>1, <6>2, AppendProperties, LenProperties DEF TypeOK
          <6> QED BY <5>3, <6>1, <6>3 DEF Means
        <5>8. \A i \in 1..Len(d2c') : i \in 1..Len(d2c) \/ i = Len(d2c) + 1
          BY <5>4
        <5>9. \A i : ReadInStop(i)' => ReadInStop(i)
          BY <3>0, <5>5 DEF ReadInStop
        <5> QED BY <3>0, <3>1, <5>4, <5>6, <5>7, <5>8, <5>9 DEF RefInv
      <4>3. d2c' = d2c \/ \E new \in 0..MaxSeq :
                            Registers(r, new) /\ d2c' = d2c \o <<Response(r, new)>>
        BY <2>7 DEF Answer, HandlerError, Deliver, Accept, Break
      <4> QED BY <4>1, <4>2, <4>3
    <3> QED BY <3>5, <3>6, <3>7, <3>8 DEF RefInv
  <2>8. CASE ~StartConnect /\ AnswerAndResume
    <3> DEFINE m == Response(Top.cur, 0)
    <3>1. /\ RefInv /\ ShownInv /\ UNCHANGED <<c2d, cview, refs>> /\ ResumeTaken /\ stack # <<>>
          /\ d2c' = d2c \o <<m>> /\ LoopReturned(stack)
      BY <2>2, <2>8 DEF AnswerAndResume, Busy, At, ResumeTaken, InLoop, Deliver, Accept, Break
    <3>2. m \in Replies /\ m.type = "response" /\ m.ref = 0 /\ m.got = 0 /\ m.want = 0
      <4>1. Top.cur \in Requests
        BY <3>1, TopType, NoReqFacts DEF ResumeTaken, TypeOK, ResumeCmds, StepCmds
      <4>2. Top.cur.cmd # "variables"
        BY <3>1 DEF ResumeTaken, ResumeCmds, StepCmds
      <4> QED BY <4>1, <4>2, ResponseType, MaxSeqAssumption DEF Response
    <3>3. Stops = {} /\ cview = "running"
      BY <3>1 DEF ShownInv, LoopDue, ResumeTaken
    <3> HIDE DEF m
    <3>4. Stops' = {}
      BY <3>1, <3>2, <3>3, StopsAfterWrite
    <3>5. /\ Len(d2c) \in Nat /\ Len(d2c') = Len(d2c) + 1 /\ d2c'[Len(d2c) + 1] = m
          /\ \A i \in 1..Len(d2c) : d2c'[i] = d2c[i]
      <4>1. d2c' = Append(d2c, m)
        BY <3>1, <3>2, AppendIsConcat DEF TypeOK
      <4> QED BY <3>2, <4>1, AppendProperties, LenProperties DEF TypeOK
    <3>6. \A i \in 1..Len(d2c') : d2c'[i].type = "response" => d2c'[i].got = d2c'[i].want
      <4>1. \A i \in 1..Len(d2c') : i \in 1..Len(d2c) \/ i = Len(d2c) + 1
        BY <3>5
      <4> QED BY <3>1, <3>2, <3>5, <4>1 DEF RefInv
    <3>7. \A i : ~ReadInStop(i)'
      BY <3>1, <3>3, <3>4 DEF ReadInStop
    <3>8. \A i \in 1..Len(c2d) : c2d[i].cmd # "variables"
      BY <3>1 DEF RefInv
    <3>9. \A i \in 1..Len(stack') : stack'[i].cur.cmd # "variables"
      <4>1. \A i \in 1..Len(stack) : stack[i].cur.cmd # "variables"
        BY <3>1 DEF RefInv, ResumeTaken, Top, ResumeCmds, StepCmds
      <4> QED BY <3>1, <4>1, CurKeptLoopReturned, NoReqFacts DEF CurKept
    <3>10. cview' # "stopped" /\ refs' = {}
      BY <3>1, <3>3 DEF RefInv
    <3> QED BY <3>1, <3>6, <3>7, <3>8, <3>9, <3>10 DEF RefInv
  <2>9. CASE /\ ~StartConnect
             /\ \/ EvaluateCatches \/ GameFrame \/ UNCHANGED vars
                \/ (ErrorEscapes /\ stack = <<>>)
    <3>1. RefInv /\ UNCHANGED <<c2d, d2c, cview, refs, stack, stored>>
      BY <2>2, <2>9 DEF EvaluateCatches, GameFrame, vars, ErrorEscapes
    <3> QED BY <3>1 DEF RefInv, ReadInStop, Stops, Resuming, InLoop, ResumeTaken, Top
  <2>10. ~StartConnect => /\ ~ClientClose /\ ~LoopFails /\ ~GamePrintFails
                          /\ ~LoopEof /\ ~PollEof /\ ~(ErrorEscapes /\ stack # <<>>)
    BY <2>2 DEF ClientClose, LoopFails, GamePrintFails, LoopEof, PollEof, AtEof, ErrorEscapes,
                GuardInv
  <2> QED
    BY <2>1, <2>3, <2>4, <2>5, <2>6, <2>7, <2>8, <2>9, <2>10 DEF Next, Client, Adapter, Game
<1> QED
  BY <1>1, <1>2, TypeCorrect, GuardInvariant, StopInvariant, PTL DEF Spec

\* Expanding a variable shows the children of what the client was shown under that
\* reference, although every debug loop numbers its references anew.
THEOREM RefsKeepTheirMeaningHolds == Spec => []RefsKeepTheirMeaning
<1>1. TypeOK /\ StopInv /\ RefsInv => RefsKeepTheirMeaning
  <2> SUFFICES ASSUME TypeOK, StopInv, Flat => RefInv, ~failed, ~nested,
                      NEW i \in 1..Len(d2c), d2c[i].type = "response"
               PROVE  d2c[i].got = d2c[i].want
    BY DEF RefsKeepTheirMeaning, RefsInv
  <2>1. CASE connected
    BY <2>1 DEF Flat, RefInv
  <2>2. CASE ~connected
    <3>1. Len(d2c) = 0
      BY <2>2, EmptySeq DEF StopInv, WireInv
    <3> QED BY <3>1
  <2> QED BY <2>1, <2>2
<1> QED
  BY <1>1, TypeCorrect, StopInvariant, RefInvariant, PTL

=============================================================================
