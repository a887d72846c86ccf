--------------------------- MODULE StepperProofs ---------------------------
(***************************************************************************)
(* Proofs about Stepper, for any set of coroutines, any mix of created and *)
(* wrapped ones and any stack depth.                                       *)
(***************************************************************************)
EXTENDS Stepper, SequenceTheorems, TLAPS

\* What a step request leaves behind until it stops: the callback's targets are
\* those of the request, and the difference between what the handler and the
\* callback find on top of the script is exactly stepOffset.
TargetInv ==
  /\ stepTargetHeight \in Int /\ asked.height \in Nat
  /\ asked.cmd \in StepCmds \/ ~asked.exact
  /\ asked.exact => asked.thread \in Threads
  /\ asked.exact /\ asked.cmd = "stepIn" => stepTargetThread = NoThread
  /\ asked.exact /\ asked.cmd = "next" =>
       stepTargetThread = asked.thread /\ stepTargetHeight = asked.height + 4
  /\ asked.exact /\ asked.cmd = "stepOut" =>
       stepTargetThread = asked.thread /\ stepTargetHeight = asked.height + 3

MachineInv ==
  /\ chain \in Seq(Threads) /\ chain # <<>>
  /\ height \in [Threads -> Nat]
  /\ debugTargetCo \in Coroutines \cup {NoThread}

Inv == MachineInv /\ TargetInv /\ StepKeepsDepth

LEMMA RunningThread ==
  ASSUME MachineInv
  PROVE  Running \in Threads /\ Running # NoThread /\ height[Running] \in Nat
<1>1. Len(chain) \in 1..Len(chain)
  BY EmptySeq DEF MachineInv
<1>2. Running \in Threads
  BY <1>1, ElementOfSeq DEF Running, MachineInv
<1>3. Running # NoThread
  BY <1>2, ThreadsAssumption DEF Threads
<1> QED BY <1>2, <1>3 DEF MachineInv

LEMMA BackToShortens ==
  ASSUME MachineInv, NEW s, BackTo(s)
  PROVE  chain' \in Seq(Threads) /\ chain' # <<>>
<1>1. Len(chain) \in Nat /\ Len(chain) > 1 /\ chain' = SubSeq(chain, 1, Len(chain) - 1)
  BY LenProperties DEF BackTo, MachineInv
<1>2. \A i \in 1..(Len(chain) - 1) : chain[i] \in Threads
  BY <1>1, ElementOfSeq DEF MachineInv
<1>3. /\ chain' \in Seq(Threads)
      /\ Len(chain') = IF 1 <= Len(chain) - 1 THEN (Len(chain) - 1) - 1 + 1 ELSE 0
  BY <1>1, <1>2, SubSeqProperties
<1>4. \A n \in Nat : n > 1 => (IF 1 <= n - 1 THEN (n - 1) - 1 + 1 ELSE 0) # 0
  OBVIOUS
<1>5. Len(chain') # 0
  BY <1>1, <1>3, <1>4
<1> QED BY <1>3, <1>5, EmptySeq

\* Threads, heights and the resume chain stay well formed.
LEMMA MachineStep ==
  ASSUME MachineInv, [Next]_vars
  PROVE  MachineInv'
<1> USE DEF luaVars, stepVars
<1>0. Running \in Threads /\ height[Running] \in Nat
  BY RunningThread
<1>1. CASE Call \/ CallC \/ Return \/ Catch
  <2>1. chain' = chain
    BY <1>1 DEF Call, CallC, Return, Catch
  <2>2. height' \in [Threads -> Nat]
    <3>1. CASE Call
      BY <1>0, <3>1 DEF Call, MachineInv
    <3>2. CASE CallC
      BY <3>2 DEF CallC, MachineInv
    <3>3. CASE Return
      <4>1. height[Running] - 1 \in Nat
        BY <1>0, <3>3 DEF Return, InScript
      <4> QED BY <3>3, <4>1 DEF Return, MachineInv
    <3>4. CASE Catch
      BY <1>0, <3>4 DEF Catch, MachineInv
    <3> QED BY <1>1, <3>1, <3>2, <3>3, <3>4
  <2>3. UNCHANGED debugTargetCo
    BY <1>1 DEF Call, CallC, Return, Catch, Unseen
  <2> QED BY <2>1, <2>2, <2>3 DEF MachineInv
<1>2. CASE Yield \/ Finish
  <2>1. chain' \in Seq(Threads) /\ chain' # <<>>
    BY <1>2, BackToShortens DEF Yield, Finish
  <2>2. height' \in [Threads -> Nat]
    BY <1>0, <1>2 DEF Yield, Finish, MachineInv
  <2>3. UNCHANGED debugTargetCo
    BY <1>2 DEF Yield, Finish, BackTo, Unseen
  <2> QED BY <2>1, <2>2, <2>3 DEF MachineInv
<1>3. ASSUME NEW c \in Coroutines, Create(c) \/ Resume(c)
      PROVE  MachineInv'
  <2>1. c \in Threads
    BY DEF Threads
  <2>2. chain' \in Seq(Threads) /\ chain' # <<>>
    <3>1. Append(chain, c) \in Seq(Threads) /\ Append(chain, c) # <<>>
      BY <2>1, AppendProperties, EmptySeq DEF MachineInv
    <3> QED BY <1>3, <3>1 DEF Create, Resume, MachineInv
  <2>3. height' \in [Threads -> Nat]
    BY <1>3, <2>1 DEF Create, Resume, MachineInv
  <2>4. UNCHANGED debugTargetCo
    BY <1>3 DEF Create, Resume, Unseen
  <2> QED BY <2>2, <2>3, <2>4 DEF MachineInv
<1>4. CASE StepStop \/ LineDone \/ continue \/ next \/ stepIn \/ stepOut
           \/ (\E k \in EntryKinds : Enter(k)) \/ UNCHANGED vars
  <2>1. UNCHANGED luaVars
    BY <1>4 DEF StepStop, LineDone, continue, next, stepIn, stepOut, StepFrom, Enter, vars
  <2>2. debugTargetCo' \in Coroutines \cup {NoThread}
    BY <1>4 DEF StepStop, LineDone, continue, next, stepIn, stepOut, StepFrom, Enter, vars,
                MachineInv
  <2> QED BY <2>1, <2>2 DEF MachineInv
<1> QED BY <1>1, <1>2, <1>3, <1>4 DEF Next

\* Only a step request changes the targets, and it sets both.
LEMMA TargetStep ==
  ASSUME MachineInv, TargetInv, [Next]_vars
  PROVE  TargetInv'
<1> USE DEF luaVars, stepVars
<1>0. Running \in Threads /\ height[Running] \in Nat
  BY RunningThread
<1>1. CASE UNCHANGED <<stepTargetHeight, stepTargetThread, asked>>
  BY <1>1 DEF TargetInv
<1>2. CASE next \/ stepOut \/ stepIn
  <2>1. asked'.height = height[Running] /\ asked'.thread = Running
    BY <1>2 DEF next, stepOut, stepIn, StepFrom
  <2>2. asked'.exact => StackHeight(InHandler) = height[Running] + 8
    <3>1. asked'.exact = (InHandler = 8 /\ debugTargetCo = NoThread)
      BY <1>2 DEF next, stepOut, stepIn, StepFrom
    <3>2. asked'.exact => InHandler = 8 /\ debugTargetCo = NoThread
      BY <3>1, Zenon
    <3>3. CASE InHandler = 8 /\ debugTargetCo = NoThread
      <4>1. StackHeight(InHandler) = height[Running] + InHandler
        BY <3>3, RunningThread DEF StackHeight
      <4> QED BY <3>3, <4>1
    <3> QED BY <3>2, <3>3
  <2>3. StackHeight(InHandler) \in Int
    <3>1. InHandler \in Int
      BY DEF InHandler
    <3>2. CASE debugTargetCo \in Threads
      <4>1. height[debugTargetCo] \in Nat
        BY <3>2 DEF MachineInv
      <4> QED BY <1>0, <3>1, <4>1 DEF StackHeight
    <3>3. CASE debugTargetCo = NoThread
      BY <1>0, <3>1, <3>3 DEF StackHeight
    <3> QED BY <3>2, <3>3 DEF MachineInv, Threads
  <2>4. CASE next
    BY <1>0, <2>1, <2>2, <2>3, <2>4 DEF next, StepFrom, stepOffset, TargetInv, StepCmds
  <2>5. CASE stepOut
    BY <1>0, <2>1, <2>2, <2>3, <2>5 DEF stepOut, StepFrom, stepOffset, TargetInv, StepCmds
  <2>6. CASE stepIn
    BY <1>0, <2>1, <2>6 DEF stepIn, StepFrom, TargetInv, StepCmds
  <2> QED BY <1>2, <2>4, <2>5, <2>6
<1>3. CASE ~(next \/ stepOut \/ stepIn)
  <2>1. UNCHANGED <<stepTargetHeight, stepTargetThread, asked>>
    BY <1>3 DEF Next, Call, CallC, Return, Catch, Yield, Finish, BackTo, Unseen, Create,
                Resume, StepStop, LineDone, Enter, continue, vars
  <2> QED BY <1>1, <2>1
<1> QED BY <1>2, <1>3

\* The callback stops only within the depth that the request names, for any
\* number of coroutines, calls, errors and other debug loops in between.
THEOREM StepsKeepTheirDepth == Spec => []StepKeepsDepth
<1>1. Init => Inv
  <2> SUFFICES ASSUME Init PROVE Inv
    OBVIOUS
  <2>1. MachineInv
    <3>1. Main \in Threads
      BY DEF Threads
    <3> QED BY <3>1 DEF Init, MachineInv
  <2> QED BY <2>1 DEF Init, Inv, TargetInv, StepKeepsDepth, NotAsked
<1>2. Inv /\ [Next]_vars => Inv'
  <2> SUFFICES ASSUME Inv, [Next]_vars PROVE Inv'
    OBVIOUS
  <2>1. MachineInv' /\ TargetInv'
    BY MachineStep, TargetStep DEF Inv
  <2>2. StepKeepsDepth'
    <3> SUFFICES ASSUME loop' = "step", asked'.exact, debugTargetCo' = NoThread,
                        Running' = asked'.thread
                 PROVE  /\ asked'.cmd = "next" => height'[Running'] <= asked'.height
                        /\ asked'.cmd = "stepOut" => height'[Running'] < asked'.height
      BY DEF StepKeepsDepth
    <3>1. CASE StepStop
      <4>1. /\ UNCHANGED <<height, chain, asked, debugTargetCo>> /\ Running' = Running
            /\ StopsHere
        BY <3>1 DEF StepStop, luaVars, Running
      <4>2. asked.thread # NoThread
        BY <4>1, ThreadsAssumption DEF Inv, TargetInv, Threads
      <4>3. asked.cmd # "stepIn" => height[Running] + 4 <= stepTargetHeight
        BY <4>1, <4>2 DEF StopsHere, StackHeight, InCallback, Inv, TargetInv, StepCmds
      <4>4. height[Running] \in Nat
        BY RunningThread DEF Inv
      <4> QED BY <4>1, <4>3, <4>4 DEF Inv, TargetInv
    <3>2. CASE ~StepStop
      <4>1. loop = "step" /\ UNCHANGED <<height, chain, asked, debugTargetCo>>
        BY <3>2, EntryKindsAssumption
           DEF Next, Call, CallC, Return, Catch, Yield, Finish, BackTo, Unseen, Create,
               Resume, LineDone, Enter, continue, next, stepIn, stepOut, StepFrom,
               LoopReturns, Loops, Script, InScript, vars, luaVars
      <4> QED BY <4>1 DEF Inv, StepKeepsDepth, Running
    <3> QED BY <3>1, <3>2
  <2> QED BY <2>1, <2>2 DEF Inv
<1>3. Inv => StepKeepsDepth
  BY DEF Inv
<1> QED BY <1>1, <1>2, <1>3, PTL DEF Spec

\* No line at the depth that the request names goes by without a stop.
THEOREM StepsNeverOverrun == Spec => []NeverOverruns
<1>1. Init => MachineInv /\ TargetInv
  <2>1. Main \in Threads
    BY DEF Threads
  <2> QED BY <2>1 DEF Init, MachineInv, TargetInv, NotAsked
<1>2. MachineInv /\ TargetInv /\ [Next]_vars => MachineInv' /\ TargetInv'
  BY MachineStep, TargetStep
<1>3. MachineInv /\ TargetInv => NeverOverruns
  <2> SUFFICES ASSUME MachineInv, TargetInv, armed, asked.exact, debugTargetCo = NoThread,
                      Running = asked.thread, Hooked(Running),
                      height[Running] < asked.height +
                                          (IF asked.cmd = "stepOut" THEN 0 ELSE 1)
               PROVE  StopsHere
    BY DEF NeverOverruns
  <2>1. StackHeight(InCallback) = height[Running] + 4 /\ height[Running] \in Nat
    <3>1. StackHeight(InCallback) = height[Running] + InCallback
      BY RunningThread DEF StackHeight
    <3>2. height[Running] \in Nat
      BY RunningThread
    <3> QED BY <3>1, <3>2 DEF InCallback
  <2>2. asked.cmd \in StepCmds
    BY DEF TargetInv
  <2>3. CASE asked.cmd = "stepIn"
    BY <2>3 DEF TargetInv, StopsHere
  <2>4. CASE asked.cmd = "next"
    BY <2>1, <2>4 DEF TargetInv, StopsHere
  <2>5. CASE asked.cmd = "stepOut"
    BY <2>1, <2>5 DEF TargetInv, StopsHere
  <2> QED BY <2>2, <2>3, <2>4, <2>5 DEF StepCmds
<1> QED BY <1>1, <1>2, <1>3, PTL DEF Spec

-----------------------------------------------------------------------------
(* Where a step over or out stops in another thread, while no coroutine     *)
(* yields.                                                                  *)

\* Each thread that runs or waits for one that it has resumed stands once in the
\* chain; what is suspended would come back without a call event.
Chained ==
  /\ status \in [Coroutines -> {"none", "fresh", "suspended", "active", "dead"}]
  /\ chain[1] = Main
  /\ \A i \in 2..Len(chain) : chain[i] \in Coroutines /\ status[chain[i]] = "active"
  /\ \A i \in 1..Len(chain), j \in 1..Len(chain) : chain[i] = chain[j] => i = j
  /\ \A c \in Coroutines : status[c] # "suspended"

Over == asked.cmd \in {"next", "stepOut"}

\* The thread of the request cannot begin again.
Begun == Over => /\ asked.thread \in Threads
                 /\ asked.thread \in Coroutines => status[asked.thread] \in {"active", "dead"}
\* While it is in the chain it has the same threads below it.
Under == Over => \A p \in 1..Len(chain) : chain[p] = asked.thread =>
                   \A i \in 1..(p - 1) : chain[i] \in asked.below
Aimed == armed => asked.cmd \in StepCmds /\ (Over => stepTargetThread = asked.thread)
\* Unless hasSteppedIn tells of them, no other threads with a hook are in the chain.
Seen  == Over /\ armed /\ ~hasSteppedIn =>
           \A i \in 1..Len(chain) :
             Hooked(chain[i]) => chain[i] \in asked.below \cup {asked.thread}

ParentInv == Begun /\ Under /\ Aimed /\ Seen /\ OnlyParentsStop

LEMMA ChainShrinks ==
  ASSUME MachineInv, NEW s, BackTo(s)
  PROVE  /\ Len(chain) \in Nat /\ Len(chain) > 1 /\ Len(chain') = Len(chain) - 1
         /\ \A i \in 1..(Len(chain) - 1) : chain'[i] = chain[i]
<1>1. Len(chain) \in Nat /\ Len(chain) > 1 /\ chain' = SubSeq(chain, 1, Len(chain) - 1)
  BY LenProperties DEF BackTo, MachineInv
<1>2. \A i \in 1..(Len(chain) - 1) : chain[i] \in Threads
  BY <1>1, ElementOfSeq DEF MachineInv
<1> DEFINE n == Len(chain) - 1
<1>3. n \in Nat \ {0}
  BY <1>1
<1>4. /\ Len(SubSeq(chain, 1, n)) = IF 1 <= n THEN n - 1 + 1 ELSE 0
      /\ \A i \in 1..(n - 1 + 1) : SubSeq(chain, 1, n)[i] = chain[1 + i - 1]
  BY <1>2, <1>3, SubSeqProperties
<1> HIDE DEF n
<1>5. Len(SubSeq(chain, 1, n)) = n /\ n - 1 + 1 = n /\ \A i \in 1..n : 1 + i - 1 = i
  BY <1>3, <1>4
<1>6. \A i \in 1..n : SubSeq(chain, 1, n)[i] = chain[i]
  BY <1>4, <1>5
<1> QED BY <1>1, <1>5, <1>6 DEF n

LEMMA ChainGrows ==
  ASSUME MachineInv, NEW c \in Coroutines, chain' = Append(chain, c)
  PROVE  /\ Len(chain) \in Nat \ {0} /\ Len(chain') = Len(chain) + 1
         /\ \A i \in 1..Len(chain) : chain'[i] = chain[i]
         /\ chain'[Len(chain) + 1] = c
<1>1. c \in Threads /\ chain \in Seq(Threads)
  BY DEF Threads, MachineInv
<1>2. Len(chain) \in Nat \ {0}
  BY <1>1, EmptySeq, LenProperties DEF MachineInv
<1> QED BY <1>1, <1>2, AppendProperties

\* Without yields a step changes the chain in one of three ways.
LEMMA ChainSteps ==
  ASSUME ~Yields, [Next]_vars
  PROVE  \/ UNCHANGED <<chain, status>>
         \/ chain' = chain /\ \E c \in Coroutines :
              status[c] = "none" /\ status' = [status EXCEPT ![c] = "fresh"]
         \/ \E c \in Coroutines : Resume(c)
         \/ Finish
<1> USE DEF luaVars
<1>1. CASE \E c \in Coroutines : Create(c)
  BY <1>1 DEF Create
<1>2. CASE Yield
  BY <1>2 DEF Yield
<1>3. CASE \/ Call \/ CallC \/ Return \/ Catch \/ StepStop \/ LineDone \/ next \/ stepIn
           \/ stepOut \/ continue \/ (\E k \in EntryKinds : Enter(k)) \/ UNCHANGED vars
  BY <1>3 DEF Call, CallC, Return, Catch, StepStop, LineDone, next, stepIn, stepOut, StepFrom,
              continue, Enter, vars
<1> QED BY <1>1, <1>2, <1>3 DEF Next

LEMMA ChainedStep ==
  ASSUME ~Yields, MachineInv, Chained, [Next]_vars
  PROVE  Chained'
<1>1. CASE UNCHANGED <<chain, status>>
  BY <1>1 DEF Chained
<1>2. CASE chain' = chain /\ \E c \in Coroutines :
             status[c] = "none" /\ status' = [status EXCEPT ![c] = "fresh"]
  BY <1>2 DEF Chained
<1>3. ASSUME NEW c \in Coroutines, Resume(c) PROVE Chained'
  <2>1. status[c] # "active" /\ c # Main /\ status' = [status EXCEPT ![c] = "active"]
    BY <1>3, ThreadsAssumption DEF Resume
  <2>2. /\ Len(chain) \in Nat \ {0} /\ Len(chain') = Len(chain) + 1
        /\ \A i \in 1..Len(chain) : chain'[i] = chain[i]
        /\ chain'[Len(chain) + 1] = c
    BY <1>3, ChainGrows DEF Resume
  <2>3. PICK n \in Nat \ {0} : n = Len(chain)
    BY <2>2
  <2>4. \A i \in 1..n : chain[i] # c
    <3> SUFFICES ASSUME NEW i \in 1..n PROVE chain[i] # c
      OBVIOUS
    <3>1. CASE i = 1
      BY <2>1, <3>1 DEF Chained
    <3>2. CASE i # 1
      BY <2>1, <2>3, <3>2 DEF Chained
    <3> QED BY <3>1, <3>2
  <2>5. \A i \in 1..(n + 1) : IF i = n + 1 THEN chain'[i] = c
                                          ELSE i \in 1..n /\ chain'[i] = chain[i]
    BY <2>2, <2>3
  <2>6. ASSUME NEW i \in 2..(n + 1)
        PROVE  chain'[i] \in Coroutines /\ status'[chain'[i]] = "active"
    <3>1. CASE i = n + 1
      BY <2>1, <2>5, <3>1 DEF Chained
    <3>2. CASE i # n + 1
      <4>1. i \in 2..n /\ chain'[i] = chain[i]
        BY <2>5, <3>2
      <4> QED BY <2>1, <2>3, <4>1 DEF Chained
    <3> QED BY <3>1, <3>2
  <2>7. ASSUME NEW i \in 1..(n + 1), NEW j \in 1..(n + 1), chain'[i] = chain'[j]
        PROVE  i = j
    <3>1. CASE i = n + 1 \/ j = n + 1
      <4>1. \A k \in 1..n : chain'[k] # c
        BY <2>2, <2>3, <2>4
      <4>2. chain'[n + 1] = c
        BY <2>2, <2>3
      <4>3. \A k \in 1..(n + 1) : k \in 1..n \/ k = n + 1
        BY <2>3
      <4> QED BY <2>7, <3>1, <4>1, <4>2, <4>3, Zenon
    <3>2. CASE i # n + 1 /\ j # n + 1
      <4>1. i \in 1..n /\ j \in 1..n /\ chain[i] = chain[j]
        BY <2>5, <2>7, <3>2
      <4> QED BY <2>3, <4>1 DEF Chained
    <3> QED BY <3>1, <3>2
  <2>8. chain'[1] = Main
    BY <2>2 DEF Chained
  <2>9. Len(chain') = n + 1
    BY <2>2, <2>3
  <2>10. \A d \in Coroutines : status'[d] # "suspended"
    BY <2>1 DEF Chained
  <2>11. status' \in [Coroutines -> {"none", "fresh", "suspended", "active", "dead"}]
    BY <2>1 DEF Chained
  <2> QED BY <2>6, <2>7, <2>8, <2>9, <2>10, <2>11 DEF Chained
<1>4. CASE Finish
  <2>1. PICK s : BackTo(s)
    BY <1>4 DEF Finish
  <2>2. PICK n \in Nat \ {0} : n = Len(chain) - 1
    BY <2>1, ChainShrinks
  <2>3. /\ Len(chain) = n + 1 /\ Len(chain') = n
        /\ \A i \in 1..n : chain'[i] = chain[i]
    BY <2>1, <2>2, ChainShrinks
  <2>4. status' = [status EXCEPT ![chain[n + 1]] = "dead"]
    BY <1>4, <2>3 DEF Finish, Running
  <2>5. \A i \in 2..n : chain'[i] \in Coroutines /\ status'[chain'[i]] = "active"
    BY <2>3, <2>4 DEF Chained
  <2>6. \A i \in 1..n, j \in 1..n : chain'[i] = chain'[j] => i = j
    BY <2>3 DEF Chained
  <2>7. chain'[1] = Main
    BY <2>3 DEF Chained
  <2>8. \A d \in Coroutines : status'[d] # "suspended"
    BY <2>4 DEF Chained
  <2>9. status' \in [Coroutines -> {"none", "fresh", "suspended", "active", "dead"}]
    BY <2>4 DEF Chained
  <2> QED BY <2>3, <2>5, <2>6, <2>7, <2>8, <2>9 DEF Chained
<1> QED BY <1>1, <1>2, <1>3, <1>4, ChainSteps

\* Back in the thread of the request, everything below is known.
LEMMA AtTarget ==
  ASSUME MachineInv, Under, Over, NEW n \in 1..Len(chain), chain[n] = asked.thread
  PROVE  \A i \in 1..n : chain[i] \in asked.below \cup {asked.thread}
<1>1. Len(chain) \in Nat
  BY LenProperties DEF MachineInv
<1>2. \A i \in 1..n : i = n \/ i \in 1..(n - 1)
  BY <1>1
<1> QED BY <1>2 DEF Under

\* What the events of a step do to hasSteppedIn.
FlagKept == ~hasSteppedIn' => ~hasSteppedIn \/ (armed /\ Running = stepTargetThread)

LEMMA FlagSteps ==
  ASSUME Call \/ CallC \/ Return \/ Catch \/ (\E c \in Coroutines : Create(c))
  PROVE  FlagKept /\ UNCHANGED <<chain, armed, stepTargetThread, asked, loop>> /\ loop # "step"
<1>1. FlagKept
  BY Zenon DEF Call, CallC, Return, Catch, Create, CalledIn, ReturnedIn, FlagKept
<1> QED BY <1>1
        DEF Call, CallC, Return, Catch, Create, Unseen, InScript, Script, luaVars

LEMMA RequestStep ==
  ASSUME MachineInv, Chained, ParentInv, next \/ stepOut \/ stepIn
  PROVE  ParentInv'
<1>1. /\ UNCHANGED luaVars /\ armed' = TRUE /\ loop' # "step"
      /\ asked'.thread = Running /\ asked'.below = Below(Running) /\ asked'.cmd \in StepCmds
      /\ asked'.cmd # "stepIn" => stepTargetThread' = Running
  BY DEF next, stepOut, stepIn, StepFrom, LoopReturns, StepCmds
<1>2. PICK n \in Nat \ {0} : n = Len(chain)
  BY EmptySeq, LenProperties DEF MachineInv
<1>3. \A i \in 1..(n - 1) : chain[i] \in Below(Running)
  <2> SUFFICES ASSUME NEW i \in 1..(n - 1) PROVE chain[i] \in Below(Running)
    OBVIOUS
  <2>1. i \in 1..n /\ n \in (i + 1)..n /\ chain[n] = Running
    BY <1>2 DEF Running
  <2> QED BY <1>2, <2>1 DEF Below
<1>4. Begun'
  <2>1. Running \in Threads
    BY RunningThread
  <2>2. Running \in Coroutines => status[Running] = "active"
    <3> SUFFICES ASSUME Running \in Coroutines PROVE status[Running] = "active"
      OBVIOUS
    <3>1. n # 1
      BY <1>2, ThreadsAssumption DEF Chained, Running
    <3>2. n \in 2..n
      BY <3>1
    <3> QED BY <1>2, <3>2 DEF Chained, Running
  <2> QED BY <1>1, <2>1, <2>2 DEF Begun, luaVars
<1>5. Under'
  <2>1. \A p \in 1..n : \A i \in 1..(p - 1) : i \in 1..(n - 1)
    OBVIOUS
  <2> QED BY <1>1, <1>2, <1>3, <2>1 DEF Under, luaVars
<1>6. Aimed'
  BY <1>1 DEF Aimed, Over
<1>7. Seen'
  <2>1. \A i \in 1..n : chain[i] \in Below(Running) \cup {Running}
    <3>1. \A i \in 1..n : i \in 1..(n - 1) \/ i = n
      OBVIOUS
    <3> QED BY <1>2, <1>3, <3>1 DEF Running
  <2> QED BY <1>1, <1>2, <2>1 DEF Seen, luaVars
<1> QED BY <1>1, <1>4, <1>5, <1>6, <1>7 DEF ParentInv, OnlyParentsStop

LEMMA ResumeStep ==
  ASSUME MachineInv, Chained, ParentInv, NEW c \in Coroutines, Resume(c)
  PROVE  ParentInv'
<1>1. /\ UNCHANGED <<armed, stepTargetThread, asked, loop>> /\ loop # "step"
      /\ status[c] = "fresh" /\ status' = [status EXCEPT ![c] = "active"]
  BY DEF Resume, Unseen, InScript, Script, Chained
<1>2. PICK n \in Nat \ {0} : n = Len(chain)
  BY EmptySeq, LenProperties DEF MachineInv
<1>3. /\ Len(chain') = n + 1 /\ chain'[n + 1] = c
      /\ \A i \in 1..n : chain'[i] = chain[i]
  BY <1>2, ChainGrows DEF Resume
<1>4. Over => asked.thread # c
  BY <1>1 DEF ParentInv, Begun
<1>5. Begun'
  BY <1>1 DEF ParentInv, Begun, Over, Chained
<1>6. Under'
  <2> SUFFICES ASSUME Over, NEW p \in 1..(n + 1), chain'[p] = asked.thread, NEW i \in 1..(p - 1)
               PROVE  chain'[i] \in asked.below
    BY <1>1, <1>3 DEF Under, Over
  <2>1. p # n + 1
    BY <1>3, <1>4
  <2>2. p \in 1..n /\ i \in 1..n /\ chain'[i] = chain[i] /\ chain'[p] = chain[p]
    BY <1>3, <2>1
  <2> QED BY <1>2, <2>2 DEF ParentInv, Under
<1>7. Aimed'
  BY <1>1 DEF ParentInv, Aimed, Over
<1>8. Seen'
  <2> SUFFICES ASSUME Over, armed, ~hasSteppedIn', NEW i \in 1..(n + 1), Hooked(chain'[i])
               PROVE  chain'[i] \in asked.below \cup {asked.thread}
    BY <1>1, <1>3 DEF Seen, Over, Hooked
  <2>1. ~CalledIn(c, CalledIn(Running, hasSteppedIn))
    BY <1>1 DEF Resume
  <2>2. ~hasSteppedIn /\ ~(Hooked(c) /\ c # stepTargetThread)
    BY <2>1, Zenon DEF CalledIn
  <2>3. i # n + 1
    BY <1>3, <1>4, <2>2 DEF ParentInv, Aimed
  <2>4. i \in 1..n /\ chain'[i] = chain[i]
    BY <1>3, <2>3
  <2> QED BY <1>2, <2>2, <2>4 DEF ParentInv, Seen
<1> QED BY <1>1, <1>5, <1>6, <1>7, <1>8 DEF ParentInv, OnlyParentsStop

LEMMA FinishStep ==
  ASSUME MachineInv, Chained, ParentInv, Finish
  PROVE  ParentInv'
<1>1. PICK s : BackTo(s) /\ (s = hasSteppedIn \/ s = ReturnedIn(Running, hasSteppedIn))
  BY DEF Finish
<1>2. /\ UNCHANGED <<armed, stepTargetThread, asked, loop>> /\ loop # "step"
      /\ status' = [status EXCEPT ![Running] = "dead"]
  BY <1>1 DEF Finish, BackTo, Unseen, InScript, Script
<1>3. PICK n \in Nat \ {0} : n = Len(chain) - 1
  BY <1>1, ChainShrinks
<1>4. /\ Len(chain) = n + 1 /\ Len(chain') = n /\ chain[n + 1] = Running
      /\ \A i \in 1..n : chain'[i] = chain[i]
  BY <1>1, <1>3, ChainShrinks DEF Running
<1>5. Begun'
  BY <1>2 DEF ParentInv, Begun, Over, Chained
<1>6. Under'
  <2>1. \A p \in 1..n : p \in 1..(n + 1) /\ \A i \in 1..(p - 1) : i \in 1..n
    OBVIOUS
  <2> QED BY <1>2, <1>4, <2>1 DEF ParentInv, Under, Over
<1>7. Aimed'
  BY <1>2 DEF ParentInv, Aimed, Over
<1>8. Seen'
  <2> SUFFICES ASSUME Over, armed, ~hasSteppedIn', NEW i \in 1..n, Hooked(chain'[i])
               PROVE  chain'[i] \in asked.below \cup {asked.thread}
    BY <1>2, <1>4 DEF Seen, Over, Hooked
  <2>1. i \in 1..(n + 1) /\ chain'[i] = chain[i] /\ n \in 1..Len(chain) /\ n + 1 \in 1..Len(chain)
    BY <1>4
  <2>2. stepTargetThread = asked.thread
    BY DEF ParentInv, Aimed
  <2>3. \/ ~hasSteppedIn \/ Running = stepTargetThread
        \/ chain[n] = stepTargetThread
    <3>1. ~ReturnedIn(chain[Len(chain) - 1], s)
      BY <1>1 DEF BackTo
    <3>2. ~s \/ chain[Len(chain) - 1] = stepTargetThread
      BY <3>1, Zenon DEF ReturnedIn
    <3>3. ~s => ~hasSteppedIn \/ Running = stepTargetThread
      BY <1>1, Zenon DEF ReturnedIn
    <3> QED BY <1>3, <3>2, <3>3, Zenon
  <2>4. CASE ~hasSteppedIn
    BY <1>4, <2>1, <2>4 DEF ParentInv, Seen
  <2>5. CASE Running = stepTargetThread
    BY <1>4, <2>1, <2>2, <2>5, AtTarget DEF ParentInv
  <2>6. CASE chain[n] = stepTargetThread
    BY <2>1, <2>2, <2>6, AtTarget DEF ParentInv
  <2> QED BY <2>3, <2>4, <2>5, <2>6
<1> QED BY <1>2, <1>5, <1>6, <1>7, <1>8 DEF ParentInv, OnlyParentsStop

LEMMA StopStep ==
  ASSUME MachineInv, ParentInv, StepStop
  PROVE  ParentInv'
<1>1. /\ UNCHANGED <<height, status, chain, asked, hasSteppedIn, stepTargetThread>>
      /\ armed' = FALSE /\ armed /\ StopsHere /\ Hooked(Running)
  BY DEF StepStop, luaVars, StopsHere
<1>2. Begun' /\ Under' /\ Aimed' /\ Seen'
  BY <1>1 DEF ParentInv, Begun, Under, Aimed, Seen, Over
<1>3. OnlyParentsStop'
  <2> SUFFICES ASSUME asked.cmd # "stepIn", Running # asked.thread
               PROVE  Running \in asked.below
    BY <1>1 DEF OnlyParentsStop, Running
  <2>1. Over /\ stepTargetThread = asked.thread /\ asked.thread \in Threads
    BY <1>1 DEF ParentInv, Aimed, Over, StepCmds, Begun
  <2>2. stepTargetThread # NoThread
    BY <2>1, ThreadsAssumption DEF Threads
  <2>3. ~hasSteppedIn
    BY <1>1, <2>1, <2>2 DEF StopsHere
  <2>4. Len(chain) \in 1..Len(chain)
    BY EmptySeq, LenProperties DEF MachineInv
  <2> QED BY <1>1, <2>1, <2>3, <2>4 DEF ParentInv, Seen, Running
<1> QED BY <1>2, <1>3 DEF ParentInv

LEMMA ParentStep ==
  ASSUME ~Yields, MachineInv, Chained, ParentInv, [Next]_vars
  PROVE  ParentInv'
<1>1. CASE Call \/ CallC \/ Return \/ Catch \/ (\E c \in Coroutines : Create(c))
  <2>1. FlagKept /\ UNCHANGED <<chain, armed, stepTargetThread, asked, loop>> /\ loop # "step"
    BY <1>1, FlagSteps
  <2>2. \A c \in Coroutines : status[c] \in {"active", "dead"} => status'[c] = status[c]
    BY <1>1 DEF Call, CallC, Return, Catch, Create, luaVars, Chained
  <2>3. Begun'
    BY <2>1, <2>2 DEF ParentInv, Begun, Over
  <2>4. Under' /\ Aimed'
    BY <2>1 DEF ParentInv, Under, Aimed, Over
  <2>5. Seen'
    <3> SUFFICES ASSUME Over, armed, ~hasSteppedIn', NEW i \in 1..Len(chain), Hooked(chain[i])
                 PROVE  chain[i] \in asked.below \cup {asked.thread}
      BY <2>1 DEF Seen, Over
    <3>1. ~hasSteppedIn \/ Running = stepTargetThread
      BY <2>1 DEF FlagKept
    <3>2. CASE ~hasSteppedIn
      BY <3>2 DEF ParentInv, Seen
    <3>3. CASE Running = stepTargetThread
      <4>1. Len(chain) \in 1..Len(chain) /\ chain[Len(chain)] = asked.thread
        BY <3>3, EmptySeq, LenProperties DEF MachineInv, ParentInv, Aimed, Running
      <4> QED BY <4>1, AtTarget DEF ParentInv
    <3> QED BY <3>1, <3>2, <3>3
  <2> QED BY <2>1, <2>3, <2>4, <2>5 DEF ParentInv, OnlyParentsStop
<1>2. CASE next \/ stepOut \/ stepIn
  BY <1>2, RequestStep
<1>3. CASE \E c \in Coroutines : Resume(c)
  BY <1>3, ResumeStep
<1>4. CASE Finish
  BY <1>4, FinishStep
<1>5. CASE StepStop
  BY <1>5, StopStep
<1>6. CASE LineDone \/ continue \/ (\E k \in EntryKinds : Enter(k)) \/ UNCHANGED vars
  <2>1. /\ UNCHANGED <<status, chain, asked, hasSteppedIn, armed, stepTargetThread>>
        /\ loop' = "step" => loop = "step"
    BY <1>6, EntryKindsAssumption
       DEF LineDone, continue, Enter, LoopReturns, vars, luaVars, stepVars
  <2> QED BY <2>1
          DEF ParentInv, Begun, Under, Aimed, Seen, Over, OnlyParentsStop, Running
<1>7. CASE Yield
  BY <1>7 DEF Yield
<1> QED BY <1>1, <1>2, <1>3, <1>4, <1>5, <1>6, <1>7 DEF Next

\* Where no coroutine yields, a step over or out that stops in another thread has
\* gone back to one that has resumed the thread it began in, for any coroutines,
\* hooked or not, and any number of calls, errors and debug loops in between.
THEOREM OnlyParentsAreStoppedIn ==
  ASSUME ~Yields
  PROVE  Spec => []OnlyParentsStop
<1>1. Init => MachineInv /\ Chained /\ ParentInv
  <2> SUFFICES ASSUME Init PROVE MachineInv /\ Chained /\ ParentInv
    OBVIOUS
  <2>1. MachineInv
    <3>1. Main \in Threads
      BY DEF Threads
    <3> QED BY <3>1 DEF Init, MachineInv
  <2>2. Chained
    BY DEF Init, Chained
  <2>3. ParentInv
    BY DEF Init, ParentInv, Begun, Under, Aimed, Seen, Over, OnlyParentsStop, NotAsked
  <2> QED BY <2>1, <2>2, <2>3
<1>2. MachineInv /\ Chained /\ ParentInv /\ [Next]_vars => MachineInv' /\ Chained' /\ ParentInv'
  BY MachineStep, ChainedStep, ParentStep
<1>3. ParentInv => OnlyParentsStop
  BY DEF ParentInv
<1> QED BY <1>1, <1>2, <1>3, PTL DEF Spec

=============================================================================
