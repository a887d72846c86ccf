----------------------------- MODULE Collector -----------------------------
(***************************************************************************)
(* The garbage collector of the Lua 5.2.0 library that the extender puts   *)
(* in the place of the engine's: the three-colour incremental and the      *)
(* generational collector of lgc.c, the write barriers that lapi.c, lvm.c  *)
(* and ltable.c call, weak tables, finalizers, interned strings, and the   *)
(* open upvalues of lfunc.c.                                               *)
(*                                                                         *)
(* The program and the collector take turns: while the collector is driven *)
(* to a target state (a full or generational collection, a change of mode) *)
(* only single steps of it happen, otherwise any step of the program may   *)
(* come between two of them.  Lists that are only emptied as a whole are   *)
(* sets; those in whose order objects are swept are sequences.             *)
(*                                                                         *)
(* Kinds of objects:                                                       *)
(*   table, weakvalue, ephemeron, allweak   by their metatable's __mode    *)
(*   userdata, closure (of Lua), proto, upval, thread, string              *)
(* Metatables and uservalues are references like any others.               *)
(***************************************************************************)
EXTENDS Integers, Sequences, FiniteSets, SequencesExt

CONSTANTS
  Objects,   (* what can be allocated *)
  Registry,  (* one of them: the registry *)
  main,      (* the main thread, which is in no list *)
  Programs,  (* what a program works with: kind, a function of Objects; gc, those that
                it gives finalizers to; asks, what it asks of the collector, a
                mode or a full collection; steps, how many steps it makes *)
  Levels,    (* stack slots of a thread that are in use *)
  nil, Num   (* no object; a key that is not collectable *)

Kinds == {"table", "weakvalue", "ephemeron", "allweak", "userdata", "closure",
          "proto", "upval", "thread", "string", "unused"}

ASSUME CollectorAssumption ==
  /\ Registry \in Objects /\ main \notin Objects
  /\ nil \notin Objects \cup {main, Num} /\ Num \notin Objects
  /\ Levels \subseteq Nat
  /\ Programs \subseteq [kind : [Objects -> Kinds], gc : SUBSET Objects,
                         asks : SUBSET {"normal", "gen", "full"}, steps : Nat]
  /\ \A p \in Programs : p.kind[Registry] = "table"

VARIABLES
  program,    (* one of Programs *)
  steps,      (* the steps that it has made *)
  heap,       (* the objects that are allocated *)
  refs,       (* entries <<key, value>> of an object *)
  cache,      (* of a prototype: its last closure, or nil *)
  open,       (* of an upvalue: <<thread, level>>, or nil when it is closed *)
  reg,        (* the stack of each thread *)
  running,    (* the thread that runs *)
  color, old, separated, finalized,       (* the bits of "marked"; of the whites,
                 white is the current one and dead the other *)
  gcstate, gckind,
  gray, grayagain, weak, ephemeron, allweak,
  allgc, finobj, tobefnz,
  sweepstr,   (* strings in the buckets that are still to be swept *)
  sweepgc,    (* a list whose head, or an object whose next field it points to *)
  targets,    (* luaC_runtilstate calls under way: sets of states to reach *)
  origkind,   (* the kind to go back to after them *)
  knotted,    (* an object has been linked to a gray list while it was in one *)
  strayed,    (* history: an object was moved to another list while it was to be swept *)
  doomed,     (* history: what a full collection has to free *)
  wronged     (* history: entries removed though key and value can be reached *)

progVars  == <<refs, cache, open, reg, running>>
markVars  == <<color, old, separated, finalized>>
grayVars  == <<gray, grayagain, weak, ephemeron, allweak>>
listVars  == <<allgc, finobj, tobefnz>>
sweepVars == <<sweepstr, sweepgc>>
modeVars  == <<gcstate, gckind, targets, origkind>>
history   == <<knotted, strayed, doomed, wronged>>
vars == <<program, steps, heap, progVars, markVars, grayVars, listVars, sweepVars, modeVars, history>>

kind == program.kind
Threads == {main} \cup {o \in heap : kind[o] = "thread"}
Whites  == {"white", "dead"}
States  == {"propagate", "atomic", "sweepstring", "sweepudata", "sweep", "pause"}
Sweeps  == {"sweepstring", "sweepudata", "sweep"}
WeakKinds == {"weakvalue", "ephemeron", "allweak"}
Tables  == {"table"} \cup WeakKinds

Entries == (Objects \cup {Num}) \X Objects
Places  == (Objects \cup {main}) \X Levels

TypeOK ==
  /\ steps \in Nat /\ heap \subseteq Objects /\ Registry \in heap
  /\ refs \in [Objects -> SUBSET Entries]
  /\ cache \in [Objects -> Objects \cup {nil}]
  /\ open \in [Objects -> Places \cup {nil}]
  /\ reg \in [Objects \cup {main} -> [Levels -> Objects \cup {nil}]]
  /\ running \in Threads
  /\ color \in [Objects \cup {main} -> Whites \cup {"gray", "black"}]
  /\ old \subseteq heap \cup {main}
  /\ separated \subseteq heap /\ finalized \subseteq heap
  /\ gcstate \in States \ {"atomic"}
  /\ gckind \in {"normal", "gen"} /\ origkind \in {"normal", "gen"}
  /\ {allgc, finobj, tobefnz} \subseteq Seq(heap)
  /\ IsInjective(allgc \o finobj \o tobefnz)
  /\ sweepstr \subseteq heap
  /\ sweepgc \in {"finobj", "allgc", "nullp"} \cup Objects

Init ==
  /\ program \in Programs /\ steps = 0
  /\ heap = {Registry}
  /\ refs = [o \in Objects |-> {}] /\ cache = [o \in Objects |-> nil]
  /\ open = [o \in Objects |-> nil]
  /\ reg = [t \in Objects \cup {main} |-> [l \in Levels |-> nil]] /\ running = main
  /\ color = [o \in Objects \cup {main} |-> "white"]
  /\ old = {} /\ separated = {} /\ finalized = {}
  /\ gcstate = "pause" /\ gckind = "normal" /\ origkind = "normal" /\ targets = <<>>
  /\ gray = {} /\ grayagain = {} /\ weak = {} /\ ephemeron = {} /\ allweak = {}
  /\ allgc = <<Registry>> /\ finobj = <<>> /\ tobefnz = <<>>
  /\ sweepstr = {} /\ sweepgc = "nullp"
  /\ knotted = FALSE /\ strayed = FALSE /\ doomed = {} /\ wronged = {}

-----------------------------------------------------------------------------
(* Colours and references                                                   *)

White(o) == color[o] \in Whites
isdead(o) == color[o] = "dead"
isgenerational == gckind = "gen"
keepinvariant == isgenerational \/ gcstate \in {"propagate", "atomic"}

IsObject(x) == x \in Objects
Value(u) == IF open[u] = nil THEN {e[2] : e \in refs[u]}
                             ELSE {reg[open[u][1]][open[u][2]]} \ {nil}
Slots(t) == {reg[t][l] : l \in Levels} \ {nil}
OnlyStrings(S) == {x \in S : IsObject(x) /\ kind[x] = "string"}
KeyStrings(t)  == OnlyStrings({e[1] : e \in refs[t]})
ValStrings(t)  == OnlyStrings({e[2] : e \in refs[t]})

\* Values of an ephemeron table count while their keys do; keys that are no
\* objects, or strings, always do.
Lasting(k, marked) == k = Num \/ k \in marked \/ kind[k] = "string"

\* What an object keeps alive, when the objects in marked are known to be alive.
Kids(o, marked) ==
  IF o = main \/ kind[o] = "thread" THEN Slots(o)
  ELSE CASE kind[o] = "upval"     -> Value(o)
         [] kind[o] = "weakvalue" -> ({e[1] : e \in refs[o]} \ {Num}) \cup ValStrings(o)
         [] kind[o] = "ephemeron" -> {e[2] : e \in {e \in refs[o] : Lasting(e[1], marked)}}
                                       \cup KeyStrings(o)
         [] kind[o] = "allweak"   -> {}
         [] OTHER                 -> UNION {{e[1], e[2]} : e \in refs[o]} \ {Num}

\* p is <<marked, visited>>: visiting marks what the visited objects keep alive, and
\* what is marked is visited.
Round(p) ==
  LET new == UNION {Kids(o, p[1]) : o \in p[2]} \ p[1] IN <<p[1] \cup new, p[2] \cup new>>
RECURSIVE Converge(_)
Converge(p) == LET q == Round(p) IN IF q = p THEN p ELSE Converge(q)

\* What the program can still reach.
Roots == {main, running, Registry}
Reachable(roots) == Converge(<<roots, roots>>)[1]

-----------------------------------------------------------------------------
(* Marking.  An update is a record of the new colours and the new gray list. *)

Queued == Tables \cup {"closure", "thread", "proto"}

\* reallymarkobject for the white objects of S, with the references that userdata
\* and upvalues pass on at once.
Passing(o) == o # main /\ kind[o] \in {"userdata", "upval"}
RECURSIVE MarkedBy(_, _)
MarkedBy(M, c) ==
  LET passed == {x \in UNION {Kids(o, {}) : o \in {o \in M : Passing(o)}} : c[x] \in Whites}
  IN  IF passed \subseteq M THEN M ELSE MarkedBy(M \cup passed, c)

reallymark(S, c, g) ==
  LET M == MarkedBy({o \in S : c[o] \in Whites}, c) IN
  [color |-> [o \in DOMAIN c |->
                IF o \notin M THEN c[o]
                ELSE IF Passing(o) /\ open[o] = nil THEN "black" ELSE "gray"],
   gray  |-> g \cup {o \in M : o = main \/ kind[o] \in Queued}]

Marks(u) == color' = u.color /\ gray' = u.gray

\* luaC_barrier: a black object has been given a reference to a white one.
Barrier(p, v) ==
  IF White(v) /\ color[p] = "black"
    THEN IF keepinvariant
           THEN Marks(reallymark({v}, color, gray)) /\ UNCHANGED old
           ELSE /\ color' = [color EXCEPT ![p] = "white"] /\ old' = old \ {p}
                /\ UNCHANGED gray
    ELSE UNCHANGED <<color, gray, old>>

\* Wrong: there is no barrier.
BarrierBackNone(t, k, v) == UNCHANGED <<color, grayagain>>

\* Wrong: the table is made gray and not put in a list.
BarrierBackUnlinked(t, k, v) ==
  /\ UNCHANGED grayagain
  /\ color' = IF color[t] = "black" /\ White(v) THEN [color EXCEPT ![t] = "gray"] ELSE color

\* luaC_barrierback, for the value and, when luaH_newkey inserts it, for the key.
BarrierBack(t, k, v) ==
  IF color[t] = "black" /\ \E x \in {k, v} \ {Num} : White(x)
    THEN color' = [color EXCEPT ![t] = "gray"] /\ grayagain' = grayagain \cup {t}
    ELSE UNCHANGED <<color, grayagain>>

-----------------------------------------------------------------------------
(* The program                                                              *)

Program == targets = <<>> /\ ~knotted /\ steps < program.steps
Here == reg[running]
Own == {Here[l] : l \in Levels} \ {nil}
OwnOf(K) == {o \in Own : kind[o] \in K}
All(k) == {o \in Objects : kind[o] = k}
\* A value is put in the first slot that is free, or over another when none is.
Put(l, o) ==
  /\ IF \E n \in Levels : Here[n] = nil
       THEN Here[l] = nil /\ \A n \in Levels : n < l => Here[n] # nil ELSE TRUE
  /\ reg' = [reg EXCEPT ![running][l] = o]
markQuiet == UNCHANGED <<separated, finalized>>
collQuiet == steps' = steps + 1 /\ UNCHANGED <<program, gcstate, gckind, targets, origkind, sweepVars>>

\* Wrong: a new object is put behind the others.
LinkedLast(o) == Append(allgc, o)

Linked(o) == <<o>> \o allgc

\* luaC_newobj; strings go to the string table and open upvalues to their thread.
Allocated(o) ==
  /\ o \notin heap
  /\ heap' = heap \cup {o}
  /\ allgc' = IF kind[o] = "string" THEN allgc ELSE Linked(o)
  /\ UNCHANGED <<finobj, tobefnz>>

New(o, l) ==
  /\ Program /\ kind[o] \notin {"closure", "upval", "unused"}
  /\ Allocated(o) /\ Put(l, o)
  /\ color' = [color EXCEPT ![o] = "white"]
  /\ UNCHANGED <<refs, cache, open, running, old, grayVars, history>> /\ markQuiet /\ collQuiet

Forget(l) ==
  /\ Program /\ Here[l] # nil /\ reg' = [reg EXCEPT ![running][l] = nil]
  /\ UNCHANGED <<heap, refs, cache, open, running, markVars, grayVars, listVars, history>>
  /\ collQuiet

\* A value that an object in a register refers to; also out of a weak table.
Get(l, o) ==
  /\ Program /\ o # Here[l]
  /\ \/ \E t \in {Registry} \cup {t \in Own : kind[t] # "closure"} :
          \E e \in refs[t] : o \in {e[1], e[2]}
     \/ \E c \in OwnOf({"closure"}) :
                           \E e \in refs[c] : o \in IF kind[e[2]] = "upval" THEN Value(e[2])
                                                                              ELSE {e[2]}
  /\ o # nil /\ o # Num /\ Put(l, o)
  /\ UNCHANGED <<heap, refs, cache, open, running, markVars, grayVars, listVars, history>>
  /\ collQuiet

\* luaV_settable, lua_rawset: t[k] = v.
SetEntry(t, k, v) ==
  /\ Program /\ <<k, v>> \notin refs[t]
  /\ k # Num => kind[t] \in {"ephemeron", "allweak"}
  /\ refs' = [refs EXCEPT ![t] = {e \in @ : e[1] # k} \cup {<<k, v>>}]
  /\ BarrierBack(t, k, v)
  /\ UNCHANGED <<heap, cache, open, reg, running, old, gray, weak, ephemeron, allweak,
                 listVars, history>>
  /\ markQuiet /\ collQuiet

ClearEntry(t, e) ==
  /\ Program /\ e \in refs[t]
  /\ refs' = [refs EXCEPT ![t] = @ \ {e}]
  /\ UNCHANGED <<heap, cache, open, reg, running, markVars, grayVars, listVars, history>>
  /\ collQuiet

\* lua_setuservalue and lua_setmetatable of a userdata: a forward barrier.
SetUserdata(u, v) ==
  /\ Program /\ refs[u] # {<<Num, v>>}
  /\ refs' = [refs EXCEPT ![u] = {<<Num, v>>}]
  /\ Barrier(u, v)
  /\ UNCHANGED <<heap, cache, open, reg, running, grayagain, weak, ephemeron, allweak,
                 listVars, history>>
  /\ markQuiet /\ collQuiet

\* Wrong: the object is linked to another list and not unlinked from the first.
StillLinked(o) == allgc

Unlinked(o) == Remove(allgc, o)

\* luaC_checkfinalizer, for an object that gets a metatable with __gc.
SetFinalizer(o) ==
  /\ Program /\ o \in program.gc /\ o \notin separated \cup finalized
  /\ allgc' = Unlinked(o) /\ finobj' = <<o>> \o finobj
  /\ separated' = separated \cup {o} /\ old' = old \ {o}
  /\ strayed' = (strayed \/ (gcstate \in {"sweepudata", "sweep"} /\
                              (sweepgc = o \/ (color[o] # "white" /\ sweepgc # "finobj"))))
  /\ UNCHANGED <<heap, progVars, color, finalized, grayVars, tobefnz, knotted, doomed, wronged>>
  /\ collQuiet

\* Wrong: a string that is found dead is returned as it is.
InternedAsIs(s) == color

\* luaS_newlstr finds a string that may be dead but has not been swept yet.
Interned(s) == IF isdead(s) THEN [color EXCEPT ![s] = "white"] ELSE color

Intern(s, l) ==
  /\ Program /\ s \in heap /\ kind[s] = "string" /\ Here[l] # s
  /\ color' = Interned(s)
  /\ Put(l, s)
  /\ UNCHANGED <<heap, refs, cache, open, running, old, grayVars, listVars, history>>
  /\ markQuiet /\ collQuiet

-----------------------------------------------------------------------------
(* Closures, upvalues and threads                                           *)

Up(c) == {e[2] : e \in {e \in refs[c] : kind[e[2]] = "upval"}}
OpenAt(t, l) == {u \in heap : open[u] = <<t, l>>}

\* pushclosure: a closure of prototype p over the local variable at level l, with
\* luaF_findupval, which may resurrect the upvalue and clears the old bit of those
\* before it, and luaC_barrierproto, which comes before the cache is set.
NewClosure(c, p, l, u) ==
  /\ Program /\ c \notin heap
  /\ IF OpenAt(running, l) # {} THEN open[u] = <<running, l>> ELSE u \notin heap
  /\ cache[p] # nil => \A x \in Up(cache[p]) : open[x] # <<running, l>>
  /\ heap' = heap \cup {c, u} /\ allgc' = <<c>> \o allgc
  /\ refs' = [refs EXCEPT ![c] = {<<Num, p>>, <<Num, u>>}]
  /\ open' = [open EXCEPT ![u] = <<running, l>>]
  /\ cache' = [cache EXCEPT ![p] = c]
  /\ reg' = [reg EXCEPT ![running][CHOOSE n \in Levels : Here[n] = p] = c]
  /\ LET found == IF u \notin heap \/ isdead(u) THEN "white" ELSE color[u]
         c1 == [color EXCEPT ![c] = "white", ![u] = found]
         passed == {x \in heap : open[x] # nil /\ open[x][1] = running /\ open[x][2] > l}
     IN  IF color[p] # "black" THEN color' = c1 /\ old' = old \ passed /\ UNCHANGED <<gray, grayagain>>
         ELSE IF cache[p] # nil
           THEN /\ color' = [c1 EXCEPT ![p] = "gray"] /\ grayagain' = grayagain \cup {p}
                /\ old' = old \ passed /\ UNCHANGED gray
         ELSE /\ UNCHANGED grayagain
              /\ IF keepinvariant
                   THEN /\ color' = [c1 EXCEPT ![c] = "gray"] /\ gray' = gray \cup {c}
                        /\ old' = old \ passed
                   ELSE /\ color' = [c1 EXCEPT ![p] = "white"] /\ old' = old \ (passed \cup {p})
                        /\ UNCHANGED gray
  /\ UNCHANGED <<running, weak, ephemeron, allweak, finobj, tobefnz, history>>
  /\ markQuiet /\ collQuiet

\* getcached: the last closure is used again when its upvalues are the same.
Cached(p, l) ==
  /\ Program /\ cache[p] # nil
  /\ \E u \in Up(cache[p]) : open[u] # nil /\ open[u][1] = running
  /\ Here[l] # cache[p] /\ Put(l, cache[p])
  /\ UNCHANGED <<heap, refs, cache, open, running, markVars, grayVars, listVars, history>>
  /\ collQuiet

\* OP_SETUPVAL and lua_setupvalue; an open upvalue is a slot of a stack, which has
\* no barrier.
SetUpval(c, v) ==
  /\ Program
  /\ \E u \in Up(c) :
       IF open[u] = nil
         THEN /\ refs[u] # {<<Num, v>>} /\ refs' = [refs EXCEPT ![u] = {<<Num, v>>}]
              /\ Barrier(u, v) /\ UNCHANGED reg
         ELSE /\ reg' = [reg EXCEPT ![open[u][1]][open[u][2]] = v]
              /\ UNCHANGED <<refs, color, gray, old>>
  /\ UNCHANGED <<heap, cache, open, running, grayagain, weak, ephemeron, allweak,
                 listVars, history>>
  /\ markQuiet /\ collQuiet

\* luaC_checkupvalcolor for the upvalues that are closed: a gray one is visited now.
ClosedColor(U, c) ==
  [o \in DOMAIN c |-> IF o \in U /\ c[o] = "gray"
                        THEN IF keepinvariant THEN "black" ELSE "white" ELSE c[o]]

\* luaF_close of the open upvalues U: dead upvalues are freed, the others take their value with them.
\* r is the new heap, references, open upvalues, marks and list of objects.
Closed(U) ==
  LET dead == {u \in U : isdead(u)}
      kept == U \ dead IN
  [heap  |-> heap \ dead,
   refs  |-> [o \in Objects |-> IF o \in dead THEN {}
                                ELSE IF o \in kept THEN {<<Num, v>> : v \in Value(o)} ELSE refs[o]],
   open  |-> [o \in Objects |-> IF o \in U THEN nil ELSE open[o]],
   color |-> ClosedColor(kept, color),
   marks |-> IF keepinvariant THEN UNION {Value(u) : u \in {u \in kept : color[u] = "gray"}} ELSE {},
   old   |-> old \ ({u \in kept : color[u] = "gray"} \cup dead),
   allgc |-> SetToSeq(kept) \o allgc]

Close(l) ==
  /\ Program
  /\ LET U == {u \in heap : open[u] # nil /\ open[u][1] = running /\ open[u][2] >= l}
         r == Closed(U) IN
       /\ U # {}
       /\ heap' = r.heap /\ refs' = r.refs /\ open' = r.open /\ allgc' = r.allgc
       /\ Marks(reallymark(r.marks, r.color, gray)) /\ old' = r.old
       /\ reg' = [reg EXCEPT ![running] = [n \in Levels |-> IF n >= l THEN nil ELSE @[n]]]
  /\ UNCHANGED <<cache, running, grayagain, weak, ephemeron, allweak, finobj, tobefnz, history>>
  /\ markQuiet /\ collQuiet

\* lua_resume and lua_yield; the argument is moved to the other stack.
Resume(t, l) ==
  /\ Program /\ running = main
  /\ running' = t /\ reg' = [reg EXCEPT ![t][l] = Here[l]]
  /\ UNCHANGED <<heap, refs, cache, open, markVars, grayVars, listVars, history>> /\ collQuiet

Yield ==
  /\ Program /\ running # main /\ running' = main
  /\ UNCHANGED <<heap, refs, cache, open, reg, markVars, grayVars, listVars, history>> /\ collQuiet

\* udata2finalize, and the call of the finalizer with the object.
CallFinalizer(l) ==
  /\ Program /\ tobefnz # <<>>
  /\ LET o == Head(tobefnz) IN
       /\ tobefnz' = Tail(tobefnz) /\ allgc' = <<o>> \o allgc
       /\ separated' = separated \ {o}
       /\ Put(l, o)
       /\ IF keepinvariant THEN UNCHANGED <<color, old>>
                           ELSE color' = [color EXCEPT ![o] = "white"] /\ old' = old \ {o}
  /\ UNCHANGED <<heap, refs, cache, open, running, finalized, grayVars, finobj,
                 knotted, strayed, doomed, wronged>>
  /\ collQuiet

-----------------------------------------------------------------------------
(* Driving the collector                                                    *)

NotPause == States \ {"pause"}
Strings == {o \in heap : kind[o] = "string"}

\* luaC_runtilstate returns when the state is one of the first target; the caller's
\* last act is to set the kind.
Aim(ts, s, k, orig, due) ==
  LET left == IF ts # <<>> /\ s \in Head(ts) THEN Tail(ts) ELSE ts IN
  /\ gcstate' = s /\ targets' = left /\ origkind' = orig
  /\ gckind' = IF left = <<>> THEN orig ELSE k
  /\ doomed' = IF left = <<>> THEN {} ELSE due

\* Wrong: the collection that is under way is taken for a full one.
CycleUnderWay == <<NotPause, {"pause"}>>

Cycle == <<{"pause"}, NotPause, {"pause"}>>
driveQuiet == steps' = steps + 1 /\ UNCHANGED <<program, heap, progVars, markVars, grayVars, listVars, sweepgc,
                         knotted, strayed, wronged>>

\* luaC_fullgc; the finalizers it calls before and after are CallFinalizer steps.
FullGC ==
  /\ Program /\ "full" \in program.asks
  /\ Aim(IF isgenerational THEN Append(Cycle, {"propagate"}) ELSE Cycle,
         IF keepinvariant THEN "sweepstring" ELSE gcstate, "normal", gckind,
         (heap \ Reachable(Roots \cup ToSet(finobj) \cup ToSet(tobefnz))) \ Strings)
  /\ sweepstr' = IF keepinvariant THEN Strings ELSE sweepstr
  /\ driveQuiet

\* A minor collection of generationalcollection; the major one is FullGC.
MinorCollection ==
  /\ Program /\ isgenerational
  /\ Aim(<<NotPause, {"pause"}>>, gcstate, "gen", "gen", {})
  /\ UNCHANGED sweepstr /\ driveQuiet

\* luaC_changemode
ChangeMode(mode) ==
  /\ Program /\ mode # gckind
  /\ IF mode = "gen"
       THEN Aim(<<{"propagate"}>>, gcstate, "normal", "gen", {}) /\ UNCHANGED sweepstr
       ELSE Aim(<<States \ Sweeps>>, "sweepstring", "normal", "normal", {}) /\ sweepstr' = Strings
  /\ driveQuiet

\* The next state of a single step.
Reaches(s) == Aim(targets, s, gckind, origkind, doomed)
stepQuiet == UNCHANGED <<program, steps, running, finalized>>
MayStep == ~knotted /\ (targets # <<>> \/ ~isgenerational)

-----------------------------------------------------------------------------
(* Marking steps                                                            *)

\* markbeingfnz: every object of tobefnz is made white and marked anew; m is a
\* record of the colours, the old bits and the gray list, and tells whether an
\* object that is already in a list is linked once more.
BeingFnz(fnz, m, linked) ==
  LET again(acc, o) ==
        LET u == reallymark({o}, [acc.color EXCEPT ![o] = "white"], acc.gray)
        IN  [color |-> u.color, gray |-> u.gray, old |-> acc.old \ {o},
             knot  |-> acc.knot \/ (kind[o] \in Tables /\ o \in acc.gray \cup linked)]
  IN  FoldLeft(again, m, fnz)

\* singlestep in the pause: markroot, except in generational mode.
StartCycle ==
  /\ MayStep /\ gcstate = "pause"
  /\ IF isgenerational THEN UNCHANGED <<color, old, grayVars, knotted>>
     ELSE LET roots == reallymark({main, Registry}, color, {})
              m == BeingFnz(tobefnz, [color |-> roots.color, gray |-> roots.gray,
                                      old |-> old, knot |-> FALSE], {})
          IN  /\ color' = m.color /\ gray' = m.gray /\ old' = m.old /\ knotted' = m.knot
              /\ grayagain' = {} /\ weak' = {} /\ ephemeron' = {} /\ allweak' = {}
  /\ Reaches("propagate")
  /\ UNCHANGED <<heap, refs, cache, open, reg, separated, listVars, sweepVars,
                 strayed, wronged>> /\ stepQuiet

\* The list in which a table that stays gray waits, with the objects in marked.
ListFor(t, marked) ==
  LET cleared(x) == x # Num /\ kind[x] # "string" /\ x \notin marked IN
  CASE kind[t] = "weakvalue" -> IF \E e \in refs[t] : cleared(e[2]) THEN "weak" ELSE "grayagain"
    [] kind[t] = "ephemeron" ->
         IF \E e \in refs[t] : cleared(e[1]) /\ e[2] \notin marked THEN "ephemeron"
         ELSE IF \E e \in refs[t] : cleared(e[1]) THEN "allweak" ELSE "grayagain"
    [] kind[t] = "allweak" -> "allweak"
    [] OTHER -> "grayagain"
StaysGray(o) == o = main \/ kind[o] \in WeakKinds \cup {"thread"}
Marked(c) == {o \in DOMAIN c : c[o] \notin Whites}

\* propagatemark of a gray object; the order of the list is left open.
Propagate(o) ==
  /\ MayStep /\ gcstate = "propagate" /\ o \in gray
  /\ LET u == reallymark(Kids(o, Marked(color)), color, gray \ {o})
         into(name, list) ==
           IF StaysGray(o) /\ (IF o = main THEN "grayagain" ELSE ListFor(o, Marked(u.color))) = name
             THEN list \cup {o} ELSE list
     IN  /\ color' = [u.color EXCEPT ![o] = IF StaysGray(o) THEN "gray" ELSE "black"]
         /\ gray' = u.gray
         /\ grayagain' = into("grayagain", grayagain) /\ weak' = into("weak", weak)
         /\ ephemeron' = into("ephemeron", ephemeron) /\ allweak' = into("allweak", allweak)
  /\ cache' = [p \in Objects |-> IF p = o /\ kind[p] = "proto" /\ cache[p] # nil /\ White(cache[p])
                                  THEN nil ELSE cache[p]]
  /\ Reaches("propagate")
  /\ UNCHANGED <<heap, refs, open, reg, old, separated, listVars, sweepVars,
                 knotted, strayed, wronged>>
  /\ stepQuiet

\* retraversegrays: the allweak list is not among those that are traversed again.
Revisited == gray \cup grayagain \cup weak \cup ephemeron

-----------------------------------------------------------------------------
(* The atomic step                                                          *)

Clearable(x, marked) == x # Num /\ kind[x] # "string" /\ x \notin marked

\* clearvalues and clearkeys: the entries that they remove.
ClearValues(t, marked) == {e \in refs[t] : Clearable(e[2], marked)}
ClearKeys(t, marked)   == {e \in refs[t] : Clearable(e[1], marked)}

\* Marking from the roots, the gray lists and the open upvalues that are marked, until
\* nothing changes; then the tables that wait for clearing are listed by the marks.
Remarked ==
  LET again == Roots \cup UNION {Value(u) : u \in {u \in heap : open[u] # nil /\ color[u] = "gray"}}
  IN  Converge(<<Marked(color) \cup again, Revisited \cup (again \ Marked(color))>>)
\* Wrong: all objects with finalizers are taken, as when the state is closed.
ToFinalizeAll(marked) == finobj

\* separatetobefnz: what is not marked, in the order of finobj.
ToFinalize(marked) == SelectSeq(finobj, LAMBDA o : o \notin marked)

Listed(p, name) == {t \in p[2] : t # main /\ StaysGray(t) /\ kind[t] # "thread"
                                   /\ ListFor(t, p[1]) = name}
GrayAgain(p) == {t \in p[2] : t = main \/ kind[t] = "thread"} \cup Listed(p, "grayagain")

FinalColor(marked) ==
  [o \in DOMAIN color |->
     IF o \notin marked THEN color[o]
     ELSE IF StaysGray(o) \/ kind[o] = "string" \/ open[o] # nil THEN "gray" ELSE "black"]

\* The whites change their parts.
Flipped(c) == [o \in DOMAIN c |-> CASE c[o] = "white" -> IF o \in heap \cup {main} THEN "dead" ELSE "white"
                                    [] c[o] = "dead"  -> "white" [] OTHER -> c[o]]

Atomic ==
  /\ MayStep /\ gcstate = "propagate" /\ gray = {}
  /\ LET p1 == Remarked
         weak1 == Listed(p1, "weak")
         all1  == (allweak \ p1[2]) \cup Listed(p1, "allweak")
         eph1  == Listed(p1, "ephemeron")
         again1 == GrayAgain(p1)
         fnz   == tobefnz \o ToFinalize(p1[1])
         res   == BeingFnz(fnz, [color |-> FinalColor(p1[1]), gray |-> {}, old |-> old, knot |-> FALSE],
                           weak1 \cup all1 \cup eph1 \cup again1)
         p2    == Converge(<<Marked(res.color), res.gray \cup eph1>>)
         weak2 == weak1 \cup Listed(p2, "weak")
         all2  == all1 \cup Listed(p2, "allweak")
         eph2  == Listed(p2, "ephemeron")
         marked == p2[1] \cup UNION {ValStrings(t) : t \in weak2 \cup all2}
                         \cup UNION {KeyStrings(t) : t \in eph2 \cup all2}
         removed(t) ==
           UNION {IF t \in weak1 \cup all1 THEN ClearValues(t, p1[1]) ELSE {},
                  IF t \in eph2 \cup all2 THEN ClearKeys(t, p2[1]) ELSE {},
                  IF t \in (weak2 \cup all2) \ (weak1 \cup all1) THEN ClearValues(t, p2[1]) ELSE {}}
         strong == Reachable(Roots)
     IN  /\ refs' = [t \in Objects |-> refs[t] \ removed(t)]
         /\ wronged' = wronged \cup
              UNION {{e \in removed(t) : e[1] \in strong \cup {Num} /\ e[2] \in strong} :
                     t \in Objects \cap strong}
         /\ cache' = [p \in Objects |-> IF p \in p1[2] \cup p2[2] /\ cache[p] \notin marked
                                         THEN nil ELSE cache[p]]
         /\ finobj' = SelectSeq(finobj, LAMBDA o : o \notin ToSet(fnz)) /\ tobefnz' = fnz
         /\ finalized' = finalized \cup ToSet(fnz)
         /\ color' = Flipped(FinalColor(marked))
         /\ old' = res.old /\ knotted' = res.knot
         /\ weak' = weak2 /\ allweak' = all2 /\ ephemeron' = eph2
         /\ grayagain' = again1 \cup GrayAgain(p2)
  /\ sweepstr' = Strings
  /\ Reaches("sweepstring")
  /\ UNCHANGED <<program, steps, heap, running, open, reg, gray, separated, allgc, sweepgc, strayed>>

-----------------------------------------------------------------------------
(* Sweeping                                                                 *)

OpenOf(t) == {u \in heap : open[u] # nil /\ open[u][1] = t}

\* The marks of the objects of S that are alive when they are swept.
SweptColor(S, c) == IF isgenerational THEN c
                    ELSE [o \in DOMAIN c |-> IF o \in S THEN "white" ELSE c[o]]
SweptOld(S, b) == IF isgenerational THEN b \cup S ELSE b \ S

\* Sweeping the list of open upvalues of a thread, the highest level first.
SweptUpvals(t) ==
  LET seen == {u \in OpenOf(t) : isgenerational =>
                 \A v \in OpenOf(t) \cap old : open[v][2] < open[u][2]}
      dead == {u \in seen : isdead(u)} IN
  [heap |-> heap \ dead, refs |-> [o \in Objects |-> IF o \in dead THEN {} ELSE refs[o]],
   open |-> [o \in Objects |-> IF o \in dead THEN nil ELSE open[o]],
   color |-> SweptColor(seen \ dead, color), marks |-> {},
   old |-> SweptOld(seen \ dead, old \ dead), allgc |-> allgc]

\* freeobj of the objects of F, after what r says has been done.
Free(F, r) ==
  /\ heap' = r.heap \ F
  /\ refs' = [o \in Objects |-> IF o \in F THEN {} ELSE r.refs[o]]
  /\ open' = r.open
  /\ cache' = [o \in Objects |-> IF o \in F THEN nil ELSE cache[o]]
  /\ reg' = [t \in DOMAIN reg |-> IF t \in F THEN [l \in Levels |-> nil] ELSE reg[t]]
  /\ separated' = separated \ F /\ finalized' = finalized \ F

AsIs == [heap |-> heap, refs |-> refs, open |-> open, color |-> color, marks |-> {},
         old |-> old, allgc |-> allgc]
sweepQuiet == UNCHANGED <<program, steps, running, grayagain, weak, ephemeron, allweak, tobefnz,
                          knotted, strayed, wronged>>

SweepString(s) ==
  /\ MayStep /\ gcstate = "sweepstring" /\ s \in sweepstr
  /\ sweepstr' = sweepstr \ {s}
  /\ Free({s} \cap {o \in Strings : isdead(o)}, AsIs)
  /\ IF isdead(s) THEN old' = old \ {s} /\ UNCHANGED color
                  ELSE color' = SweptColor({s}, color) /\ old' = SweptOld({s}, old)
  /\ Reaches("sweepstring")
  /\ UNCHANGED <<gray, allgc, finobj, sweepgc>> /\ sweepQuiet

\* The pointer goes from list to list when it has come to an end of one.
Following ==
  LET after(list) == IF list # <<>> /\ sweepgc = Last(list) THEN nil
                     ELSE list[1 + CHOOSE i \in DOMAIN list : list[i] = sweepgc]
      first(list) == IF list = <<>> THEN nil ELSE Head(list)
  IN  CASE sweepgc = "finobj" -> first(finobj)
        [] sweepgc = "allgc"  -> first(allgc)
        [] sweepgc = "nullp"  -> nil
        [] sweepgc \in ToSet(finobj) -> after(finobj)
        [] sweepgc \in ToSet(allgc)  -> after(allgc)

\* sweeplist for one object.
SweepObject ==
  /\ MayStep /\ gcstate \in {"sweepudata", "sweep"} /\ Following # nil
  /\ LET o == Following
         r == IF kind[o] # "thread" THEN AsIs
              ELSE IF isdead(o) THEN Closed(OpenOf(o)) ELSE SweptUpvals(o)
         stop == isgenerational /\ o \in old
     IN  IF isdead(o)
           THEN /\ Free({o}, r) /\ Marks(reallymark(r.marks, r.color, gray))
                /\ old' = r.old \ {o}
                /\ allgc' = Remove(r.allgc, o) /\ finobj' = Remove(finobj, o)
                /\ UNCHANGED sweepgc
           ELSE /\ Free({}, r)
                /\ color' = IF stop THEN r.color ELSE SweptColor({o}, r.color)
                /\ old' = IF stop THEN r.old ELSE SweptOld({o}, r.old)
                /\ sweepgc' = IF stop THEN "nullp" ELSE o
                /\ UNCHANGED <<gray, allgc, finobj>>
  /\ Reaches(gcstate) /\ UNCHANGED sweepstr /\ sweepQuiet

NextPhase ==
  /\ MayStep
  /\ \/ /\ gcstate = "sweepstring" /\ sweepstr = {}
        /\ sweepgc' = "finobj" /\ Reaches("sweepudata")
        /\ UNCHANGED <<heap, refs, open, cache, reg, markVars>>
     \/ /\ gcstate = "sweepudata" /\ Following = nil
        /\ sweepgc' = "allgc" /\ Reaches("sweep")
        /\ UNCHANGED <<heap, refs, open, cache, reg, markVars>>
     \/ /\ gcstate = "sweep" /\ Following = nil
        /\ LET r == SweptUpvals(main) IN
             /\ Free({}, r) /\ color' = SweptColor({main}, r.color)
             /\ old' = SweptOld({main}, r.old)
        /\ sweepgc' = "nullp" /\ Reaches("pause")
  /\ UNCHANGED <<gray, allgc, finobj, sweepstr>> /\ sweepQuiet

-----------------------------------------------------------------------------
(* The specification                                                        *)

Next ==
  \/ \E l \in Levels :
       \/ \E o \in Objects : New(o, l)
       \/ \E o \in heap : Get(l, o)
       \/ \E s \in All("string") : Intern(s, l)
       \/ \E p \in OwnOf({"proto"}) : Cached(p, l)
       \/ \E p \in OwnOf({"proto"}), c \in All("closure"), u \in All("upval") : NewClosure(c, p, l, u)
       \/ \E t \in OwnOf({"thread"}) : Resume(t, l)
       \/ Forget(l) \/ Close(l) \/ CallFinalizer(l)
  \/ \E t \in OwnOf(Tables) \cup {Registry} :
       \/ \E v \in Own, k \in Own \cup {Num} : SetEntry(t, k, v)
       \/ \E e \in refs[t] : ClearEntry(t, e)
  \/ \E u \in OwnOf({"userdata"}), v \in Own : SetUserdata(u, v)
  \/ \E c \in OwnOf({"closure"}), v \in Own : SetUpval(c, v)
  \/ \E o \in Own : SetFinalizer(o)
  \/ Yield
  \/ FullGC \/ MinorCollection \/ \E m \in program.asks \cap {"normal", "gen"} : ChangeMode(m)
  \/ StartCycle \/ (\E o \in gray : Propagate(o)) \/ Atomic
  \/ (\E s \in sweepstr : SweepString(s)) \/ SweepObject \/ NextPhase

Spec == Init /\ [][Next]_vars

-----------------------------------------------------------------------------
(* Properties                                                               *)

\* What an object holds, by whatever kind of reference.
Held(o) == IF o = main \/ kind[o] = "thread" THEN Slots(o)
           ELSE IF kind[o] = "upval" THEN Value(o)
           ELSE UNION {{e[1], e[2]} : e \in refs[o]} \ {Num}

(* No reference that the program can come upon, strong or weak, is to an object that
   has been freed; nor is the closure that a prototype remembers. *)
NoDangling ==
  \A o \in Reachable(Roots \cup ToSet(tobefnz)) :
     o # main => /\ o \in heap /\ Held(o) \subseteq heap \cup {main}
                 /\ cache[o] \in heap \cup {nil}

(* lgc.h: while objects are being marked, and always in generational mode, a black
   object never points to a white one. *)
TriColor ==
  keepinvariant /\ ~knotted =>
    \A o \in heap : color[o] = "black" => \A x \in Kids(o, Objects) : ~White(x)

(* lgc.h: a gray object is in a gray list, and as the lists share one link in exactly
   one, so that it is visited before the collection ends. *)
GrayListed ==
  keepinvariant /\ ~knotted =>
    \A o \in heap \cup {main} :
      color[o] = "gray" /\ (o = main \/ kind[o] \in Queued) =>
        Cardinality({i \in 1..5 : o \in <<gray, grayagain, weak, ephemeron, allweak>>[i]}) = 1

(* The rule that the sweep of the young generation relies on: after an old object all
   objects of a list are old. *)
OldAfterOld ==
  isgenerational /\ gcstate \in {"pause", "propagate"} =>
    /\ \A list \in {allgc, finobj} :
         \A i, j \in DOMAIN list : i < j /\ list[i] \in old => list[j] \in old
    /\ \A u \in old \ {main} : open[u] # nil =>
         \A v \in OpenOf(open[u][1]) : open[v][2] < open[u][2] => v \in old

(* Only what the program cannot reach is finalized, and only once. *)
FinalizedOnce ==
  [][ToSet(tobefnz') \ ToSet(tobefnz) # {} =>
       (ToSet(tobefnz') \ ToSet(tobefnz)) \cap (Reachable(Roots) \cup finalized) = {}]_vars

(* A full collection frees all that could be reached neither by the program nor from
   objects with finalizers when it began. *)
FullGCIsComplete ==
  [][targets # <<>> /\ targets' = <<>> => doomed \cap heap' = {}]_vars

(* An entry of a weak table whose key and value the program can reach is kept. *)
ReachableEntriesStay == wronged = {}

(* lgc.h: the sweep ends with all objects white. *)
WhiteAfterSweep ==
  gcstate = "pause" /\ ~isgenerational => \A o \in heap \ ToSet(tobefnz) : White(o)

(* No object is put in a gray list twice. *)
GrayListsEnd == ~knotted
=============================================================================
