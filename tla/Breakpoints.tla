---------------------------- MODULE Breakpoints ----------------------------
(***************************************************************************)
(* How a line of the running script is matched with a breakpoint of the    *)
(* client: the table from chunk names to files that InitDebugging.lua      *)
(* builds, the breakpoints per path that the pure breaker of               *)
(* vscode-debuggee.lua keeps, and its cache from chunk names to paths.     *)
(*                                                                         *)
(* The engine names a chunk by the bare name of its file ("RoomManager"),  *)
(* require by "@" and a path.  The client knows full paths only.  A path   *)
(* is the sequence of its components; names that differ in case only are   *)
(* one name, since everything that is compared is lower-cased first.       *)
(***************************************************************************)
EXTENDS Integers, Sequences, SequencesExt

CONSTANTS
  Files,     (* the files below the roots, relative to the game's directory *)
  Roots,     (* the directories that are given to BuildLookup, in order     *)
  Base,      (* the game's directory, as the client spells it               *)
  Stem,      (* of a file's name: what precedes its last dot, or nil        *)
  Chunks,    (* what runs: the file and whether require has loaded it       *)
  Lines,
  nil

ASSUME FilesAssumption ==
  /\ \A f \in Files : f \in Seq(DOMAIN Stem) /\ f # <<>>
  /\ \A f, g \in Files : IsPrefix(f, g) => f = g
ASSUME StemAssumption == \A n \in DOMAIN Stem : Stem[n] # n
ASSUME RootsAssumption ==
  /\ Roots \in Seq(Seq(DOMAIN Stem))
  /\ \A i \in 1..Len(Roots) : Roots[i] # <<>> /\ Roots[i] \notin Files
ASSUME BaseAssumption == Base \in Seq(ToSet(Base))
ASSUME NilAssumption ==
  /\ nil \notin Files /\ nil \notin {Base \o f : f \in Files}
  /\ nil \notin Chunks /\ nil \notin {l : l \in SUBSET Lines}
ASSUME ChunksAssumption ==
  \A c \in Chunks : c.file \in Files /\ c.at \in BOOLEAN /\ (c.at \/ Stem[Last(c.file)] # nil)

VARIABLES
  roots,               (* those that BuildLookup has not begun              *)
  open,                (* the lfs.dir iterations under way, innermost last  *)
  filepathCache,       (* bare name -> file                                 *)
  breakpointsPerPath,  (* path -> lines, from the client                    *)
  chunknameToPathCache,
  last                 (* history: the last line event and its outcome      *)

lookupVars == <<roots, open, filepathCache>>
vars == <<lookupVars, breakpointsPerPath, chunknameToPathCache, last>>

-----------------------------------------------------------------------------
Stems == {Stem[n] : n \in DOMAIN Stem} \ {nil}
Path(f) == Base \o f
Paths == {Path(f) : f \in Files}

\* What info.source holds; splitChunkName takes the "@" off again.
Source(c) == IF c.at THEN <<"@">> \o Path(c.file) ELSE <<Stem[Last(c.file)]>>
Keys == {Source(c) : c \in Chunks} \cup Files

NoEvent == [chunk |-> nil, line |-> nil, stopped |-> FALSE]
Ready == roots = <<>> /\ open = <<>>

TypeOK ==
  /\ roots \in Seq(Seq(DOMAIN Stem))
  /\ open \in Seq([dir : Seq(DOMAIN Stem), left : SUBSET DOMAIN Stem])
  /\ filepathCache \in [Stems -> Files \cup {nil}]
  /\ breakpointsPerPath \in [Paths -> (SUBSET Lines) \cup {nil}]
  /\ chunknameToPathCache \in [Keys -> Paths \cup {nil}]
  /\ \A k \in Keys : chunknameToPathCache[k] # nil => breakpointsPerPath[chunknameToPathCache[k]] # nil
  /\ last \in [chunk : Chunks, line : Lines, stopped : BOOLEAN] \cup {NoEvent}

Init ==
  /\ roots = Roots /\ open = <<>>
  /\ filepathCache = [s \in Stems |-> nil]
  /\ breakpointsPerPath = [p \in Paths |-> nil]
  /\ chunknameToPathCache = [k \in Keys |-> nil]
  /\ last = NoEvent

-----------------------------------------------------------------------------
(* BuildLookup: the entries of a directory in the order in which lfs.dir    *)
(* happens to deliver them, subdirectories at once.                         *)

Entries(dir) ==
  {f[Len(dir) + 1] : f \in {g \in Files : IsStrictPrefix(dir, g)}}
Opened(dir) == [dir |-> dir, left |-> Entries(dir)]
Without(e) == [open EXCEPT ![Len(open)].left = @ \ {e}]

NextRoot ==
  /\ open = <<>> /\ roots # <<>>
  /\ open' = <<Opened(Head(roots))>>
  /\ roots' = Tail(roots)
  /\ UNCHANGED <<filepathCache, breakpointsPerPath, chunknameToPathCache, last>>

\* Wrong: the last file of a name wins.
AddLast(f) ==
  filepathCache' = IF Stem[Last(f)] = nil THEN filepathCache
                   ELSE [filepathCache EXCEPT ![Stem[Last(f)]] = f]

\* Add f under its bare name unless another file has taken it.
AddFirst(f) ==
  filepathCache' = IF Stem[Last(f)] = nil \/ filepathCache[Stem[Last(f)]] # nil
                   THEN filepathCache
                   ELSE [filepathCache EXCEPT ![Stem[Last(f)]] = f]

Visit ==
  /\ open # <<>>
  /\ \E e \in Last(open).left :
       LET path == Last(open).dir \o <<e>> IN
       IF path \in Files
         THEN AddFirst(path) /\ open' = Without(e)
         ELSE open' = Append(Without(e), Opened(path)) /\ UNCHANGED filepathCache
  /\ UNCHANGED <<roots, breakpointsPerPath, chunknameToPathCache, last>>

Leave ==
  /\ open # <<>> /\ Last(open).left = {}
  /\ open' = Front(open)
  /\ UNCHANGED <<roots, filepathCache, breakpointsPerPath, chunknameToPathCache, last>>

-----------------------------------------------------------------------------
(* The breaker                                                              *)

Replace(p, lines) == breakpointsPerPath' = [breakpointsPerPath EXCEPT ![p] = lines]

\* The client sends all breakpoints of a file.  Nothing else is touched, the
\* cache neither.
setBreakpoints(f, lines) ==
  /\ Ready
  /\ Replace(Path(f), lines)
  /\ last' = NoEvent
  /\ UNCHANGED <<lookupVars, chunknameToPathCache>>

\* Wrong: counted from the beginning.
matchFromStart(a, b) ==
  CHOOSE n \in 0..Len(a) :
    /\ n <= Len(b)
    /\ \A i \in 1..n : a[i] = b[i]
    /\ (n < Len(a) /\ n < Len(b)) => a[n + 1] # b[n + 1]

\* How many components two paths have in common, counted from the end.
getMatchCount(a, b) ==
  CHOOSE n \in 0..Len(a) :
    /\ n <= Len(b)
    /\ \A i \in 0..(n - 1) : a[Len(a) - i] = b[Len(b) - i]
    /\ (n < Len(a) /\ n < Len(b)) => a[Len(a) - n] # b[Len(b) - n]

ResolveChunkPath(stem) ==
  IF filepathCache[stem] # nil THEN filepathCache[stem] ELSE <<stem>>

\* The name as chunkNameToPath splits it, and the key under which it stores.
Name(c) == IF c.at THEN Path(c.file) ELSE ResolveChunkPath(Stem[Last(c.file)])

\* Wrong: the result is stored under the name that was asked for.
KeyAsked(c) == Source(c)
Key(c)  == IF c.at THEN Source(c) ELSE ResolveChunkPath(Stem[Last(c.file)])

Known == {p \in Paths : breakpointsPerPath[p] # nil}

\* The order of pairs decides between equally good paths.
Similar(name) ==
  {p \in Known : /\ getMatchCount(name, p) > 0
                 /\ \A q \in Known : getMatchCount(name, q) <= getMatchCount(name, p)}

Matches(c) ==
  IF chunknameToPathCache[Source(c)] # nil
    THEN {chunknameToPathCache[Source(c)]}
    ELSE Similar(Name(c))

\* hookfunc at a line, and whether it calls __halt__.
Line(c, l) ==
  /\ Ready
  /\ \/ /\ Matches(c) = {}
        /\ last' = [chunk |-> c, line |-> l, stopped |-> FALSE]
        /\ UNCHANGED chunknameToPathCache
     \/ \E p \in Matches(c) :
          /\ chunknameToPathCache' =
               IF chunknameToPathCache[Source(c)] # nil THEN chunknameToPathCache
               ELSE [chunknameToPathCache EXCEPT ![Key(c)] = p]
          /\ last' = [chunk |-> c, line |-> l, stopped |-> l \in breakpointsPerPath[p]]
  /\ UNCHANGED <<lookupVars, breakpointsPerPath>>

Next ==
  \/ NextRoot \/ Visit \/ Leave
  \/ \E f \in Files, lines \in SUBSET Lines : setBreakpoints(f, lines)
  \/ \E c \in Chunks, l \in Lines : Line(c, l)

Spec == Init /\ [][Next]_vars

-----------------------------------------------------------------------------
(* Properties                                                               *)

BreakpointAt(f, l) == breakpointsPerPath[Path(f)] # nil /\ l \in breakpointsPerPath[Path(f)]

SameName(f, g) ==
  \/ Last(f) = Last(g)
  \/ Stem[Last(f)] # nil /\ Stem[Last(f)] = Stem[Last(g)]
Listed(f) == \E i \in 1..Len(Roots) : IsPrefix(Roots[i], f)
Unmistakable(c) ==
  (c.at \/ Listed(c.file)) /\ \A g \in Files \ {c.file} : ~SameName(c.file, g)

\* A file whose name and bare name no other file has, loaded by require or below one
\* of the roots, stops exactly at the lines where the client has a breakpoint, in
\* whatever order breakpoints were set, removed and matched.
ExactStops ==
  last # NoEvent /\ Unmistakable(last.chunk) =>
    (last.stopped <=> BreakpointAt(last.chunk.file, last.line))

\* No other path ends with all of this one, as one would in a copy of the game's
\* directories inside of a mod; then the order of pairs decides.
Alone(f) == \A g \in Files \ {f} : getMatchCount(f, Path(g)) < Len(f)

\* A chunk that the lookup takes for its own file misses no breakpoint in it, and
\* stops nowhere else once breakpoints have been set in it, although other files
\* have its name and whatever it was matched with before.
LookupTellsApart ==
  /\ last # NoEvent /\ ~last.chunk.at
  /\ Name(last.chunk) = last.chunk.file /\ Alone(last.chunk.file)
  /\ breakpointsPerPath[Path(last.chunk.file)] # nil
  => (last.stopped <=> BreakpointAt(last.chunk.file, last.line))

\* The lookup is complete, and a file of an earlier root is never hidden by one of
\* a later root, in whatever order the directories deliver their entries.
EarlierRootsFirst ==
  Ready => \A f \in Files : \A i \in 1..Len(Roots) :
    Stem[Last(f)] # nil /\ IsPrefix(Roots[i], f) =>
      \E j \in 1..i : filepathCache[Stem[Last(f)]] # nil
                      /\ IsPrefix(Roots[j], filepathCache[Stem[Last(f)]])
=============================================================================
