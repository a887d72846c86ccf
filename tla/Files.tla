------------------------------- MODULE Files -------------------------------
(***************************************************************************)
(* The handles of the io library (liolib.c) and of LuaFileSystem (lfs.c,   *)
(* as it is built for Windows): files, pipes, walks through directories    *)
(* and locks of directories, over what the system has open.  A call runs   *)
(* to its end before the next begins; what the system answers is chosen    *)
(* with the call.                                                          *)
(*                                                                         *)
(* Left out: what is read and written, seeking and buffering (Use stands   *)
(* for all of them), locks of parts of files, attributes; that the method  *)
(* close of a directory takes any userdata for one (lfs.c:688).            *)
(***************************************************************************)
EXTENDS Integers, FiniteSets

CONSTANTS
  Handles,      (* userdata that scripts may make *)
  Streams,      (* what the system can have open besides the standard files: 3..n *)
  MaxIterators, (* bound: the iterators that lines has made and the script still has *)
  Directories   (* that may be locked *)

VARIABLES
  handles,      (* of each userdata its class and fields *)
  os,           (* of each stream what it is, and of what *)
  IO_INPUT, IO_OUTPUT,  (* in the registry: the handles of the default files *)
  iterators,    (* functions that lines has made *)
  lost,         (* history: streams that no handle can close any more *)
  misused       (* history: a stream was used or closed that was not open, or in the wrong way *)

vars == <<handles, os, IO_INPUT, IO_OUTPUT, iterators, lost, misused>>

stdin == 1
stdout == 2
Standard == {stdin, stdout}
AllStreams == Standard \cup Streams
AllHandles == {"stdin", "stdout"} \cup Handles
NULL == 0
INVALID == -1

\* Assumed of the constants: nothing has two meanings.
Distinct ==
  /\ Streams \cap (Standard \cup {NULL, INVALID}) = {}
  /\ Handles \cap {"stdin", "stdout"} = {}

\* held: the script has got it.
Absent == [class |-> "none", closef |-> "NULL", f |-> NULL, held |-> FALSE]
File(closef, f, held) == [class |-> "file", closef |-> closef, f |-> f, held |-> held]
Closed == [is |-> "closed", of |-> "nothing"]

createstdfile(f) == File("io_noclose", f, TRUE)

\* luaopen_io
Init ==
  /\ handles = [h \in AllHandles |-> CASE h = "stdin" -> createstdfile(stdin)
                                       [] h = "stdout" -> createstdfile(stdout)
                                       [] OTHER -> Absent]
  /\ os = [s \in AllStreams |-> IF s \in Standard THEN [is |-> "std", of |-> "nothing"] ELSE Closed]
  /\ IO_INPUT = "stdin" /\ IO_OUTPUT = "stdout"
  /\ iterators = {} /\ lost = {} /\ misused = FALSE

isclosed(h) == handles[h].closef = "NULL"
IsFile(h) == handles[h].class = "file" /\ handles[h].held

Free == {s \in Streams : os[s].is = "closed"}
\* What the system gives next: any that is free.
NextFree == CHOOSE s \in Free : TRUE
Opens(s, is, of) == os' = [os EXCEPT ![s] = [is |-> is, of |-> of]]

\* Whether the system has open what a call means: FALSE is undefined behaviour.
Valid(f, kinds) == f \in AllStreams /\ os[f].is \in kinds
Uses(valid) == misused' = (misused \/ ~valid)
Usable(h) == Valid(handles[h].f, {"std", "file", "pipe"})

-----------------------------------------------------------------------------
(* Opening                                                                  *)

\* newfile, and fopen or tmpfile, which may fail: of the handle that is then incomplete
\* the script gets nothing.
Open(h, is, opened) ==
  LET closef == IF is = "pipe" THEN "io_pclose" ELSE "io_fclose" IN
  /\ handles[h].class = "none"
  /\ opened => Free # {}
  /\ handles' = [handles EXCEPT ![h] = File(closef, IF opened THEN NextFree ELSE NULL, opened)]
  /\ IF opened THEN Opens(NextFree, is, "nothing") ELSE UNCHANGED os

Others == <<IO_INPUT, IO_OUTPUT, iterators, lost, misused>>

io_open(h, opened) == Open(h, "file", opened) /\ UNCHANGED Others
io_popen(h, opened) == Open(h, "pipe", opened) /\ UNCHANGED Others

\* io.input and io.output: a name is opened, or it is an error; a handle must be open.
g_iofile_name(h, opened, input) ==
  /\ Open(h, "file", opened)
  /\ IO_INPUT' = IF opened /\ input THEN h ELSE IO_INPUT
  /\ IO_OUTPUT' = IF opened /\ ~input THEN h ELSE IO_OUTPUT
  /\ UNCHANGED <<iterators, lost, misused>>
g_iofile(h, input) ==
  /\ IsFile(h) /\ ~isclosed(h)
  /\ IO_INPUT' = IF input THEN h ELSE IO_INPUT
  /\ IO_OUTPUT' = IF input THEN IO_OUTPUT ELSE h
  /\ UNCHANGED <<handles, os, iterators, lost, misused>>

\* io.lines(name), io.lines() and h:lines(): only the first closes the file at its end.
Iterator(h, toclose) == [file |-> h, toclose |-> toclose, ended |-> FALSE]
Kept == Cardinality(iterators) < MaxIterators
io_lines_name(h, opened) ==
  /\ Kept
  /\ Open(h, "file", opened)
  /\ iterators' = IF opened THEN iterators \cup {Iterator(h, TRUE)} ELSE iterators
  /\ UNCHANGED <<IO_INPUT, IO_OUTPUT, lost, misused>>
f_lines(h) ==
  /\ Kept
  /\ IsFile(h) /\ ~isclosed(h)
  /\ iterators' = iterators \cup {Iterator(h, FALSE)}
  /\ UNCHANGED <<handles, os, IO_INPUT, IO_OUTPUT, lost, misused>>

-----------------------------------------------------------------------------
(* Using and closing                                                        *)

\* The closing function of the handle, which is marked as closed before it is called.
\* That of the standard files opens it again.
aux_close(h) ==
  LET p == handles[h] IN
  /\ handles' = [handles EXCEPT ![h].closef = IF p.closef = "io_noclose" THEN p.closef ELSE "NULL"]
  /\ CASE p.closef = "io_noclose" -> UNCHANGED <<os, misused>>
       [] p.closef = "io_fclose" -> Uses(Valid(p.f, {"file"})) /\ os' = [os EXCEPT ![p.f] = Closed]
       [] p.closef = "io_pclose" -> Uses(Valid(p.f, {"pipe"})) /\ os' = [os EXCEPT ![p.f] = Closed]

\* h:close(), and io.close() of the default output.
io_close(h) ==
  /\ IsFile(h) /\ ~isclosed(h)
  /\ aux_close(h)
  /\ UNCHANGED <<IO_INPUT, IO_OUTPUT, iterators, lost>>

\* read, write, seek, setvbuf, flush, lfs.lock, lfs.unlock and lfs.setmode, of a handle
\* or of a default file, as long as it is not closed.
Use(h) ==
  /\ IsFile(h) \/ h \in {IO_INPUT, IO_OUTPUT}
  /\ ~isclosed(h)
  /\ Uses(Usable(h))
  /\ UNCHANGED <<handles, os, IO_INPUT, IO_OUTPUT, iterators, lost>>

\* A call of an iterator: at the end of the file it may close it.  After an error of
\* the system the file stays open.
io_readline(i, reads) ==
  /\ ~isclosed(i.file)
  /\ IF reads = "eof" /\ i.toclose
       THEN aux_close(i.file)
       ELSE Uses(Usable(i.file)) /\ UNCHANGED <<handles, os>>
  /\ iterators' = IF reads = "eof" THEN (iterators \ {i}) \cup {[i EXCEPT !.ended = TRUE]} ELSE iterators
  /\ UNCHANGED <<IO_INPUT, IO_OUTPUT, lost>>

-----------------------------------------------------------------------------
(* LuaFileSystem                                                            *)

\* lfs.dir opens nothing yet, but may find the path too long.
dir_iter_factory(h, short) ==
  /\ handles[h].class = "none"
  /\ handles' = [handles EXCEPT ![h] = [class |-> "dir", closef |-> "dir_close", f |-> NULL, held |-> short]]
  /\ UNCHANGED <<os, IO_INPUT, IO_OUTPUT, iterators, lost, misused>>

\* The next entry; with the first call it begins, and after the last it closes.
dir_iter(h, more) ==
  LET d == handles[h] IN
  /\ d.class = "dir" /\ d.held /\ d.closef # "NULL"
  /\ IF d.f = NULL
       THEN /\ more => Free # {}
            /\ handles' = [handles EXCEPT ![h] = IF more THEN [d EXCEPT !.f = NextFree]
                                                  ELSE [d EXCEPT !.f = INVALID, !.closef = "NULL"]]
            /\ IF more THEN Opens(NextFree, "search", "nothing") ELSE UNCHANGED os
            /\ UNCHANGED misused
       ELSE /\ Uses(Valid(d.f, {"search"}))
            /\ handles' = IF more THEN handles ELSE [handles EXCEPT ![h].closef = "NULL"]
            /\ os' = IF more THEN os ELSE [os EXCEPT ![d.f] = Closed]
  /\ UNCHANGED <<IO_INPUT, IO_OUTPUT, iterators, lost>>

\* What closing and collecting do to the handle, and the stream it closes.
dir_closes(h) == IF handles[h].closef # "NULL" /\ handles[h].f # NULL THEN {handles[h].f} ELSE {}
unlock_closes(h) == IF handles[h].f # INVALID THEN {handles[h].f} ELSE {}

\* Wrong: the handle keeps what it has released, and releases it again.
Keeping(h) == handles

Released(h) == [handles EXCEPT ![h].f = INVALID]

Releases(closed, kind) ==
  /\ Uses(\A f \in closed : Valid(f, {kind}))
  /\ os' = [s \in AllStreams |-> IF s \in closed THEN Closed ELSE os[s]]

dir_close(h) ==
  /\ handles[h].class = "dir" /\ handles[h].held
  /\ Releases(dir_closes(h), "search")
  /\ handles' = [handles EXCEPT ![h].closef = "NULL"]
  /\ UNCHANGED <<IO_INPUT, IO_OUTPUT, iterators, lost>>

\* The file of the lock may not be shared, and goes when it is closed.  The userdata is
\* made after it: if there is no memory for it, nothing can close it.
lfs_lock_dir(h, path, memory) ==
  /\ handles[h].class = "none"
  /\ Free # {}
  /\ \A s \in Streams : ~(os[s].is = "lock" /\ os[s].of = path)
  /\ Opens(NextFree, "lock", path)
  /\ handles' = IF memory THEN [handles EXCEPT ![h] = [class |-> "lock", closef |-> "CloseHandle", f |-> NextFree, held |-> TRUE]]
                ELSE handles
  /\ lost' = IF memory THEN lost ELSE lost \cup {NextFree}
  /\ UNCHANGED <<IO_INPUT, IO_OUTPUT, iterators, misused>>

lfs_unlock_dir(h) ==
  /\ handles[h].class = "lock"
  /\ Releases(unlock_closes(h), "lock")
  /\ handles' = Released(h)
  /\ UNCHANGED <<IO_INPUT, IO_OUTPUT, iterators, lost>>

-----------------------------------------------------------------------------
(* The collector calls the __gc of what nothing refers to; the script may   *)
(* let go of anything at any time.                                          *)

Collect(h) ==
  LET p == handles[h] IN
  /\ p.class # "none" /\ h \notin {IO_INPUT, IO_OUTPUT} /\ \A i \in iterators : i.file # h
  /\ handles' = [handles EXCEPT ![h] = Absent]
  /\ CASE p.class = "dir" -> Releases(dir_closes(h), "search")
       [] p.class = "lock" -> Releases(unlock_closes(h), "lock")
       [] p.class = "file" /\ (isclosed(h) \/ p.f = NULL) -> UNCHANGED <<os, misused>>
       [] p.class = "file" /\ ~isclosed(h) /\ p.f # NULL ->
            IF p.closef = "io_noclose" THEN UNCHANGED <<os, misused>>
            ELSE Releases({p.f}, IF p.closef = "io_pclose" THEN "pipe" ELSE "file")
  /\ UNCHANGED <<IO_INPUT, IO_OUTPUT, iterators, lost>>

Forget(i) ==
  /\ iterators' = iterators \ {i}
  /\ UNCHANGED <<handles, os, IO_INPUT, IO_OUTPUT, lost, misused>>

Next ==
  \/ \E h \in Handles :
       \/ \E opened \in BOOLEAN : io_open(h, opened) \/ io_popen(h, opened) \/ io_lines_name(h, opened)
       \/ \E opened \in BOOLEAN, input \in BOOLEAN : g_iofile_name(h, opened, input)
       \/ \E short \in BOOLEAN : dir_iter_factory(h, short)
       \/ \E more \in BOOLEAN : dir_iter(h, more)
       \/ dir_close(h) \/ lfs_unlock_dir(h) \/ Collect(h)
       \/ \E path \in Directories, memory \in BOOLEAN : lfs_lock_dir(h, path, memory)
  \/ \E h \in AllHandles : io_close(h) \/ Use(h) \/ f_lines(h) \/ \E input \in BOOLEAN : g_iofile(h, input)
  \/ \E i \in iterators : Forget(i) \/ \E reads \in {"some", "eof", "error"} : io_readline(i, reads)

Spec == Init /\ [][Next]_vars

-----------------------------------------------------------------------------
(* Properties                                                               *)

\* The stream that a handle would close.
Owned(h) ==
  LET p == handles[h] IN
  CASE p.class = "none" -> {}
    [] p.class = "lock" -> {p.f} \ {INVALID}
    [] OTHER -> IF p.closef \in {"NULL", "io_noclose"} THEN {} ELSE {p.f} \ {NULL}

\* What it is there for, by the function that the handle is closed with.
Kind(closef) ==
  CASE closef = "io_fclose" -> "file"
    [] closef = "io_pclose" -> "pipe"
    [] closef = "dir_close" -> "search"
    [] closef = "CloseHandle" -> "lock"

\* Each stream is that of one handle that will close it, when it is closed or collected,
\* once and as it was opened; none is used after that, and the standard files stay open.
\* Only the lock of a directory is lost, when there is no memory for its handle.
EachStreamHasItsHandle ==
  /\ ~misused
  /\ \A s \in Streams \ lost : os[s].is # "closed" =>
       \E h \in AllHandles : s \in Owned(h) /\ \A g \in AllHandles \ {h} : s \notin Owned(g)
  /\ \A h \in AllHandles : \A s \in Owned(h) :
       s \in Streams \ lost /\ os[s].is = Kind(handles[h].closef)
  /\ \A s \in Standard : os[s].is = "std"

\* A file that lines has opened is closed when the loop has come to its end.
LoopsCloseTheirFiles == \A i \in iterators : i.toclose /\ i.ended => isclosed(i.file)
=============================================================================
