----------------------------- MODULE FilesProofs -----------------------------
(***************************************************************************)
(* Proofs about Files and Sockets, for any number of handles, streams,     *)
(* directories and iterators, and of objects and sockets of the system.    *)
(*                                                                         *)
(* A call on a socket goes through loops, over addresses or over what the  *)
(* system answers.  Ready is what each step of a call keeps, from its      *)
(* beginning on: the socket that the object had is still there or has been *)
(* closed, nothing else has changed but for a socket that was free, and    *)
(* the time since the last mark is within the timeouts.                    *)
(***************************************************************************)
EXTENDS Files, Sockets, NaturalsInduction, WellFoundedInduction, FiniteSetTheorems, TLAPS

Classes == {"none", "file", "dir", "lock"}
Closers == {"NULL", "io_noclose", "io_fclose", "io_pclose", "dir_close", "CloseHandle"}
Userdata == [class : Classes, closef : Closers, f : AllStreams \cup {NULL, INVALID}, held : BOOLEAN]

TypeOK ==
  /\ handles \in [AllHandles -> Userdata]
  /\ os \in [AllStreams -> [is : {"std", "closed", "file", "pipe", "search", "lock"},
                            of : Directories \cup {"nothing"}]]
  /\ IO_INPUT \in AllHandles /\ IO_OUTPUT \in AllHandles
  /\ iterators \subseteq [file : AllHandles, toclose : BOOLEAN, ended : BOOLEAN]
  /\ lost \subseteq Streams

\* What the fields of a userdata can be together.
Consistent(p) ==
  /\ p.class = "file" =>
       /\ p.closef \in {"NULL", "io_noclose", "io_fclose", "io_pclose"} /\ p.f # INVALID
       /\ p.held => p.f # NULL
       /\ p.closef = "io_noclose" <=> p.f \in Standard
  /\ p.class = "dir" =>
       /\ p.closef \in {"NULL", "dir_close"}
       /\ p.closef = "dir_close" => p.f \in Streams \cup {NULL}
  /\ p.class = "lock" => p.closef = "CloseHandle" /\ p.f \in Streams \cup {INVALID}

\* The default files and those of iterators are files that a script has got, so that the
\* collector leaves them alone.
HandleInv ==
  /\ \A h \in AllHandles : Consistent(handles[h])
  /\ IsFile(IO_INPUT) /\ IsFile(IO_OUTPUT)
  /\ \A i \in iterators : IsFile(i.file)

\* A stream has at most one owner; one without an owner is closed or has been lost.
OwnerInv ==
  /\ \A h \in AllHandles : \A s \in Owned(h) :
       s \in Streams \ lost /\ os[s].is = Kind(handles[h].closef)
  /\ \A g, h \in AllHandles : g # h => Owned(g) \cap Owned(h) = {}
  /\ \A s \in Streams \ lost : os[s].is # "closed" => \E h \in AllHandles : s \in Owned(h)
  /\ \A s \in lost : os[s].is = "lock"
  /\ \A s \in Standard : os[s].is = "std"

Inv == TypeOK /\ HandleInv /\ OwnerInv /\ ~misused

-----------------------------------------------------------------------------
(* What opening and closing do to the owners                                *)

\* Only the handle h changes.
Changes(h) == \A g \in AllHandles \ {h} : handles'[g] = handles[g]

LEMMA OthersOwnTheSame ==
  ASSUME NEW h \in AllHandles, Changes(h)
  PROVE  \A g \in AllHandles \ {h} : Owned(g)' = Owned(g) /\ handles'[g].closef = handles[g].closef
BY DEF Changes, Owned

LEMMA KindsAreOpen == \A c \in Closers : c \notin {"NULL", "io_noclose"} => Kind(c) # "closed"
BY DEF Closers, Kind

LEMMA OwnersAreOpen ==
  ASSUME TypeOK, HandleInv, NEW h \in AllHandles, Owned(h) # {}
  PROVE  Kind(handles[h].closef) # "closed"
<1>1. handles[h].closef \in Closers /\ handles[h].class \in Classes
  BY DEF TypeOK, Userdata
<1>2. handles[h].class = "lock" => handles[h].closef = "CloseHandle"
  BY DEF HandleInv, Consistent
<1>3. handles[h].closef \notin {"NULL", "io_noclose"}
  BY <1>1, <1>2 DEF Owned, Classes
<1> QED BY <1>1, <1>3, KindsAreOpen

LEMMA SameOwners ==
  ASSUME OwnerInv, NEW h \in AllHandles, Changes(h), UNCHANGED <<os, lost>>,
         Owned(h)' = Owned(h), Owned(h) # {} => handles'[h].closef = handles[h].closef
  PROVE  OwnerInv'
<1>1. \A g \in AllHandles : /\ Owned(g)' = Owned(g)
                            /\ Owned(g) # {} => handles'[g].closef = handles[g].closef
  BY OthersOwnTheSame
<1> QED BY <1>1 DEF OwnerInv

\* Calls that use what is open and change no handle.
LEMMA HandlesStay ==
  ASSUME Inv, UNCHANGED <<handles, os, IO_INPUT, IO_OUTPUT, iterators, lost>>, ~misused'
  PROVE  Inv'
<1>1. TypeOK'
  BY DEF Inv, TypeOK
<1>2. HandleInv'
  BY DEF Inv, HandleInv, IsFile
<1>3. \A g \in AllHandles : Owned(g)' = Owned(g)
  BY DEF Owned
<1>4. OwnerInv'
  BY <1>3 DEF Inv, OwnerInv
<1> QED BY <1>1, <1>2, <1>4 DEF Inv

\* A handle that owns nothing gets a stream that was free.
LEMMA NewOwner ==
  ASSUME TypeOK, HandleInv, OwnerInv, NEW h \in AllHandles, Changes(h), UNCHANGED lost,
         NEW s \in Free, NEW r, os' = [os EXCEPT ![s] = r],
         Owned(h) = {}, Owned(h)' = {s}, r.is = Kind(handles'[h].closef), Distinct
  PROVE  OwnerInv'
<1>1. s \in Streams \ lost /\ os[s].is = "closed" /\ s \notin Standard
  BY DEF Free, OwnerInv, Distinct
<1>2. \A t \in AllStreams : os'[t] = IF t = s THEN r ELSE os[t]
  BY DEF TypeOK
<1>3. \A g \in AllHandles \ {h} : /\ Owned(g)' = Owned(g) /\ handles'[g].closef = handles[g].closef
                                  /\ s \notin Owned(g)
  <2>1. \A g \in AllHandles \ {h} : /\ Owned(g)' = Owned(g)
                                    /\ handles'[g].closef = handles[g].closef
    BY OthersOwnTheSame
  <2>2. \A g \in AllHandles : s \notin Owned(g)
    <3> SUFFICES ASSUME NEW g \in AllHandles, s \in Owned(g)
                 PROVE  FALSE
      OBVIOUS
    <3>1. Kind(handles[g].closef) = "closed"
      BY <1>1 DEF OwnerInv
    <3> QED BY <3>1, OwnersAreOpen
  <2> QED BY <2>1, <2>2
<1>4. \A g \in AllHandles : \A t \in Owned(g)' :
        t \in Streams \ lost /\ os'[t].is = Kind(handles'[g].closef)
  <2> TAKE g \in AllHandles
  <2> TAKE t \in Owned(g)'
  <2>1. CASE g = h
    BY <2>1, <1>1, <1>2 DEF AllStreams
  <2>2. CASE g # h
    BY <2>2, <1>2, <1>3 DEF AllStreams, OwnerInv
  <2> QED BY <2>1, <2>2
<1>5. \A g, k \in AllHandles : g # k => Owned(g)' \cap Owned(k)' = {}
  BY <1>3 DEF OwnerInv
<1>6. \A t \in Streams \ lost : os'[t].is # "closed" => \E g \in AllHandles : t \in Owned(g)'
  <2> SUFFICES ASSUME NEW t \in Streams \ lost, os'[t].is # "closed"
               PROVE  \E g \in AllHandles : t \in Owned(g)'
    OBVIOUS
  <2>1. CASE t = s
    BY <2>1
  <2>2. CASE t # s
    <3>1. PICK g \in AllHandles : t \in Owned(g)
      BY <2>2, <1>2 DEF OwnerInv, AllStreams
    <3> QED BY <3>1, <1>3
  <2> QED BY <2>1, <2>2
<1>7. /\ \A t \in lost : os'[t].is = "lock"
      /\ \A t \in Standard : os'[t].is = "std"
  BY <1>1, <1>2 DEF OwnerInv, AllStreams, TypeOK
<1> QED BY <1>4, <1>5, <1>6, <1>7 DEF OwnerInv

\* A handle gives up what it owns, and just that is closed.
LEMMA OwnerCloses ==
  ASSUME TypeOK, OwnerInv, NEW h \in AllHandles, Changes(h), UNCHANGED lost, Owned(h)' = {},
         \A s \in AllStreams : os'[s] = IF s \in Owned(h) THEN Closed ELSE os[s], Distinct
  PROVE  OwnerInv'
<1>1. \A s \in Owned(h) : s \in Streams \ lost /\ s \notin Standard
  BY DEF OwnerInv, Distinct
<1>2. \A g \in AllHandles \ {h} : /\ Owned(g)' = Owned(g) /\ handles'[g].closef = handles[g].closef
                                  /\ Owned(g) \cap Owned(h) = {}
  BY OthersOwnTheSame DEF OwnerInv
<1>3. \A g \in AllHandles : \A t \in Owned(g)' :
        t \in Streams \ lost /\ os'[t].is = Kind(handles'[g].closef)
  BY <1>2 DEF OwnerInv, AllStreams
<1>4. \A g, k \in AllHandles : g # k => Owned(g)' \cap Owned(k)' = {}
  BY <1>2 DEF OwnerInv
<1>5. \A t \in Streams \ lost : os'[t].is # "closed" => \E g \in AllHandles : t \in Owned(g)'
  <2> SUFFICES ASSUME NEW t \in Streams \ lost, os'[t].is # "closed"
               PROVE  \E g \in AllHandles : t \in Owned(g)'
    OBVIOUS
  <2>1. t \notin Owned(h) /\ os'[t] = os[t]
    BY DEF AllStreams, Closed
  <2>2. PICK g \in AllHandles : t \in Owned(g)
    BY <2>1 DEF OwnerInv
  <2> QED BY <2>1, <2>2, <1>2
<1>6. /\ \A t \in lost : os'[t].is = "lock"
      /\ \A t \in Standard : os'[t].is = "std"
  BY <1>1 DEF OwnerInv, AllStreams, TypeOK
<1> QED BY <1>3, <1>4, <1>5, <1>6 DEF OwnerInv

-----------------------------------------------------------------------------
(* The operations                                                           *)

LEMMA NextFreeIsFree == Free # {} => NextFree \in Free
BY DEF NextFree

\* A file that is not closed is one that the system has open.
LEMMA OpenFilesAreUsable ==
  ASSUME Inv, NEW h \in AllHandles, IsFile(h), ~isclosed(h)
  PROVE  Usable(h)
<1> DEFINE p == handles[h]
<1>1. /\ p \in Userdata /\ p.class = "file" /\ p.held /\ p.closef # "NULL"
      /\ p.closef \in {"io_noclose", "io_fclose", "io_pclose"} /\ p.f # NULL /\ p.f # INVALID
      /\ p.closef = "io_noclose" => p.f \in Standard
  BY DEF Inv, TypeOK, HandleInv, Consistent, IsFile, isclosed
<1>2. p.f \in AllStreams
  BY <1>1 DEF Userdata
<1>3. CASE p.closef = "io_noclose"
  BY <1>1, <1>2, <1>3 DEF Usable, Valid, Inv, OwnerInv
<1>4. CASE p.closef # "io_noclose"
  <2>1. p.f \in Owned(h)
    BY <1>1, <1>4 DEF Owned
  <2>2. os[p.f].is = Kind(p.closef)
    BY <2>1 DEF Inv, OwnerInv
  <2>3. Kind("io_fclose") = "file" /\ Kind("io_pclose") = "pipe"
    BY DEF Kind
  <2> QED BY <1>1, <1>2, <1>4, <2>2, <2>3 DEF Usable, Valid
<1> QED BY <1>3, <1>4

\* io.open, io.popen, io.lines(name), and io.input and io.output with a name.
LEMMA OpenKeeps ==
  ASSUME Inv, Distinct, NEW h \in Handles, NEW is \in {"file", "pipe"}, NEW opened \in BOOLEAN,
         Open(h, is, opened), UNCHANGED lost
  PROVE  /\ handles' \in [AllHandles -> Userdata]
         /\ os' \in [AllStreams -> [is : {"std", "closed", "file", "pipe", "search", "lock"},
                                    of : Directories \cup {"nothing"}]]
         /\ \A g \in AllHandles : Consistent(handles'[g])
         /\ \A g \in AllHandles : IsFile(g) => IsFile(g)' /\ isclosed(g)' = isclosed(g)
         /\ opened => IsFile(h)'
         /\ OwnerInv'
<1> DEFINE closef == IF is = "pipe" THEN "io_pclose" ELSE "io_fclose"
           p == [class |-> "file", closef |-> closef, f |-> IF opened THEN NextFree ELSE NULL, held |-> opened]
<1> HIDE DEF p
<1>1. h \in AllHandles /\ handles[h].class = "none" /\ (opened => NextFree \in Free)
  BY NextFreeIsFree DEF Open, AllHandles
<1>2. handles' = [handles EXCEPT ![h] = p]
  BY DEF Open, File, p
<1>3. NextFree \in Free => NextFree \in Streams /\ NextFree \notin Standard \cup {NULL, INVALID}
  BY DEF Free, Distinct
<1>4. p \in Userdata
  BY <1>1, <1>3 DEF p, Userdata, Classes, Closers, AllStreams
<1>5. p.class = "file" /\ p.closef = closef /\ p.held = opened /\ p.f = IF opened THEN NextFree ELSE NULL
  BY DEF p
<1>6. Consistent(p)
  <2>1. NULL \notin Standard /\ NULL # INVALID
    BY DEF NULL, INVALID, Standard, stdin, stdout
  <2>2. p.f \notin Standard /\ p.f # INVALID
    BY <1>1, <1>3, <1>5, <2>1
  <2>3. p.closef \in {"io_fclose", "io_pclose"}
    BY <1>5
  <2>4. p.held => p.f # NULL
    BY <1>1, <1>3, <1>5
  <2> QED BY <1>5, <2>2, <2>3, <2>4 DEF Consistent
<1>7. handles'[h] = p /\ Changes(h)
  BY <1>1, <1>2 DEF Inv, TypeOK, Changes
<1>8. handles' \in [AllHandles -> Userdata] /\ \A g \in AllHandles : Consistent(handles'[g])
  BY <1>1, <1>2, <1>4, <1>6, <1>7 DEF Inv, TypeOK, HandleInv, Changes
<1>9. \A g \in AllHandles : IsFile(g) => IsFile(g)' /\ isclosed(g)' = isclosed(g)
  BY <1>1, <1>7 DEF IsFile, isclosed, Changes
<1>10. Owned(h) = {}
  BY <1>1 DEF Owned
<1>11. CASE opened
  <2>1. Owned(h)' = {NextFree}
    BY <1>1, <1>3, <1>5, <1>7, <1>11 DEF Owned
  <2>2. os' = [os EXCEPT ![NextFree] = [is |-> is, of |-> "nothing"]]
    BY <1>11 DEF Open, Opens
  <2>3. is = Kind(closef)
    BY DEF Kind
  <2>4. OwnerInv'
    <3>1. PICK r : r = [is |-> is, of |-> "nothing"]
      OBVIOUS
    <3>2. r.is = Kind(handles'[h].closef)
      BY <2>3, <3>1, <1>5, <1>7
    <3> QED BY <1>1, <1>7, <1>10, <1>11, <2>1, <2>2, <3>1, <3>2, NewOwner DEF Inv
  <2>5. os' \in [AllStreams -> [is : {"std", "closed", "file", "pipe", "search", "lock"},
                               of : Directories \cup {"nothing"}]]
    BY <2>2 DEF Inv, TypeOK
  <2>6. IsFile(h)'
    BY <1>5, <1>7, <1>11 DEF IsFile
  <2> QED BY <1>8, <1>9, <2>4, <2>5, <2>6
<1>12. CASE ~opened
  <2>1. Owned(h)' = {}
    BY <1>5, <1>7, <1>12 DEF Owned
  <2>2. os' = os
    BY <1>12 DEF Open
  <2>3. OwnerInv'
    BY <1>1, <1>7, <1>10, <2>1, <2>2, SameOwners DEF Inv
  <2> QED BY <1>8, <1>9, <1>12, <2>2, <2>3 DEF Inv, TypeOK
<1> QED BY <1>11, <1>12

\* h:close(), io.close() and the end of a loop.
LEMMA CloseKeeps ==
  ASSUME Inv, Distinct, NEW h \in AllHandles, IsFile(h), ~isclosed(h), aux_close(h), UNCHANGED lost
  PROVE  /\ handles' \in [AllHandles -> Userdata]
         /\ os' \in [AllStreams -> [is : {"std", "closed", "file", "pipe", "search", "lock"},
                                    of : Directories \cup {"nothing"}]]
         /\ \A g \in AllHandles : Consistent(handles'[g])
         /\ \A g \in AllHandles : /\ IsFile(g) => IsFile(g)'
                                  /\ isclosed(g) => isclosed(g)'
         /\ handles[h].closef # "io_noclose" => isclosed(h)'
         /\ OwnerInv' /\ ~misused'
<1> DEFINE p == handles[h]
           q == [p EXCEPT !.closef = IF p.closef = "io_noclose" THEN p.closef ELSE "NULL"]
<1> HIDE DEF q
<1>1. /\ p \in Userdata /\ p.class = "file" /\ p.held /\ Consistent(p)
      /\ p.closef \in {"io_noclose", "io_fclose", "io_pclose"} /\ p.f # NULL /\ p.f # INVALID
  BY DEF Inv, TypeOK, HandleInv, Consistent, IsFile, isclosed
<1>2. handles' = [handles EXCEPT ![h] = q]
  BY DEF aux_close, q
<1>3. /\ q \in Userdata /\ q.class = "file" /\ q.held /\ q.f = p.f
      /\ q.closef = IF p.closef = "io_noclose" THEN "io_noclose" ELSE "NULL"
  BY <1>1 DEF q, Userdata, Closers
<1>4. handles'[h] = q /\ Changes(h)
  BY <1>2 DEF Inv, TypeOK, Changes
<1>5. Consistent(q)
  BY <1>1, <1>3 DEF Consistent
<1>6. handles' \in [AllHandles -> Userdata] /\ \A g \in AllHandles : Consistent(handles'[g])
  BY <1>2, <1>3, <1>4, <1>5 DEF Inv, TypeOK, HandleInv, Changes
<1>7. \A g \in AllHandles : (IsFile(g) => IsFile(g)') /\ (isclosed(g) => isclosed(g)')
  BY <1>1, <1>3, <1>4 DEF IsFile, isclosed, Changes
<1>8. CASE p.closef = "io_noclose"
  <2>1. UNCHANGED <<os, misused>>
    BY <1>8 DEF aux_close
  <2>2. Owned(h)' = Owned(h) /\ handles'[h].closef = handles[h].closef
    BY <1>3, <1>4, <1>8, <1>1 DEF Owned
  <2>3. OwnerInv'
    BY <1>4, <2>1, <2>2, SameOwners DEF Inv
  <2> QED BY <1>6, <1>7, <1>8, <2>1, <2>3 DEF Inv, TypeOK
<1>9. CASE p.closef # "io_noclose"
  <2>1. os' = [os EXCEPT ![p.f] = Closed] /\ Uses(Valid(p.f, {Kind(p.closef)}))
    BY <1>1, <1>9 DEF aux_close, Kind
  <2>2. Owned(h) = {p.f} /\ Owned(h)' = {}
    BY <1>1, <1>3, <1>4, <1>9 DEF Owned
  <2>3. p.f \in Streams /\ os[p.f].is = Kind(p.closef)
    BY <2>2 DEF Inv, OwnerInv
  <2>4. \A s \in AllStreams : os'[s] = IF s \in Owned(h) THEN Closed ELSE os[s]
    BY <2>1, <2>2, <2>3 DEF Inv, TypeOK, AllStreams
  <2>5. OwnerInv'
    BY <1>4, <2>2, <2>4, OwnerCloses DEF Inv
  <2>6. ~misused'
    BY <2>1, <2>3 DEF Uses, Valid, AllStreams, Inv
  <2>7. os' \in [AllStreams -> [is : {"std", "closed", "file", "pipe", "search", "lock"},
                               of : Directories \cup {"nothing"}]]
    BY <2>1 DEF Inv, TypeOK, Closed
  <2>8. isclosed(h)'
    BY <1>3, <1>4, <1>9 DEF isclosed
  <2> QED BY <1>6, <1>7, <2>5, <2>6, <2>7, <2>8
<1> QED BY <1>8, <1>9
\* lfs.dir, its iterator, the close of a directory, and the locks of directories: the files
\* of the io library stay as they are.
LEMMA DirectoryKeeps ==
  ASSUME Inv, Distinct, NEW h \in Handles,
         \/ \E short \in BOOLEAN : dir_iter_factory(h, short)
         \/ \E more \in BOOLEAN : dir_iter(h, more)
         \/ dir_close(h)
  PROVE  Inv'
<1> DEFINE p == handles[h]
<1>1. h \in AllHandles /\ p \in Userdata /\ Consistent(p)
  BY DEF AllHandles, Inv, TypeOK, HandleInv
<1>2. UNCHANGED <<IO_INPUT, IO_OUTPUT, iterators, lost>>
  BY DEF dir_iter_factory, dir_iter, dir_close
\* It is enough to look at the handle of the directory.
<1>3. ASSUME NEW q \in Userdata, q.class = "dir", Consistent(q), p.class # "file",
             handles' = [handles EXCEPT ![h] = q]
      PROVE  /\ handles' \in [AllHandles -> Userdata] /\ HandleInv'
             /\ handles'[h] = q /\ Changes(h)
  <2>1. handles'[h] = q /\ Changes(h) /\ handles' \in [AllHandles -> Userdata]
    BY <1>1, <1>3 DEF Inv, TypeOK, Changes
  <2>2. \A g \in AllHandles : Consistent(handles'[g])
    BY <1>3, <2>1 DEF Inv, HandleInv, Changes
  <2>3. \A g \in AllHandles : IsFile(g) => IsFile(g)'
    BY <1>3, <2>1 DEF IsFile, Changes
  <2>4. \A i \in iterators : i.file \in AllHandles
    BY DEF Inv, TypeOK
  <2> QED BY <1>2, <2>1, <2>2, <2>3, <2>4 DEF Inv, TypeOK, HandleInv
<1>4. ASSUME NEW short \in BOOLEAN, dir_iter_factory(h, short)
      PROVE  Inv'
  <2>1. PICK q : q = [class |-> "dir", closef |-> "dir_close", f |-> NULL, held |-> short]
    OBVIOUS
  <2>2. q \in Userdata /\ Consistent(q) /\ q.class = "dir"
    BY <2>1 DEF Userdata, Classes, Closers, Consistent
  <2>3. handles' = [handles EXCEPT ![h] = q] /\ p.class = "none" /\ UNCHANGED <<os, misused>>
    BY <1>4, <2>1 DEF dir_iter_factory
  <2>4. handles' \in [AllHandles -> Userdata] /\ HandleInv' /\ handles'[h] = q /\ Changes(h)
    BY <1>3, <2>2, <2>3
  <2>5. Owned(h) = {} /\ Owned(h)' = {}
    BY <2>1, <2>3, <2>4 DEF Owned
  <2>6. OwnerInv'
    BY <1>1, <1>2, <2>3, <2>4, <2>5, SameOwners DEF Inv
  <2> QED BY <1>2, <2>3, <2>4, <2>6 DEF Inv, TypeOK
<1>5. ASSUME NEW more \in BOOLEAN, dir_iter(h, more)
      PROVE  Inv'
  <2>1. p.class = "dir" /\ p.closef = "dir_close" /\ p.f \in Streams \cup {NULL}
    BY <1>1, <1>5 DEF dir_iter, Consistent
  \* The first call finds an entry, or there is none.
  <2>2. CASE p.f = NULL /\ more
    <3>1. /\ NextFree \in Free /\ handles' = [handles EXCEPT ![h] = [p EXCEPT !.f = NextFree]]
          /\ os' = [os EXCEPT ![NextFree] = [is |-> "search", of |-> "nothing"]] /\ UNCHANGED misused
      BY <1>5, <2>2, NextFreeIsFree DEF dir_iter, Opens
    <3>2. NextFree \in Streams /\ NextFree # NULL
      BY <3>1 DEF Free, Distinct
    <3>3. PICK q : q = [p EXCEPT !.f = NextFree]
      OBVIOUS
    <3>4. /\ q \in Userdata /\ q.class = "dir" /\ q.closef = "dir_close" /\ q.f = NextFree
      BY <1>1, <2>1, <3>2, <3>3 DEF Userdata, AllStreams
    <3>5. Consistent(q)
      BY <3>2, <3>4 DEF Consistent
    <3>6. handles' \in [AllHandles -> Userdata] /\ HandleInv' /\ handles'[h] = q /\ Changes(h)
      BY <1>3, <2>1, <3>1, <3>3, <3>4, <3>5
    <3>7. Owned(h) = {} /\ Owned(h)' = {NextFree}
      BY <2>1, <2>2, <3>2, <3>4, <3>6 DEF Owned
    <3>8. PICK r : r = [is |-> "search", of |-> "nothing"]
      OBVIOUS
    <3>9. r.is = Kind(handles'[h].closef)
      BY <3>4, <3>6, <3>8 DEF Kind
    <3>10. OwnerInv'
      BY <1>1, <1>2, <3>1, <3>6, <3>7, <3>8, <3>9, NewOwner DEF Inv
    <3>11. os' \in [AllStreams -> [is : {"std", "closed", "file", "pipe", "search", "lock"},
                                  of : Directories \cup {"nothing"}]]
      BY <3>1 DEF Inv, TypeOK
    <3> QED BY <1>2, <3>1, <3>6, <3>10, <3>11 DEF Inv, TypeOK
  <2>3. CASE p.f = NULL /\ ~more
    <3>1. /\ handles' = [handles EXCEPT ![h] = [p EXCEPT !.f = INVALID, !.closef = "NULL"]]
          /\ UNCHANGED <<os, misused>>
      BY <1>5, <2>3 DEF dir_iter
    <3>2. PICK q : q = [p EXCEPT !.f = INVALID, !.closef = "NULL"]
      OBVIOUS
    <3>3. q \in Userdata /\ q.class = "dir" /\ q.closef = "NULL"
      BY <1>1, <2>1, <3>2 DEF Userdata, Closers
    <3>4. Consistent(q)
      BY <3>3 DEF Consistent
    <3>5. handles' \in [AllHandles -> Userdata] /\ HandleInv' /\ handles'[h] = q /\ Changes(h)
      BY <1>3, <2>1, <3>1, <3>2, <3>3, <3>4
    <3>6. Owned(h) = {} /\ Owned(h)' = {}
      BY <2>1, <2>3, <3>3, <3>5 DEF Owned
    <3>7. OwnerInv'
      BY <1>1, <1>2, <3>1, <3>5, <3>6, SameOwners DEF Inv
    <3> QED BY <1>2, <3>1, <3>5, <3>7 DEF Inv, TypeOK
  <2>4. CASE p.f # NULL
    <3>1. Owned(h) = {p.f} /\ p.f \in Streams
      BY <2>1, <2>4 DEF Owned
    <3>2. os[p.f].is = "search"
      BY <1>1, <2>1, <3>1 DEF Inv, OwnerInv, Kind
    <3>3. ~misused'
      BY <1>5, <2>4, <3>1, <3>2 DEF dir_iter, Uses, Valid, AllStreams, Inv
    <3>4. CASE more
      <4>1. UNCHANGED <<handles, os>>
        BY <1>5, <2>4, <3>4 DEF dir_iter
      <4> QED BY <1>2, <3>3, <4>1, HandlesStay
    <3>5. CASE ~more
      <4>1. /\ handles' = [handles EXCEPT ![h] = [p EXCEPT !.closef = "NULL"]]
            /\ os' = [os EXCEPT ![p.f] = Closed]
        BY <1>5, <2>4, <3>5 DEF dir_iter
      <4>2. PICK q : q = [p EXCEPT !.closef = "NULL"]
        OBVIOUS
      <4>3. q \in Userdata /\ q.class = "dir" /\ q.closef = "NULL"
        BY <1>1, <2>1, <4>2 DEF Userdata, Closers
      <4>4. Consistent(q)
        BY <4>3 DEF Consistent
      <4>5. handles' \in [AllHandles -> Userdata] /\ HandleInv' /\ handles'[h] = q /\ Changes(h)
        BY <1>3, <2>1, <4>1, <4>2, <4>3, <4>4
      <4>6. Owned(h)' = {}
        BY <4>3, <4>5 DEF Owned
      <4>7. \A s \in AllStreams : os'[s] = IF s \in Owned(h) THEN Closed ELSE os[s]
        BY <3>1, <4>1 DEF Inv, TypeOK
      <4>8. OwnerInv'
        BY <1>1, <1>2, <4>5, <4>6, <4>7, OwnerCloses DEF Inv
      <4>9. os' \in [AllStreams -> [is : {"std", "closed", "file", "pipe", "search", "lock"},
                                   of : Directories \cup {"nothing"}]]
        BY <4>1 DEF Inv, TypeOK, Closed
      <4> QED BY <1>2, <3>3, <4>5, <4>8, <4>9 DEF Inv, TypeOK
    <3> QED BY <3>4, <3>5
  <2> QED BY <2>2, <2>3, <2>4
<1>6. CASE dir_close(h)
  <2>1. /\ p.class = "dir" /\ Releases(dir_closes(h), "search")
        /\ handles' = [handles EXCEPT ![h] = [p EXCEPT !.closef = "NULL"]]
    BY <1>6 DEF dir_close
  <2>2. PICK q : q = [p EXCEPT !.closef = "NULL"]
    OBVIOUS
  <2>3. q \in Userdata /\ q.class = "dir" /\ q.closef = "NULL"
    BY <1>1, <2>1, <2>2 DEF Userdata, Closers
  <2>4. Consistent(q)
    BY <2>3 DEF Consistent
  <2>5. handles' \in [AllHandles -> Userdata] /\ HandleInv' /\ handles'[h] = q /\ Changes(h)
    BY <1>3, <2>1, <2>2, <2>3, <2>4
  <2>6. Owned(h)' = {}
    BY <2>3, <2>5 DEF Owned
  <2>7. Owned(h) = dir_closes(h) /\ \A s \in dir_closes(h) : Valid(s, {"search"})
    <3>1. p.closef \in {"NULL", "dir_close"}
      BY <1>1, <2>1 DEF Consistent
    <3>2. Owned(h) = dir_closes(h)
      BY <2>1, <3>1 DEF Owned, dir_closes
    <3>3. p.closef = "NULL" => Owned(h) = {}
      BY <2>1 DEF Owned
    <3>4. Kind("dir_close") = "search"
      BY DEF Kind
    <3> QED BY <1>1, <3>1, <3>2, <3>3, <3>4 DEF Inv, OwnerInv, Valid, AllStreams
  <2>8. ~misused' /\ os' = [s \in AllStreams |-> IF s \in Owned(h) THEN Closed ELSE os[s]]
    BY <2>1, <2>7 DEF Releases, Uses, Inv
  <2>9. OwnerInv'
    BY <1>1, <1>2, <2>5, <2>6, <2>8, OwnerCloses DEF Inv
  <2>10. os' \in [AllStreams -> [is : {"std", "closed", "file", "pipe", "search", "lock"},
                                of : Directories \cup {"nothing"}]]
    BY <2>8 DEF Inv, TypeOK, Closed
  <2> QED BY <1>2, <2>5, <2>8, <2>9, <2>10 DEF Inv, TypeOK
<1> QED BY <1>4, <1>5, <1>6
LEMMA LockKeeps ==
  ASSUME Inv, Distinct, NEW h \in Handles,
         \/ \E path \in Directories, memory \in BOOLEAN : lfs_lock_dir(h, path, memory)
         \/ lfs_unlock_dir(h)
  PROVE  Inv'
<1> DEFINE p == handles[h]
<1>1. h \in AllHandles /\ p \in Userdata /\ Consistent(p)
  BY DEF AllHandles, Inv, TypeOK, HandleInv
<1>2. UNCHANGED <<IO_INPUT, IO_OUTPUT, iterators>>
  BY DEF lfs_lock_dir, lfs_unlock_dir
<1>3. ASSUME NEW q \in Userdata, q.class = "lock", Consistent(q), p.class # "file",
             handles' = [handles EXCEPT ![h] = q]
      PROVE  /\ handles' \in [AllHandles -> Userdata] /\ HandleInv'
             /\ handles'[h] = q /\ Changes(h)
  <2>1. handles'[h] = q /\ Changes(h) /\ handles' \in [AllHandles -> Userdata]
    BY <1>1, <1>3 DEF Inv, TypeOK, Changes
  <2>2. \A g \in AllHandles : Consistent(handles'[g])
    BY <1>3, <2>1 DEF Inv, HandleInv, Changes
  <2>3. \A g \in AllHandles : IsFile(g) => IsFile(g)'
    BY <1>3, <2>1 DEF IsFile, Changes
  <2>4. \A i \in iterators : i.file \in AllHandles
    BY DEF Inv, TypeOK
  <2> QED BY <1>2, <2>1, <2>2, <2>3, <2>4 DEF Inv, TypeOK, HandleInv
<1>4. ASSUME NEW path \in Directories, NEW memory \in BOOLEAN, lfs_lock_dir(h, path, memory)
      PROVE  Inv'
  <2>1. /\ p.class = "none" /\ NextFree \in Free /\ UNCHANGED misused
        /\ os' = [os EXCEPT ![NextFree] = [is |-> "lock", of |-> path]]
    BY <1>4, NextFreeIsFree DEF lfs_lock_dir, Opens
  <2>2. NextFree \in Streams \ lost /\ NextFree \notin Standard \cup {NULL, INVALID} /\ os[NextFree].is = "closed"
    BY <2>1 DEF Free, Distinct, Inv, OwnerInv
  <2>3. os' \in [AllStreams -> [is : {"std", "closed", "file", "pipe", "search", "lock"},
                               of : Directories \cup {"nothing"}]]
    BY <2>1 DEF Inv, TypeOK
  <2>4. CASE memory
    <3>1. PICK q : q = [class |-> "lock", closef |-> "CloseHandle", f |-> NextFree, held |-> TRUE]
      OBVIOUS
    <3>2. q \in Userdata /\ q.class = "lock" /\ q.f = NextFree /\ q.closef = "CloseHandle"
      BY <2>2, <3>1 DEF Userdata, Classes, Closers, AllStreams
    <3>3. Consistent(q)
      BY <2>2, <3>2 DEF Consistent
    <3>4. handles' = [handles EXCEPT ![h] = q] /\ UNCHANGED lost
      BY <1>4, <2>4, <3>1 DEF lfs_lock_dir
    <3>5. handles' \in [AllHandles -> Userdata] /\ HandleInv' /\ handles'[h] = q /\ Changes(h)
      BY <1>3, <2>1, <3>2, <3>3, <3>4
    <3>6. Owned(h) = {} /\ Owned(h)' = {NextFree}
      BY <2>1, <2>2, <3>2, <3>5 DEF Owned
    <3>7. PICK r : r = [is |-> "lock", of |-> path]
      OBVIOUS
    <3>8. r.is = Kind(handles'[h].closef)
      BY <3>2, <3>5, <3>7 DEF Kind
    <3>9. OwnerInv'
      BY <1>1, <2>1, <3>4, <3>5, <3>6, <3>7, <3>8, NewOwner DEF Inv
    <3> QED BY <1>2, <2>1, <2>3, <3>4, <3>5, <3>9 DEF Inv, TypeOK
  \* Without memory the stream is lost: no handle had it before, and none gets it.
  <2>5. CASE ~memory
    <3>1. handles' = handles /\ lost' = lost \cup {NextFree}
      BY <1>4, <2>5 DEF lfs_lock_dir
    <3>2. \A g \in AllHandles : Owned(g)' = Owned(g) /\ NextFree \notin Owned(g)
      BY <2>2, <3>1, OwnersAreOpen DEF Owned, Inv, OwnerInv
    <3>3. \A s \in AllStreams : os'[s] = IF s = NextFree THEN [is |-> "lock", of |-> path] ELSE os[s]
      BY <2>1 DEF Inv, TypeOK
    <3>4. OwnerInv'
      <4>1. \A g \in AllHandles : \A s \in Owned(g)' :
              s \in Streams \ lost' /\ os'[s].is = Kind(handles'[g].closef)
        BY <3>1, <3>2, <3>3 DEF Inv, OwnerInv, AllStreams
      <4>2. \A s \in Streams \ lost' : os'[s].is # "closed" => \E g \in AllHandles : s \in Owned(g)'
        BY <3>1, <3>2, <3>3 DEF Inv, OwnerInv, AllStreams
      <4>3. \A g, k \in AllHandles : g # k => Owned(g)' \cap Owned(k)' = {}
        BY <3>2 DEF Inv, OwnerInv
      <4>4. \A s \in lost' : os'[s].is = "lock"
        BY <2>2, <3>1, <3>3 DEF Inv, OwnerInv, TypeOK, AllStreams
      <4>5. \A s \in Standard : os'[s].is = "std"
        BY <2>2, <3>3 DEF Inv, OwnerInv, AllStreams
      <4> QED BY <4>1, <4>2, <4>3, <4>4, <4>5 DEF OwnerInv
    <3>5. HandleInv' /\ TypeOK'
      BY <1>2, <2>2, <2>3, <3>1 DEF Inv, TypeOK, HandleInv, IsFile
    <3> QED BY <2>1, <3>4, <3>5 DEF Inv
  <2> QED BY <2>4, <2>5
<1>5. CASE lfs_unlock_dir(h)
  <2>1. /\ p.class = "lock" /\ Releases(unlock_closes(h), "lock") /\ UNCHANGED lost
        /\ handles' = [handles EXCEPT ![h] = [p EXCEPT !.f = INVALID]]
    BY <1>5 DEF lfs_unlock_dir, Released
  <2>2. PICK q : q = [p EXCEPT !.f = INVALID]
    OBVIOUS
  <2>3. q \in Userdata /\ q.class = "lock" /\ q.f = INVALID /\ q.closef = "CloseHandle"
    BY <1>1, <2>1, <2>2 DEF Userdata, Consistent
  <2>4. Consistent(q)
    BY <2>3 DEF Consistent
  <2>5. handles' \in [AllHandles -> Userdata] /\ HandleInv' /\ handles'[h] = q /\ Changes(h)
    BY <1>3, <2>1, <2>2, <2>3, <2>4
  <2>6. Owned(h)' = {} /\ Owned(h) = unlock_closes(h)
    BY <2>1, <2>3, <2>5 DEF Owned, unlock_closes
  <2>7. \A s \in Owned(h) : Valid(s, {"lock"})
    <3>1. Kind(p.closef) = "lock"
      BY <1>1, <2>1 DEF Consistent, Kind
    <3> QED BY <1>1, <3>1 DEF Inv, OwnerInv, Valid, AllStreams
  <2>8. ~misused' /\ os' = [s \in AllStreams |-> IF s \in Owned(h) THEN Closed ELSE os[s]]
    BY <2>1, <2>6, <2>7 DEF Releases, Uses, Inv
  <2>9. OwnerInv'
    BY <1>1, <2>1, <2>5, <2>6, <2>8, OwnerCloses DEF Inv
  <2>10. os' \in [AllStreams -> [is : {"std", "closed", "file", "pipe", "search", "lock"},
                                of : Directories \cup {"nothing"}]]
    BY <2>8 DEF Inv, TypeOK, Closed
  <2> QED BY <1>2, <2>1, <2>5, <2>8, <2>9, <2>10 DEF Inv, TypeOK
<1> QED BY <1>4, <1>5
\* The collector closes what a handle still owns, and takes the handle.
LEMMA CollectKeeps ==
  ASSUME Inv, Distinct, NEW h \in Handles, Collect(h)
  PROVE  Inv'
<1> DEFINE p == handles[h]
<1>1. /\ h \in AllHandles /\ p \in Userdata /\ Consistent(p) /\ p.class # "none"
      /\ h \notin {IO_INPUT, IO_OUTPUT} /\ \A i \in iterators : i.file # h
      /\ UNCHANGED <<IO_INPUT, IO_OUTPUT, iterators, lost>>
  BY DEF AllHandles, Inv, TypeOK, HandleInv, Collect
<1>2. handles' = [handles EXCEPT ![h] = Absent]
  BY DEF Collect
<1>3. Absent \in Userdata /\ Absent.class = "none" /\ Consistent(Absent)
  BY DEF Absent, Userdata, Classes, Closers, Consistent
<1>4. handles'[h] = Absent /\ Changes(h) /\ handles' \in [AllHandles -> Userdata]
  BY <1>1, <1>2, <1>3 DEF Inv, TypeOK, Changes
<1>5. HandleInv'
  <2>1. \A g \in AllHandles : Consistent(handles'[g])
    BY <1>3, <1>4 DEF Inv, HandleInv, Changes
  <2>2. \A g \in AllHandles \ {h} : IsFile(g) => IsFile(g)'
    BY <1>4 DEF IsFile, Changes
  <2>3. \A i \in iterators : i.file \in AllHandles
    BY DEF Inv, TypeOK
  <2> QED BY <1>1, <2>1, <2>2, <2>3 DEF Inv, TypeOK, HandleInv
<1>6. Owned(h)' = {}
  BY <1>3, <1>4 DEF Owned
<1>7. CASE p.class = "file" /\ (p.closef \in {"NULL", "io_noclose"} \/ p.f = NULL)
  <2>1. UNCHANGED <<os, misused>>
    BY <1>7 DEF Collect, isclosed
  <2>2. Owned(h) = {}
    BY <1>7 DEF Owned
  <2>3. OwnerInv'
    BY <1>1, <1>4, <1>6, <2>1, <2>2, SameOwners DEF Inv
  <2> QED BY <1>1, <1>4, <1>5, <2>1, <2>3 DEF Inv, TypeOK
<1>8. CASE ~(p.class = "file" /\ (p.closef \in {"NULL", "io_noclose"} \/ p.f = NULL))
  <2>1. Releases(Owned(h), Kind(p.closef)) \/ (Owned(h) = {} /\ \E k \in {"search", "lock"} : Releases(Owned(h), k))
    <3>1. CASE p.class = "file"
      <4>1. p.closef \in {"io_fclose", "io_pclose"} /\ Owned(h) = {p.f}
        BY <1>1, <1>8, <3>1 DEF Consistent, Owned
      <4>2. Kind(p.closef) = IF p.closef = "io_pclose" THEN "pipe" ELSE "file"
        BY <4>1 DEF Kind
      <4> QED BY <1>8, <3>1, <4>1, <4>2 DEF Collect, isclosed
    <3>2. CASE p.class = "dir"
      <4>1. Releases(dir_closes(h), "search")
        BY <3>2 DEF Collect
      <4>2. p.closef \in {"NULL", "dir_close"}
        BY <1>1, <3>2 DEF Consistent
      <4>3. dir_closes(h) = Owned(h) /\ (p.closef = "NULL" => Owned(h) = {})
        BY <3>2, <4>2 DEF Owned, dir_closes
      <4>4. p.closef = "dir_close" => Kind(p.closef) = "search"
        BY DEF Kind
      <4> QED BY <4>1, <4>2, <4>3, <4>4
    <3>3. CASE p.class = "lock"
      <4>1. Releases(unlock_closes(h), "lock")
        BY <3>3 DEF Collect
      <4>2. unlock_closes(h) = Owned(h)
        BY <3>3 DEF Owned, unlock_closes
      <4>3. Kind(p.closef) = "lock"
        BY <1>1, <3>3 DEF Consistent, Kind
      <4> QED BY <4>1, <4>2, <4>3
    <3> QED BY <1>1, <3>1, <3>2, <3>3 DEF Userdata, Classes
  <2>2. \A s \in Owned(h) : Valid(s, {Kind(p.closef)})
    BY <1>1 DEF Inv, OwnerInv, Valid, AllStreams
  <2>3. ~misused' /\ os' = [s \in AllStreams |-> IF s \in Owned(h) THEN Closed ELSE os[s]]
    BY <2>1, <2>2 DEF Releases, Uses, Inv
  <2>4. OwnerInv'
    BY <1>1, <1>4, <1>6, <2>3, OwnerCloses DEF Inv
  <2>5. os' \in [AllStreams -> [is : {"std", "closed", "file", "pipe", "search", "lock"},
                               of : Directories \cup {"nothing"}]]
    BY <2>3 DEF Inv, TypeOK, Closed
  <2> QED BY <1>1, <1>4, <1>5, <2>3, <2>4, <2>5 DEF Inv, TypeOK
<1> QED BY <1>7, <1>8

-----------------------------------------------------------------------------
LEMMA InitHolds == ASSUME Init, Distinct PROVE Inv
<1>1. /\ handles["stdin"] = createstdfile(stdin) /\ handles["stdout"] = createstdfile(stdout)
      /\ \A h \in Handles : handles[h] = Absent
  BY DEF Init, AllHandles, Distinct
<1>2. /\ createstdfile(stdin) \in Userdata /\ createstdfile(stdout) \in Userdata /\ Absent \in Userdata
      /\ Consistent(createstdfile(stdin)) /\ Consistent(createstdfile(stdout)) /\ Consistent(Absent)
  BY DEF createstdfile, File, Absent, Userdata, Classes, Closers, Consistent, AllStreams, Standard,
         stdin, stdout, NULL, INVALID
<1>3. handles \in [AllHandles -> Userdata] /\ \A h \in AllHandles : Consistent(handles[h])
  BY <1>1, <1>2 DEF Init, AllHandles
<1>4. TypeOK
  <2> DEFINE Record == [is : {"std", "closed", "file", "pipe", "search", "lock"},
                        of : Directories \cup {"nothing"}]
  <2>1. [is |-> "std", of |-> "nothing"] \in Record /\ Closed \in Record
    BY DEF Closed
  <2> HIDE DEF Record
  <2>2. os \in [AllStreams -> Record]
    BY <2>1, Zenon DEF Init
  <2>3. IO_INPUT \in AllHandles /\ IO_OUTPUT \in AllHandles
    BY DEF Init, AllHandles
  <2>4. lost \subseteq Streams /\ iterators \subseteq [file : AllHandles, toclose : BOOLEAN, ended : BOOLEAN]
    BY Zenon DEF Init
  <2> QED BY <1>3, <2>2, <2>3, <2>4, Zenon DEF TypeOK, Record
<1>5. HandleInv
  <2>1. \A f : createstdfile(f).class = "file" /\ createstdfile(f).held
    BY Zenon DEF createstdfile, File
  <2>2. IsFile("stdin") /\ IsFile("stdout")
    BY <1>1, <2>1, Zenon DEF IsFile
  <2>3. \A i \in iterators : IsFile(i.file)
    BY Zenon DEF Init
  <2> QED BY <1>3, <2>2, <2>3, Zenon DEF Init, HandleInv
<1>6. \A h \in AllHandles : Owned(h) = {}
  BY <1>1 DEF AllHandles, Owned, createstdfile, File, Absent
<1>7. OwnerInv
  BY <1>6 DEF Init, OwnerInv, AllStreams, Closed, Standard, Distinct
<1> QED BY <1>4, <1>5, <1>7 DEF Init, Inv

\* Files stay files, and what is closed stays closed; only their own closing changes them.
LEMMA FilesStay ==
  ASSUME Inv, NEW h \in AllHandles, handles[h].class # "file", Changes(h)
  PROVE  \A g \in AllHandles : IsFile(g) => handles'[g] = handles[g]
BY DEF Changes, IsFile

\* An iterator that is to close its file has one that can be closed, and has closed it
\* when it has come to its end.
LoopInv ==
  \A i \in iterators : i.toclose => /\ handles[i.file].closef # "io_noclose"
                                    /\ i.ended => isclosed(i.file)
LEMMA StepKeeps ==
  ASSUME Inv, LoopInv, Distinct, [Next]_vars
  PROVE  Inv' /\ LoopInv'
<1>1. ASSUME NEW h \in Handles, NEW is \in {"file", "pipe"}, NEW opened \in BOOLEAN,
             Open(h, is, opened), UNCHANGED <<lost, misused>>,
             IO_INPUT' = IO_INPUT \/ (opened /\ IO_INPUT' = h),
             IO_OUTPUT' = IO_OUTPUT \/ (opened /\ IO_OUTPUT' = h),
             iterators' = iterators \/ (opened /\ iterators' = iterators \cup {Iterator(h, TRUE)})
      PROVE  Inv' /\ LoopInv'
  <2>1. /\ handles' \in [AllHandles -> Userdata]
        /\ os' \in [AllStreams -> [is : {"std", "closed", "file", "pipe", "search", "lock"},
                                   of : Directories \cup {"nothing"}]]
        /\ \A g \in AllHandles : Consistent(handles'[g])
        /\ \A g \in AllHandles : IsFile(g) => IsFile(g)' /\ isclosed(g)' = isclosed(g)
        /\ opened => IsFile(h)'
        /\ OwnerInv'
    BY <1>1, OpenKeeps
  <2>2. h \in AllHandles
    BY DEF AllHandles
  <2>3. \A i \in iterators : i.file \in AllHandles /\ i.file # h
    BY <1>1 DEF Inv, TypeOK, HandleInv, IsFile, Open
  <2>4. opened => Iterator(h, TRUE) \in [file : AllHandles, toclose : BOOLEAN, ended : BOOLEAN]
    BY <2>2 DEF Iterator
  <2>5. TypeOK'
    BY <1>1, <2>1, <2>2, <2>4 DEF Inv, TypeOK
  <2>6. HandleInv'
    BY <1>1, <2>1, <2>3 DEF Inv, HandleInv, TypeOK, Iterator
  <2>7. LoopInv'
    <3>1. handles' = [handles EXCEPT ![h] = File(IF is = "pipe" THEN "io_pclose" ELSE "io_fclose",
                                                 IF opened THEN NextFree ELSE NULL, opened)]
      BY <1>1 DEF Open
    <3>2. handles'[h].closef # "io_noclose" /\ \A g \in AllHandles \ {h} : handles'[g] = handles[g]
      BY <2>2, <3>1 DEF Inv, TypeOK, File
    <3>3. \A i \in iterators : i.toclose => /\ handles'[i.file].closef # "io_noclose"
                                            /\ i.ended => isclosed(i.file)'
      BY <2>3, <3>2 DEF LoopInv, isclosed
    <3> QED BY <1>1, <3>2, <3>3 DEF LoopInv, Iterator
  <2> QED BY <1>1, <2>1, <2>5, <2>6, <2>7 DEF Inv
<1>2. ASSUME NEW h \in Handles, NEW opened \in BOOLEAN,
             io_open(h, opened) \/ io_popen(h, opened) \/ io_lines_name(h, opened)
      PROVE  Inv' /\ LoopInv'
  <2>1. (\E is \in {"file", "pipe"} : Open(h, is, opened)) /\ UNCHANGED <<lost, misused, IO_INPUT, IO_OUTPUT>>
    BY <1>2 DEF io_open, io_popen, io_lines_name, Others
  <2>2. iterators' = iterators \/ (opened /\ iterators' = iterators \cup {Iterator(h, TRUE)})
    BY <1>2 DEF io_open, io_popen, io_lines_name, Others
  <2> QED BY <1>1, <2>1, <2>2
<1>3. ASSUME NEW h \in Handles, NEW opened \in BOOLEAN, NEW input \in BOOLEAN,
             g_iofile_name(h, opened, input)
      PROVE  Inv' /\ LoopInv'
  <2>1. Open(h, "file", opened) /\ UNCHANGED <<iterators, lost, misused>>
    BY <1>3 DEF g_iofile_name
  <2>2. /\ IO_INPUT' = IO_INPUT \/ (opened /\ IO_INPUT' = h)
        /\ IO_OUTPUT' = IO_OUTPUT \/ (opened /\ IO_OUTPUT' = h)
    BY <1>3 DEF g_iofile_name
  <2> QED BY <1>1, <2>1, <2>2
\* Directories and locks, and the collector: no iterator has a file that they change.
<1>4. ASSUME NEW h \in Handles,
             \/ \E short \in BOOLEAN : dir_iter_factory(h, short)
             \/ \E more \in BOOLEAN : dir_iter(h, more)
             \/ dir_close(h) \/ lfs_unlock_dir(h) \/ Collect(h)
             \/ \E path \in Directories, memory \in BOOLEAN : lfs_lock_dir(h, path, memory)
      PROVE  Inv' /\ LoopInv'
  <2>1. Inv'
    BY <1>4, DirectoryKeeps, LockKeeps, CollectKeeps
  <2>2. iterators' = iterators /\ \A g \in AllHandles \ {h} : handles'[g] = handles[g]
    BY <1>4 DEF Inv, TypeOK, dir_iter_factory, dir_iter, dir_close, lfs_unlock_dir, Released, Collect,
                lfs_lock_dir
  <2>3. (\A i \in iterators : i.file # h) \/ handles' = handles
    <3>1. (\A i \in iterators : i.file # h) \/ handles[h].class = "file"
      BY DEF Inv, HandleInv, IsFile
    <3> QED BY <1>4, <3>1 DEF dir_iter_factory, dir_iter, dir_close, lfs_unlock_dir, Collect, lfs_lock_dir
  <2>4. \A i \in iterators : i.file \in AllHandles
    BY DEF Inv, TypeOK
  <2>5. \A i \in iterators : handles'[i.file] = handles[i.file]
    BY <2>2, <2>3, <2>4
  <2>6. LoopInv'
    BY <2>2, <2>5 DEF LoopInv, isclosed
  <2> QED BY <2>1, <2>6
<1>5. ASSUME NEW h \in AllHandles, IsFile(h), ~isclosed(h), aux_close(h), UNCHANGED <<IO_INPUT, IO_OUTPUT, lost>>,
             NEW i \in [file : AllHandles, toclose : BOOLEAN, ended : BOOLEAN],
             iterators' = iterators \/ (i \in iterators /\ i.file = h /\ i.toclose /\
                                         iterators' = (iterators \ {i}) \cup {[i EXCEPT !.ended = TRUE]})
      PROVE  Inv' /\ LoopInv'
  <2>1. /\ handles' \in [AllHandles -> Userdata]
        /\ os' \in [AllStreams -> [is : {"std", "closed", "file", "pipe", "search", "lock"},
                                   of : Directories \cup {"nothing"}]]
        /\ \A g \in AllHandles : Consistent(handles'[g])
        /\ \A g \in AllHandles : (IsFile(g) => IsFile(g)') /\ (isclosed(g) => isclosed(g)')
        /\ handles[h].closef # "io_noclose" => isclosed(h)'
        /\ OwnerInv' /\ ~misused'
    BY <1>5, CloseKeeps
  <2>2. PICK e : e = [i EXCEPT !.ended = TRUE]
    OBVIOUS
  <2>3. /\ e \in [file : AllHandles, toclose : BOOLEAN, ended : BOOLEAN]
        /\ e.file = i.file /\ e.toclose = i.toclose
    BY <2>2
  <2>4. iterators' = iterators \/ (i \in iterators /\ i.file = h /\ i.toclose /\ iterators' = (iterators \ {i}) \cup {e})
    BY <1>5, <2>2
  <2>5. TypeOK'
    BY <1>5, <2>1, <2>3, <2>4 DEF Inv, TypeOK
  <2>6. \A j \in iterators : j.file \in AllHandles
    BY DEF Inv, TypeOK
  <2>7. HandleInv'
    BY <1>5, <2>1, <2>3, <2>4, <2>6 DEF Inv, TypeOK, HandleInv
  <2>8. \A g \in AllHandles : handles[g].closef # "io_noclose" => handles'[g].closef # "io_noclose"
    BY <1>5 DEF aux_close, Inv, TypeOK
  <2>9. \A j \in iterators : j.toclose => /\ handles'[j.file].closef # "io_noclose"
                                          /\ j.ended => isclosed(j.file)'
    BY <2>1, <2>6, <2>8 DEF LoopInv
  <2>10. i \in iterators /\ i.file = h /\ i.toclose => handles'[e.file].closef # "io_noclose" /\ isclosed(e.file)'
    BY <2>1, <2>3, <2>9 DEF LoopInv
  <2>11. LoopInv'
    BY <2>4, <2>9, <2>10 DEF LoopInv
  <2> QED BY <2>1, <2>5, <2>7, <2>11 DEF Inv
<1>6. ASSUME NEW h \in AllHandles, io_close(h)
      PROVE  Inv' /\ LoopInv'
  <2>1. PICK i : i \in [file : AllHandles, toclose : BOOLEAN, ended : BOOLEAN]
    <3>1. [file |-> h, toclose |-> TRUE, ended |-> TRUE] \in [file : AllHandles, toclose : BOOLEAN, ended : BOOLEAN]
      OBVIOUS
    <3> QED BY <3>1
  <2> QED BY <1>5, <1>6, <2>1 DEF io_close
<1>7. ASSUME NEW h \in AllHandles, Use(h) \/ f_lines(h) \/ \E input \in BOOLEAN : g_iofile(h, input)
      PROVE  Inv' /\ LoopInv'
  <2>1. IsFile(h) /\ ~isclosed(h) /\ Usable(h)
    BY <1>7, OpenFilesAreUsable DEF Use, f_lines, g_iofile, Inv, HandleInv
  <2>2. UNCHANGED <<handles, os, lost>> /\ ~misused'
    <3>1. UNCHANGED <<handles, os, lost>> /\ (Uses(Usable(h)) \/ misused' = misused)
      BY <1>7, Zenon DEF Use, f_lines, g_iofile
    <3>2. Uses(Usable(h)) => ~misused'
      BY <2>1, Zenon DEF Uses, Inv
    <3>3. misused' = misused => ~misused'
      BY DEF Inv
    <3> QED BY <3>1, <3>2, <3>3, Zenon
  <2>3. /\ IO_INPUT' \in {IO_INPUT, h} /\ IO_OUTPUT' \in {IO_OUTPUT, h}
        /\ iterators' \in {iterators, iterators \cup {Iterator(h, FALSE)}}
    BY <1>7 DEF Use, f_lines, g_iofile
  <2>4. /\ Iterator(h, FALSE) \in [file : AllHandles, toclose : BOOLEAN, ended : BOOLEAN]
        /\ Iterator(h, FALSE).file = h /\ ~Iterator(h, FALSE).toclose
    BY DEF Iterator
  <2>5. TypeOK'
    BY <2>2, <2>3, <2>4 DEF Inv, TypeOK
  <2>6. HandleInv'
    BY <2>1, <2>2, <2>3, <2>4 DEF Inv, HandleInv, IsFile
  <2>7. OwnerInv'
    <3>1. \A g \in AllHandles : Owned(g)' = Owned(g)
      BY <2>2 DEF Owned
    <3> QED BY <2>2, <3>1 DEF Inv, OwnerInv
  <2>8. LoopInv'
    BY <2>2, <2>3, <2>4 DEF LoopInv, isclosed
  <2> QED BY <2>2, <2>5, <2>6, <2>7, <2>8 DEF Inv
<1>8. ASSUME NEW i \in iterators, Forget(i)
      PROVE  Inv' /\ LoopInv'
  <2>1. UNCHANGED <<handles, os, IO_INPUT, IO_OUTPUT, lost, misused>> /\ iterators' \subseteq iterators
    BY <1>8 DEF Forget
  <2>2. TypeOK' /\ HandleInv'
    BY <2>1 DEF Inv, TypeOK, HandleInv, IsFile
  <2>3. OwnerInv'
    <3>1. \A g \in AllHandles : Owned(g)' = Owned(g)
      BY <2>1 DEF Owned
    <3> QED BY <2>1, <3>1 DEF Inv, OwnerInv
  <2>4. LoopInv'
    BY <2>1 DEF LoopInv, isclosed
  <2> QED BY <2>1, <2>2, <2>3, <2>4 DEF Inv
<1>9. ASSUME NEW i \in iterators, NEW reads \in {"some", "eof", "error"}, io_readline(i, reads)
      PROVE  Inv' /\ LoopInv'
  <2>1. /\ i \in [file : AllHandles, toclose : BOOLEAN, ended : BOOLEAN] /\ i.file \in AllHandles
        /\ IsFile(i.file) /\ ~isclosed(i.file) /\ UNCHANGED <<IO_INPUT, IO_OUTPUT, lost>>
    BY <1>9 DEF Inv, TypeOK, HandleInv, io_readline
  <2>2. CASE reads = "eof" /\ i.toclose
    BY <1>5, <1>9, <2>1, <2>2 DEF io_readline
  <2>3. CASE ~(reads = "eof" /\ i.toclose)
    <3>1. UNCHANGED <<handles, os>> /\ ~misused'
      BY <1>9, <2>1, <2>3, OpenFilesAreUsable DEF io_readline, Uses, Inv
    <3>2. PICK e : e = [i EXCEPT !.ended = TRUE]
      OBVIOUS
    <3>3. /\ e \in [file : AllHandles, toclose : BOOLEAN, ended : BOOLEAN]
          /\ e.file = i.file /\ e.toclose = i.toclose
      BY <2>1, <3>2
    <3>4. iterators' = iterators \/ (~i.toclose /\ iterators' = (iterators \ {i}) \cup {e})
      BY <1>9, <2>3, <3>2 DEF io_readline
    <3>5. TypeOK' /\ HandleInv'
      BY <2>1, <3>1, <3>3, <3>4 DEF Inv, TypeOK, HandleInv, IsFile
    <3>6. OwnerInv'
      <4>1. \A g \in AllHandles : Owned(g)' = Owned(g)
        BY <3>1 DEF Owned
      <4> QED BY <2>1, <3>1, <4>1 DEF Inv, OwnerInv
    <3>7. LoopInv'
      BY <3>1, <3>3, <3>4 DEF LoopInv, isclosed
    <3> QED BY <3>1, <3>5, <3>6, <3>7 DEF Inv
  <2> QED BY <2>2, <2>3
<1>10. CASE UNCHANGED vars
  <2>1. UNCHANGED <<handles, os, IO_INPUT, IO_OUTPUT, iterators, lost>> /\ ~misused'
    BY <1>10 DEF vars, Inv
  <2> QED BY <2>1, HandlesStay DEF LoopInv, isclosed
<1> QED BY <1>2, <1>3, <1>4, <1>6, <1>7, <1>8, <1>9, <1>10 DEF Next

\* Each stream the system has open is that of one handle, which closes it once, as it was
\* opened, and does not use it afterwards; only a lock for which there is no memory is lost.
THEOREM StreamsHaveTheirHandles ==
  ASSUME Distinct
  PROVE  Spec => []EachStreamHasItsHandle
<1>1. Init => Inv /\ LoopInv
  BY InitHolds DEF Init, LoopInv
<1>2. Inv /\ LoopInv /\ [Next]_vars => Inv' /\ LoopInv'
  BY StepKeeps
<1>3. Inv => EachStreamHasItsHandle
  <2> SUFFICES ASSUME Inv PROVE EachStreamHasItsHandle
    OBVIOUS
  <2>1. \A s \in Streams \ lost : os[s].is # "closed" =>
          \E h \in AllHandles : s \in Owned(h) /\ \A g \in AllHandles \ {h} : s \notin Owned(g)
    BY DEF Inv, OwnerInv
  <2> QED BY <2>1 DEF Inv, OwnerInv, EachStreamHasItsHandle
<1> QED BY <1>1, <1>2, <1>3, PTL DEF Spec

\* A loop over the lines of a named file has closed it when it has come to its end.
THEOREM LoopsClose ==
  ASSUME Distinct
  PROVE  Spec => []LoopsCloseTheirFiles
<1>1. Init => Inv /\ LoopInv
  BY InitHolds DEF Init, LoopInv
<1>2. Inv /\ LoopInv /\ [Next]_vars => Inv' /\ LoopInv'
  BY StepKeeps
<1>3. LoopInv => LoopsCloseTheirFiles
  BY DEF LoopInv, LoopsCloseTheirFiles
<1> QED BY <1>1, <1>2, <1>3, PTL DEF Spec


-----------------------------------------------------------------------------
(* SocketNumbers and loops                                                        *)

LEMMA LeastNumber ==
  ASSUME NEW N, N \subseteq Nat, N # {}
  PROVE  \E n \in N : \A m \in N : n <= m
<1> DEFINE R == {ss \in Nat \X Nat : ss[1] < ss[2]}
<1>1. OpToRel(<, Nat) = R
  BY Zenon DEF OpToRel
<1>2. IsWellFoundedOn(R, Nat)
  BY <1>1, NatLessThanWellFounded, Zenon
<1> HIDE DEF R
<1>3. PICK n \in N : \A m \in N : ~(<<m, n>> \in R)
  BY <1>2, WFMin
<1>4. ASSUME NEW m \in N PROVE n <= m
  <2>1. m \in Nat /\ n \in Nat
    OBVIOUS
  <2>2. m < n => <<m, n>> \in R
    BY <2>1 DEF R
  <2>3. ~(m < n)
    BY <1>3, <2>2
  <2> QED BY <2>1, <2>3
<1> QED BY <1>4

\* Induction, over a set of numbers.
LEMMA FromZero ==
  ASSUME NEW N, 0 \in N, \A n \in Nat : n \in N => n + 1 \in N
  PROVE  Nat \subseteq N
<1> SUFFICES ASSUME Nat \ N # {} PROVE FALSE
  OBVIOUS
<1>1. PICK n \in Nat \ N : \A m \in Nat \ N : n <= m
  <2> DEFINE M == Nat \ N
  <2>1. M \subseteq Nat /\ M # {}
    OBVIOUS
  <2> HIDE DEF M
  <2>2. \E n \in M : \A m \in M : n <= m
    BY <2>1, LeastNumber
  <2> QED BY <2>2 DEF M
<1>2. n - 1 \in Nat /\ ~(n <= n - 1)
  BY <1>1
<1>3. n - 1 \in N
  BY <1>1, <1>2
<1>4. n - 1 + 1 \in N
  BY <1>2, <1>3
<1> QED BY <1>1, <1>4

\* A loop goes through its inputs.
Runs(f, b, G, A, k) ==
  f \in [0..k -> A] /\ f[0] = b /\ \A n \in 1..k : f[n] = G[n][f[n - 1]]

LEMMA Iterates ==
  ASSUME NEW k \in Nat, NEW A, NEW b \in A, NEW G \in [1..k -> [A -> A]]
  PROVE  \E f : Runs(f, b, G, A, k)
<1> DEFINE Begins(f, n) == f[0] = b /\ \A i \in 1..n : f[i] = G[i][f[i - 1]]
           N == {n \in Nat : n <= k => \E f \in [0..n -> A] : Begins(f, n)}
<1>1. 0 \in N
  <2>1. [i \in 0..0 |-> b] \in [0..0 -> A] /\ Begins([i \in 0..0 |-> b], 0)
    OBVIOUS
  <2> QED BY <2>1
<1>2. ASSUME NEW n \in Nat, n \in N PROVE n + 1 \in N
  <2> SUFFICES ASSUME n + 1 <= k PROVE \E f \in [0 .. n + 1 -> A] : Begins(f, n + 1)
    OBVIOUS
  <2>1. PICK g \in [0..n -> A] : Begins(g, n)
    BY <1>2
  <2> DEFINE f == [i \in 0 .. n + 1 |-> IF i = n + 1 THEN G[i][g[n]] ELSE g[i]]
  <2>2. n + 1 \in 1..k /\ g[n] \in A
    OBVIOUS
  <2>3. G[n + 1][g[n]] \in A
    BY <2>2
  <2>4. f \in [0 .. n + 1 -> A]
    BY <2>3
  <2>5. f[0] = b /\ f[n + 1] = G[n + 1][g[n]] /\ \A i \in 0..n : f[i] = g[i]
    BY <2>1
  <2>6. ASSUME NEW i \in 1 .. n + 1 PROVE f[i] = G[i][f[i - 1]]
    <3>1. i - 1 \in 0..n /\ f[i - 1] = g[i - 1]
      BY <2>5
    <3>2. CASE i = n + 1
      BY <2>5, <3>1, <3>2
    <3>3. CASE i # n + 1
      <4>1. i \in 1..n /\ i \in 0..n
        BY <3>3
      <4> HIDE DEF f
      <4> QED BY <2>1, <2>5, <3>1, <4>1
    <3> QED BY <3>2, <3>3
  <2> HIDE DEF f
  <2>7. Begins(f, n + 1)
    BY <2>5, <2>6
  <2> QED BY <2>4, <2>7
<1> HIDE DEF N
<1>3. k \in N
  BY <1>1, <1>2, FromZero
<1>4. PICK f \in [0..k -> A] : Begins(f, k)
  BY <1>3 DEF N
<1> QED BY <1>4 DEF Runs

\* What stays in a set from each number to the next.
Goes(f, b, A, k) == f[0] = b /\ \A n \in 1..k : f[n - 1] \in A => f[n] \in A

LEMMA GoesTo ==
  ASSUME NEW f, NEW A, NEW b \in A, NEW k \in Nat, Goes(f, b, A, k)
  PROVE  f[k] \in A
<1> DEFINE N == {n \in Nat : n <= k => f[n] \in A}
<1>1. 0 \in N
  BY DEF Goes
<1>2. ASSUME NEW n \in Nat, n \in N PROVE n + 1 \in N
  <2> SUFFICES ASSUME n + 1 <= k PROVE f[n + 1] \in A
    OBVIOUS
  <2>1. n + 1 \in 1..k /\ f[n + 1 - 1] \in A
    BY <1>2
  <2> QED BY <2>1 DEF Goes
<1> HIDE DEF N
<1>3. k \in N
  BY <1>1, <1>2, FromZero
<1> QED BY <1>3 DEF N

LEMMA AttemptsStay ==
  ASSUME NEW A, NEW c \in A, NEW s, NEW k \in Nat, k = Len(s), 
         \A d \in A, i \in 1..k : Attempt(d, s[i]) \in A
  PROVE  Loop(Attempt, c, s) \in A
<1> DEFINE G == [i \in 1..k |-> [d \in A |-> Attempt(d, s[i])]]
<1>1. G \in [1..k -> [A -> A]] /\ \A n \in 1..k, d \in A : G[n][d] = Attempt(d, s[n])
  OBVIOUS
<1> HIDE DEF G
<1>2. PICK f : Runs(f, c, G, A, k)
  BY <1>1, Iterates
<1>3. f = [n \in 0..k |-> IF n = 0 THEN c ELSE Attempt(f[n - 1], s[n])]
  <2>1. ASSUME NEW n \in 0..k PROVE f[n] = IF n = 0 THEN c ELSE Attempt(f[n - 1], s[n])
    <3> USE DEF Runs
    <3>1. CASE n = 0
      BY <1>2, <3>1
    <3>2. CASE n # 0
      <4>1. n \in 1..k /\ n - 1 \in 0..k
        BY <3>2
      <4>2. f[n - 1] \in A
        BY <1>2, <4>1
      <4> QED BY <1>1, <1>2, <3>2, <4>1, <4>2
    <3> QED BY <3>1, <3>2
  <2> QED BY <1>2, <2>1 DEF Runs
<1> DEFINE after[n \in 0..Len(s)] == IF n = 0 THEN c ELSE Attempt(after[n - 1], s[n])
<1>4. after = [n \in 0..k |-> IF n = 0 THEN c ELSE Attempt(after[n - 1], s[n])]
  BY <1>3
<1>5. Loop(Attempt, c, s) = after[k]
  BY DEF Loop
<1> HIDE DEF after
<1>6. Goes(after, c, A, k)
  <2>1. after[0] = c
    BY <1>4
  <2>2. ASSUME NEW n \in 1..k, after[n - 1] \in A PROVE after[n] \in A
    <3>1. n \in 0..k /\ n # 0
      OBVIOUS
    <3>2. after[n] = Attempt(after[n - 1], s[n])
      BY <1>4, <3>1
    <3> QED BY <2>2, <3>2
  <2> QED BY <2>1, <2>2 DEF Goes
<1> QED BY <1>5, <1>6, GoesTo

LEMMA ConnectsStay ==
  ASSUME NEW A, NEW c \in A, NEW type, NEW s, NEW k \in Nat, k = Len(s), s # <<>>,
         \A d \in A, i \in 1..k : ConnectOne(d, s[i], type) \in A
  PROVE  inet_tryconnect(c, type, s) \in A
<1> DEFINE G == [i \in 1..k |-> [d \in A |-> ConnectOne(d, s[i], type)]]
<1>1. G \in [1..k -> [A -> A]] /\ \A n \in 1..k, d \in A : G[n][d] = ConnectOne(d, s[n], type)
  OBVIOUS
<1> HIDE DEF G
<1>2. PICK f : Runs(f, c, G, A, k)
  BY <1>1, Iterates
<1>3. f = [n \in 0..k |-> IF n = 0 THEN c ELSE ConnectOne(f[n - 1], s[n], type)]
  <2>1. ASSUME NEW n \in 0..k PROVE f[n] = IF n = 0 THEN c ELSE ConnectOne(f[n - 1], s[n], type)
    <3> USE DEF Runs
    <3>1. CASE n = 0
      BY <1>2, <3>1
    <3>2. CASE n # 0
      <4>1. n \in 1..k /\ n - 1 \in 0..k
        BY <3>2
      <4>2. f[n - 1] \in A
        BY <1>2, <4>1
      <4> QED BY <1>1, <1>2, <3>2, <4>1, <4>2
    <3> QED BY <3>1, <3>2
  <2> QED BY <1>2, <2>1 DEF Runs
<1> DEFINE after[n \in 0..Len(s)] == IF n = 0 THEN c ELSE ConnectOne(after[n - 1], s[n], type)
<1>4. after = [n \in 0..k |-> IF n = 0 THEN c ELSE ConnectOne(after[n - 1], s[n], type)]
  BY <1>3
<1>5. inet_tryconnect(c, type, s) = after[k]
  BY DEF Loop, inet_tryconnect
<1> HIDE DEF after
<1>6. Goes(after, c, A, k)
  <2>1. after[0] = c
    BY <1>4
  <2>2. ASSUME NEW n \in 1..k, after[n - 1] \in A PROVE after[n] \in A
    <3>1. n \in 0..k /\ n # 0
      OBVIOUS
    <3>2. after[n] = ConnectOne(after[n - 1], s[n], type)
      BY <1>4, <3>1
    <3> QED BY <2>2, <3>2
  <2> QED BY <2>1, <2>2 DEF Goes
<1> QED BY <1>5, <1>6, GoesTo

LEMMA BindsStay ==
  ASSUME NEW A, NEW c \in A, NEW type, NEW s, NEW k \in Nat, k = Len(s), s # <<>>,
         \A d \in A, i \in 1..k : BindOne(d, s[i], type) \in A
  PROVE  inet_trybind(c, type, s) \in A
<1> DEFINE G == [i \in 1..k |-> [d \in A |-> BindOne(d, s[i], type)]]
<1>1. G \in [1..k -> [A -> A]] /\ \A n \in 1..k, d \in A : G[n][d] = BindOne(d, s[n], type)
  OBVIOUS
<1> HIDE DEF G
<1>2. PICK f : Runs(f, c, G, A, k)
  BY <1>1, Iterates
<1>3. f = [n \in 0..k |-> IF n = 0 THEN c ELSE BindOne(f[n - 1], s[n], type)]
  <2>1. ASSUME NEW n \in 0..k PROVE f[n] = IF n = 0 THEN c ELSE BindOne(f[n - 1], s[n], type)
    <3> USE DEF Runs
    <3>1. CASE n = 0
      BY <1>2, <3>1
    <3>2. CASE n # 0
      <4>1. n \in 1..k /\ n - 1 \in 0..k
        BY <3>2
      <4>2. f[n - 1] \in A
        BY <1>2, <4>1
      <4> QED BY <1>1, <1>2, <3>2, <4>1, <4>2
    <3> QED BY <3>1, <3>2
  <2> QED BY <1>2, <2>1 DEF Runs
<1> DEFINE after[n \in 0..Len(s)] == IF n = 0 THEN c ELSE BindOne(after[n - 1], s[n], type)
<1>4. after = [n \in 0..k |-> IF n = 0 THEN c ELSE BindOne(after[n - 1], s[n], type)]
  BY <1>3
<1>5. inet_trybind(c, type, s) = after[k]
  BY DEF Loop, inet_trybind
<1> HIDE DEF after
<1>6. Goes(after, c, A, k)
  <2>1. after[0] = c
    BY <1>4
  <2>2. ASSUME NEW n \in 1..k, after[n - 1] \in A PROVE after[n] \in A
    <3>1. n \in 0..k /\ n # 0
      OBVIOUS
    <3>2. after[n] = BindOne(after[n - 1], s[n], type)
      BY <1>4, <3>1
    <3> QED BY <2>2, <3>2
  <2> QED BY <2>1, <2>2 DEF Goes
<1> QED BY <1>5, <1>6, GoesTo

-----------------------------------------------------------------------------
(* A call, from beginning to end.                                           *)

SomeFamily == Families \cup {"unspec"}
Kinds == {"stream", "dgram"}
SocketNumbers == SystemSockets \cup {SOCKET_INVALID}
SocketSet ==
  [is : {"closed", "new", "bound", "connected", "listening"}, family : SomeFamily, type : Kinds,
   blocking : BOOLEAN]
Errors ==
  {"none", "done", "wouldblock", "reset", "timeout", "closed", "connection refused", "connection timed out",
   "address already in use", "invalid argument", "too many open files",
   "host or service not provided, or not known"}
UserSet ==
  [class : {"none"} \cup Tcp \cup Udp, sock : SocketNumbers, family : SomeFamily, block : {Unset, 0, 1},
   total : {Unset, 1}]
CallSet ==
  [sock : SocketNumbers, family : SomeFamily, current : SomeFamily, block : {Unset, 0, 1}, total : {Unset, 1},
   os : [SystemSockets -> SocketSet], elapsed : Nat, start : Nat, marks : Nat, waits : Nat, over : BOOLEAN,
   err : Errors, prev : Errors]

\* What the system has once that of the call is c.sock instead of s.
Elsewhere(c, s, before) ==
  \A h \in SystemSockets : h # c.sock => c.os[h] = IF h = s THEN ClosedSocket ELSE before[h]
Holds(c, s, before, type) ==
  c.sock # SOCKET_INVALID =>
    /\ c.os[c.sock].is # "closed" /\ c.os[c.sock].type = type
    /\ c.current # "unspec" => c.os[c.sock].family = c.current
    /\ c.sock # s => before[c.sock] = ClosedSocket
NonBlocking(c) == c.sock # SOCKET_INVALID => ~c.os[c.sock].blocking

\* How long it has waited: since the last mark, before it, and in single waits.
InTime(c) ==
  /\ c.start <= c.elapsed
  /\ c.total >= 0 => c.elapsed - c.start <= c.total
  /\ c.block >= 0 => c.elapsed <= c.block * c.waits
  /\ c.block = 0 => c.waits = 0
Marked(c) ==
  IF c.marks = 0 THEN c.elapsed = 0 ELSE c.total >= 0 => c.start <= c.total * (c.marks - 1)

\* The family of the object is kept, until the call has settled on one.
OfFamily(c, fam) ==
  /\ c.family = fam \/ (c.over /\ c.family = c.current)
  /\ fam # "unspec" => c.current = fam

Going(s, before, type, fam) ==
  {c \in CallSet : /\ Elsewhere(c, s, before) /\ Holds(c, s, before, type)
                   /\ InTime(c) /\ Marked(c) /\ OfFamily(c, fam)}
Ready(s, before, type, fam) == {c \in Going(s, before, type, fam) : NonBlocking(c)}

SameSocket(c, d) == d.sock = c.sock /\ d.os = c.os /\ d.current = c.current /\ d.family = c.family
SameTimeouts(c, d) == d.block = c.block /\ d.total = c.total
SameMark(c, d) == d.start = c.start /\ d.marks = c.marks
SameTime(c, d) == d.elapsed = c.elapsed /\ d.waits = c.waits
Same(c, d) == SameSocket(c, d) /\ SameTimeouts(c, d) /\ SameMark(c, d) /\ SameTime(c, d)

LEMMA FailsIs ==
  ASSUME NEW c \in CallSet, NEW err \in Errors
  PROVE  Fails(c, err) \in CallSet /\ Same(c, Fails(c, err)) /\ Fails(c, err).err = err /\ Fails(c, err).over = c.over
<1>1. Fails(c, err) \in CallSet
  BY DEF Fails, CallSet
<1>2. SameSocket(c, Fails(c, err)) /\ SameTimeouts(c, Fails(c, err))
  BY DEF Fails, CallSet, SameSocket, SameTimeouts
<1>3. SameMark(c, Fails(c, err)) /\ SameTime(c, Fails(c, err))
  BY DEF Fails, CallSet, SameMark, SameTime
<1>4. Fails(c, err).err = err /\ Fails(c, err).over = c.over
  BY DEF Fails, CallSet
<1> QED BY <1>1, <1>2, <1>3, <1>4 DEF Same

LEMMA SucceedsIs ==
  ASSUME NEW c \in CallSet
  PROVE  /\ Succeeds(c) \in CallSet /\ Same(c, Succeeds(c)) /\ Succeeds(c).err = "none"
         /\ Succeeds(c).over = c.over
<1>1. Succeeds(c) = Fails(c, "none")
  BY DEF Succeeds, Fails
<1>2. "none" \in Errors
  BY DEF Errors
<1> QED BY <1>1, <1>2, FailsIs

LEMMA OverIs ==
  ASSUME NEW c \in CallSet
  PROVE  Over(c) \in CallSet /\ Same(c, Over(c)) /\ Over(c).err = c.err /\ Over(c).over
<1>1. Over(c) \in CallSet
  BY DEF Over, CallSet
<1>2. SameSocket(c, Over(c)) /\ SameTimeouts(c, Over(c))
  BY DEF Over, CallSet, SameSocket, SameTimeouts
<1>3. SameMark(c, Over(c)) /\ SameTime(c, Over(c))
  BY DEF Over, CallSet, SameMark, SameTime
<1>4. Over(c).err = c.err /\ Over(c).over
  BY DEF Over, CallSet
<1> QED BY <1>1, <1>2, <1>3, <1>4 DEF Same

LEMMA WaitsIs ==
  ASSUME NEW c \in CallSet, NEW time \in Nat
  PROVE  /\ Waits(c, time) \in CallSet /\ SameSocket(c, Waits(c, time)) /\ SameTimeouts(c, Waits(c, time))
         /\ SameMark(c, Waits(c, time)) /\ Waits(c, time).over = c.over
         /\ Waits(c, time).elapsed = c.elapsed + time /\ Waits(c, time).waits = c.waits + 1
<1>1. Waits(c, time) \in CallSet
  <2>1. c.elapsed + time \in Nat /\ c.waits + 1 \in Nat
    BY DEF CallSet
  <2> QED BY <2>1 DEF Waits, CallSet
<1>2. SameSocket(c, Waits(c, time)) /\ SameTimeouts(c, Waits(c, time))
  BY DEF Waits, CallSet, SameSocket, SameTimeouts
<1>3. SameMark(c, Waits(c, time)) /\ Waits(c, time).over = c.over
  BY DEF Waits, CallSet, SameMark
<1>4. Waits(c, time).elapsed = c.elapsed + time /\ Waits(c, time).waits = c.waits + 1
  BY DEF Waits, CallSet
<1> QED BY <1>1, <1>2, <1>3, <1>4

LEMMA MarkIs ==
  ASSUME NEW c \in CallSet
  PROVE  /\ timeout_markstart(c) \in CallSet /\ SameSocket(c, timeout_markstart(c))
         /\ SameTimeouts(c, timeout_markstart(c)) /\ SameTime(c, timeout_markstart(c))
         /\ timeout_markstart(c).start = c.elapsed /\ timeout_markstart(c).marks = c.marks + 1
         /\ timeout_markstart(c).over = c.over
<1>1. timeout_markstart(c) \in CallSet
  <2>1. c.elapsed \in Nat /\ c.marks + 1 \in Nat
    BY DEF CallSet
  <2> QED BY <2>1 DEF timeout_markstart, CallSet
<1>2. SameSocket(c, timeout_markstart(c)) /\ SameTimeouts(c, timeout_markstart(c))
  BY DEF timeout_markstart, CallSet, SameSocket, SameTimeouts
<1>3. SameTime(c, timeout_markstart(c)) /\ timeout_markstart(c).over = c.over
  BY DEF timeout_markstart, CallSet, SameTime
<1>4. timeout_markstart(c).start = c.elapsed /\ timeout_markstart(c).marks = c.marks + 1
  BY DEF timeout_markstart, CallSet
<1> QED BY <1>1, <1>2, <1>3, <1>4

LEMMA IsAllowed ==
  ASSUME NEW s, NEW before, NEW type, NEW fam, NEW c \in Going(s, before, type, fam)
  PROVE  Allowed(c)
<1>1. c \in CallSet /\ InTime(c) /\ Marked(c)
  BY DEF Going
<1>2. /\ c.elapsed \in Nat /\ c.start \in Nat /\ c.marks \in Nat /\ c.waits \in Nat
      /\ c.block \in {Unset, 0, 1} /\ c.total \in {Unset, 1}
  BY <1>1 DEF CallSet
<1> QED BY <1>1, <1>2 DEF InTime, Marked, Allowed, Unset

LEMMA MarkStays ==
  ASSUME NEW s, NEW before, NEW type, NEW fam, NEW c \in Going(s, before, type, fam)
  PROVE  /\ timeout_markstart(c) \in Going(s, before, type, fam) /\ timeout_markstart(c).marks # 0
         /\ NonBlocking(c) => NonBlocking(timeout_markstart(c))
         /\ timeout_markstart(c).over = c.over
<1> DEFINE d == timeout_markstart(c)
<1>1. c \in CallSet /\ InTime(c) /\ Marked(c)
  BY DEF Going
<1>2. /\ c.elapsed \in Nat /\ c.start \in Nat /\ c.marks \in Nat /\ c.waits \in Nat
      /\ c.block \in {Unset, 0, 1} /\ c.total \in {Unset, 1}
  BY <1>1 DEF CallSet
<1>3. /\ d \in CallSet /\ SameSocket(c, d) /\ SameTimeouts(c, d) /\ SameTime(c, d)
      /\ d.start = c.elapsed /\ d.marks = c.marks + 1 /\ d.over = c.over
  BY <1>1, MarkIs
<1> HIDE DEF d
<1>4. InTime(d) /\ Marked(d) /\ d.marks # 0
  BY <1>1, <1>2, <1>3 DEF InTime, Marked, Unset, SameTimeouts, SameTime
<1>5. Elsewhere(d, s, before) /\ Holds(d, s, before, type) /\ OfFamily(d, fam)
  BY <1>3 DEF Going, Elsewhere, Holds, OfFamily, SameSocket
<1>6. NonBlocking(c) => NonBlocking(d)
  BY <1>3 DEF NonBlocking, SameSocket
<1> QED BY <1>3, <1>4, <1>5, <1>6 DEF Going, d

\* Calls that differ in what the network has said only.
LEMMA SaysStays ==
  ASSUME NEW s, NEW before, NEW type, NEW fam, NEW c \in Going(s, before, type, fam),
         NEW d \in CallSet, Same(c, d), c.over => d.over
  PROVE  d \in Going(s, before, type, fam) /\ (NonBlocking(c) => NonBlocking(d))
<1>1. Elsewhere(d, s, before) /\ Holds(d, s, before, type) /\ OfFamily(d, fam) /\ (NonBlocking(c) => NonBlocking(d))
  BY DEF Going, Elsewhere, Holds, OfFamily, NonBlocking, Same, SameSocket
<1>2. InTime(d) /\ Marked(d)
  BY DEF Going, InTime, Marked, Same, SameTimeouts, SameMark, SameTime
<1> QED BY <1>1, <1>2 DEF Going

\* socket_waitfd waits no longer than the timeouts leave.
LEMMA WaitStays ==
  ASSUME NEW s, NEW before, NEW type, NEW fam, NEW c \in Ready(s, before, type, fam), c.marks # 0,
         NEW after \in Nat
  PROVE  /\ socket_waitfd(c, after) \in Ready(s, before, type, fam)
         /\ socket_waitfd(c, after).marks # 0
         /\ SameSocket(c, socket_waitfd(c, after)) /\ SameTimeouts(c, socket_waitfd(c, after))
         /\ socket_waitfd(c, after).over = c.over
<1> DEFINE d == socket_waitfd(c, after)
<1>1. c \in CallSet /\ InTime(c) /\ Marked(c) /\ NonBlocking(c)
  BY DEF Going, Ready
<1>2. /\ c.elapsed \in Nat /\ c.start \in Nat /\ c.marks \in Nat /\ c.waits \in Nat
      /\ c.block \in {Unset, 0, 1} /\ c.total \in {Unset, 1}
  BY <1>1 DEF CallSet
<1> DEFINE t == timeout_get(c)
<1>3. /\ t = Unset => c.block < 0 /\ c.total < 0
      /\ t # Unset => t \in Nat /\ (c.block >= 0 => t <= c.block)
                      /\ (c.total >= 0 => t <= c.total - (c.elapsed - c.start))
  BY <1>1, <1>2 DEF timeout_get, Left, Least, Unset, InTime
<1> HIDE DEF t
<1>4. PICK w \in Nat : /\ d \in {Fails(c, "timeout"), Fails(Waits(c, w), "timeout"), Succeeds(Waits(c, w))}
                       /\ d # Fails(c, "timeout") => c.block # 0
                       /\ c.block # 0 /\ t # Unset => w <= t
  <2>1. CASE c.block = 0
    BY <2>1 DEF socket_waitfd
  <2>2. CASE c.block # 0 /\ t # Unset /\ t < after
    BY <1>3, <2>2 DEF socket_waitfd, t
  <2>3. CASE c.block # 0 /\ ~(t # Unset /\ t < after)
    BY <1>3, <2>3 DEF socket_waitfd, t
  <2> QED BY <2>1, <2>2, <2>3
<1> HIDE DEF d
<1>5. /\ d \in CallSet /\ SameSocket(c, d) /\ SameTimeouts(c, d) /\ SameMark(c, d) /\ d.over = c.over
      /\ SameTime(c, d) \/ (d.elapsed = c.elapsed + w /\ d.waits = c.waits + 1 /\ c.block # 0)
  <2>1. CASE d = Fails(c, "timeout")
    <3>1. "timeout" \in Errors
      BY DEF Errors
    <3> QED BY <1>1, <2>1, <3>1, FailsIs DEF Same
  <2>2. Waits(c, w) \in CallSet /\ "timeout" \in Errors
    BY <1>1, WaitsIs DEF Errors
  <2>3. CASE d \in {Fails(Waits(c, w), "timeout"), Succeeds(Waits(c, w))} /\ c.block # 0
    <3>1. d \in CallSet /\ Same(Waits(c, w), d) /\ d.over = Waits(c, w).over
      BY <2>2, <2>3, FailsIs, SucceedsIs
    <3>2. /\ SameSocket(c, Waits(c, w)) /\ SameTimeouts(c, Waits(c, w)) /\ SameMark(c, Waits(c, w))
          /\ Waits(c, w).elapsed = c.elapsed + w /\ Waits(c, w).waits = c.waits + 1
          /\ Waits(c, w).over = c.over
      BY <1>1, WaitsIs
    <3> QED BY <2>3, <3>1, <3>2 DEF Same, SameSocket, SameTimeouts, SameMark, SameTime
  <2> QED BY <1>4, <2>1, <2>3
<1>6. InTime(d) /\ Marked(d) /\ d.marks # 0
  BY <1>1, <1>2, <1>3, <1>4, <1>5 DEF InTime, Marked, Unset, SameTimeouts, SameMark, SameTime
<1>7. Elsewhere(d, s, before) /\ Holds(d, s, before, type) /\ OfFamily(d, fam) /\ NonBlocking(d)
  BY <1>1, <1>5 DEF Going, Ready, Elsewhere, Holds, OfFamily, NonBlocking, SameSocket
<1> QED BY <1>5, <1>6, <1>7 DEF Going, Ready, SameSocket, d

-----------------------------------------------------------------------------
(* The sockets of the system.                                               *)

Known(s, before, type) ==
  /\ Numbered /\ s \in SocketNumbers /\ before \in [SystemSockets -> SocketSet] /\ type \in Kinds
  /\ \A h \in SystemSockets : before[h].is = "closed" => before[h] = ClosedSocket
  /\ s # SOCKET_INVALID => before[s].is # "closed"

Put(c, v) == [c EXCEPT !.os[c.sock] = v]

LEMMA PutIs ==
  ASSUME NEW c \in CallSet, c.sock # SOCKET_INVALID, NEW v \in SocketSet
  PROVE  /\ Put(c, v) \in CallSet /\ SameTimeouts(c, Put(c, v)) /\ SameMark(c, Put(c, v))
         /\ SameTime(c, Put(c, v)) /\ Put(c, v).sock = c.sock /\ Put(c, v).current = c.current
         /\ Put(c, v).family = c.family /\ Put(c, v).over = c.over /\ Put(c, v).err = c.err
         /\ Put(c, v).os = [c.os EXCEPT ![c.sock] = v]
<1>1. c.sock \in SystemSockets /\ c.os \in [SystemSockets -> SocketSet]
  BY DEF CallSet, SocketNumbers
<1>2. [c.os EXCEPT ![c.sock] = v] \in [SystemSockets -> SocketSet]
  BY <1>1
<1> DEFINE n == [c.os EXCEPT ![c.sock] = v]
<1>3. Put(c, v) = [c EXCEPT !.os = n]
  BY DEF Put
<1>4. n \in [SystemSockets -> SocketSet]
  BY <1>2
<1> HIDE DEF n
<1>5. Put(c, v) \in CallSet
  BY <1>3, <1>4 DEF CallSet
<1>6. SameTimeouts(c, Put(c, v)) /\ SameMark(c, Put(c, v)) /\ SameTime(c, Put(c, v))
  BY <1>3 DEF CallSet, SameTimeouts, SameMark, SameTime
<1>7. /\ Put(c, v).sock = c.sock /\ Put(c, v).current = c.current /\ Put(c, v).family = c.family
      /\ Put(c, v).over = c.over /\ Put(c, v).err = c.err
  BY <1>3 DEF CallSet
<1>8. Put(c, v).os = n
  BY <1>3 DEF CallSet
<1> QED BY <1>5, <1>6, <1>7, <1>8 DEF n

\* The state of the call's socket changes.
LEMMA PutStays ==
  ASSUME NEW s, NEW before, NEW type, NEW fam, NEW c \in Going(s, before, type, fam),
         c.sock # SOCKET_INVALID, NEW v \in SocketSet, v.is # "closed", v.type = c.os[c.sock].type,
         v.family = c.os[c.sock].family
  PROVE  Put(c, v) \in Going(s, before, type, fam) /\ (NonBlocking(Put(c, v)) <=> ~v.blocking)
<1> DEFINE d == Put(c, v)
<1>1. c \in CallSet
  BY DEF Going
<1>2. /\ d \in CallSet /\ SameTimeouts(c, d) /\ SameMark(c, d) /\ SameTime(c, d) /\ d.sock = c.sock
      /\ d.current = c.current /\ d.family = c.family /\ d.over = c.over
      /\ d.os = [c.os EXCEPT ![c.sock] = v]
  BY <1>1, PutIs
<1> HIDE DEF d
<1>3. c.sock \in SystemSockets /\ c.os \in [SystemSockets -> SocketSet]
  BY <1>1 DEF CallSet, SocketNumbers
<1>4. d.os[c.sock] = v /\ \A h \in SystemSockets : h # c.sock => d.os[h] = c.os[h]
  BY <1>2, <1>3
<1>5. Elsewhere(d, s, before) /\ Holds(d, s, before, type) /\ OfFamily(d, fam)
  BY <1>2, <1>4 DEF Going, Elsewhere, Holds, OfFamily
<1>6. InTime(d) /\ Marked(d)
  BY <1>2 DEF Going, InTime, Marked, SameTimeouts, SameMark, SameTime
<1>7. NonBlocking(d) <=> ~v.blocking
  BY <1>2, <1>4 DEF NonBlocking
<1> QED BY <1>2, <1>5, <1>6, <1>7 DEF Going, d

LEMMA SocketIs ==
  ASSUME NEW c \in CallSet, c.sock # SOCKET_INVALID
  PROVE  c.sock \in SystemSockets /\ c.os[c.sock] \in SocketSet
  BY DEF CallSet, SocketNumbers

LEMMA SetBlockingStays ==
  ASSUME NEW s, NEW before, NEW type, NEW fam, NEW c \in Going(s, before, type, fam), NEW blocking \in BOOLEAN
  PROVE  /\ SetBlocking(c, blocking) \in Going(s, before, type, fam)
         /\ ~blocking => NonBlocking(SetBlocking(c, blocking))
         /\ SameTimeouts(c, SetBlocking(c, blocking)) /\ SameMark(c, SetBlocking(c, blocking))
         /\ SetBlocking(c, blocking).sock = c.sock /\ SetBlocking(c, blocking).over = c.over
         /\ SetBlocking(c, blocking).err = c.err
         /\ SetBlocking(c, blocking).family = c.family /\ SetBlocking(c, blocking).current = c.current
         /\ c.sock # SOCKET_INVALID => /\ SetBlocking(c, blocking).os[c.sock].is = c.os[c.sock].is
                                       /\ SetBlocking(c, blocking).os[c.sock].family = c.os[c.sock].family
<1>1. c \in CallSet
  BY DEF Going
<1>2. CASE c.sock = SOCKET_INVALID
  BY <1>1, <1>2 DEF SetBlocking, NonBlocking, SameTimeouts, SameMark
<1>3. CASE c.sock # SOCKET_INVALID
  <2> DEFINE v == [c.os[c.sock] EXCEPT !.blocking = blocking]
  <2>1. c.sock \in SystemSockets /\ c.os[c.sock] \in SocketSet
    BY <1>1, <1>3, SocketIs
  <2>2. /\ v \in SocketSet /\ v.is = c.os[c.sock].is /\ v.type = c.os[c.sock].type
        /\ v.family = c.os[c.sock].family /\ v.blocking = blocking
    BY <2>1 DEF SocketSet
  <2>3. SetBlocking(c, blocking) = Put(c, v)
    BY <1>3 DEF SetBlocking, Put
  <2> HIDE DEF v
  <2>4. v.is # "closed"
    BY <1>3, <2>2 DEF Going, Holds
  <2>5. Put(c, v) \in Going(s, before, type, fam) /\ (NonBlocking(Put(c, v)) <=> ~v.blocking)
    BY <1>3, <2>2, <2>4, PutStays
  <2>6. /\ SameTimeouts(c, Put(c, v)) /\ SameMark(c, Put(c, v)) /\ Put(c, v).sock = c.sock
        /\ Put(c, v).over = c.over /\ Put(c, v).err = c.err /\ Put(c, v).os = [c.os EXCEPT ![c.sock] = v]
        /\ Put(c, v).family = c.family /\ Put(c, v).current = c.current
    BY <1>1, <1>3, <2>2, PutIs
  <2>7. Put(c, v).os[c.sock] = v
    BY <1>1, <2>1, <2>6 DEF CallSet
  <2> QED BY <2>2, <2>3, <2>5, <2>6, <2>7
<1> QED BY <1>2, <1>3

LEMMA BecomesStays ==
  ASSUME NEW s, NEW before, NEW type, NEW fam, NEW c \in Going(s, before, type, fam),
         c.sock # SOCKET_INVALID, NEW is \in {"bound", "connected", "listening"}
  PROVE  /\ Becomes(c, is) \in Going(s, before, type, fam)
         /\ NonBlocking(c) => NonBlocking(Becomes(c, is))
         /\ SameTimeouts(c, Becomes(c, is)) /\ SameMark(c, Becomes(c, is)) /\ Becomes(c, is).sock = c.sock
         /\ Becomes(c, is).over = c.over /\ Becomes(c, is).err = c.err /\ Becomes(c, is).os[c.sock].is = is
         /\ Becomes(c, is).family = c.family /\ Becomes(c, is).current = c.current
<1>1. c \in CallSet
  BY DEF Going
<1> DEFINE v == [c.os[c.sock] EXCEPT !.is = is]
<1>2. c.sock \in SystemSockets /\ c.os[c.sock] \in SocketSet
  BY <1>1, SocketIs
<1>3. /\ v \in SocketSet /\ v.is = is /\ v.type = c.os[c.sock].type
      /\ v.family = c.os[c.sock].family /\ v.blocking = c.os[c.sock].blocking
  BY <1>2 DEF SocketSet
<1>4. Becomes(c, is) = Put(c, v)
  BY DEF Becomes, Put
<1> HIDE DEF v
<1>5. v.is # "closed"
  BY <1>3
<1>6. Put(c, v) \in Going(s, before, type, fam) /\ (NonBlocking(Put(c, v)) <=> ~v.blocking)
  BY <1>3, <1>5, PutStays
<1>7. /\ SameTimeouts(c, Put(c, v)) /\ SameMark(c, Put(c, v)) /\ Put(c, v).sock = c.sock
      /\ Put(c, v).over = c.over /\ Put(c, v).err = c.err /\ Put(c, v).os = [c.os EXCEPT ![c.sock] = v]
      /\ Put(c, v).family = c.family /\ Put(c, v).current = c.current
  BY <1>1, <1>3, PutIs
<1>8. Put(c, v).os[c.sock] = v
  BY <1>1, <1>2, <1>7 DEF CallSet
<1> QED BY <1>3, <1>4, <1>6, <1>7, <1>8 DEF NonBlocking

New(family, type) == [is |-> "new", family |-> family, type |-> type, blocking |-> TRUE]

LEMMA LowestIs ==
  ASSUME Numbered, NEW N, N \subseteq SystemSockets, N # {}
  PROVE  Lowest(N) \in N
<1>1. N \subseteq Nat
  BY DEF Numbered
<1>2. \E h \in N : \A g \in N : h <= g
  BY <1>1, LeastNumber
<1> QED BY <1>2 DEF Lowest

\* socket_create: a socket of the system that was closed, or none.
LEMMA CreateIs ==
  ASSUME Numbered, NEW c \in CallSet, NEW family \in SomeFamily, NEW type \in Kinds
  PROVE  LET d == socket_create(c, family, type) IN
         /\ d \in CallSet /\ SameTimeouts(c, d) /\ SameMark(c, d) /\ SameTime(c, d) /\ d.current = c.current
         /\ d.family = c.family /\ d.over = c.over
         /\ \/ d.err # "none" /\ d.sock = SOCKET_INVALID /\ d.os = c.os
            \/ /\ d.err = "none" /\ d.sock \in SystemSockets /\ c.os[d.sock].is = "closed"
               /\ d.os = [c.os EXCEPT ![d.sock] = New(family, type)]
<1> DEFINE d == socket_create(c, family, type)
<1>1. CASE FreeSockets(c.os) = {}
  <2> DEFINE e == [c EXCEPT !.sock = SOCKET_INVALID]
  <2>1. e \in CallSet
    BY DEF CallSet, SocketNumbers
  <2>2. /\ SameTimeouts(c, e) /\ SameMark(c, e) /\ SameTime(c, e) /\ e.current = c.current
        /\ e.family = c.family /\ e.over = c.over /\ e.sock = SOCKET_INVALID /\ e.os = c.os
    BY DEF CallSet, SameTimeouts, SameMark, SameTime
  <2> HIDE DEF e
  <2>3. "too many open files" \in Errors /\ "too many open files" # "none"
    BY DEF Errors
  <2>4. d = Fails(e, "too many open files")
    BY <1>1 DEF socket_create, e
  <2> HIDE DEF d
  <2>5. d \in CallSet /\ Same(e, d) /\ d.err = "too many open files" /\ d.over = e.over
    BY <2>1, <2>3, <2>4, FailsIs
  <2> QED BY <2>2, <2>3, <2>5 DEF Same, SameSocket, SameTimeouts, SameMark, SameTime, d
<1>2. CASE FreeSockets(c.os) # {}
  <2> DEFINE h == Lowest(FreeSockets(c.os))
             n == [c.os EXCEPT ![h] = New(family, type)]
             e == [c EXCEPT !.sock = h, !.os = n]
  <2>1. h \in SystemSockets /\ c.os[h].is = "closed"
    BY <1>2, LowestIs DEF FreeSockets
  <2>2. d = Succeeds(e)
    BY <1>2 DEF socket_create, New
  <2>3. c.os \in [SystemSockets -> SocketSet] /\ New(family, type) \in SocketSet
    BY DEF CallSet, SocketSet, New
  <2> HIDE DEF h
  <2>4. n \in [SystemSockets -> SocketSet]
    BY <2>1, <2>3
  <2> HIDE DEF n
  <2>5. e \in CallSet
    BY <2>1, <2>4 DEF CallSet, SocketNumbers
  <2>6. /\ SameTimeouts(c, e) /\ SameMark(c, e) /\ SameTime(c, e) /\ e.current = c.current
        /\ e.family = c.family /\ e.over = c.over /\ e.sock = h /\ e.os = n
    BY DEF CallSet, SameTimeouts, SameMark, SameTime
  <2> HIDE DEF e
  <2>7. d \in CallSet /\ Same(e, d) /\ d.err = "none" /\ d.over = e.over
    BY <2>2, <2>5, SucceedsIs
  <2>8. d.sock = h /\ d.os = n
    BY <2>6, <2>7 DEF Same, SameSocket
  <2>9. d.os = [c.os EXCEPT ![d.sock] = New(family, type)]
    BY <2>8 DEF n
  <2> QED BY <2>1, <2>6, <2>7, <2>8, <2>9 DEF Same, SameSocket, SameTimeouts, SameMark, SameTime
<1> QED BY <1>1, <1>2

LEMMA ClosedIs == ClosedSocket \in SocketSet /\ ClosedSocket.is = "closed"
  BY DEF ClosedSocket, SocketSet, SomeFamily, Kinds

LEMMA DestroyIs ==
  ASSUME NEW c \in CallSet
  PROVE  LET d == socket_destroy(c) IN
         /\ d \in CallSet /\ SameTimeouts(c, d) /\ SameMark(c, d) /\ SameTime(c, d) /\ d.current = c.current
         /\ d.family = c.family /\ d.over = c.over /\ d.sock = SOCKET_INVALID
         /\ d.os = IF c.sock = SOCKET_INVALID THEN c.os ELSE [c.os EXCEPT ![c.sock] = ClosedSocket]
<1> DEFINE d == socket_destroy(c)
<1>1. CASE c.sock = SOCKET_INVALID
  <2>1. d = c
    BY <1>1 DEF socket_destroy
  <2> QED BY <1>1, <2>1 DEF SameTimeouts, SameMark, SameTime
<1>2. CASE c.sock # SOCKET_INVALID
  <2> DEFINE n == [c.os EXCEPT ![c.sock] = ClosedSocket]
  <2>1. d = [c EXCEPT !.sock = SOCKET_INVALID, !.os = n]
    BY <1>2 DEF socket_destroy
  <2>2. n \in [SystemSockets -> SocketSet]
    BY <1>2, SocketIs, ClosedIs DEF CallSet
  <2> HIDE DEF n
  <2>3. d \in CallSet
    BY <2>1, <2>2 DEF CallSet, SocketNumbers
  <2>4. /\ SameTimeouts(c, d) /\ SameMark(c, d) /\ SameTime(c, d) /\ d.current = c.current
        /\ d.family = c.family /\ d.over = c.over /\ d.sock = SOCKET_INVALID /\ d.os = n
    BY <2>1 DEF CallSet, SameTimeouts, SameMark, SameTime
  <2> QED BY <1>2, <2>3, <2>4 DEF n
<1> QED BY <1>1, <1>2

LEMMA DestroyStays ==
  ASSUME NEW s, NEW before, NEW type, NEW fam, Known(s, before, type), NEW c \in Going(s, before, type, fam)
  PROVE  socket_destroy(c) \in Ready(s, before, type, fam)
<1> DEFINE d == socket_destroy(c)
<1>1. c \in CallSet
  BY DEF Going
<1>2. /\ d \in CallSet /\ SameTimeouts(c, d) /\ SameMark(c, d) /\ SameTime(c, d) /\ d.current = c.current
      /\ d.family = c.family /\ d.over = c.over /\ d.sock = SOCKET_INVALID
      /\ d.os = IF c.sock = SOCKET_INVALID THEN c.os ELSE [c.os EXCEPT ![c.sock] = ClosedSocket]
  BY <1>1, DestroyIs
<1> HIDE DEF d
<1>3. ASSUME NEW h \in SystemSockets PROVE d.os[h] = IF h = s THEN ClosedSocket ELSE before[h]
  <2>1. CASE h # c.sock
    <3>1. d.os[h] = c.os[h]
      BY <1>1, <1>2, <2>1 DEF CallSet
    <3> QED BY <2>1, <3>1 DEF Going, Elsewhere
  <2>2. CASE h = c.sock
    <3>1. c.sock # SOCKET_INVALID
      BY <2>2 DEF Known, Numbered
    <3>2. d.os[h] = ClosedSocket
      BY <1>1, <1>2, <2>2, <3>1 DEF CallSet
    <3> QED BY <2>2, <3>1, <3>2 DEF Going, Holds
  <2> QED BY <2>1, <2>2
<1>4. Elsewhere(d, s, before) /\ Holds(d, s, before, type) /\ OfFamily(d, fam) /\ NonBlocking(d)
  BY <1>2, <1>3 DEF Going, Elsewhere, Holds, OfFamily, NonBlocking
<1>5. InTime(d) /\ Marked(d)
  BY <1>2 DEF Going, InTime, Marked, SameTimeouts, SameMark, SameTime
<1> QED BY <1>2, <1>4, <1>5 DEF Going, Ready, d

\* A socket that fits to the address, or none.
LEMMA FittingStays ==
  ASSUME NEW s, NEW before, NEW type, NEW fam, Known(s, before, type),
         NEW c \in Ready(s, before, type, fam), ~c.over, NEW a, a.family \in Families,
         fam # "unspec" => a.family = fam
  PROVE  LET d == Fitting(c, a, type) IN
         /\ d \in Going(s, before, type, fam) /\ ~d.over /\ SameMark(c, d)
         /\ d.err = "none" => d.sock # SOCKET_INVALID
         /\ d.err # "none" => NonBlocking(d)
<1> DEFINE d == Fitting(c, a, type)
<1>1. c \in CallSet /\ c \in Going(s, before, type, fam)
  BY DEF Going, Ready
<1>2. CASE c.current = a.family /\ c.sock # SOCKET_INVALID
  <2>1. d = Succeeds(c)
    BY <1>2 DEF Fitting
  <2>2. d \in CallSet /\ Same(c, d) /\ d.err = "none" /\ d.over = c.over
    BY <1>1, <2>1, SucceedsIs
  <2>3. d \in Going(s, before, type, fam)
    BY <1>1, <2>2, SaysStays
  <2> QED BY <1>2, <2>2, <2>3 DEF Same, SameSocket
<1>3. CASE ~(c.current = a.family /\ c.sock # SOCKET_INVALID)
  <2> DEFINE e == socket_destroy(c)
             n == socket_create(e, a.family, type)
  <2>1. d = IF n.err = "none" THEN [n EXCEPT !.current = a.family] ELSE n
    BY <1>3 DEF Fitting, inet_trycreate
  <2>2. /\ e \in Ready(s, before, type, fam) /\ e \in CallSet /\ SameMark(c, e) /\ e.over = c.over
        /\ e.sock = SOCKET_INVALID /\ e.family = c.family
    BY <1>1, DestroyStays, DestroyIs
  <2> HIDE DEF e
  <2>3. /\ n \in CallSet /\ SameTimeouts(e, n) /\ SameMark(e, n) /\ SameTime(e, n) /\ n.current = e.current
        /\ n.family = e.family /\ n.over = e.over
        /\ \/ n.err # "none" /\ n.sock = SOCKET_INVALID /\ n.os = e.os
           \/ /\ n.err = "none" /\ n.sock \in SystemSockets /\ e.os[n.sock].is = "closed"
              /\ n.os = [e.os EXCEPT ![n.sock] = New(a.family, type)]
    <3>1. Numbered /\ a.family \in SomeFamily /\ type \in Kinds
      BY DEF Known, SomeFamily
    <3> QED BY <2>2, <3>1, CreateIs
  <2> HIDE DEF n
  <2>4. CASE n.err # "none"
    <3>1. Elsewhere(n, s, before) /\ Holds(n, s, before, type) /\ OfFamily(n, fam) /\ NonBlocking(n)
      BY <2>2, <2>3, <2>4 DEF Going, Ready, Elsewhere, Holds, OfFamily, NonBlocking
    <3>2. InTime(n) /\ Marked(n)
      BY <2>2, <2>3 DEF Going, Ready, InTime, Marked, SameTimeouts, SameMark, SameTime
    <3>3. n \in Going(s, before, type, fam)
      BY <2>3, <3>1, <3>2 DEF Going
    <3> QED BY <2>1, <2>2, <2>3, <2>4, <3>1, <3>3 DEF SameMark
  <2>5. CASE n.err = "none"
    <3>1. d = [n EXCEPT !.current = a.family]
      BY <2>1, <2>5
    <3> HIDE DEF d
    <3>2. d \in CallSet
      BY <2>3, <3>1 DEF CallSet, SomeFamily
    <3>3. SameTimeouts(n, d) /\ SameMark(n, d) /\ SameTime(n, d)
      BY <2>3, <3>1 DEF CallSet, SameTimeouts, SameMark, SameTime
    <3>4. /\ d.sock = n.sock /\ d.os = n.os /\ d.current = a.family /\ d.family = n.family /\ d.over = n.over
          /\ d.err = n.err
      BY <2>3, <3>1 DEF CallSet
    <3>5. /\ n.sock \in SystemSockets /\ n.sock # SOCKET_INVALID /\ e.os[n.sock].is = "closed"
          /\ e.os \in [SystemSockets -> SocketSet] /\ n.os = [e.os EXCEPT ![n.sock] = New(a.family, type)]
      BY <2>2, <2>3, <2>5 DEF Known, Numbered, CallSet
    <3>6. d.os[d.sock] = New(a.family, type) /\ \A h \in SystemSockets : h # d.sock => d.os[h] = e.os[h]
      BY <3>4, <3>5
    <3>7. \A h \in SystemSockets : e.os[h] = IF h = s THEN ClosedSocket ELSE before[h]
      BY <2>2 DEF Going, Ready, Elsewhere, Known, Numbered
    <3>8. Elsewhere(d, s, before)
      BY <3>6, <3>7 DEF Elsewhere
    <3>9. Holds(d, s, before, type)
      <4>1. d.sock # s => before[d.sock] = ClosedSocket
        BY <3>4, <3>5, <3>7 DEF Known
      <4> QED BY <3>4, <3>6, <4>1 DEF Holds, New
    <3>10. OfFamily(d, fam) /\ ~d.over
      BY <2>2, <2>3, <3>4 DEF OfFamily, Going, Ready
    <3>11. InTime(d) /\ Marked(d)
      BY <2>2, <2>3, <3>3 DEF Going, Ready, InTime, Marked, SameTimeouts, SameMark, SameTime
    <3>12. d \in Going(s, before, type, fam)
      BY <3>2, <3>8, <3>9, <3>10, <3>11 DEF Going
    <3>13. d.err = "none" /\ d.sock # SOCKET_INVALID /\ SameMark(c, d)
      BY <2>2, <2>3, <2>5, <3>3, <3>4, <3>5 DEF SameMark
    <3> QED BY <3>10, <3>12, <3>13 DEF d
  <2> QED BY <2>4, <2>5
<1> QED BY <1>2, <1>3

-----------------------------------------------------------------------------
(* The loops.                                                               *)

Saying == {"accepts", "refuses", "later", "silent"}

\* What else is kept when a socket is made blocking or not.
Keeps(c, d) ==
  /\ SameMark(c, d) /\ d.sock = c.sock /\ d.err = c.err /\ d.over = c.over /\ d.family = c.family /\ d.current = c.current
  /\ c.sock # SOCKET_INVALID => d.os[c.sock].is = c.os[c.sock].is /\ d.os[c.sock].family = c.os[c.sock].family

LEMMA UnblockStays ==
  ASSUME NEW s, NEW before, NEW type, NEW fam, NEW c \in Going(s, before, type, fam)
  PROVE  socket_setnonblocking(c) \in Ready(s, before, type, fam) /\ Keeps(c, socket_setnonblocking(c))
<1>1. \A b \in BOOLEAN : /\ SetBlocking(c, b) \in Going(s, before, type, fam)
                         /\ ~b => NonBlocking(SetBlocking(c, b))
                         /\ Keeps(c, SetBlocking(c, b))
  BY SetBlockingStays DEF Keeps
<1>2. /\ SetBlocking(c, FALSE) \in Going(s, before, type, fam) /\ NonBlocking(SetBlocking(c, FALSE))
      /\ Keeps(c, SetBlocking(c, FALSE))
  BY <1>1
<1> QED BY <1>2 DEF socket_setnonblocking, Ready

LEMMA BlockStays ==
  ASSUME NEW s, NEW before, NEW type, NEW fam, NEW c \in Going(s, before, type, fam)
  PROVE  socket_setblocking(c) \in Going(s, before, type, fam) /\ Keeps(c, socket_setblocking(c))
<1>1. \A b \in BOOLEAN : SetBlocking(c, b) \in Going(s, before, type, fam) /\ Keeps(c, SetBlocking(c, b))
  BY SetBlockingStays DEF Keeps
<1>2. SetBlocking(c, TRUE) \in Going(s, before, type, fam) /\ Keeps(c, SetBlocking(c, TRUE))
  BY <1>1
<1> QED BY <1>2 DEF socket_setblocking

LEMMA ErrorStays ==
  ASSUME NEW s, NEW before, NEW type, NEW fam, NEW c \in Ready(s, before, type, fam), NEW err \in Errors
  PROVE  /\ Fails(c, err) \in Ready(s, before, type, fam) /\ SameSocket(c, Fails(c, err))
         /\ SameMark(c, Fails(c, err)) /\ Fails(c, err).over = c.over
<1>1. c \in CallSet /\ c \in Going(s, before, type, fam) /\ NonBlocking(c)
  BY DEF Going, Ready
<1>2. Fails(c, err) \in CallSet /\ Same(c, Fails(c, err)) /\ Fails(c, err).over = c.over
  BY <1>1, FailsIs
<1>3. Fails(c, err) \in Going(s, before, type, fam) /\ NonBlocking(Fails(c, err))
  BY <1>1, <1>2, SaysStays
<1> QED BY <1>2, <1>3 DEF Ready, Same

LEMMA SuccessStays ==
  ASSUME NEW s, NEW before, NEW type, NEW fam, NEW c \in Ready(s, before, type, fam)
  PROVE  /\ Succeeds(c) \in Ready(s, before, type, fam) /\ SameSocket(c, Succeeds(c))
         /\ SameMark(c, Succeeds(c)) /\ Succeeds(c).over = c.over
<1>1. Succeeds(c) = Fails(c, "none") /\ "none" \in Errors
  BY DEF Succeeds, Fails, Errors
<1> QED BY <1>1, ErrorStays

LEMMA OverStays ==
  ASSUME NEW s, NEW before, NEW type, NEW fam, NEW c \in Ready(s, before, type, fam)
  PROVE  /\ Over(c) \in Ready(s, before, type, fam) /\ SameSocket(c, Over(c)) /\ SameMark(c, Over(c))
<1>1. c \in CallSet /\ c \in Going(s, before, type, fam) /\ NonBlocking(c)
  BY DEF Going, Ready
<1>2. Over(c) \in CallSet /\ Same(c, Over(c)) /\ Over(c).over
  BY <1>1, OverIs
<1>3. Over(c) \in Going(s, before, type, fam) /\ NonBlocking(Over(c))
  BY <1>1, <1>2, SaysStays
<1> QED BY <1>2, <1>3 DEF Ready, Same

LEMMA MadeStays ==
  ASSUME NEW s, NEW before, NEW type, NEW fam, NEW c \in Ready(s, before, type, fam),
         c.sock # SOCKET_INVALID, NEW is \in {"bound", "connected", "listening"}
  PROVE  /\ Becomes(c, is) \in Ready(s, before, type, fam) /\ Becomes(c, is).over = c.over
         /\ SameMark(c, Becomes(c, is)) /\ Becomes(c, is).sock = c.sock
  BY BecomesStays DEF Ready

\* socket_connect waits as long as it may, and keeps the socket.
LEMMA ConnectStays ==
  ASSUME NEW s, NEW before, NEW type, NEW fam, NEW c \in Ready(s, before, type, fam), c.marks # 0,
         NEW answer \in Saying
  PROVE  /\ socket_connect(c, answer) \in Ready(s, before, type, fam)
         /\ socket_connect(c, answer).over = c.over
<1> DEFINE says == Tries(c, answer)
           waited == socket_waitfd(c, When(says))
           d == socket_connect(c, answer)
<1>1. says \in Saying /\ When(says) \in Nat
  BY DEF Tries, Saying, When, Patience
<1> HIDE DEF says
<1>2. CASE c.sock = SOCKET_INVALID
  <2>1. d = Fails(c, "closed") /\ "closed" \in Errors
    BY <1>2 DEF socket_connect, Errors
  <2> QED BY <2>1, ErrorStays
<1>3. CASE c.sock # SOCKET_INVALID
  <2>1. ~c.os[c.sock].blocking
    BY <1>3 DEF Ready, NonBlocking
  <2>2. /\ waited \in Ready(s, before, type, fam) /\ waited.marks # 0 /\ SameSocket(c, waited)
        /\ waited.over = c.over
    BY <1>1, WaitStays
  <2>3. waited.sock # SOCKET_INVALID
    BY <1>3, <2>2 DEF SameSocket
  <2>4. d \in {Succeeds(Becomes(c, "connected")), Fails(c, "connection refused"), waited,
               Becomes(waited, "connected"), Fails(waited, "connection timed out")}
    BY <1>3, <2>1 DEF socket_connect, says
  <2> HIDE DEF waited, d
  <2> SUFFICES d \in Ready(s, before, type, fam) /\ d.over = c.over
    BY DEF d
  <2>5. CASE d = Succeeds(Becomes(c, "connected"))
    BY <1>3, <2>5, MadeStays, SuccessStays
  <2>6. CASE d = Fails(c, "connection refused")
    <3>1. "connection refused" \in Errors
      BY DEF Errors
    <3>2. \A e \in Errors : Fails(c, e) \in Ready(s, before, type, fam) /\ Fails(c, e).over = c.over
      BY ErrorStays
    <3> QED BY <2>6, <3>1, <3>2
  <2>7. CASE d = waited
    BY <2>2, <2>7
  <2>8. CASE d = Becomes(waited, "connected")
    BY <2>2, <2>3, <2>8, MadeStays
  <2>9. CASE d = Fails(waited, "connection timed out")
    <3>1. "connection timed out" \in Errors
      BY DEF Errors
    <3>2. \A e \in Errors : Fails(waited, e) \in Ready(s, before, type, fam) /\ Fails(waited, e).over = waited.over
      BY <2>2, ErrorStays
    <3> QED BY <2>2, <2>9, <3>1, <3>2
  <2> QED BY <2>4, <2>5, <2>6, <2>7, <2>8, <2>9
<1> QED BY <1>2, <1>3

\* What has settled on a family is of the family of its socket.
LEMMA SettledStays ==
  ASSUME NEW s, NEW before, NEW type, NEW fam, NEW c \in Ready(s, before, type, fam)
  PROVE  Settled(c) \in Ready(s, before, type, fam) /\ SameMark(c, Settled(c))
<1> DEFINE o == Over(c)
           d == Settled(c)
<1>1. c \in CallSet
  BY DEF Going, Ready
<1>2. o \in CallSet /\ Same(c, o) /\ o.over /\ o \in Ready(s, before, type, fam)
  BY <1>1, OverIs, OverStays
<1>3. d = [o EXCEPT !.family = c.current] /\ c.current \in SomeFamily
  BY <1>1 DEF Settled, CallSet
<1> HIDE DEF o, d
<1>4. d \in CallSet
  BY <1>2, <1>3 DEF CallSet
<1>5. /\ SameTimeouts(o, d) /\ SameMark(o, d) /\ SameTime(o, d) /\ d.sock = o.sock /\ d.os = o.os
      /\ d.current = o.current /\ d.family = c.current /\ d.over = o.over
  BY <1>2, <1>3 DEF CallSet, SameTimeouts, SameMark, SameTime
<1>6. d.family = d.current
  BY <1>2, <1>5 DEF Same, SameSocket
<1>7. Elsewhere(d, s, before) /\ Holds(d, s, before, type) /\ OfFamily(d, fam) /\ NonBlocking(d)
  BY <1>2, <1>5, <1>6 DEF Going, Ready, Elsewhere, Holds, OfFamily, NonBlocking
<1>8. InTime(d) /\ Marked(d)
  BY <1>2, <1>5 DEF Going, Ready, InTime, Marked, SameTimeouts, SameMark, SameTime
<1> QED BY <1>2, <1>4, <1>5, <1>7, <1>8 DEF Going, Ready, SameMark, Same, d

FamilyFits(a, fam) == a.family \in Families /\ a.answer \in Saying /\ (fam # "unspec" => a.family = fam)

LEMMA ConnectOneStays ==
  ASSUME NEW s, NEW before, NEW type, NEW fam, Known(s, before, type), NEW c \in Ready(s, before, type, fam),
         NEW a, FamilyFits(a, fam)
  PROVE  ConnectOne(c, a, type) \in Ready(s, before, type, fam)
<1> DEFINE m == timeout_markstart(c)
           has == Fitting(m, a, type)
           set == socket_setnonblocking(has)
           tried == socket_connect(set, a.answer)
<1>1. CASE c.over
  BY <1>1 DEF ConnectOne
<1>2. CASE ~c.over
  <2>1. m \in Ready(s, before, type, fam) /\ m.marks # 0 /\ ~m.over
    BY <1>2, MarkStays DEF Ready
  <2> HIDE DEF m
  <2>2. /\ has \in Going(s, before, type, fam) /\ ~has.over /\ SameMark(m, has)
        /\ has.err = "none" => has.sock # SOCKET_INVALID
        /\ has.err # "none" => NonBlocking(has)
    BY <2>1, FittingStays DEF FamilyFits
  <2> HIDE DEF has
  <2>3. CASE has.err # "none"
    <3>1. ConnectOne(c, a, type) = has
      BY <1>2, <2>3 DEF ConnectOne, has, m
    <3> QED BY <2>2, <2>3, <3>1 DEF Ready
  <2>4. CASE has.err = "none"
    <3>1. set \in Ready(s, before, type, fam) /\ set.marks # 0
      BY <2>1, <2>2, UnblockStays DEF SameMark, Keeps
    <3> HIDE DEF set
    <3>2. tried \in Ready(s, before, type, fam)
      BY <3>1, ConnectStays DEF FamilyFits
    <3> HIDE DEF tried
    <3>3. ConnectOne(c, a, type) \in {tried, Settled(tried)}
      BY <1>2, <2>4 DEF ConnectOne, has, m, set, tried
    <3> QED BY <3>2, <3>3, SettledStays
  <2> QED BY <2>3, <2>4
<1> QED BY <1>1, <1>2

LEMMA BindOneStays ==
  ASSUME NEW s, NEW before, NEW type, NEW fam, Known(s, before, type), NEW c \in Ready(s, before, type, fam),
         NEW a, FamilyFits(a, fam)
  PROVE  BindOne(c, a, type) \in Ready(s, before, type, fam)
<1> DEFINE has == Fitting(c, a, type)
           blocks == socket_setblocking(has)
           bound == socket_bind(has, a.answer)
<1>1. CASE c.over
  BY <1>1 DEF BindOne
<1>2. CASE ~c.over
  <2>1. /\ has \in Going(s, before, type, fam) /\ ~has.over
        /\ has.err = "none" => has.sock # SOCKET_INVALID
        /\ has.err # "none" => NonBlocking(has)
    BY <1>2, FittingStays DEF FamilyFits
  <2> HIDE DEF has
  <2>2. CASE has.err # "none"
    <3>1. BindOne(c, a, type) = has
      BY <1>2, <2>2 DEF BindOne, has
    <3> QED BY <2>1, <2>2, <3>1 DEF Ready
  <2>3. CASE has.err = "none"
    <3>1. /\ blocks \in Going(s, before, type, fam) /\ blocks \in CallSet /\ blocks.sock = has.sock
          /\ has.sock # SOCKET_INVALID
      BY <2>1, <2>3, BlockStays DEF Going, Keeps
    <3> HIDE DEF blocks
    <3>2. PICK e : /\ bound = socket_setnonblocking(e)
                   /\ e \in {Succeeds(Becomes(blocks, "bound")), Fails(blocks, "address already in use")}
      BY DEF socket_bind, blocks
    <3>3. e \in Going(s, before, type, fam)
      <4>1. CASE e = Succeeds(Becomes(blocks, "bound"))
        <5>1. Becomes(blocks, "bound") \in Going(s, before, type, fam)
          BY <3>1, BecomesStays
        <5>2. Becomes(blocks, "bound") \in CallSet
          BY <5>1 DEF Going
        <5>3. e \in CallSet /\ Same(Becomes(blocks, "bound"), e) /\ e.over = Becomes(blocks, "bound").over
          BY <4>1, <5>2, SucceedsIs
        <5> QED BY <5>1, <5>3, SaysStays
      <4>2. CASE e = Fails(blocks, "address already in use")
        <5>1. "address already in use" \in Errors
          BY DEF Errors
        <5>2. e \in CallSet /\ Same(blocks, e) /\ e.over = blocks.over
          BY <3>1, <4>2, <5>1, FailsIs
        <5> QED BY <3>1, <5>2, SaysStays
      <4> QED BY <3>2, <4>1, <4>2
    <3>4. bound \in Ready(s, before, type, fam)
      BY <3>2, <3>3, UnblockStays
    <3> HIDE DEF bound
    <3>5. BindOne(c, a, type) \in {bound, socket_setnonblocking(Settled(bound))}
      BY <1>2, <2>3 DEF BindOne, has, bound
    <3>6. Settled(bound) \in Going(s, before, type, fam)
      BY <3>4, SettledStays DEF Ready
    <3>7. socket_setnonblocking(Settled(bound)) \in Ready(s, before, type, fam)
      BY <3>6, UnblockStays
    <3> QED BY <3>4, <3>5, <3>7
  <2> QED BY <2>2, <2>3
<1> QED BY <1>1, <1>2

AddressesFit(addresses, fam) ==
  Len(addresses) \in Nat /\ \A i \in 1..Len(addresses) : FamilyFits(addresses[i], fam)

LEMMA TryConnectStays ==
  ASSUME NEW s, NEW before, NEW type, NEW fam, Known(s, before, type), NEW c \in Ready(s, before, type, fam),
         NEW addresses, AddressesFit(addresses, fam)
  PROVE  inet_tryconnect(c, type, addresses) \in Ready(s, before, type, fam)
<1>1. CASE addresses = <<>>
  <2>1. /\ inet_tryconnect(c, type, addresses) = Fails(c, "host or service not provided, or not known")
        /\ "host or service not provided, or not known" \in Errors
    BY <1>1 DEF inet_tryconnect, Errors
  <2> QED BY <2>1, ErrorStays
<1>2. CASE addresses # <<>>
  <2> DEFINE A == Ready(s, before, type, fam)
  <2>1. \A d \in A, i \in 1..Len(addresses) : ConnectOne(d, addresses[i], type) \in A
    BY ConnectOneStays DEF AddressesFit
  <2>2. c \in A /\ Len(addresses) \in Nat
    BY DEF AddressesFit
  <2> HIDE DEF A
  <2>3. inet_tryconnect(c, type, addresses) \in A
    BY <1>2, <2>1, <2>2, ConnectsStay
  <2> QED BY <2>3 DEF A
<1> QED BY <1>1, <1>2

LEMMA TryBindStays ==
  ASSUME NEW s, NEW before, NEW type, NEW fam, Known(s, before, type), NEW c \in Ready(s, before, type, fam),
         NEW addresses, AddressesFit(addresses, fam)
  PROVE  inet_trybind(c, type, addresses) \in Ready(s, before, type, fam)
<1>1. CASE addresses = <<>>
  <2>1. /\ inet_trybind(c, type, addresses) = Fails(c, "host or service not provided, or not known")
        /\ "host or service not provided, or not known" \in Errors
    BY <1>1 DEF inet_trybind, Errors
  <2> QED BY <2>1, ErrorStays
<1>2. CASE addresses # <<>>
  <2> DEFINE A == Ready(s, before, type, fam)
  <2>1. \A d \in A, i \in 1..Len(addresses) : BindOne(d, addresses[i], type) \in A
    BY BindOneStays DEF AddressesFit
  <2>2. c \in A /\ Len(addresses) \in Nat
    BY DEF AddressesFit
  <2> HIDE DEF A
  <2>3. inet_trybind(c, type, addresses) \in A
    BY <1>2, <2>1, <2>2, BindsStay
  <2> QED BY <2>3 DEF A
<1> QED BY <1>1, <1>2

Words == [says : {"done", "closed", "wouldblock", "reset"}, after : Nat]

\* An attempt leaves the socket alone.
LEMMA AttemptStays ==
  ASSUME NEW s, NEW before, NEW type, NEW fam, NEW c \in Ready(s, before, type, fam), c.marks # 0,
         c.sock # SOCKET_INVALID, NEW a \in Words
  PROVE  /\ Attempt(c, a) \in Ready(s, before, type, fam) /\ Attempt(c, a).marks # 0
         /\ SameSocket(c, Attempt(c, a))
<1> DEFINE w == socket_waitfd(c, a.after)
           b == w.err # "none"
           v == [w EXCEPT !.prev = a.says]
           d == [w EXCEPT !.prev = a.says, !.over = b]
<1>1. a.after \in Nat /\ a.says \in Errors
  BY DEF Words, Errors
<1>2. w \in Ready(s, before, type, fam) /\ w.marks # 0 /\ SameSocket(c, w) /\ w.over = c.over
  BY <1>1, WaitStays
<1>3. w \in CallSet
  BY <1>2 DEF Going, Ready
<1>4. Attempt(c, a) \in {c, Over(Succeeds(c)), Over(Fails(c, a.says))} \/ (~c.over /\ Attempt(c, a) = d)
  BY DEF Attempt, Ready, NonBlocking
<1> HIDE DEF w
<1>5. b \in BOOLEAN
  OBVIOUS
<1> HIDE DEF b
<1>6. CASE ~c.over /\ Attempt(c, a) = d
  <2>1. d \in CallSet
    BY <1>1, <1>3, <1>5 DEF CallSet
  <2>2. SameSocket(w, d) /\ SameTimeouts(w, d)
    BY <1>3 DEF CallSet, SameSocket, SameTimeouts
  <2>3. SameMark(w, d) /\ SameTime(w, d)
    BY <1>3 DEF CallSet, SameMark, SameTime
  <2> HIDE DEF d
  <2>4. Same(w, d) /\ w \in Going(s, before, type, fam) /\ (w.over => d.over) /\ NonBlocking(w)
    BY <1>2, <1>6, <2>2, <2>3 DEF Same, Ready
  <2>5. d \in Going(s, before, type, fam) /\ NonBlocking(d)
    BY <2>1, <2>4, SaysStays
  <2> QED BY <1>2, <1>6, <2>2, <2>3, <2>5 DEF Ready, SameSocket, SameMark
<1> HIDE DEF d
<1>7. CASE Attempt(c, a) = c
  BY <1>7 DEF SameSocket
<1>8. CASE Attempt(c, a) \in {Over(Succeeds(c)), Over(Fails(c, a.says))}
  <2>1. PICK e \in {Succeeds(c), Fails(c, a.says)} : Attempt(c, a) = Over(e)
    BY <1>8
  <2>2. e \in Ready(s, before, type, fam) /\ SameSocket(c, e) /\ SameMark(c, e)
    BY <1>1, <2>1, SuccessStays, ErrorStays
  <2>3. Over(e) \in Ready(s, before, type, fam) /\ SameSocket(e, Over(e)) /\ SameMark(e, Over(e))
    BY <2>2, OverStays
  <2> QED BY <2>1, <2>2, <2>3 DEF SameSocket, SameMark
<1> QED BY <1>4, <1>6, <1>7, <1>8

AreWords(answers) == Len(answers) \in Nat /\ \A i \in 1..Len(answers) : answers[i] \in Words

LEMMA TransferStays ==
  ASSUME NEW s, NEW before, NEW type, NEW fam, NEW c \in Ready(s, before, type, fam), NEW answers, AreWords(answers)
  PROVE  LET d == Transferred(timeout_markstart(c), answers) IN
         d \in Ready(s, before, type, fam) /\ SameSocket(c, d)
<1> DEFINE m == timeout_markstart(c)
<1>1. /\ m \in Ready(s, before, type, fam) /\ m.marks # 0 /\ SameSocket(c, m)
  BY MarkStays, MarkIs DEF Ready, Going
<1> HIDE DEF m
<1>2. CASE m.sock = SOCKET_INVALID
  <2>1. Transferred(m, answers) = Fails(m, "closed") /\ "closed" \in Errors
    BY <1>2 DEF Transferred, Errors
  <2>2. \A e \in Errors : Fails(m, e) \in Ready(s, before, type, fam) /\ SameSocket(m, Fails(m, e))
    BY <1>1, ErrorStays
  <2> QED BY <1>1, <2>1, <2>2 DEF m, SameSocket
<1>3. CASE m.sock # SOCKET_INVALID
  <2> DEFINE A == {d \in Ready(s, before, type, fam) : d.marks # 0 /\ SameSocket(m, d)}
  <2>1. ASSUME NEW d \in A, NEW i \in 1..Len(answers) PROVE Attempt(d, answers[i]) \in A
    <3>1. d.sock # SOCKET_INVALID /\ answers[i] \in Words
      BY <1>3 DEF SameSocket, AreWords
    <3>2. /\ Attempt(d, answers[i]) \in Ready(s, before, type, fam) /\ Attempt(d, answers[i]).marks # 0
          /\ SameSocket(d, Attempt(d, answers[i]))
      BY <3>1, AttemptStays
    <3> QED BY <3>2 DEF SameSocket
  <2>2. m \in A /\ Len(answers) \in Nat
    BY <1>1 DEF SameSocket, AreWords
  <2> HIDE DEF A
  <2>3. Loop(Attempt, m, answers) \in A
    BY <2>1, <2>2, AttemptsStay
  <2> QED BY <1>1, <1>3, <2>3 DEF A, m, Transferred, SameSocket
<1> QED BY <1>2, <1>3

-----------------------------------------------------------------------------
(* The invariant.                                                           *)

KindOf(class) == IF class \in Tcp THEN "stream" ELSE "dgram"

\* What an object that has a socket knows of it.
Knows(u, system) ==
  /\ u.class # "none" /\ ~system[u.sock].blocking /\ system[u.sock].type = KindOf(u.class)
  /\ u.family # "unspec" => system[u.sock].family = u.family
  /\ u.class = "tcp{server}" => system[u.sock].is = "listening"

SocketsInv ==
  /\ objects \in [Objects -> UserSet] /\ sockets \in [SystemSockets -> SocketSet] /\ leaked \subseteq SystemSockets
  /\ overtime = FALSE
  /\ \A h \in SystemSockets : sockets[h].is = "closed" => sockets[h] = ClosedSocket
  /\ \A h \in leaked : sockets[h].is # "closed"
  /\ \A o \in Objects : objects[o].sock # SOCKET_INVALID =>
       objects[o].sock \in OpenSockets \ leaked /\ Knows(objects[o], sockets)
  /\ \A o, p \in Objects : objects[o].sock = objects[p].sock /\ objects[o].sock # SOCKET_INVALID => o = p
  /\ \A h \in OpenSockets \ leaked : \E o \in Objects : objects[o].sock = h

LEMMA SocketsInvImplies ==
  ASSUME SocketsInv, Numbered
  PROVE  EachSocketHasItsObject /\ WaitsAreBounded
<1>1. ASSUME NEW h \in OpenSockets \ leaked PROVE Cardinality(Holding(h)) = 1
  <2>1. PICK o \in Objects : objects[o].sock = h
    BY DEF SocketsInv
  <2>2. h # SOCKET_INVALID
    BY DEF OpenSockets, Numbered
  <2>3. Holding(h) = {o}
    BY <2>1, <2>2 DEF Holding, SocketsInv
  <2> QED BY <2>3, FS_Singleton
<1>2. ASSUME NEW o \in Objects, objects[o].sock # SOCKET_INVALID
      PROVE  /\ objects[o].sock \in OpenSockets \ leaked /\ Knows(objects[o], sockets)
             /\ TypeOf(o) = KindOf(objects[o].class)
  BY <1>2 DEF SocketsInv, TypeOf, KindOf
<1> QED BY <1>1, <1>2 DEF EachSocketHasItsObject, WaitsAreBounded, SocketsInv, Knows

LEMMA StartsOK ==
  ASSUME SocketsInit, Numbered
  PROVE  SocketsInv
<1>1. /\ objects = [o \in Objects |-> NoObject] /\ sockets = [h \in SystemSockets |-> ClosedSocket]
      /\ leaked = {} /\ overtime = FALSE
  BY DEF SocketsInit
<1>2. NoObject \in UserSet /\ NoObject.sock = SOCKET_INVALID
  BY DEF NoObject, NewObject, UserSet, SocketNumbers, SomeFamily
<1>3. OpenSockets = {}
  BY <1>1, ClosedIs DEF OpenSockets
<1> QED BY <1>1, <1>2, <1>3, ClosedIs DEF SocketsInv

\* A call begins with what its object has.
LEMMA CallReady ==
  ASSUME SocketsInv, Numbered, NEW u \in UserSet, NEW type \in Kinds,
         u.sock # SOCKET_INVALID => u.sock \in OpenSockets /\ Knows(u, sockets) /\ type = KindOf(u.class)
  PROVE  /\ Call(u) \in Ready(u.sock, sockets, type, u.family) /\ Known(u.sock, sockets, type)
         /\ Call(u).sock = u.sock /\ Call(u).os = sockets /\ Call(u).family = u.family
         /\ Call(u).current = u.family /\ Call(u).over = FALSE
<1> DEFINE c == Call(u)
<1>1. c \in CallSet
  BY DEF Call, CallSet, UserSet, SocketsInv, Errors
<1>2. /\ c.sock = u.sock /\ c.os = sockets /\ c.family = u.family /\ c.current = u.family /\ c.over = FALSE
      /\ c.elapsed = 0 /\ c.start = 0 /\ c.marks = 0 /\ c.waits = 0 /\ c.block = u.block /\ c.total = u.total
  BY DEF Call
<1>3. u.block \in {Unset, 0, 1} /\ u.total \in {Unset, 1} /\ u.sock \in SocketNumbers
  BY DEF UserSet
<1> HIDE DEF c
<1>4. InTime(c) /\ Marked(c)
  BY <1>2, <1>3 DEF InTime, Marked, Unset
<1>5. Elsewhere(c, u.sock, sockets) /\ OfFamily(c, u.family)
  BY <1>2 DEF Elsewhere, OfFamily
<1>6. Holds(c, u.sock, sockets, type) /\ NonBlocking(c)
  BY <1>2 DEF Holds, NonBlocking, Knows, OpenSockets
<1>7. Known(u.sock, sockets, type)
  BY <1>3 DEF Known, SocketsInv, OpenSockets
<1> QED BY <1>1, <1>2, <1>4, <1>5, <1>6, <1>7 DEF Going, Ready, c

LEMMA ObjectReady ==
  ASSUME SocketsInv, Numbered, NEW o \in Objects
  PROVE  LET u == objects[o] IN
         /\ u \in UserSet /\ TypeOf(o) \in Kinds /\ TypeOf(o) = KindOf(u.class)
         /\ Call(u) \in Ready(u.sock, sockets, TypeOf(o), u.family) /\ Known(u.sock, sockets, TypeOf(o))
         /\ Call(u).sock = u.sock /\ Call(u).os = sockets /\ Call(u).family = u.family
         /\ Call(u).current = u.family /\ Call(u).over = FALSE
<1>1. objects[o] \in UserSet /\ TypeOf(o) \in Kinds /\ TypeOf(o) = KindOf(objects[o].class)
  BY DEF SocketsInv, TypeOf, KindOf, Kinds
<1>2. objects[o].sock # SOCKET_INVALID => objects[o].sock \in OpenSockets /\ Knows(objects[o], sockets)
  BY DEF SocketsInv
<1> QED BY <1>1, <1>2, CallReady

\* The object takes what its call has: the one step of the invariant.
LEMMA HandsOver ==
  ASSUME SocketsInv, Numbered, NEW o \in Objects, NEW type \in Kinds, NEW fam, NEW c, NEW u \in UserSet,
         c \in Ready(objects[o].sock, sockets, type, fam),
         objects' = [objects EXCEPT ![o] = u], sockets' = c.os, leaked' = leaked, overtime' = FALSE,
         u.sock = c.sock,
         c.sock # SOCKET_INVALID =>
           /\ u.class # "none" /\ KindOf(u.class) = type
           /\ u.family # "unspec" => c.os[c.sock].family = u.family
           /\ u.class = "tcp{server}" => c.os[c.sock].is = "listening"
  PROVE  SocketsInv'
<1> DEFINE s == objects[o].sock
<1>1. /\ c \in CallSet /\ Elsewhere(c, s, sockets) /\ Holds(c, s, sockets, type) /\ NonBlocking(c)
  BY DEF Ready, Going
<1>2. /\ objects \in [Objects -> UserSet] /\ sockets \in [SystemSockets -> SocketSet] /\ leaked \subseteq SystemSockets
      /\ c.os \in [SystemSockets -> SocketSet] /\ c.sock \in SocketNumbers /\ s \in SocketNumbers
  BY <1>1 DEF SocketsInv, CallSet, UserSet
<1>3. /\ objects'[o] = u /\ \A p \in Objects : p # o => objects'[p] = objects[p]
      /\ objects' \in [Objects -> UserSet]
  BY <1>2
<1>4. s # SOCKET_INVALID => s \in SystemSockets /\ s \notin leaked /\ sockets[s].is # "closed"
  BY DEF SocketsInv, OpenSockets
<1>5. c.sock # SOCKET_INVALID => c.sock \in SystemSockets /\ sockets'[c.sock].is # "closed" /\ (c.sock # s => sockets[c.sock] = ClosedSocket)
  BY <1>1, <1>2 DEF Holds, SocketNumbers
<1>6. \A h \in SystemSockets : h # c.sock => sockets'[h] = IF h = s THEN ClosedSocket ELSE sockets[h]
  BY <1>1 DEF Elsewhere
<1>7. SOCKET_INVALID \notin SystemSockets
  BY DEF Numbered
<1>8. c.sock \notin leaked
  BY <1>2, <1>4, <1>5, <1>7, ClosedIs DEF SocketsInv
<1>9. ASSUME NEW h \in SystemSockets, sockets'[h].is = "closed" PROVE sockets'[h] = ClosedSocket
  <2>1. h # c.sock
    BY <1>5, <1>7, <1>9
  <2> QED BY <1>6, <1>9, <2>1 DEF SocketsInv
<1>10. ASSUME NEW h \in leaked PROVE sockets'[h].is # "closed"
  <2>1. h \in SystemSockets /\ h # c.sock /\ h # s
    BY <1>2, <1>4, <1>7, <1>8
  <2> QED BY <1>6, <2>1 DEF SocketsInv
<1>11. ASSUME NEW p \in Objects, p # o, objects[p].sock # SOCKET_INVALID
       PROVE  /\ objects[p].sock \in SystemSockets /\ objects[p].sock \notin leaked /\ objects[p].sock # c.sock
              /\ sockets'[objects[p].sock] = sockets[objects[p].sock] /\ sockets[objects[p].sock].is # "closed"
              /\ Knows(objects[p], sockets)
  <2>1. /\ objects[p].sock \in SystemSockets /\ objects[p].sock \notin leaked /\ objects[p].sock # s
        /\ sockets[objects[p].sock].is # "closed" /\ Knows(objects[p], sockets)
    BY <1>11 DEF SocketsInv, OpenSockets
  <2>2. objects[p].sock # c.sock
    BY <1>5, <1>11, <2>1, ClosedIs
  <2> QED BY <1>6, <2>1, <2>2
<1>12. ASSUME NEW p \in Objects, objects'[p].sock # SOCKET_INVALID
       PROVE  objects'[p].sock \in (OpenSockets \ leaked)' /\ Knows(objects'[p], sockets')
  <2>1. CASE p = o
    <3>1. objects'[p] = u /\ c.sock # SOCKET_INVALID
      BY <1>3, <1>12, <2>1
    <3>2. ~sockets'[c.sock].blocking /\ sockets'[c.sock].type = type
      BY <1>1, <3>1 DEF Holds, NonBlocking
    <3>3. objects'[p].sock \in (OpenSockets \ leaked)'
      <4>1. objects'[p].sock = c.sock /\ c.sock \in SystemSockets /\ sockets'[c.sock].is # "closed" /\ c.sock \notin leaked'
        BY <1>5, <1>8, <3>1
      <4>2. c.sock \in OpenSockets'
        BY <4>1 DEF OpenSockets
      <4> QED BY <4>1, <4>2
    <3>4. Knows(u, sockets')
      BY <3>1, <3>2 DEF Knows
    <3> QED BY <3>1, <3>3, <3>4
  <2>2. CASE p # o
    BY <1>3, <1>11, <1>12, <2>2 DEF OpenSockets, Knows
  <2> QED BY <2>1, <2>2
<1>13. ASSUME NEW p \in Objects, NEW q \in Objects, objects'[p].sock = objects'[q].sock,
              objects'[p].sock # SOCKET_INVALID
       PROVE  p = q
  <2>1. CASE p = o /\ q # o
    BY <1>3, <1>11, <1>13, <2>1
  <2>2. CASE p # o /\ q = o
    BY <1>3, <1>11, <1>13, <2>2
  <2>3. CASE p # o /\ q # o
    BY <1>3, <1>13, <2>3 DEF SocketsInv
  <2> QED BY <2>1, <2>2, <2>3
<1>14. ASSUME NEW h \in (OpenSockets \ leaked)' PROVE \E p \in Objects : objects'[p].sock = h
  <2>1. h \in SystemSockets /\ sockets'[h].is # "closed" /\ h \notin leaked
    BY <1>14 DEF OpenSockets
  <2>2. CASE h = c.sock
    BY <1>3, <2>2
  <2>3. CASE h # c.sock
    <3>1. h # s /\ sockets'[h] = sockets[h]
      BY <1>6, <2>1, <2>3, ClosedIs
    <3>2. PICK p \in Objects : objects[p].sock = h
      BY <2>1, <3>1 DEF SocketsInv, OpenSockets
    <3> QED BY <1>3, <3>1, <3>2
  <2> QED BY <2>2, <2>3
<1>15. sockets' \in [SystemSockets -> SocketSet] /\ leaked' \subseteq SystemSockets /\ overtime' = FALSE
  BY <1>2
<1> QED BY <1>3, <1>9, <1>10, <1>12, <1>13, <1>14, <1>15 DEF SocketsInv

-----------------------------------------------------------------------------
(* The methods keep the invariant.                                          *)

LEMMA GoingIs ==
  ASSUME NEW s, NEW before, NEW type, NEW fam, NEW c \in Ready(s, before, type, fam)
  PROVE  /\ c \in CallSet /\ c.sock \in SocketNumbers /\ c.family \in SomeFamily
         /\ c.sock # SOCKET_INVALID /\ c.family # "unspec" => c.os[c.sock].family = c.family
  BY DEF Ready, Going, CallSet, Holds, OfFamily

LEMMA ReturnsOK ==
  ASSUME SocketsInv, Numbered, NEW o \in Objects, NEW type \in Kinds, NEW fam, NEW c, NEW class \in Tcp \cup Udp,
         c \in Ready(objects[o].sock, sockets, type, fam), KindOf(class) = type,
         c.sock # SOCKET_INVALID /\ class = "tcp{server}" => c.os[c.sock].is = "listening",
         Returns(o, c, class), UNCHANGED leaked
  PROVE  SocketsInv'
<1> DEFINE u == [objects[o] EXCEPT !.class = class, !.sock = c.sock, !.family = c.family]
<1>1. c \in CallSet /\ c.sock \in SocketNumbers /\ c.family \in SomeFamily
  BY GoingIs
<1>2. objects[o] \in UserSet
  BY DEF SocketsInv
<1>3. u \in UserSet /\ u.sock = c.sock /\ u.class = class /\ u.family = c.family
  BY <1>1, <1>2 DEF UserSet
<1>4. Allowed(c)
  BY IsAllowed DEF Ready
<1>5. objects' = [objects EXCEPT ![o] = u] /\ sockets' = c.os /\ overtime' = FALSE
  BY <1>4 DEF Returns, SocketsInv
<1> HIDE DEF u
<1>6. c.sock # SOCKET_INVALID =>
        /\ u.class # "none" /\ KindOf(u.class) = type
        /\ u.family # "unspec" => c.os[c.sock].family = u.family
        /\ u.class = "tcp{server}" => c.os[c.sock].is = "listening"
  <2>1. class # "none"
    BY DEF Tcp, Udp
  <2>2. c.sock # SOCKET_INVALID /\ c.family # "unspec" => c.os[c.sock].family = c.family
    BY DEF Ready, Going, Holds, OfFamily
  <2> QED BY <1>3, <2>1, <2>2
<1> QED BY <1>3, <1>5, <1>6, HandsOver

LEMMA ClassOf ==
  ASSUME SocketsInv, NEW o \in Objects, NEW classes \in SUBSET (Tcp \cup Udp), checkgroup(o, classes)
  PROVE  /\ objects[o].class \in classes /\ objects[o].class \in Tcp \cup Udp
         /\ TypeOf(o) = KindOf(objects[o].class)
  BY DEF checkgroup, TypeOf, KindOf

LEMMA ConnectOK ==
  ASSUME SocketsInv, Numbered, NEW o \in Objects, NEW addresses, Connect(o, addresses),
         AddressesFit(addresses, objects[o].family)
  PROVE  SocketsInv'
<1> DEFINE u == objects[o]
           c == inet_tryconnect(Call(u), "stream", addresses)
<1>1. u.class \in Tcp /\ Returns(o, c, "tcp{client}") /\ UNCHANGED leaked
  BY DEF Connect, checkgroup
<1>2. TypeOf(o) = "stream" /\ KindOf("tcp{client}") = "stream" /\ "stream" \in Kinds
  BY <1>1 DEF TypeOf, KindOf, Tcp, Kinds
<1>3. Call(u) \in Ready(u.sock, sockets, "stream", u.family) /\ Known(u.sock, sockets, "stream")
  BY <1>2, ObjectReady
<1>4. \A t \in Kinds : t = "stream" => inet_tryconnect(Call(u), t, addresses) \in Ready(u.sock, sockets, t, u.family)
  BY <1>3, TryConnectStays
<1>5. c \in Ready(u.sock, sockets, "stream", u.family)
  BY <1>2, <1>4
<1> HIDE DEF c
<1>6. "tcp{client}" \in Tcp \cup Udp /\ "tcp{client}" # "tcp{server}"
  BY DEF Tcp
<1> QED BY <1>1, <1>2, <1>5, <1>6, ReturnsOK

LEMMA BindOK ==
  ASSUME SocketsInv, Numbered, NEW o \in Objects, NEW addresses, Bind(o, addresses),
         AddressesFit(addresses, objects[o].family)
  PROVE  SocketsInv'
<1> DEFINE u == objects[o]
           c == inet_trybind(Call(u), TypeOf(o), addresses)
<1>1. u.class \in {"tcp{master}", "udp{unconnected}"} /\ Returns(o, c, u.class) /\ UNCHANGED leaked
  BY DEF Bind, checkgroup
<1>2. TypeOf(o) = KindOf(u.class) /\ TypeOf(o) \in Kinds
  BY ObjectReady
<1>3. Call(u) \in Ready(u.sock, sockets, TypeOf(o), u.family) /\ Known(u.sock, sockets, TypeOf(o))
  BY ObjectReady
<1>4. c \in Ready(u.sock, sockets, TypeOf(o), u.family)
  BY <1>3, TryBindStays
<1> HIDE DEF c
<1>5. u.class \in Tcp \cup Udp /\ u.class # "tcp{server}"
  BY <1>1 DEF Tcp, Udp
<1> QED BY <1>1, <1>2, <1>4, <1>5, ReturnsOK

LEMMA SetpeernameOK ==
  ASSUME SocketsInv, Numbered, NEW o \in Objects, NEW addresses, setpeername(o, addresses),
         AddressesFit(addresses, objects[o].family)
  PROVE  SocketsInv'
<1> DEFINE u == objects[o]
           c == inet_tryconnect(Call(u), "dgram", addresses)
<1>1. u.class \in Udp /\ UNCHANGED leaked
  BY DEF setpeername, checkgroup
<1>2. PICK class \in {"udp{connected}", u.class} : Returns(o, c, class)
  BY DEF setpeername
<1>3. TypeOf(o) = "dgram" /\ KindOf(class) = "dgram" /\ "dgram" \in Kinds
  BY <1>1, <1>2 DEF TypeOf, KindOf, Tcp, Udp, Kinds
<1>4. Call(u) \in Ready(u.sock, sockets, "dgram", u.family) /\ Known(u.sock, sockets, "dgram")
  BY <1>3, ObjectReady
<1>5. \A t \in Kinds : t = "dgram" => inet_tryconnect(Call(u), t, addresses) \in Ready(u.sock, sockets, t, u.family)
  BY <1>4, TryConnectStays
<1>6. c \in Ready(u.sock, sockets, "dgram", u.family)
  BY <1>3, <1>5
<1> HIDE DEF c
<1>7. class \in Tcp \cup Udp /\ class # "tcp{server}"
  BY <1>1, <1>2 DEF Tcp, Udp
<1> QED BY <1>1, <1>2, <1>3, <1>6, <1>7, ReturnsOK

LEMMA TransferOK ==
  ASSUME SocketsInv, Numbered, NEW o \in Objects, NEW answers, AreWords(answers), Transfer(o, answers)
  PROVE  SocketsInv'
<1> DEFINE u == objects[o]
           c == Transferred(timeout_markstart(Call(u)), answers)
<1>1. u.class \in {"tcp{client}"} \cup Udp /\ Returns(o, c, u.class) /\ UNCHANGED leaked
  BY DEF Transfer, checkgroup
<1>2. TypeOf(o) = KindOf(u.class) /\ TypeOf(o) \in Kinds /\ Call(u) \in Ready(u.sock, sockets, TypeOf(o), u.family)
  BY ObjectReady
<1>3. c \in Ready(u.sock, sockets, TypeOf(o), u.family)
  BY <1>2, TransferStays
<1> HIDE DEF c
<1>4. u.class \in Tcp \cup Udp /\ u.class # "tcp{server}"
  BY <1>1 DEF Tcp, Udp
<1> QED BY <1>1, <1>2, <1>3, <1>4, ReturnsOK

LEMMA DisconnectOK ==
  ASSUME SocketsInv, Numbered, NEW o \in Objects, trydisconnect(o)
  PROVE  SocketsInv'
<1> DEFINE u == objects[o]
<1>1. u.class \in Udp /\ UNCHANGED leaked
  BY DEF trydisconnect, checkgroup
<1>2. PICK c : /\ Returns(o, c, "udp{unconnected}")
               /\ c = Call(u) \/ (u.sock # SOCKET_INVALID /\ c = Becomes(Call(u), "bound"))
  BY DEF trydisconnect
<1>3. /\ TypeOf(o) = "dgram" /\ KindOf("udp{unconnected}") = "dgram" /\ "dgram" \in Kinds
      /\ "udp{unconnected}" \in Tcp \cup Udp /\ "udp{unconnected}" # "tcp{server}"
  BY <1>1 DEF TypeOf, KindOf, Tcp, Udp, Kinds
<1>4. Call(u) \in Ready(u.sock, sockets, TypeOf(o), u.family) /\ Call(u).sock = u.sock
  BY ObjectReady
<1>5. c \in Ready(u.sock, sockets, "dgram", u.family)
  <2>1. \A is \in {"bound"} : u.sock # SOCKET_INVALID => Becomes(Call(u), is) \in Ready(u.sock, sockets, TypeOf(o), u.family)
    BY <1>4, MadeStays
  <2> QED BY <1>2, <1>3, <1>4, <2>1
<1> QED BY <1>1, <1>2, <1>3, <1>5, ReturnsOK

LEMMA ShutdownOK ==
  ASSUME SocketsInv, Numbered, NEW o \in Objects, Shutdown(o)
  PROVE  SocketsInv'
<1> DEFINE u == objects[o]
           c == socket_setnonblocking(socket_setblocking(Call(u)))
<1>1. u.class = "tcp{client}" /\ Returns(o, c, u.class) /\ UNCHANGED leaked
  BY DEF Shutdown, checkgroup
<1>2. TypeOf(o) = KindOf(u.class) /\ TypeOf(o) \in Kinds /\ Call(u) \in Ready(u.sock, sockets, TypeOf(o), u.family)
  BY ObjectReady
<1>3. socket_setblocking(Call(u)) \in Going(u.sock, sockets, TypeOf(o), u.family)
  BY <1>2, BlockStays DEF Ready
<1>4. c \in Ready(u.sock, sockets, TypeOf(o), u.family)
  BY <1>3, UnblockStays
<1> HIDE DEF c
<1>5. u.class \in Tcp \cup Udp /\ u.class # "tcp{server}"
  BY <1>1 DEF Tcp, Udp
<1> QED BY <1>1, <1>2, <1>4, <1>5, ReturnsOK

LEMMA CloseOK ==
  ASSUME SocketsInv, Numbered, NEW o \in Objects, Close(o)
  PROVE  SocketsInv'
<1> DEFINE u == objects[o]
           c == socket_destroy(Call(u))
<1>1. u.class \in Tcp \cup Udp /\ Returns(o, c, u.class) /\ UNCHANGED leaked
  BY DEF Close, checkgroup
<1>2. /\ TypeOf(o) = KindOf(u.class) /\ TypeOf(o) \in Kinds /\ Call(u) \in Ready(u.sock, sockets, TypeOf(o), u.family)
      /\ Known(u.sock, sockets, TypeOf(o))
  BY ObjectReady
<1>3. c \in Ready(u.sock, sockets, TypeOf(o), u.family) /\ c.sock = SOCKET_INVALID
  BY <1>2, DestroyStays, DestroyIs DEF Ready, Going
<1> HIDE DEF c
<1> QED BY <1>1, <1>2, <1>3, ReturnsOK

LEMMA CollectOK ==
  ASSUME SocketsInv, Numbered, NEW o \in Objects, CollectSocket(o)
  PROVE  SocketsInv'
<1> DEFINE u == objects[o]
           c == socket_destroy(Call(u))
<1>1. /\ objects' = [objects EXCEPT ![o] = NoObject] /\ sockets' = c.os /\ leaked' = leaked /\ overtime' = FALSE
  BY DEF CollectSocket, SocketsInv
<1>2. /\ TypeOf(o) \in Kinds /\ Call(u) \in Ready(u.sock, sockets, TypeOf(o), u.family)
      /\ Known(u.sock, sockets, TypeOf(o))
  BY ObjectReady
<1>3. c \in Ready(u.sock, sockets, TypeOf(o), u.family) /\ c.sock = SOCKET_INVALID
  BY <1>2, DestroyStays, DestroyIs DEF Ready, Going
<1> HIDE DEF c
<1>4. NoObject \in UserSet /\ NoObject.sock = SOCKET_INVALID
  BY DEF NoObject, NewObject, UserSet, SocketNumbers, SomeFamily
<1> QED BY <1>1, <1>2, <1>3, <1>4, HandsOver

LEMMA SettimeoutOK ==
  ASSUME SocketsInv, Numbered, NEW o \in Objects, NEW mode, NEW t \in {0, 1}, mode = "b" \/ t = 1,
         settimeout(o, mode, t)
  PROVE  SocketsInv'
<1> DEFINE u == objects[o]
           v == IF mode = "b" THEN [u EXCEPT !.block = t] ELSE [u EXCEPT !.total = t]
           c == Call(u)
<1>1. /\ objects' = [objects EXCEPT ![o] = v] /\ sockets' = sockets /\ leaked' = leaked /\ overtime' = FALSE
  BY DEF settimeout, SocketsInv
<1>2. /\ u \in UserSet /\ TypeOf(o) \in Kinds /\ c \in Ready(u.sock, sockets, TypeOf(o), u.family)
      /\ c.sock = u.sock /\ c.os = sockets
  BY ObjectReady
<1>3. v \in UserSet /\ v.sock = u.sock /\ v.class = u.class /\ v.family = u.family
  BY <1>2 DEF UserSet
<1>4. u.sock # SOCKET_INVALID => Knows(u, sockets)
  BY DEF SocketsInv
<1>5. TypeOf(o) = KindOf(u.class)
  BY ObjectReady
<1> HIDE DEF v, c
<1>6. c.sock # SOCKET_INVALID =>
        /\ v.class # "none" /\ KindOf(v.class) = TypeOf(o)
        /\ v.family # "unspec" => c.os[c.sock].family = v.family
        /\ v.class = "tcp{server}" => c.os[c.sock].is = "listening"
  BY <1>2, <1>3, <1>4, <1>5 DEF Knows
<1>7. sockets' = c.os /\ v.sock = c.sock
  BY <1>1, <1>2, <1>3
<1> QED BY <1>1, <1>2, <1>3, <1>6, <1>7, HandsOver

Listens(c) == c.err = "none" => c.os[c.sock].is = "listening"

LEMMA ListenStays ==
  ASSUME NEW s, NEW before, NEW type, NEW fam, NEW c \in Ready(s, before, type, fam)
  PROVE  socket_listen(c) \in Ready(s, before, type, fam) /\ Listens(socket_listen(c))
<1> DEFINE d == socket_listen(c)
           b == socket_setblocking(c)
           made == Becomes(b, "listening")
<1>1. b \in Going(s, before, type, fam) /\ b \in CallSet /\ b.sock = c.sock
  <2>1. c \in Going(s, before, type, fam)
    BY DEF Ready
  <2> QED BY <2>1, BlockStays DEF Keeps, Going
<1>2. PICK e : /\ d = socket_setnonblocking(e)
               /\ e = Fails(b, "invalid argument") \/ (e = Succeeds(made) /\ c.sock # SOCKET_INVALID)
  BY DEF socket_listen
<1> HIDE DEF d, b
<1>3. e \in Going(s, before, type, fam) /\ (e.err = "none" => e.os[e.sock].is = "listening")
  <2>1. CASE e = Succeeds(made) /\ c.sock # SOCKET_INVALID
    <3>1. \A is \in {"bound", "connected", "listening"} :
            /\ Becomes(b, is) \in Going(s, before, type, fam) /\ Becomes(b, is).sock = b.sock
            /\ Becomes(b, is).os[b.sock].is = is
      BY <1>1, <2>1, BecomesStays
    <3>2. /\ made \in Going(s, before, type, fam) /\ made \in CallSet /\ made.sock = b.sock
          /\ made.os[b.sock].is = "listening"
      BY <3>1 DEF Going
    <3> HIDE DEF made
    <3>3. e \in CallSet /\ Same(made, e) /\ e.over = made.over
      BY <2>1, <3>2, SucceedsIs
    <3>4. e \in Going(s, before, type, fam)
      BY <3>2, <3>3, SaysStays
    <3> QED BY <3>2, <3>3, <3>4 DEF Same, SameSocket
  <2>2. CASE e = Fails(b, "invalid argument")
    <3>1. "invalid argument" \in Errors /\ "invalid argument" # "none"
      BY DEF Errors
    <3>2. \A x \in Errors : /\ Fails(b, x) \in CallSet /\ Same(b, Fails(b, x)) /\ Fails(b, x).over = b.over
                            /\ Fails(b, x).err = x
      BY <1>1, FailsIs
    <3>3. e \in CallSet /\ Same(b, e) /\ e.over = b.over /\ e.err = "invalid argument"
      BY <2>2, <3>1, <3>2
    <3>4. e \in Going(s, before, type, fam)
      BY <1>1, <3>3, SaysStays
    <3> QED BY <3>1, <3>3, <3>4
  <2> QED BY <1>2, <2>1, <2>2
<1>4. d \in Ready(s, before, type, fam) /\ Keeps(e, d) /\ e.sock \in SocketNumbers
  BY <1>2, <1>3, UnblockStays DEF Going, CallSet
<1>5. d.err = "none" => e.sock # SOCKET_INVALID
  <2>1. CASE e = Succeeds(made) /\ c.sock # SOCKET_INVALID
    <3>1. \A is \in {"listening"} : Becomes(b, is).sock = b.sock
      BY <1>1, <2>1, BecomesStays
    <3>2. made \in CallSet /\ made.sock = b.sock
      <4>1. \A is \in {"listening"} : Becomes(b, is) \in Going(s, before, type, fam)
        BY <1>1, <2>1, BecomesStays
      <4> QED BY <3>1, <4>1 DEF Going
    <3> HIDE DEF made
    <3> QED BY <1>1, <2>1, <3>2, SucceedsIs DEF Same, SameSocket
  <2>2. CASE e = Fails(b, "invalid argument")
    <3>1. "invalid argument" \in Errors /\ "invalid argument" # "none"
      BY DEF Errors
    <3>2. \A x \in Errors : Fails(b, x).err = x
      BY <1>1, FailsIs
    <3> QED BY <1>4, <2>2, <3>1, <3>2 DEF Keeps
  <2> QED BY <1>2, <2>1, <2>2
<1> QED BY <1>3, <1>4, <1>5 DEF Keeps, Listens, d

LEMMA ListenOK ==
  ASSUME SocketsInv, Numbered, NEW o \in Objects, Listen(o)
  PROVE  SocketsInv'
<1> DEFINE u == objects[o]
           c == socket_listen(Call(u))
<1>1. u.class = "tcp{master}" /\ UNCHANGED leaked
  BY DEF Listen, checkgroup
<1>2. PICK class \in {"tcp{master}", "tcp{server}"} :
        Returns(o, c, class) /\ (class = "tcp{server}" => c.err = "none")
  BY <1>1 DEF Listen
<1>3. TypeOf(o) = "stream" /\ KindOf(class) = "stream" /\ "stream" \in Kinds
  BY <1>1, <1>2 DEF TypeOf, KindOf, Tcp, Kinds
<1>4. Call(u) \in Ready(u.sock, sockets, TypeOf(o), u.family)
  BY ObjectReady
<1>5. c \in Ready(u.sock, sockets, TypeOf(o), u.family) /\ Listens(c)
  BY <1>4, ListenStays
<1> HIDE DEF c
<1>6. c.sock # SOCKET_INVALID /\ class = "tcp{server}" => c.os[c.sock].is = "listening"
  BY <1>2, <1>5 DEF Listens
<1>7. class \in Tcp \cup Udp
  BY <1>2 DEF Tcp
<1> QED BY <1>1, <1>2, <1>3, <1>5, <1>6, <1>7, ReturnsOK

Makes(c, d, family) ==
  /\ d.current = c.current
  /\ d.err # "none" => d.sock = SOCKET_INVALID
  /\ d.err = "none" => d.sock \in SystemSockets /\ d.os[d.sock].family = family

\* A new socket, of an object that had none.
LEMMA CreateStays ==
  ASSUME NEW before, NEW type, NEW fam, Known(SOCKET_INVALID, before, type), NEW c \in CallSet, c.os = before,
         InTime(c), Marked(c), OfFamily(c, fam), NEW family \in SomeFamily, c.current \in {family, "unspec"}
  PROVE  /\ socket_create(c, family, type) \in Going(SOCKET_INVALID, before, type, fam)
         /\ Makes(c, socket_create(c, family, type), family)
<1> DEFINE d == socket_create(c, family, type)
<1>1. Numbered /\ type \in Kinds /\ before \in [SystemSockets -> SocketSet] /\ SOCKET_INVALID \notin SystemSockets
  BY DEF Known, Numbered
<1>2. /\ d \in CallSet /\ SameTimeouts(c, d) /\ SameMark(c, d) /\ SameTime(c, d) /\ d.current = c.current
      /\ d.family = c.family /\ d.over = c.over
      /\ \/ d.err # "none" /\ d.sock = SOCKET_INVALID /\ d.os = c.os
         \/ /\ d.err = "none" /\ d.sock \in SystemSockets /\ c.os[d.sock].is = "closed"
            /\ d.os = [c.os EXCEPT ![d.sock] = New(family, type)]
  BY <1>1, CreateIs
<1> HIDE DEF d
<1>3. InTime(d) /\ Marked(d) /\ OfFamily(d, fam)
  BY <1>2 DEF InTime, Marked, OfFamily, SameTimeouts, SameMark, SameTime
<1>4. CASE d.err # "none"
  <2>1. Elsewhere(d, SOCKET_INVALID, before) /\ Holds(d, SOCKET_INVALID, before, type)
    BY <1>1, <1>2, <1>4 DEF Elsewhere, Holds
  <2> QED BY <1>2, <1>3, <1>4, <2>1 DEF Going, Makes, d
<1>5. CASE d.err = "none"
  <2>1. /\ d.os[d.sock] = New(family, type) /\ before[d.sock] = ClosedSocket
        /\ \A h \in SystemSockets : h # d.sock => d.os[h] = before[h]
    BY <1>1, <1>2, <1>5 DEF Known
  <2>2. Elsewhere(d, SOCKET_INVALID, before) /\ Holds(d, SOCKET_INVALID, before, type)
    BY <1>1, <1>2, <2>1 DEF Elsewhere, Holds, New
  <2> QED BY <1>2, <1>3, <1>5, <2>1, <2>2 DEF Going, New, Makes, d
<1> QED BY <1>4, <1>5

\* An object that is not made yet has no socket.
LEMMA NoneHasNone ==
  ASSUME SocketsInv, NEW o \in Objects, objects[o].class = "none"
  PROVE  objects[o].sock = SOCKET_INVALID
  BY DEF SocketsInv, Knows

LEMMA CreateOK ==
  ASSUME SocketsInv, Numbered, NEW o \in Objects, NEW class \in {"tcp{master}", "udp{unconnected}"},
         NEW family \in {"unspec", "inet"}, Create(o, class, family)
  PROVE  SocketsInv'
<1> DEFINE u == NewObject(class, family)
           type == IF class \in Tcp THEN "stream" ELSE "dgram"
           c == Call(u)
           new == socket_create(c, family, type)
           made == socket_setnonblocking(new)
           v == [u EXCEPT !.sock = IF family = "unspec" THEN SOCKET_INVALID ELSE made.sock]
<1>1. /\ objects[o].sock = SOCKET_INVALID /\ objects' = [objects EXCEPT ![o] = v]
      /\ sockets' = IF family = "unspec" THEN sockets ELSE made.os
      /\ leaked' = leaked /\ overtime' = FALSE
  <2>1. objects[o].class = "none"
    BY DEF Create
  <2>2. objects[o].sock = SOCKET_INVALID /\ overtime = FALSE
    BY <2>1, NoneHasNone DEF SocketsInv
  <2> QED BY <2>1, <2>2 DEF Create, inet_trycreate
<1>2. type \in Kinds /\ type = KindOf(class) /\ class \in Tcp \cup Udp /\ class # "tcp{server}" /\ class # "none"
  BY DEF Kinds, KindOf, Tcp, Udp
<1>3. u \in UserSet /\ u.sock = SOCKET_INVALID /\ u.family = family /\ u.class = class
  BY <1>2 DEF NewObject, UserSet, SocketNumbers, SomeFamily, Families
<1> HIDE DEF u, type
<1>4. /\ c \in Ready(SOCKET_INVALID, sockets, type, family) /\ Known(SOCKET_INVALID, sockets, type)
      /\ c.sock = SOCKET_INVALID /\ c.os = sockets /\ c.current = family
  BY <1>2, <1>3, CallReady
<1> HIDE DEF c
<1>5. CASE family = "unspec"
  <2>1. v \in UserSet /\ v.sock = c.sock /\ sockets' = c.os
    BY <1>1, <1>3, <1>4, <1>5 DEF UserSet, SocketNumbers
  <2> HIDE DEF v
  <2> QED BY <1>1, <1>2, <1>4, <2>1, HandsOver
<1>6. CASE family # "unspec"
  <2>1. c \in CallSet /\ InTime(c) /\ Marked(c) /\ OfFamily(c, family) /\ family \in SomeFamily
    BY <1>4, <1>6 DEF Ready, Going, SomeFamily, Families
  <2>2. new \in Going(SOCKET_INVALID, sockets, type, family) /\ Makes(c, new, family)
    BY <1>4, <2>1, CreateStays
  <2> HIDE DEF new
  <2>3. made \in Ready(SOCKET_INVALID, sockets, type, family) /\ Keeps(new, made)
    BY <2>2, UnblockStays
  <2> HIDE DEF made
  <2>4. made.sock \in SocketNumbers /\ (made.sock # SOCKET_INVALID => made.os[made.sock].family = family)
    <3>1. made.current = family
      BY <1>4, <2>2, <2>3 DEF Keeps, Makes
    <3> QED BY <1>6, <2>3, <3>1 DEF Ready, Going, CallSet, Holds
  <2>5. v \in UserSet /\ v.sock = made.sock /\ v.class = class /\ v.family = family
    BY <1>3, <1>6, <2>4 DEF UserSet
  <2> HIDE DEF v
  <2>6. sockets' = made.os
    BY <1>1, <1>6
  <2> QED BY <1>1, <1>2, <2>3, <2>4, <2>5, <2>6, HandsOver
<1> QED BY <1>5, <1>6

LEMMA SendtoOK ==
  ASSUME SocketsInv, Numbered, NEW o \in Objects, NEW family \in Families, NEW answers, AreWords(answers),
         Sendto(o, family, answers)
  PROVE  SocketsInv'
<1> DEFINE u == objects[o]
           c == Call(u)
           made == socket_create(c, family, "dgram")
           set == socket_setnonblocking(made)
           ready == [set EXCEPT !.family = family, !.current = family]
           sends(d) == Transferred(timeout_markstart(d), answers)
<1>1. u.class = "udp{unconnected}" /\ UNCHANGED leaked /\ u.family \in {"unspec", family}
  BY DEF Sendto, checkgroup
<1>2. \/ Returns(o, sends(c), u.class)
      \/ u.family = "unspec" /\ u.sock = SOCKET_INVALID /\ made.err # "none" /\ Returns(o, made, u.class)
      \/ u.family = "unspec" /\ u.sock = SOCKET_INVALID /\ made.err = "none" /\ Returns(o, sends(ready), u.class)
  BY DEF Sendto, inet_trycreate
<1>3. TypeOf(o) = "dgram" /\ KindOf(u.class) = "dgram" /\ "dgram" \in Kinds /\ TypeOf(o) \in Kinds
  BY <1>1 DEF TypeOf, KindOf, Tcp, Udp, Kinds
<1>4. /\ c \in Ready(u.sock, sockets, TypeOf(o), u.family) /\ Known(u.sock, sockets, TypeOf(o))
      /\ c.sock = u.sock /\ c.os = sockets /\ c.current = u.family
  BY ObjectReady
<1>5. u.class \in Tcp \cup Udp /\ u.class # "tcp{server}"
  BY <1>1 DEF Udp
<1> HIDE DEF c
<1>6. CASE Returns(o, sends(c), u.class)
  <2>1. sends(c) \in Ready(u.sock, sockets, TypeOf(o), u.family)
    BY <1>4, TransferStays
  <2> HIDE DEF sends
  <2> QED BY <1>1, <1>3, <1>5, <1>6, <2>1, ReturnsOK
<1>7. ASSUME u.family = "unspec", u.sock = SOCKET_INVALID
      PROVE  made \in Going(SOCKET_INVALID, sockets, TypeOf(o), "unspec") /\ Makes(c, made, family)
  <2>1. c \in CallSet /\ InTime(c) /\ Marked(c) /\ OfFamily(c, u.family) /\ family \in SomeFamily
    BY <1>4 DEF Ready, Going, SomeFamily
  <2>2. Known(SOCKET_INVALID, sockets, TypeOf(o)) /\ c.current \in {family, "unspec"}
    BY <1>4, <1>7
  <2>3. /\ socket_create(c, family, TypeOf(o)) \in Going(SOCKET_INVALID, sockets, TypeOf(o), u.family)
        /\ Makes(c, socket_create(c, family, TypeOf(o)), family)
    BY <1>4, <2>1, <2>2, CreateStays
  <2> QED BY <1>3, <1>7, <2>3
<1> HIDE DEF made
<1>8. CASE u.family = "unspec" /\ u.sock = SOCKET_INVALID /\ made.err # "none" /\ Returns(o, made, u.class)
  <2>1. made \in Ready(u.sock, sockets, TypeOf(o), u.family)
    BY <1>7, <1>8 DEF Ready, NonBlocking, Makes
  <2> QED BY <1>1, <1>3, <1>5, <1>8, <2>1, ReturnsOK
<1>9. CASE u.family = "unspec" /\ u.sock = SOCKET_INVALID /\ made.err = "none" /\ Returns(o, sends(ready), u.class)
  <2>1. set \in Ready(SOCKET_INVALID, sockets, TypeOf(o), "unspec") /\ Keeps(made, set)
    BY <1>7, <1>9, UnblockStays
  <2>2. made.sock \in SystemSockets /\ made.os[made.sock].family = family /\ made.sock # SOCKET_INVALID
    BY <1>7, <1>9 DEF Makes, Numbered
  <2> HIDE DEF set
  <2>3. set \in CallSet /\ family \in SomeFamily
    BY <2>1 DEF Ready, Going, SomeFamily
  <2>4. ready \in CallSet
    BY <2>3 DEF CallSet
  <2>5. SameTimeouts(set, ready) /\ SameMark(set, ready) /\ SameTime(set, ready)
    BY <2>3 DEF CallSet, SameTimeouts, SameMark, SameTime
  <2>6. /\ ready.sock = set.sock /\ ready.os = set.os /\ ready.current = family /\ ready.family = family
        /\ ready.over = set.over
    BY <2>3 DEF CallSet
  <2> HIDE DEF ready
  <2>7. ready.os[ready.sock].family = family
    BY <2>1, <2>2, <2>6 DEF Keeps
  <2>8. /\ Elsewhere(ready, SOCKET_INVALID, sockets) /\ Holds(ready, SOCKET_INVALID, sockets, TypeOf(o))
        /\ NonBlocking(ready) /\ OfFamily(ready, family)
    BY <2>1, <2>6, <2>7 DEF Ready, Going, Elsewhere, Holds, NonBlocking, OfFamily
  <2>9. InTime(ready) /\ Marked(ready)
    BY <2>1, <2>5 DEF Ready, Going, InTime, Marked, SameTimeouts, SameMark, SameTime
  <2>10. ready \in Ready(SOCKET_INVALID, sockets, TypeOf(o), family)
    BY <2>4, <2>8, <2>9 DEF Ready, Going
  <2>11. sends(ready) \in Ready(SOCKET_INVALID, sockets, TypeOf(o), family)
    BY <2>10, TransferStays
  <2> HIDE DEF sends
  <2>12. sends(ready) \in Ready(u.sock, sockets, TypeOf(o), family)
    BY <1>9, <2>11
  <2> QED BY <1>1, <1>3, <1>5, <1>9, <2>12, ReturnsOK
<1> QED BY <1>2, <1>6, <1>8, <1>9

LEMMA AcceptOK ==
  ASSUME SocketsInv, Numbered, NEW o \in Objects, NEW p \in Objects, NEW answers, AreWords(answers),
         NEW blocking \in BOOLEAN, Accept(o, p, answers, blocking)
  PROVE  SocketsInv'
<1> DEFINE u == objects[o]
           c == Transferred(timeout_markstart(Call(u)), answers)
           client == socket_create([c EXCEPT !.os = sockets], u.family, "stream")
           connected == Becomes(client, "connected")
           inherits == SetBlocking(connected, blocking)
           set == socket_setnonblocking(inherits)
           v == [NewObject("tcp{client}", u.family) EXCEPT !.sock = client.sock]
<1>1. /\ u.class = "tcp{server}" /\ objects[p].class = "none" /\ UNCHANGED leaked
      /\ overtime' = (overtime \/ ~Allowed(c))
      /\ \/ c.err = "none" /\ client.err = "none" /\ objects' = [objects EXCEPT ![p] = v] /\ sockets' = set.os
         \/ UNCHANGED <<objects, sockets>>
  BY DEF Accept, checkgroup
<1>2. objects[p].sock = SOCKET_INVALID
  BY <1>1, NoneHasNone
<1>3. TypeOf(o) = "stream" /\ "stream" \in Kinds /\ TypeOf(o) \in Kinds
  BY <1>1 DEF TypeOf, Tcp, Kinds
<1>4. /\ Call(u) \in Ready(u.sock, sockets, TypeOf(o), u.family) /\ Known(u.sock, sockets, TypeOf(o))
      /\ Call(u).sock = u.sock /\ Call(u).os = sockets /\ Call(u).current = u.family /\ u \in UserSet
  BY ObjectReady
<1>5. c \in Ready(u.sock, sockets, TypeOf(o), u.family) /\ SameSocket(Call(u), c)
  BY <1>4, TransferStays
<1>6. /\ c \in CallSet /\ InTime(c) /\ Marked(c) /\ OfFamily(c, u.family) /\ c.os = sockets /\ c.current = u.family
  BY <1>4, <1>5 DEF Ready, Going, SameSocket
<1>7. Allowed(c)
  BY <1>5, IsAllowed DEF Ready
<1>8. overtime' = FALSE
  BY <1>1, <1>7 DEF SocketsInv
<1> HIDE DEF c
<1>9. [c EXCEPT !.os = sockets] = c
  BY <1>6 DEF CallSet
<1>10. client = socket_create(c, u.family, "stream")
  BY <1>9
<1> HIDE DEF client
<1>11. CASE c.err = "none" /\ client.err = "none" /\ objects' = [objects EXCEPT ![p] = v] /\ sockets' = set.os
  <2>1. Known(SOCKET_INVALID, sockets, TypeOf(o)) /\ u.family \in SomeFamily
    BY <1>4 DEF Known, UserSet, SocketNumbers
  <2>2. /\ socket_create(c, u.family, TypeOf(o)) \in Going(SOCKET_INVALID, sockets, TypeOf(o), u.family)
        /\ Makes(c, socket_create(c, u.family, TypeOf(o)), u.family)
    BY <1>6, <2>1, CreateStays
  <2>3. /\ client \in Going(SOCKET_INVALID, sockets, TypeOf(o), u.family) /\ client.sock \in SystemSockets
        /\ client.os[client.sock].family = u.family /\ client.sock # SOCKET_INVALID
    BY <1>3, <1>10, <1>11, <2>2 DEF Makes, Numbered
  <2>4. \A is \in {"bound", "connected", "listening"} :
          /\ Becomes(client, is) \in Going(SOCKET_INVALID, sockets, TypeOf(o), u.family)
          /\ Becomes(client, is).sock = client.sock /\ Becomes(client, is).current = client.current
    BY <2>3, BecomesStays
  <2>5. connected \in Going(SOCKET_INVALID, sockets, TypeOf(o), u.family) /\ connected.sock = client.sock
    BY <2>4
  <2> HIDE DEF connected
  <2>6. inherits \in Going(SOCKET_INVALID, sockets, TypeOf(o), u.family) /\ inherits.sock = client.sock
    BY <2>5, SetBlockingStays
  <2> HIDE DEF inherits
  <2>7. set \in Ready(SOCKET_INVALID, sockets, TypeOf(o), u.family) /\ Keeps(inherits, set)
    BY <2>6, UnblockStays
  <2> HIDE DEF set
  <2>8. v \in UserSet /\ v.sock = client.sock /\ v.class = "tcp{client}" /\ v.family = u.family
    BY <2>1, <2>3 DEF UserSet, NewObject, Tcp, SocketNumbers
  <2> HIDE DEF v
  <2>9. /\ set.sock = client.sock
        /\ v.family # "unspec" => set.os[set.sock].family = v.family
    BY <2>3, <2>6, <2>7, <2>8 DEF Keeps, Ready, Going, Holds, OfFamily
  <2>10. KindOf(v.class) = TypeOf(o) /\ v.class # "none" /\ v.class # "tcp{server}"
    BY <1>3, <2>8 DEF KindOf, Tcp
  <2>11. set \in Ready(objects[p].sock, sockets, TypeOf(o), u.family)
    BY <1>2, <2>7
  <2> QED BY <1>1, <1>3, <1>8, <1>11, <2>8, <2>9, <2>10, <2>11, HandsOver
<1>12. CASE UNCHANGED <<objects, sockets>>
  BY <1>1, <1>8, <1>12 DEF SocketsInv, OpenSockets, Knows
<1> QED BY <1>1, <1>11, <1>12

LEMMA AgainReady ==
  ASSUME NEW s, NEW before, NEW type, NEW fam, NEW c \in Ready(s, before, type, fam), fam = "unspec"
  PROVE  Again(c) \in Ready(s, before, type, c.family)
<1> DEFINE d == Again(c)
<1>1. c \in CallSet
  BY DEF Ready, Going
<1>2. d \in CallSet
  BY <1>1 DEF Again, CallSet, Errors
<1>3. /\ SameTimeouts(c, d) /\ SameMark(c, d) /\ SameTime(c, d) /\ SameSocket(c, d)
  BY <1>1 DEF Again, CallSet, SameTimeouts, SameMark, SameTime, SameSocket
<1> HIDE DEF d
<1>4. Elsewhere(d, s, before) /\ Holds(d, s, before, type) /\ NonBlocking(d) /\ OfFamily(d, c.family)
  BY <1>3 DEF Ready, Going, Elsewhere, Holds, NonBlocking, OfFamily, SameSocket
<1>5. InTime(d) /\ Marked(d)
  BY <1>3 DEF Ready, Going, InTime, Marked, SameTimeouts, SameMark, SameTime
<1> QED BY <1>2, <1>4, <1>5 DEF Ready, Going, d

\* What a call leaves that ended without an object.
LEMMA LeavesOK ==
  ASSUME SocketsInv, Numbered, NEW type, NEW fam, NEW c \in Ready(SOCKET_INVALID, sockets, type, fam),
         sockets' = c.os, leaked' = leaked \cup ({c.sock} \ {SOCKET_INVALID}), objects' = objects, overtime' = overtime
  PROVE  SocketsInv'
<1>1. /\ c.os \in [SystemSockets -> SocketSet] /\ c.sock \in SocketNumbers
      /\ \A h \in SystemSockets : h # c.sock => sockets'[h] = sockets[h]
      /\ c.sock # SOCKET_INVALID => c.sock \in SystemSockets /\ sockets'[c.sock].is # "closed" /\ sockets[c.sock] = ClosedSocket
  BY DEF Ready, Going, CallSet, Elsewhere, Holds, Numbered, SocketNumbers
<1>2. SOCKET_INVALID \notin SystemSockets
  BY DEF Numbered
<1>3. leaked' \subseteq SystemSockets /\ sockets' \in [SystemSockets -> SocketSet] /\ overtime' = FALSE
  BY <1>1 DEF SocketsInv
<1>4. ASSUME NEW h \in SystemSockets, sockets'[h].is = "closed" PROVE sockets'[h] = ClosedSocket
  BY <1>1, <1>2, <1>4 DEF SocketsInv
<1>5. ASSUME NEW h \in leaked' PROVE sockets'[h].is # "closed"
  <2>1. CASE h = c.sock
    BY <1>1, <1>2, <1>3, <1>5, <2>1
  <2>2. CASE h # c.sock
    <3>1. h \in leaked
      BY <1>5, <2>2
    <3>2. h \in SystemSockets /\ sockets[h].is # "closed"
      BY <3>1 DEF SocketsInv
    <3> QED BY <1>1, <2>2, <3>2
  <2> QED BY <2>1, <2>2
<1>6. ASSUME NEW o \in Objects, objects'[o].sock # SOCKET_INVALID
      PROVE  objects'[o].sock \in (OpenSockets \ leaked)' /\ Knows(objects'[o], sockets')
  <2>1. objects[o].sock \in SystemSockets /\ sockets[objects[o].sock].is # "closed" /\ objects[o].sock \notin leaked
    BY <1>6 DEF SocketsInv, OpenSockets
  <2>2. objects[o].sock # c.sock
    BY <1>1, <1>2, <2>1, ClosedIs
  <2>3. sockets'[objects[o].sock] = sockets[objects[o].sock]
    BY <1>1, <2>1, <2>2
  <2>4. Knows(objects[o], sockets')
    BY <1>6, <2>3 DEF SocketsInv, Knows
  <2>5. objects[o].sock \in OpenSockets' /\ objects[o].sock \notin leaked'
    BY <2>1, <2>2, <2>3 DEF OpenSockets
  <2> QED BY <2>4, <2>5
<1>7. ASSUME NEW h \in (OpenSockets \ leaked)' PROVE \E o \in Objects : objects'[o].sock = h
  <2>1. h \in SystemSockets /\ sockets'[h].is # "closed" /\ h \notin leaked /\ h # c.sock
    BY <1>2, <1>7 DEF OpenSockets
  <2>2. h \in OpenSockets \ leaked
    BY <1>1, <2>1 DEF OpenSockets
  <2> QED BY <2>2 DEF SocketsInv
<1>8. /\ objects' \in [Objects -> UserSet]
      /\ \A o, p \in Objects : objects'[o].sock = objects'[p].sock /\ objects'[o].sock # SOCKET_INVALID => o = p
  BY DEF SocketsInv
<1> QED BY <1>3, <1>4, <1>5, <1>6, <1>7, <1>8 DEF SocketsInv

LEMMA GlobalConnectOK ==
  ASSUME SocketsInv, Numbered, NEW o \in Objects, NEW localaddr, AddressesFit(localaddr, "unspec"), NEW addresses,
         \A family : Resolves(addresses, family) => AddressesFit(addresses, family),
         global_connect(o, localaddr, addresses)
  PROVE  SocketsInv'
<1> DEFINE c == Call(NoObject)
           bound == IF localaddr = <<>> THEN c ELSE inet_trybind(c, "stream", localaddr)
           again == Again(bound)
           tried == inet_tryconnect(again, "stream", addresses)
           gone == socket_destroy(tried)
<1>1. /\ objects[o].class = "none" /\ Resolves(addresses, bound.family)
      /\ \/ /\ sockets' = bound.os /\ leaked' = leaked \cup ({bound.sock} \ {SOCKET_INVALID})
            /\ UNCHANGED <<objects, overtime>>
         \/ sockets' = gone.os /\ overtime' = (overtime \/ ~Allowed(tried)) /\ UNCHANGED <<objects, leaked>>
         \/ Returns(o, tried, "tcp{client}") /\ UNCHANGED leaked
  BY DEF global_connect
<1>2. objects[o].sock = SOCKET_INVALID
  BY <1>1, NoneHasNone
<1>3. PICK type \in Kinds : type = "stream"
  BY DEF Kinds
<1>4. PICK fam \in SomeFamily : fam = "unspec"
  BY DEF SomeFamily
<1>5. NoObject \in UserSet /\ NoObject.sock = SOCKET_INVALID /\ NoObject.family = fam
  BY <1>4 DEF NoObject, NewObject, UserSet, SocketNumbers, SomeFamily
<1>6. c \in Ready(SOCKET_INVALID, sockets, type, fam) /\ Known(SOCKET_INVALID, sockets, type)
  BY <1>5, CallReady
<1> HIDE DEF c
<1>7. bound \in Ready(SOCKET_INVALID, sockets, type, fam)
  <2>1. AddressesFit(localaddr, fam)
    BY <1>4
  <2>2. inet_trybind(c, type, localaddr) \in Ready(SOCKET_INVALID, sockets, type, fam)
    BY <1>6, <2>1, TryBindStays
  <2> QED BY <1>3, <1>6, <2>2
<1> HIDE DEF bound
<1>8. again \in Ready(SOCKET_INVALID, sockets, type, bound.family)
  BY <1>4, <1>7, AgainReady
<1> HIDE DEF again
<1>9. tried \in Ready(SOCKET_INVALID, sockets, type, bound.family)
  <2>1. AddressesFit(addresses, bound.family)
    BY <1>1
  <2>2. inet_tryconnect(again, type, addresses) \in Ready(SOCKET_INVALID, sockets, type, bound.family)
    BY <1>6, <1>8, <2>1, TryConnectStays
  <2> QED BY <1>3, <2>2
<1> HIDE DEF tried
<1>10. gone \in Ready(SOCKET_INVALID, sockets, type, bound.family) /\ gone.sock = SOCKET_INVALID
  <2>1. tried \in Going(SOCKET_INVALID, sockets, type, bound.family) /\ tried \in CallSet
    BY <1>9 DEF Ready, Going
  <2> QED BY <1>6, <2>1, DestroyStays, DestroyIs
<1> HIDE DEF gone
<1>11. Allowed(tried)
  BY <1>9, IsAllowed DEF Ready
<1>12. CASE /\ sockets' = bound.os /\ leaked' = leaked \cup ({bound.sock} \ {SOCKET_INVALID})
            /\ UNCHANGED <<objects, overtime>>
  BY <1>7, <1>12, LeavesOK
<1>13. CASE sockets' = gone.os /\ overtime' = (overtime \/ ~Allowed(tried)) /\ UNCHANGED <<objects, leaked>>
  <2>1. leaked' = leaked \cup ({gone.sock} \ {SOCKET_INVALID}) /\ overtime' = overtime
    BY <1>10, <1>11, <1>13 DEF SocketsInv
  <2> QED BY <1>10, <1>13, <2>1, LeavesOK
<1>14. CASE Returns(o, tried, "tcp{client}") /\ UNCHANGED leaked
  <2>1. PICK class \in Tcp \cup Udp : class = "tcp{client}"
    BY DEF Tcp
  <2>2. KindOf(class) = type /\ class # "tcp{server}"
    BY <1>3, <2>1 DEF KindOf, Tcp
  <2>3. tried \in Ready(objects[o].sock, sockets, type, bound.family)
    BY <1>2, <1>9
  <2> QED BY <1>14, <2>1, <2>2, <2>3, ReturnsOK
<1> QED BY <1>1, <1>12, <1>13, <1>14

-----------------------------------------------------------------------------
(* Every step.                                                              *)

LEMMA HostsFit ==
  ASSUME NEW addresses \in Remote \cup Local, NEW fam, Resolves(addresses, fam)
  PROVE  AddressesFit(addresses, fam)
<1>1. CASE addresses = <<>>
  BY <1>1 DEF AddressesFit
<1>2. CASE \E a \in Address(Saying) : addresses = <<a>>
  <2>1. PICK a \in Address(Saying) : addresses = <<a>>
    BY <1>2
  <2>2. Len(addresses) = 1 /\ addresses[1] = a /\ DOMAIN addresses = {1}
    BY <2>1
  <2>3. FamilyFits(a, fam)
    BY <2>2 DEF Resolves, FamilyFits, Address
  <2> QED BY <2>2, <2>3 DEF AddressesFit
<1>3. CASE \E a, b \in Address(Saying) : addresses = <<a, b>>
  <2>1. PICK a, b \in Address(Saying) : addresses = <<a, b>>
    BY <1>3
  <2>2. Len(addresses) = 2 /\ addresses[1] = a /\ addresses[2] = b /\ DOMAIN addresses = {1, 2}
    BY <2>1
  <2>3. FamilyFits(a, fam) /\ FamilyFits(b, fam)
    BY <2>2 DEF Resolves, FamilyFits, Address
  <2> QED BY <2>2, <2>3 DEF AddressesFit
<1>4. ASSUME NEW first \in SUBSET Saying, NEW second \in SUBSET Saying, addresses \in Hosts(first, second)
      PROVE  \/ addresses = <<>> \/ (\E a \in Address(Saying) : addresses = <<a>>)
             \/ (\E a, b \in Address(Saying) : addresses = <<a, b>>)
  <2>1. /\ Address(first) \subseteq Address(Saying) /\ Address(first \ {"accepts"}) \subseteq Address(Saying)
        /\ Address(second) \subseteq Address(Saying)
    BY DEF Address
  <2>2. \/ addresses = <<>> \/ (\E a \in Address(first) : addresses = <<a>>)
        \/ (\E a \in Address(first \ {"accepts"}), b \in Address(second) : addresses = <<a, b>>)
    <3> DEFINE One == {<<a>> : a \in Address(first)}
               F == {c \in Address(first \ {"accepts"}) : c.family = "inet"}
               G == {c \in Address(second) : c.family = "inet6" \/ c.answer = "accepts"}
               Two == {<<a, b>> : a \in F, b \in G}
    <3>1. addresses \in {<<>>} \cup One \cup Two
      <4>1. Hosts(first, second) = {<<>>} \cup One \cup Two
        BY DEF Hosts
      <4> HIDE DEF One, Two
      <4> QED BY <1>4, <4>1
    <3>2. CASE addresses \in One
      BY <3>2
    <3>3. CASE addresses \in Two
      <4>1. PICK a \in F, b \in G : addresses = <<a, b>>
        BY <3>3
      <4> QED BY <4>1
    <3> HIDE DEF One, Two
    <3> QED BY <3>1, <3>2, <3>3
  <2> QED BY <2>1, <2>2
<1>5. \E first, second \in SUBSET Saying : addresses \in Hosts(first, second)
  BY DEF Remote, Local, Saying
<1> QED BY <1>1, <1>2, <1>3, <1>4, <1>5

LEMMA AnswersAreWords ==
  ASSUME NEW answers \in Answers
  PROVE  AreWords(answers)
<1>1. /\ Final("done") \in Words /\ Final("closed") \in Words /\ Nothing(1) \in Words /\ Nothing(Patience) \in Words
      /\ Reset \in Words
  BY DEF Final, Nothing, Reset, Words, Patience
<1>2. ASSUME NEW a \in Words PROVE AreWords(<<a>>)
  BY DEF AreWords
<1>3. ASSUME NEW a \in Words, NEW b \in Words PROVE AreWords(<<a, b>>)
  <2>1. Len(<<a, b>>) = 2 /\ <<a, b>>[1] = a /\ <<a, b>>[2] = b
    OBVIOUS
  <2> QED BY <2>1 DEF AreWords
<1>4. ASSUME NEW a \in Words, NEW b \in Words, NEW d \in Words PROVE AreWords(<<a, b, d>>)
  <2>1. Len(<<a, b, d>>) = 3 /\ <<a, b, d>>[1] = a /\ <<a, b, d>>[2] = b /\ <<a, b, d>>[3] = d
    OBVIOUS
  <2> QED BY <2>1 DEF AreWords
<1>5. ASSUME NEW a \in Words, NEW b \in Words, NEW d \in Words, NEW e \in Words PROVE AreWords(<<a, b, d, e>>)
  <2>1. /\ Len(<<a, b, d, e>>) = 4 /\ <<a, b, d, e>>[1] = a /\ <<a, b, d, e>>[2] = b /\ <<a, b, d, e>>[3] = d
        /\ <<a, b, d, e>>[4] = e
    OBVIOUS
  <2> QED BY <2>1 DEF AreWords
<1> QED BY <1>1, <1>2, <1>3, <1>4, <1>5 DEF Answers

LEMMA StepsOK ==
  ASSUME SocketsInv, Numbered, SocketsNext
  PROVE  SocketsInv'
<1> PICK o \in Objects :
      \/ \E class \in {"tcp{master}", "udp{unconnected}"}, family \in {"unspec", "inet"} : Create(o, class, family)
      \/ \E localaddr \in {l \in Local : Len(l) < 2}, addresses \in Remote : global_connect(o, localaddr, addresses)
      \/ \E addresses \in Local : Bind(o, addresses)
      \/ \E addresses \in Remote : Connect(o, addresses) \/ setpeername(o, addresses)
      \/ trydisconnect(o) \/ Listen(o) \/ Shutdown(o) \/ Close(o) \/ CollectSocket(o)
      \/ \E answers \in Answers : Transfer(o, answers)
      \/ \E answers \in Answers, family \in Families : Sendto(o, family, answers)
      \/ \E p \in Objects, answers \in Answers, blocking \in BOOLEAN : Accept(o, p, answers, blocking)
      \/ o \in Timed /\ \E set \in {<<"b", 0>>, <<"b", 1>>, <<"t", 1>>} : settimeout(o, set[1], set[2])
  BY DEF SocketsNext
<1>1. CASE \E class \in {"tcp{master}", "udp{unconnected}"}, family \in {"unspec", "inet"} : Create(o, class, family)
  BY <1>1, CreateOK
<1>2. CASE \E localaddr \in {l \in Local : Len(l) < 2}, addresses \in Remote : global_connect(o, localaddr, addresses)
  <2>1. PICK localaddr \in Local, addresses \in Remote : global_connect(o, localaddr, addresses)
    BY <1>2
  <2>2. Resolves(localaddr, "unspec")
    BY DEF Resolves
  <2>3. PICK fam : fam = "unspec"
    OBVIOUS
  <2>4. AddressesFit(localaddr, fam)
    BY <2>2, <2>3, HostsFit
  <2>5. \A family : Resolves(addresses, family) => AddressesFit(addresses, family)
    BY HostsFit
  <2> QED BY <2>1, <2>3, <2>4, <2>5, GlobalConnectOK
<1>3. CASE \E addresses \in Local : Bind(o, addresses)
  <2>1. PICK addresses \in Local : Bind(o, addresses)
    BY <1>3
  <2>2. Resolves(addresses, objects[o].family)
    BY <2>1 DEF Bind
  <2> QED BY <2>1, <2>2, HostsFit, BindOK
<1>4. CASE \E addresses \in Remote : Connect(o, addresses) \/ setpeername(o, addresses)
  <2>1. PICK addresses \in Remote : Connect(o, addresses) \/ setpeername(o, addresses)
    BY <1>4
  <2>2. Resolves(addresses, objects[o].family)
    BY <2>1 DEF Connect, setpeername
  <2> QED BY <2>1, <2>2, HostsFit, ConnectOK, SetpeernameOK
<1>5. CASE trydisconnect(o) \/ Listen(o) \/ Shutdown(o) \/ Close(o) \/ CollectSocket(o)
  BY <1>5, DisconnectOK, ListenOK, ShutdownOK, CloseOK, CollectOK
<1>6. CASE \E answers \in Answers : Transfer(o, answers)
  BY <1>6, AnswersAreWords, TransferOK
<1>7. CASE \E answers \in Answers, family \in Families : Sendto(o, family, answers)
  BY <1>7, AnswersAreWords, SendtoOK
<1>8. CASE \E p \in Objects, answers \in Answers, blocking \in BOOLEAN : Accept(o, p, answers, blocking)
  BY <1>8, AnswersAreWords, AcceptOK
<1>9. CASE \E set \in {<<"b", 0>>, <<"b", 1>>, <<"t", 1>>} : settimeout(o, set[1], set[2])
  <2>1. PICK set \in {<<"b", 0>>, <<"b", 1>>, <<"t", 1>>} : settimeout(o, set[1], set[2])
    BY <1>9
  <2>2. set[2] \in {0, 1} /\ (set[1] = "b" \/ set[2] = 1)
    <3>1. CASE set = <<"b", 0>>
      BY <3>1
    <3>2. CASE set = <<"b", 1>>
      BY <3>2
    <3>3. CASE set = <<"t", 1>>
      BY <3>3
    <3> QED BY <2>1, <3>1, <3>2, <3>3
  <2> QED BY <2>1, <2>2, SettimeoutOK
<1> QED BY <1>1, <1>2, <1>3, <1>4, <1>5, <1>6, <1>7, <1>8, <1>9

LEMMA IdlesOK ==
  ASSUME SocketsInv, UNCHANGED socketVars
  PROVE  SocketsInv'
BY DEF SocketsInv, socketVars, OpenSockets, Knows

LEMMA SocketsInvariant ==
  ASSUME Numbered
  PROVE  SocketsSpec => []SocketsInv
<1>1. SocketsInit => SocketsInv
  BY StartsOK
<1>2. SocketsInv /\ [SocketsNext]_socketVars => SocketsInv'
  BY StepsOK, IdlesOK
<1> QED BY <1>1, <1>2, PTL DEF SocketsSpec

\* Each open socket is that of one object that can still close it, of its kind and
\* family and non-blocking, however often addresses are tried and given up, sockets are
\* accepted and objects collected; only socket.connect loses one.
THEOREM SocketsHaveTheirObjects ==
  ASSUME Numbered
  PROVE  SocketsSpec => []EachSocketHasItsObject
<1>1. SocketsInv => EachSocketHasItsObject
  BY SocketsInvImplies
<1> QED BY <1>1, SocketsInvariant, PTL

\* No call waits longer than the timeouts of its object allow, whatever the network
\* answers and however many addresses and attempts it takes.
THEOREM CallsEndInTime ==
  ASSUME Numbered
  PROVE  SocketsSpec => []WaitsAreBounded
<1>1. SocketsInv => WaitsAreBounded
  BY SocketsInvImplies
<1> QED BY <1>1, SocketsInvariant, PTL
=============================================================================
