------------------------------ MODULE Sockets ------------------------------
(***************************************************************************)
(* The socket objects of LuaSocket (tcp.c, udp.c) over the sockets of the  *)
(* system (wsocket.c, inet.c): who holds which, and how long a call may    *)
(* wait.  The library makes every socket non-blocking and waits in select, *)
(* for as long as the timeouts of the object (timeout.c) leave.  A call    *)
(* runs to its end before the next begins; what the network and the system *)
(* answer on the way is chosen with the call.                              *)
(*                                                                         *)
(* Left out: setfd, with which a script may break all of this; options;    *)
(* the names of the ends; the data, which Wire has.                        *)
(***************************************************************************)
EXTENDS Integers, Sequences, FiniteSets

CONSTANTS
  Objects,        (* userdata that scripts may make *)
  SystemSockets,  (* bound: the sockets that the system can have, 1..n *)
  Timed           (* bound: the objects whose timeouts are set *)

VARIABLES
  objects,   (* of each userdata: class, socket, family and timeouts *)
  sockets,   (* of each socket of the system: its state *)
  leaked,    (* history: sockets that no object can close any more *)
  overtime   (* history: a call has waited longer than its timeouts allow *)

socketVars == <<objects, sockets, leaked, overtime>>

SOCKET_INVALID == 0

\* Assumed of the constants: a number tells a socket from none.
Numbered == SystemSockets \subseteq Nat \ {SOCKET_INVALID}

Tcp == {"tcp{master}", "tcp{client}", "tcp{server}"}
Udp == {"udp{connected}", "udp{unconnected}"}
Families == {"inet", "inet6"}
Unset == -1
Patience == 3  (* bound: after this long the system gives an answer to everything *)

NewObject(class, family) ==
  [class |-> class, sock |-> SOCKET_INVALID, family |-> family, block |-> Unset, total |-> Unset]
NoObject == NewObject("none", "unspec")
ClosedSocket == [is |-> "closed", family |-> "unspec", type |-> "stream", blocking |-> FALSE]

SocketsInit ==
  /\ objects = [o \in Objects |-> NoObject]
  /\ sockets = [h \in SystemSockets |-> ClosedSocket]
  /\ leaked = {} /\ overtime = FALSE

-----------------------------------------------------------------------------
(* A call: the object's fields, the system's sockets, the time since it     *)
(* began, when the timeout was marked, and the error so far.                *)

Call(u) ==
  [sock |-> u.sock, family |-> u.family, current |-> u.family, block |-> u.block, total |-> u.total,
   os |-> sockets, elapsed |-> 0, start |-> 0, marks |-> 0, waits |-> 0, over |-> FALSE, err |-> "none", prev |-> "none"]

\* A loop of the code: Step with one input after the other.
Loop(Step(_, _), c, inputs) ==
  LET after[n \in 0..Len(inputs)] == IF n = 0 THEN c ELSE Step(after[n - 1], inputs[n])
  IN after[Len(inputs)]

Fails(c, err) == [c EXCEPT !.err = err]
Succeeds(c) == [c EXCEPT !.err = "none"]
Over(c) == [c EXCEPT !.over = TRUE]
Again(c) == [c EXCEPT !.over = FALSE, !.err = "none"]
Becomes(c, is) == [c EXCEPT !.os[c.sock].is = is]

timeout_markstart(c) == [c EXCEPT !.start = c.elapsed, !.marks = @ + 1]

Least(a, b) == IF a < b THEN a ELSE b
Left(c) == IF c.total > c.elapsed - c.start THEN c.total - (c.elapsed - c.start) ELSE 0
\* Wrong: each wait may take as long as the block, whatever is left of the total.
BlockOnly(c) == IF c.block >= 0 THEN c.block ELSE c.total

timeout_get(c) ==
  CASE c.block < 0 /\ c.total < 0 -> Unset
    [] c.block < 0 /\ c.total >= 0 -> Left(c)
    [] c.block >= 0 /\ c.total < 0 -> c.block
    [] OTHER -> Least(c.block, Left(c))

Waits(c, time) == [c EXCEPT !.elapsed = @ + time, !.waits = @ + 1]

\* Until the answer comes or the time is over.
socket_waitfd(c, after) ==
  LET t == timeout_get(c) IN
  CASE c.block = 0 -> Fails(c, "timeout")
    [] c.block # 0 /\ t # Unset /\ t < after -> Fails(Waits(c, t), "timeout")
    [] OTHER -> Succeeds(Waits(c, after))

SetBlocking(c, blocking) == IF c.sock = SOCKET_INVALID THEN c ELSE [c EXCEPT !.os[c.sock].blocking = blocking]
socket_setblocking(c) == SetBlocking(c, TRUE)
socket_setnonblocking(c) == SetBlocking(c, FALSE)

FreeSockets(system) == {h \in SystemSockets : system[h].is = "closed"}
Lowest(S) == CHOOSE h \in S : \A g \in S : h <= g

socket_create(c, family, type) ==
  IF FreeSockets(c.os) = {} THEN Fails([c EXCEPT !.sock = SOCKET_INVALID], "too many open files")
  ELSE LET h == Lowest(FreeSockets(c.os)) IN
       Succeeds([c EXCEPT !.sock = h, !.os[h] = [is |-> "new", family |-> family, type |-> type, blocking |-> TRUE]])

\* Wrong: the object keeps the number, which the system gives to the next socket.
DestroyKeeping(c) == IF c.sock = SOCKET_INVALID THEN c ELSE [c EXCEPT !.os[c.sock] = ClosedSocket]

socket_destroy(c) ==
  IF c.sock = SOCKET_INVALID THEN c ELSE [c EXCEPT !.os[c.sock] = ClosedSocket, !.sock = SOCKET_INVALID]

\* What the system says to connect: datagrams have nobody to wait for.
Tries(c, answer) ==
  CASE c.os[c.sock].is \in {"listening", "connected"} /\ c.os[c.sock].type = "stream" -> "refuses"
    [] c.os[c.sock].type = "dgram" /\ answer # "refuses" -> "accepts"
    [] OTHER -> answer
When(answer) == CASE answer = "later" -> 1 [] answer = "silent" -> Patience [] OTHER -> 0

socket_connect(c, answer) ==
  LET says == Tries(c, answer)
      blocks == c.os[c.sock].blocking
      waited == IF blocks THEN Waits(c, When(says)) ELSE socket_waitfd(c, When(says)) IN
  CASE c.sock = SOCKET_INVALID -> Fails(c, "closed")
    [] c.sock # SOCKET_INVALID /\ says = "accepts" -> Succeeds(Becomes(c, "connected"))
    [] c.sock # SOCKET_INVALID /\ says = "refuses" -> Fails(c, "connection refused")
    [] OTHER -> IF c.block = 0 \/ waited.err = "timeout" THEN waited
                ELSE IF says = "later" THEN Becomes(waited, "connected") ELSE Fails(waited, "connection timed out")

socket_bind(c, answer) ==
  LET free == answer = "accepts" /\ c.os[c.sock].is = "new" IN
  socket_setnonblocking(IF free THEN Succeeds(Becomes(socket_setblocking(c), "bound"))
                        ELSE Fails(socket_setblocking(c), "address already in use"))

socket_listen(c) ==
  socket_setnonblocking(IF c.sock # SOCKET_INVALID /\ c.os[c.sock].is \in {"bound", "listening"}
                          THEN Succeeds(Becomes(socket_setblocking(c), "listening"))
                          ELSE Fails(socket_setblocking(c), "invalid argument"))

\* The loop of socket_accept, socket_send, socket_sendto, socket_recv and
\* socket_recvfrom: an attempt, and a wait if there is nothing yet.  A reset is
\* passed over once: for a datagram it is about one that was sent before.
Attempt(c, a) ==
  IF c.over THEN c
  ELSE CASE a.says = "wouldblock" \/ (a.says = "reset" /\ c.prev # "reset") ->
              LET w == IF c.os[c.sock].blocking THEN Waits(c, a.after) ELSE socket_waitfd(c, a.after) IN
              [w EXCEPT !.prev = a.says, !.over = w.err # "none"]
         [] a.says = "done" -> Over(Succeeds(c))
         [] OTHER -> Over(Fails(c, a.says))
Transferred(c, answers) ==
  IF c.sock = SOCKET_INVALID THEN Fails(c, "closed") ELSE Loop(Attempt, c, answers)

-----------------------------------------------------------------------------
(* inet.c: one address of a host after the other                            *)

inet_trycreate(c, family, type) == socket_create(c, family, type)

\* A new socket, if there is none of the family of the address.
Fitting(c, a, type) ==
  IF c.current = a.family /\ c.sock # SOCKET_INVALID THEN Succeeds(c)
  ELSE LET n == inet_trycreate(socket_destroy(c), a.family, type) IN
       IF n.err = "none" THEN [n EXCEPT !.current = a.family] ELSE n

Settled(c) == [Over(c) EXCEPT !.family = c.current]

ConnectOne(c, a, type) ==
  LET has == Fitting(timeout_markstart(c), a, type)
      tried == socket_connect(socket_setnonblocking(has), a.answer) IN
  CASE c.over -> c
    [] ~c.over /\ has.err # "none" -> has
    [] OTHER -> IF tried.err = "none" \/ tried.block = 0 THEN Settled(tried) ELSE tried

BindOne(c, a, type) ==
  LET has == Fitting(c, a, type)
      bound == socket_bind(has, a.answer) IN
  CASE c.over -> c
    [] ~c.over /\ has.err # "none" -> has
    [] OTHER -> IF bound.err = "none" THEN socket_setnonblocking(Settled(bound)) ELSE bound

inet_tryconnect(c, type, addresses) ==
  IF addresses = <<>> THEN Fails(c, "host or service not provided, or not known")
  ELSE Loop(LAMBDA d, a : ConnectOne(d, a, type), c, addresses)

inet_trybind(c, type, addresses) ==
  IF addresses = <<>> THEN Fails(c, "host or service not provided, or not known")
  ELSE Loop(LAMBDA d, a : BindOne(d, a, type), c, addresses)

-----------------------------------------------------------------------------
(* The methods                                                              *)

\* No longer than the total since the last mark, which connect sets for each
\* address anew, nor than the block for each wait, and not at all if that is 0.
Allowed(c) ==
  LET marks == IF c.marks = 0 THEN 1 ELSE c.marks IN
  /\ c.total >= 0 => c.elapsed <= c.total * marks
  /\ c.block >= 0 => c.elapsed <= c.block * c.waits
  /\ c.block = 0 => c.waits = 0

Returns(o, c, class) ==
  /\ objects' = [objects EXCEPT ![o] = [@ EXCEPT !.class = class, !.sock = c.sock, !.family = c.family]]
  /\ sockets' = c.os
  /\ overtime' = (overtime \/ ~Allowed(c))

checkgroup(o, classes) == objects[o].class \in classes

TypeOf(o) == IF objects[o].class \in Tcp THEN "stream" ELSE "dgram"

\* getaddrinfo gives addresses of the family asked for.
Resolves(addresses, family) == family # "unspec" => \A i \in DOMAIN addresses : addresses[i].family = family

\* tcp_create, udp_create: of a known family the socket is made at once.  One that
\* could not be made leaves a userdata that the script does not get.
Create(o, class, family) ==
  LET c == Call(NewObject(class, family))
      made == socket_setnonblocking(inet_trycreate(c, family, IF class \in Tcp THEN "stream" ELSE "dgram")) IN
  /\ objects[o].class = "none"
  /\ objects' = [objects EXCEPT ![o] = [NewObject(class, family) EXCEPT
                   !.sock = IF family = "unspec" THEN SOCKET_INVALID ELSE made.sock]]
  /\ sockets' = IF family = "unspec" THEN sockets ELSE made.os
  /\ UNCHANGED <<leaked, overtime>>

\* socket.connect: the class comes last, so what fails before it leaves a userdata
\* without a metatable, that nothing can close.
global_connect(o, localaddr, addresses) ==
  LET c == Call(NoObject)
      bound == IF localaddr = <<>> THEN c ELSE inet_trybind(c, "stream", localaddr)
      tried == inet_tryconnect(Again(bound), "stream", addresses) IN
  /\ objects[o].class = "none"
  /\ Resolves(addresses, bound.family)
  /\ IF bound.err # "none"
       THEN /\ sockets' = bound.os
            /\ leaked' = leaked \cup ({bound.sock} \ {SOCKET_INVALID})
            /\ UNCHANGED <<objects, overtime>>
       ELSE IF tried.err # "none"
         THEN /\ sockets' = socket_destroy(tried).os
              /\ overtime' = (overtime \/ ~Allowed(tried))
              /\ UNCHANGED <<objects, leaked>>
         ELSE Returns(o, tried, "tcp{client}") /\ UNCHANGED leaked

\* tcp: bind, setsockname; udp: setsockname.
Bind(o, addresses) ==
  /\ checkgroup(o, {"tcp{master}", "udp{unconnected}"})
  /\ Resolves(addresses, objects[o].family)
  /\ Returns(o, inet_trybind(Call(objects[o]), TypeOf(o), addresses), objects[o].class)
  /\ UNCHANGED leaked

\* The class is set even if it fails: without waiting, it is a client that is not yet
\* connected.
Connect(o, addresses) ==
  /\ checkgroup(o, Tcp)
  /\ Resolves(addresses, objects[o].family)
  /\ Returns(o, inet_tryconnect(Call(objects[o]), "stream", addresses), "tcp{client}")
  /\ UNCHANGED leaked

setpeername(o, addresses) ==
  LET c == inet_tryconnect(Call(objects[o]), "dgram", addresses) IN
  /\ checkgroup(o, Udp)
  /\ Resolves(addresses, objects[o].family)
  /\ Returns(o, c, IF c.err = "none" THEN "udp{connected}" ELSE objects[o].class)
  /\ UNCHANGED leaked

\* setpeername("*")
trydisconnect(o) ==
  LET u == objects[o] IN
  /\ checkgroup(o, Udp)
  /\ Returns(o, IF u.sock # SOCKET_INVALID /\ u.family # "unspec" /\ sockets[u.sock].is = "connected"
                  THEN Becomes(Call(u), "bound") ELSE Call(u), "udp{unconnected}")
  /\ UNCHANGED leaked

Listen(o) ==
  LET c == socket_listen(Call(objects[o])) IN
  /\ checkgroup(o, {"tcp{master}"})
  /\ Returns(o, c, IF c.err = "none" THEN "tcp{server}" ELSE objects[o].class)
  /\ UNCHANGED leaked

\* The system gives a socket that blocks or not, as it likes.
Accept(o, p, answers, blocking) ==
  LET c == Transferred(timeout_markstart(Call(objects[o])), answers)
      client == socket_create([c EXCEPT !.os = sockets], objects[o].family, "stream")
      inherits == SetBlocking(Becomes(client, "connected"), blocking) IN
  /\ checkgroup(o, {"tcp{server}"}) /\ objects[p].class = "none"
  /\ overtime' = (overtime \/ ~Allowed(c))
  /\ IF c.err = "none" /\ client.err = "none"
       THEN /\ objects' = [objects EXCEPT
                  ![p] = [NewObject("tcp{client}", objects[o].family) EXCEPT !.sock = client.sock]]
            /\ sockets' = socket_setnonblocking(inherits).os
       ELSE UNCHANGED <<objects, sockets>>
  /\ UNCHANGED leaked

\* One round of send or receive (buffer.c makes several, with one mark), and those
\* of udp.
Transfer(o, answers) ==
  /\ checkgroup(o, {"tcp{client}"} \cup Udp)
  /\ Returns(o, Transferred(timeout_markstart(Call(objects[o])), answers), objects[o].class)
  /\ UNCHANGED leaked

\* The first datagram of an object without family makes its socket.
Sendto(o, family, answers) ==
  LET u == objects[o]
      c == Call(u)
      made == inet_trycreate(c, family, "dgram")
      ready == [socket_setnonblocking(made) EXCEPT !.family = family, !.current = family]
      sends(d) == Transferred(timeout_markstart(d), answers) IN
  /\ checkgroup(o, {"udp{unconnected}"})
  /\ u.family \in {"unspec", family}
  /\ Returns(o, IF u.family # "unspec" \/ u.sock # SOCKET_INVALID THEN sends(c)
                ELSE IF made.err # "none" THEN made ELSE sends(ready), u.class)
  /\ UNCHANGED leaked

Shutdown(o) ==
  LET c == Call(objects[o]) IN
  /\ checkgroup(o, {"tcp{client}"})
  /\ Returns(o, socket_setnonblocking(socket_setblocking(c)), objects[o].class)
  /\ UNCHANGED leaked

settimeout(o, mode, t) ==
  /\ checkgroup(o, Tcp \cup Udp)
  /\ objects' = [objects EXCEPT ![o] = IF mode = "b" THEN [@ EXCEPT !.block = t] ELSE [@ EXCEPT !.total = t]]
  /\ UNCHANGED <<sockets, leaked, overtime>>

\* close, and __gc.
Close(o) ==
  /\ checkgroup(o, Tcp \cup Udp)
  /\ Returns(o, socket_destroy(Call(objects[o])), objects[o].class)
  /\ UNCHANGED leaked

CollectSocket(o) ==
  /\ checkgroup(o, Tcp \cup Udp)
  /\ objects' = [objects EXCEPT ![o] = NoObject]
  /\ sockets' = socket_destroy(Call(objects[o])).os
  /\ UNCHANGED <<leaked, overtime>>

-----------------------------------------------------------------------------
(* What the network may answer, of one or two addresses                     *)

Address(answers) == [family : Families, answer : answers]
Hosts(first, second) ==
  {<<>>} \cup {<<a>> : a \in Address(first)} \cup
  {<<a, b>> : a \in {c \in Address(first \ {"accepts"}) : c.family = "inet"},
              b \in {c \in Address(second) : c.family = "inet6" \/ c.answer = "accepts"}}
Remote == Hosts({"accepts", "refuses", "later", "silent"}, {"accepts", "silent"})
Local == Hosts({"accepts", "refuses"}, {"accepts", "refuses"})
Nothing(after) == [says |-> "wouldblock", after |-> after]
Reset == [says |-> "reset", after |-> 0]
Final(says) == [says |-> says, after |-> 0]
Answers == {<<Final("done")>>, <<Final("closed")>>, <<Nothing(1), Final("done")>>, <<Nothing(Patience), Final("done")>>,
            <<Nothing(1), Nothing(1), Final("done")>>, <<Reset, Final("done")>>, <<Reset, Nothing(1), Reset, Reset>>}

SocketsNext ==
  \E o \in Objects :
    \/ \E class \in {"tcp{master}", "udp{unconnected}"}, family \in {"unspec", "inet"} : Create(o, class, family)
    \/ \E localaddr \in {l \in Local : Len(l) < 2}, addresses \in Remote : global_connect(o, localaddr, addresses)
    \/ \E addresses \in Local : Bind(o, addresses)
    \/ \E addresses \in Remote : Connect(o, addresses) \/ setpeername(o, addresses)
    \/ trydisconnect(o) \/ Listen(o) \/ Shutdown(o) \/ Close(o) \/ CollectSocket(o)
    \/ \E answers \in Answers : Transfer(o, answers)
    \/ \E answers \in Answers, family \in Families : Sendto(o, family, answers)
    \/ \E p \in Objects, answers \in Answers, blocking \in BOOLEAN : Accept(o, p, answers, blocking)
    \/ o \in Timed /\ \E set \in {<<"b", 0>>, <<"b", 1>>, <<"t", 1>>} : settimeout(o, set[1], set[2])

SocketsSpec == SocketsInit /\ [][SocketsNext]_socketVars

-----------------------------------------------------------------------------
(* Properties                                                               *)

OpenSockets == {h \in SystemSockets : sockets[h].is # "closed"}
Holding(h) == {o \in Objects : objects[o].sock = h}

\* Each open socket is that of one object that can still close it, of its kind and
\* family and non-blocking, and no object has a number that is not, or no longer, its
\* own: what connect and bind try and give up they close.  Only socket.connect loses
\* one, when the local address can not be bound.
EachSocketHasItsObject ==
  /\ \A h \in OpenSockets \ leaked : Cardinality(Holding(h)) = 1
  /\ \A o \in Objects : LET u == objects[o] IN
       u.sock # SOCKET_INVALID =>
         /\ u.sock \in OpenSockets \ leaked
         /\ ~sockets[u.sock].blocking
         /\ sockets[u.sock].type = TypeOf(o)
         /\ u.family # "unspec" => sockets[u.sock].family = u.family
         /\ u.class = "tcp{server}" => sockets[u.sock].is = "listening"

\* No call waits longer than the timeouts of its object allow.
WaitsAreBounded == ~overtime
=============================================================================
