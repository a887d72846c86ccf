-------------------------------- MODULE Wire --------------------------------
(***************************************************************************)
(* The byte stream below the debug session: recvMessage and sendFully of   *)
(* vscode-debuggee.lua over luasocket's read buffer, its select and its    *)
(* send loop, over TCP, which cuts the stream where it likes.              *)
(*                                                                         *)
(* A message is a header line and a body.  A byte is a pair: the message   *)
(* and the position in it; the newline is the header's last byte, and the  *)
(* size that the header gives is the body's.  The client's requests are    *)
(* numbered 1, 2, ... and a reply has the number of its request.           *)
(***************************************************************************)
EXTENDS Integers, Sequences, FiniteSets, SequencesExt

CONSTANTS
  MaxMessages,            (* how many requests the client sends *)
  HeadSize, BodySize,     (* of a request, in bytes *)
  ReplySize,              (* of a reply, header and body *)
  BUF_SIZE, STEPSIZE      (* of luasocket: read at once, sent at once *)

ASSUME SizesAssumption ==
  /\ MaxMessages \in Nat
  /\ {HeadSize, BodySize, ReplySize, BUF_SIZE, STEPSIZE} \subseteq Nat \ {0}

VARIABLES
  sent,       (* requests the client has sent *)
  network,    (* bytes on their way to the adapter *)
  kernel,     (* bytes that have arrived at its socket *)
  closed,     (* the client's end is closed *)
  buf,        (* p_buffer: what recv has returned and nobody has taken *)
  at,         (* the script thread: script, select, head, body, send *)
  polling,    (* it is in poll, not in debugLoop *)
  part,       (* what the receive call under way has collected *)
  header,     (* of the message whose body is received *)
  received,   (* history: the messages that recvMessage has returned *)
  first,      (* sendFully: the next byte to send *)
  total,      (* sendraw: bytes that this send call has sent *)
  out         (* history: bytes that the adapter has sent *)

wireVars == <<sent, network, kernel, closed>>
readVars == <<buf, part, header, received>>
sendVars == <<first, total, out>>
vars == <<wireVars, readVars, at, polling, sendVars>>

-----------------------------------------------------------------------------
Size == HeadSize + BodySize
Bytes(m, n) == [k \in 1..n |-> <<m, k>>]
Request(m) == Bytes(m, Size)
Newline(byte) == byte[2] = HeadSize
AtEof == closed /\ network = <<>> /\ kernel = <<>>
Current == received[Len(received)][1][1]
Least(a, b) == IF a <= b THEN a ELSE b

AllBytes == (1..MaxMessages) \X (1..Size)

TypeOK ==
  /\ sent \in 0..MaxMessages
  /\ network \in Seq(AllBytes) /\ kernel \in Seq(AllBytes) /\ closed \in BOOLEAN
  /\ buf \in Seq(AllBytes) /\ Len(buf) <= BUF_SIZE
  /\ part \in Seq(AllBytes) /\ header \in Seq(AllBytes)
  /\ received \in Seq(Seq(AllBytes))
  /\ at \in {"script", "select", "head", "body", "send"} /\ polling \in BOOLEAN
  /\ first \in 1..(ReplySize + 1) /\ total \in 0..ReplySize
  /\ out \in Seq((1..MaxMessages) \X (1..ReplySize))

Init ==
  /\ sent = 0 /\ network = <<>> /\ kernel = <<>> /\ closed = FALSE
  /\ buf = <<>> /\ part = <<>> /\ header = <<>> /\ received = <<>>
  /\ at = "script" /\ polling = FALSE
  /\ first = 1 /\ total = 0 /\ out = <<>>

-----------------------------------------------------------------------------
(* The client and TCP (external).                                           *)

ClientSend ==
  /\ sent < MaxMessages /\ ~closed
  /\ sent' = sent + 1
  /\ network' = network \o Request(sent + 1)
  /\ UNCHANGED <<kernel, closed, readVars, at, polling, sendVars>>

Arrive ==
  /\ \E n \in 1..Len(network) :
       /\ kernel' = kernel \o SubSeq(network, 1, n)
       /\ network' = SubSeq(network, n + 1, Len(network))
  /\ UNCHANGED <<sent, closed, readVars, at, polling, sendVars>>

ClientClose ==
  /\ ~closed /\ closed' = TRUE
  /\ \E n \in 0..Len(network) : network' = SubSeq(network, 1, n)
  /\ UNCHANGED <<sent, kernel, readVars, at, polling, sendVars>>

-----------------------------------------------------------------------------
(* poll and debugLoop                                                       *)

BeginPoll ==
  /\ at = "script" /\ at' = "select" /\ polling' = TRUE
  /\ UNCHANGED <<wireVars, readVars, sendVars>>

BeginLoop ==
  /\ at = "script" /\ at' = "head" /\ polling' = FALSE
  /\ UNCHANGED <<wireVars, readVars, sendVars>>

\* Wrong: select looks at the socket only.
ReadableSocket == kernel # <<>> \/ AtEof

\* check_dirty finds what the read buffer still holds, socket_select the rest.
Readable == buf # <<>> \/ kernel # <<>> \/ AtEof

Select ==
  /\ at = "select"
  /\ at' = IF Readable THEN "head" ELSE "script"
  /\ UNCHANGED <<wireVars, readVars, polling, sendVars>>

\* After a message: poll goes on, and so does debugLoop unless the handler ends it.
Handled ==
  IF polling THEN {"select"} ELSE {"head", "script"}

-----------------------------------------------------------------------------
(* recvMessage                                                              *)

Receiving == at \in {"head", "body"}

\* Wrong: as much as there is.
FetchAll == Len(kernel)
Fetched  == Least(BUF_SIZE, Len(kernel))

\* buffer_get: recv returns what has arrived, at most BUF_SIZE bytes of it, and
\* waits while nothing has.
Recv ==
  /\ Receiving /\ buf = <<>> /\ kernel # <<>>
  /\ buf' = SubSeq(kernel, 1, Fetched)
  /\ kernel' = SubSeq(kernel, Fetched + 1, Len(kernel))
  /\ UNCHANGED <<sent, network, closed, part, header, received, at, polling, sendVars>>

\* A receive that meets the end gives nil for what it has collected: without a
\* header that ends poll or debugLoop, without a body json.decode raises.
RecvEof ==
  /\ Receiving /\ buf = <<>> /\ AtEof
  /\ part' = <<>> /\ header' = <<>> /\ at' = "script"
  /\ UNCHANGED <<wireVars, buf, received, polling, sendVars>>

\* recvline takes bytes up to the newline, or all that there are.
recvline ==
  /\ at = "head" /\ buf # <<>>
  /\ \/ /\ \A i \in 1..Len(buf) : ~Newline(buf[i])
        /\ part' = part \o buf /\ buf' = <<>> /\ UNCHANGED <<header, at>>
     \/ \E n \in 1..Len(buf) :
          /\ Newline(buf[n]) /\ \A i \in 1..(n - 1) : ~Newline(buf[i])
          /\ header' = part \o SubSeq(buf, 1, n)
          /\ buf' = SubSeq(buf, n + 1, Len(buf))
          /\ part' = <<>> /\ at' = "body"
  /\ UNCHANGED <<wireVars, received, polling, sendVars>>

\* Wrong: all that is in the buffer belongs to the body.
TakeAll == Len(buf)

\* recvraw takes no more than the body still wants.
Taken == Least(Len(buf), BodySize - Len(part))

recvraw ==
  /\ at = "body" /\ buf # <<>>
  /\ LET body == part \o SubSeq(buf, 1, Taken) IN
       /\ buf' = SubSeq(buf, Taken + 1, Len(buf))
       /\ IF Len(body) < BodySize
            THEN part' = body /\ UNCHANGED <<header, received, at>>
            ELSE /\ received' = Append(received, header \o body)
                 /\ part' = <<>> /\ header' = <<>>
                 /\ at' \in {"send"} \cup Handled
  /\ UNCHANGED <<wireVars, polling, sendVars>>

-----------------------------------------------------------------------------
(* sendFully.  send returns the index of the last byte sent, which is added *)
(* to first as if it were a count; it returns only when all is sent.        *)

\* Wrong: one round of sendraw is all there is.
AfterOneStep == total > 0

AllSent == total = ReplySize - first + 1

SendStep ==
  /\ at = "send" /\ ~AllSent /\ first <= ReplySize
  /\ \E n \in 1..Least(STEPSIZE, ReplySize - first + 1 - total) :
       /\ total' = total + n
       /\ out' = out \o SubSeq(Bytes(Current, ReplySize), first + total, first + total + n - 1)
  /\ UNCHANGED <<wireVars, readVars, at, polling, first>>

SendReturns ==
  /\ at = "send" /\ AllSent
  /\ LET index == total + first - 1 IN
       IF first + index > ReplySize
         THEN first' = 1 /\ at' \in Handled
         ELSE first' = first + index /\ UNCHANGED at
  /\ total' = 0
  /\ UNCHANGED <<wireVars, readVars, polling, out>>

\* The connection is gone: sendFully raises, out of poll or into the pcall
\* around debugLoop.
SendFails ==
  /\ at = "send" /\ closed
  /\ first' = 1 /\ total' = 0 /\ at' = "script"
  /\ UNCHANGED <<wireVars, readVars, polling, out>>

-----------------------------------------------------------------------------
Adapter ==
  \/ BeginPoll \/ Select \/ Recv \/ RecvEof \/ recvline \/ recvraw
  \/ SendStep \/ SendReturns \/ SendFails

Next == ClientSend \/ Arrive \/ ClientClose \/ BeginLoop \/ Adapter

Spec == Init /\ [][Next]_vars

\* TCP delivers, and the script thread runs: the engine calls poll every frame.
FairSpec == Spec /\ WF_vars(Arrive) /\ WF_vars(Adapter)

-----------------------------------------------------------------------------
(* Properties                                                               *)

Unread == header \o part \o buf \o kernel \o network

\* Where a byte stands in the stream of all requests.
Place(byte) == (byte[1] - 1) * Size + byte[2]

\* recvMessage returns the client's messages as they were sent, and what is still
\* to be read is the rest: no byte is lost, read twice or given to another message,
\* wherever the stream is cut and however much is read ahead.
NoByteAstray ==
  /\ \A i \in 1..Len(received) : received[i] = Request(i)
  /\ \A k \in 1..Len(Unread) : Place(Unread[k]) = Len(received) * Size + k
  /\ ~closed => Len(Unread) = (sent - Len(received)) * Size

\* The client gets whole replies, one after the other, though sendFully adds an
\* index to an index.
WholeReplies ==
  ~closed =>
    /\ \A i \in 1..Len(out) :
         \/ out[i][2] = 1 /\ (i > 1 => out[i - 1][2] = ReplySize)
         \/ i > 1 /\ out[i - 1] = <<out[i][1], out[i][2] - 1>>
    /\ out # <<>> /\ Last(out)[2] < ReplySize => at = "send"

\* The last byte of each message that is there in full.
Ends == [i \in 1..(Len(Unread) \div Size) |-> Unread[i * Size]]

\* Messages come out as they went in.
C == INSTANCE Channel WITH
       Limit  <- MaxMessages,
       sent   <- sent,
       queue  <- [i \in DOMAIN Ends |-> Ends[i][1]],
       broken <- closed

\* The wire implements the channel of messages that the session talks over.
ImplementsChannel == C!Spec

\* Every request arrives at a handler, also one that luasocket has read ahead while
\* it fetched the one before, unless the client goes away.
EveryRequestArrives ==
  \A m \in 1..MaxMessages : sent >= m ~> (Len(received) >= m \/ closed)

\* What the comment in poll says: this loop never blocks.
PollNeverBlocks ==
  polling /\ Receiving => buf # <<>> \/ kernel # <<>> \/ AtEof
=============================================================================
