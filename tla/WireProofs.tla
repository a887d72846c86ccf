----------------------------- MODULE WireProofs -----------------------------
(***************************************************************************)
(* The framing of Wire keeps the stream in order for every size of header, *)
(* body, reply and buffer, and implements Channel.                         *)
(***************************************************************************)
EXTENDS Wire, SequenceTheorems, TLAPS

-----------------------------------------------------------------------------
(* The places of bytes in the stream.                                       *)

LEMMA Sizes ==
  /\ HeadSize \in Nat \ {0} /\ BodySize \in Nat \ {0} /\ ReplySize \in Nat \ {0}
  /\ BUF_SIZE \in Nat \ {0} /\ STEPSIZE \in Nat \ {0} /\ MaxMessages \in Nat
  /\ Size \in Nat \ {0} /\ Size = HeadSize + BodySize
BY SizesAssumption DEF Size

\* A product grows by one factor at least when the other one grows.
LEMMA Grows ==
  ASSUME NEW a \in Int, NEW b \in Int, a < b, NEW s \in Nat
  PROVE  a * s + s <= b * s
<1>1. PICK d \in Nat : b = a + 1 + d
  <2>1. b - a - 1 \in Nat /\ b = a + 1 + (b - a - 1)
    OBVIOUS
  <2> QED BY <2>1
<1>2. (a + 1 + d) * s = a * s + s + d * s
  OBVIOUS
<1>3. d * s >= 0
  OBVIOUS
<1> QED BY <1>1, <1>2, <1>3

\* A byte is known by its place.
LEMMA PlaceTells ==
  ASSUME NEW m \in Int, NEW r \in Int, NEW p \in 1..Size, NEW k \in 1..Size,
         (m - 1) * Size + p = r * Size + k
  PROVE  m = r + 1 /\ p = k
<1> DEFINE n == m - 1
<1>1. Size \in Nat /\ n \in Int
  BY Sizes
<1>2. ~(n < r)
  <2> SUFFICES ASSUME n < r PROVE FALSE
    OBVIOUS
  <2>1. n * Size + Size <= r * Size
    BY <1>1, Grows
  <2>2. n * Size \in Int /\ r * Size \in Int
    BY <1>1
  <2> QED BY <1>1, <2>1, <2>2
<1>3. ~(r < n)
  <2> SUFFICES ASSUME r < n PROVE FALSE
    OBVIOUS
  <2>1. r * Size + Size <= n * Size
    BY <1>1, Grows
  <2>2. n * Size \in Int /\ r * Size \in Int
    BY <1>1
  <2> QED BY <1>1, <2>1, <2>2
<1>4. n = r
  BY <1>1, <1>2, <1>3
<1> QED BY <1>1, <1>4

\* The same of a byte of the stream.
LEMMA ByteAt ==
  ASSUME NEW byte \in AllBytes, NEW r \in Int, NEW k \in 1..Size,
         Place(byte) = r * Size + k
  PROVE  byte = <<r + 1, k>>
<1>1. PICK m \in 1..MaxMessages, p \in 1..Size : byte = <<m, p>>
  BY DEF AllBytes
<1>2. (m - 1) * Size + p = r * Size + k
  BY <1>1 DEF Place
<1> QED BY <1>1, <1>2, PlaceTells, Sizes

-----------------------------------------------------------------------------
(* Cutting a sequence and putting it together.                              *)

\* u is a followed by b.
Joins(u, a, b) ==
  /\ Len(u) = Len(a) + Len(b)
  /\ \A i \in 1..Len(a) : u[i] = a[i]
  /\ \A i \in 1..Len(b) : u[Len(a) + i] = b[i]
IsJoin(u, a, b, S) == u \in Seq(S) /\ Joins(u, a, b)

LEMMA Join ==
  ASSUME NEW S, NEW a \in Seq(S), NEW b \in Seq(S)
  PROVE  IsJoin(a \o b, a, b, S)
<1>0. Len(a) \in Nat /\ Len(b) \in Nat
  BY LenProperties
<1> DEFINE u == a \o b
<1>1. /\ u \in Seq(S) /\ Len(u) = Len(a) + Len(b)
      /\ \A i \in 1..(Len(a) + Len(b)) : u[i] = IF i <= Len(a) THEN a[i] ELSE b[i - Len(a)]
  BY ConcatProperties
<1> HIDE DEF u
<1>2. \A i \in 1..Len(a) : u[i] = a[i]
  BY <1>0, <1>1
<1>3. ASSUME NEW i \in 1..Len(b) PROVE u[Len(a) + i] = b[i]
  <2>1. /\ Len(a) + i \in 1..(Len(a) + Len(b)) /\ ~(Len(a) + i <= Len(a))
        /\ (Len(a) + i) - Len(a) = i
    BY <1>0
  <2> QED BY <1>1, <2>1
<1> QED BY <1>1, <1>2, <1>3 DEF IsJoin, Joins, u

LEMMA JoinUnique ==
  ASSUME NEW S, NEW a \in Seq(S), NEW b \in Seq(S), NEW u \in Seq(S), NEW v \in Seq(S),
         Joins(u, a, b), Joins(v, a, b)
  PROVE  u = v
<1>0. Len(a) \in Nat /\ Len(b) \in Nat
  BY LenProperties
<1>1. Len(u) = Len(a) + Len(b) /\ Len(v) = Len(a) + Len(b)
  BY DEF Joins
<1>2. ASSUME NEW i \in 1..Len(u) PROVE u[i] = v[i]
  <2>1. CASE i <= Len(a)
    <3>1. i \in 1..Len(a)
      BY <1>0, <2>1
    <3> QED BY <3>1 DEF Joins
  <2>2. CASE ~(i <= Len(a))
    <3>1. i - Len(a) \in 1..Len(b) /\ Len(a) + (i - Len(a)) = i
      BY <1>0, <1>1, <2>2
    <3> QED BY <3>1 DEF Joins
  <2> QED BY <2>1, <2>2
<1> QED BY <1>1, <1>2, SeqEqual

LEMMA JoinsAssoc ==
  ASSUME NEW S, NEW a \in Seq(S), NEW b \in Seq(S), NEW c \in Seq(S),
         NEW x, NEW y, NEW u, Joins(x, a, b), Joins(y, b, c), Joins(u, x, c)
  PROVE  Joins(u, a, y)
<1>0. Len(a) \in Nat /\ Len(b) \in Nat /\ Len(c) \in Nat
  BY LenProperties
<1>1. /\ Len(x) = Len(a) + Len(b) /\ Len(y) = Len(b) + Len(c)
      /\ Len(u) = Len(a) + (Len(b) + Len(c))
  BY <1>0 DEF Joins
<1>2. ASSUME NEW i \in 1..Len(a) PROVE u[i] = a[i]
  <2>1. i \in 1..Len(x)
    BY <1>0, <1>1
  <2> QED BY <2>1 DEF Joins
<1>3. ASSUME NEW i \in 1..Len(y) PROVE u[Len(a) + i] = y[i]
  <2>1. CASE i <= Len(b)
    <3>1. i \in 1..Len(b) /\ Len(a) + i \in 1..Len(x)
      BY <1>0, <1>1, <2>1
    <3> QED BY <3>1 DEF Joins
  <2>2. CASE ~(i <= Len(b))
    <3>1. PICK j \in 1..Len(c) : i = Len(b) + j
      <4>1. i - Len(b) \in 1..Len(c) /\ i = Len(b) + (i - Len(b))
        BY <1>0, <1>1, <2>2
      <4> QED BY <4>1
    <3>2. Len(a) + i = Len(x) + j
      BY <1>0, <1>1, <3>1
    <3>3. u[Len(x) + j] = c[j] /\ y[Len(b) + j] = c[j]
      BY <3>1 DEF Joins
    <3> QED BY <3>1, <3>2, <3>3
  <2> QED BY <2>1, <2>2
<1> QED BY <1>1, <1>2, <1>3 DEF Joins

LEMMA Cut ==
  ASSUME NEW S, NEW s \in Seq(S), NEW n \in 0..Len(s)
  PROVE  /\ SubSeq(s, 1, n) \in Seq(S) /\ Len(SubSeq(s, 1, n)) = n
         /\ \A i \in 1..n : SubSeq(s, 1, n)[i] = s[i]
         /\ SubSeq(s, n + 1, Len(s)) \in Seq(S)
         /\ Len(SubSeq(s, n + 1, Len(s))) = Len(s) - n
         /\ \A i \in 1..(Len(s) - n) : SubSeq(s, n + 1, Len(s))[i] = s[n + i]
         /\ Joins(s, SubSeq(s, 1, n), SubSeq(s, n + 1, Len(s)))
<1>1. Len(s) \in Nat /\ n \in Nat
  BY LenProperties
<1>2. \A i \in 1..Len(s) : s[i] \in S
  BY ElementOfSeq
<1>3. (\A i \in 1..n : s[i] \in S) /\ (\A i \in (n + 1)..Len(s) : s[i] \in S)
  BY <1>1, <1>2
<1>4. /\ SubSeq(s, 1, n) \in Seq(S) /\ Len(SubSeq(s, 1, n)) = n
      /\ \A i \in 1..n : SubSeq(s, 1, n)[i] = s[i]
  BY <1>1, <1>3, SubSeqProperties
<1>5. /\ SubSeq(s, n + 1, Len(s)) \in Seq(S)
      /\ Len(SubSeq(s, n + 1, Len(s))) = Len(s) - n
      /\ \A i \in 1..(Len(s) - n) : SubSeq(s, n + 1, Len(s))[i] = s[n + i]
  <2>1. /\ SubSeq(s, n + 1, Len(s)) \in Seq(S)
        /\ Len(SubSeq(s, n + 1, Len(s))) = IF n + 1 <= Len(s) THEN Len(s) - (n + 1) + 1 ELSE 0
        /\ \A i \in 1..(Len(s) - (n + 1) + 1) : SubSeq(s, n + 1, Len(s))[i] = s[n + 1 + i - 1]
    BY <1>1, <1>3, SubSeqProperties
  <2> QED BY <1>1, <2>1
<1>6. Joins(s, SubSeq(s, 1, n), SubSeq(s, n + 1, Len(s)))
  <2> DEFINE a == SubSeq(s, 1, n)
             b == SubSeq(s, n + 1, Len(s))
  <2>1. Len(a) = n /\ Len(b) = Len(s) - n
    BY <1>4, <1>5
  <2>2. (\A i \in 1..n : s[i] = a[i]) /\ \A i \in 1..(Len(s) - n) : s[n + i] = b[i]
    BY <1>4, <1>5
  <2> HIDE DEF a, b
  <2>3. Joins(s, a, b)
    BY <1>1, <2>1, <2>2 DEF Joins
  <2> QED BY <2>3 DEF a, b
<1> QED BY <1>4, <1>5, <1>6


\* The other way round.
LEMMA JoinsAssocBack ==
  ASSUME NEW S, NEW a \in Seq(S), NEW b \in Seq(S), NEW c \in Seq(S),
         NEW x \in Seq(S), NEW y \in Seq(S), NEW u \in Seq(S),
         Joins(x, a, b), Joins(y, b, c), Joins(u, a, y)
  PROVE  Joins(u, x, c)
<1> DEFINE v == x \o c
<1>1. IsJoin(v, x, c, S)
  BY Join
<1> HIDE DEF v
<1>2. Joins(v, a, y) /\ v \in Seq(S)
  BY <1>1, JoinsAssoc DEF IsJoin
<1>3. u = v
  BY <1>2, JoinUnique
<1> QED BY <1>1, <1>3 DEF IsJoin

\* What has been read, and what is on its way.
Read  == header \o part
Ahead == kernel \o network
Rest  == buf \o Ahead

Parts ==
  /\ header \in Seq(AllBytes) /\ part \in Seq(AllBytes) /\ buf \in Seq(AllBytes)
  /\ kernel \in Seq(AllBytes) /\ network \in Seq(AllBytes)
  /\ Read \in Seq(AllBytes) /\ Ahead \in Seq(AllBytes) /\ Rest \in Seq(AllBytes)
  /\ Unread \in Seq(AllBytes)
  /\ Joins(Read, header, part) /\ Joins(Ahead, kernel, network)
  /\ Joins(Rest, buf, Ahead) /\ Joins(Unread, Read, Rest)

LEMMA UnreadParts == TypeOK => Parts
<1> SUFFICES ASSUME TypeOK PROVE Parts
  OBVIOUS
<1>1. /\ header \in Seq(AllBytes) /\ part \in Seq(AllBytes) /\ buf \in Seq(AllBytes)
      /\ kernel \in Seq(AllBytes) /\ network \in Seq(AllBytes)
  BY DEF TypeOK
<1>2. IsJoin(Read, header, part, AllBytes) /\ IsJoin(Ahead, kernel, network, AllBytes)
  BY <1>1, Join DEF Read, Ahead
<1>3. Read \in Seq(AllBytes) /\ Ahead \in Seq(AllBytes)
  BY <1>2 DEF IsJoin
<1>4. IsJoin(Rest, buf, Ahead, AllBytes)
  BY <1>1, <1>3, Join DEF Rest
<1> DEFINE x == Read \o buf
           y == x \o kernel
           z == y \o network
<1>5. IsJoin(x, Read, buf, AllBytes)
  BY <1>1, <1>3, Join
<1>6. x \in Seq(AllBytes)
  BY <1>5 DEF IsJoin
<1> HIDE DEF x
<1>7. IsJoin(y, x, kernel, AllBytes)
  BY <1>1, <1>6, Join
<1>8. y \in Seq(AllBytes)
  BY <1>7 DEF IsJoin
<1> HIDE DEF y
<1>9. IsJoin(z, y, network, AllBytes)
  BY <1>1, <1>8, Join
<1>10. z = Unread
  BY DEF z, y, x, Unread, Read
<1> HIDE DEF z
<1>11. Joins(z, x, Ahead)
  BY <1>1, <1>2, <1>6, <1>7, <1>9, JoinsAssoc DEF IsJoin
<1>12. Joins(z, Read, Rest)
  BY <1>1, <1>3, <1>4, <1>5, <1>11, JoinsAssoc DEF IsJoin
<1> QED BY <1>1, <1>2, <1>3, <1>4, <1>9, <1>10, <1>12 DEF IsJoin, Parts

LEMMA PartsNext ==
  ASSUME TypeOK'
  PROVE  Parts'
BY UnreadParts, PTL

-----------------------------------------------------------------------------
(* What each step does to the stream.                                       *)

\* Bytes that only move from one place to the next.
LEMMA SameUnread ==
  ASSUME Parts, Parts', Read' = Read, Rest' = Rest
  PROVE  Unread' = Unread
<1>1. /\ Read \in Seq(AllBytes) /\ Rest \in Seq(AllBytes)
      /\ Unread \in Seq(AllBytes) /\ Unread' \in Seq(AllBytes)
      /\ Joins(Unread, Read, Rest) /\ Joins(Unread', Read, Rest)
  BY DEF Parts, AllBytes
<1> QED BY <1>1, JoinUnique

LEMMA ArriveKeepsUnread ==
  ASSUME Parts, Parts', Arrive
  PROVE  Unread' = Unread
<1>1. PICK n \in 1..Len(network) : /\ kernel' = kernel \o SubSeq(network, 1, n)
                                  /\ network' = SubSeq(network, n + 1, Len(network))
  BY DEF Arrive
<1> DEFINE m == SubSeq(network, 1, n)
<1>2. network \in Seq(AllBytes) /\ n \in 0..Len(network)
  BY <1>1, LenProperties DEF Parts
<1>3. m \in Seq(AllBytes) /\ Joins(network, m, network')
  BY <1>1, <1>2, Cut
<1>4. Joins(kernel', kernel, m)
  BY <1>1, <1>3, Join DEF Parts, IsJoin
<1> HIDE DEF m
<1>5. Joins(Ahead', kernel, network)
  <2>1. Joins(Ahead', kernel', network') /\ kernel \in Seq(AllBytes) /\ network' \in Seq(AllBytes)
    BY DEF Parts, AllBytes
  <2> QED BY <1>3, <1>4, <2>1, JoinsAssoc
<1>6. Ahead' = Ahead
  <2>1. /\ Ahead \in Seq(AllBytes) /\ Ahead' \in Seq(AllBytes)
        /\ kernel \in Seq(AllBytes) /\ network \in Seq(AllBytes) /\ Joins(Ahead, kernel, network)
    BY DEF Parts, AllBytes
  <2> QED BY <1>5, <2>1, JoinUnique
<1>7. Read' = Read /\ Rest' = Rest
  BY <1>6 DEF Arrive, readVars, Read, Rest
<1> QED BY <1>7, SameUnread

LEMMA RecvKeepsUnread ==
  ASSUME Parts, Parts', Recv
  PROVE  Unread' = Unread
<1>1. Fetched \in 0..Len(kernel) /\ kernel \in Seq(AllBytes)
  BY LenProperties, Sizes DEF Parts, Fetched, Least
<1>2. Joins(kernel, buf', kernel')
  BY <1>1, Cut DEF Recv
<1>3. Rest' = Rest
  <2>1. /\ Joins(Ahead, kernel, network) /\ Joins(Ahead', kernel', network)
        /\ Joins(Rest', buf', Ahead') /\ Joins(Rest, <<>>, Ahead)
        /\ buf' \in Seq(AllBytes) /\ kernel' \in Seq(AllBytes) /\ network \in Seq(AllBytes)
        /\ kernel \in Seq(AllBytes) /\ Ahead' \in Seq(AllBytes) /\ Ahead \in Seq(AllBytes)
        /\ Rest \in Seq(AllBytes) /\ Rest' \in Seq(AllBytes)
    BY DEF Parts, AllBytes, Recv
  <2>2. Joins(Ahead, buf', Ahead')
    BY <1>2, <2>1, JoinsAssoc
  <2>3. Rest' = Ahead
    BY <2>1, <2>2, JoinUnique
  <2>4. Joins(Ahead, <<>>, Ahead)
    BY <2>1, EmptySeq, LenProperties DEF Joins
  <2>5. Rest = Ahead
    BY <2>1, <2>4, EmptySeq, JoinUnique
  <2> QED BY <2>3, <2>5
<1>4. Read' = Read
  BY DEF Recv, Read
<1> QED BY <1>3, <1>4, SameUnread

\* Bytes m that go from the buffer to what has been read.
LEMMA TakenKeepsUnread ==
  ASSUME Parts, Parts', NEW m \in Seq(AllBytes), Joins(buf, m, buf'), Joins(Read', Read, m),
         UNCHANGED <<kernel, network>>
  PROVE  Unread' = Unread
<1>1. Ahead' = Ahead
  BY DEF Ahead
<1>2. /\ Joins(Rest, buf, Ahead) /\ Joins(Rest', buf', Ahead)
      /\ Joins(Unread, Read, Rest) /\ Joins(Unread', Read', Rest')
      /\ buf' \in Seq(AllBytes) /\ Ahead \in Seq(AllBytes) /\ Read \in Seq(AllBytes)
      /\ Rest \in Seq(AllBytes) /\ Rest' \in Seq(AllBytes)
      /\ Unread \in Seq(AllBytes) /\ Unread' \in Seq(AllBytes)
  BY <1>1 DEF Parts, AllBytes
<1>3. Joins(Rest, m, Rest')
  BY <1>2, JoinsAssoc
<1>4. Joins(Unread', Read, Rest)
  BY <1>2, <1>3, JoinsAssoc
<1> QED BY <1>2, <1>4, JoinUnique

\* A message that is complete leaves the stream.
LEMMA MessageLeaves ==
  ASSUME Parts, Parts', NEW m \in Seq(AllBytes), Joins(buf, m, buf'),
         header' = <<>>, part' = <<>>, UNCHANGED <<kernel, network>>
  PROVE  /\ part \o m \in Seq(AllBytes) /\ header \o (part \o m) \in Seq(AllBytes)
         /\ Joins(part \o m, part, m)
         /\ Joins(header \o (part \o m), header, part \o m)
         /\ Joins(Unread, header \o (part \o m), Unread')
<1> DEFINE body == part \o m
           message == header \o body
<1>1. Ahead' = Ahead
  BY DEF Ahead
<1>2. /\ Joins(Rest, buf, Ahead) /\ Joins(Rest', buf', Ahead)
      /\ Joins(Unread, Read, Rest) /\ Joins(Unread', Read', Rest') /\ Joins(Read, header, part)
      /\ buf' \in Seq(AllBytes) /\ Ahead \in Seq(AllBytes) /\ Read \in Seq(AllBytes)
      /\ Rest \in Seq(AllBytes) /\ Rest' \in Seq(AllBytes)
      /\ Unread \in Seq(AllBytes) /\ Unread' \in Seq(AllBytes)
      /\ header \in Seq(AllBytes) /\ part \in Seq(AllBytes)
  BY <1>1 DEF Parts, AllBytes
<1>3. Joins(Rest, m, Rest')
  BY <1>2, JoinsAssoc
<1>4. body \in Seq(AllBytes) /\ Joins(body, part, m)
  BY <1>2, Join DEF IsJoin
<1> HIDE DEF body
<1>5. message \in Seq(AllBytes) /\ Joins(message, header, body)
  BY <1>2, <1>4, Join DEF IsJoin
<1> HIDE DEF message
<1>6. Joins(message, Read, m)
  BY <1>2, <1>4, <1>5, JoinsAssocBack
<1>7. Joins(Unread, message, Rest')
  BY <1>2, <1>3, <1>5, <1>6, JoinsAssocBack
<1>8. Unread' = Rest'
  <2>1. Read' = <<>>
    <3>1. Len(Read') = 0 /\ Read' \in Seq(AllBytes)
      <4>1. Joins(Read', <<>>, <<>>) /\ Read' \in Seq(AllBytes)
        BY DEF Parts, AllBytes
      <4> QED BY <4>1, EmptySeq DEF Joins
    <3> QED BY <3>1, EmptySeq
  <2>2. Joins(Rest', <<>>, Rest')
    BY <1>2, EmptySeq, LenProperties DEF Joins
  <2> QED BY <1>2, <2>1, <2>2, EmptySeq, JoinUnique
<1> QED BY <1>4, <1>5, <1>7, <1>8 DEF body, message

-----------------------------------------------------------------------------
(* Types.  A reply has the number of the last message, so that its type     *)
(* rests on what has been received.                                         *)

LEMMA BytesType ==
  ASSUME NEW m, NEW n \in Nat, NEW T, \A k \in 1..n : <<m, k>> \in T
  PROVE  /\ Bytes(m, n) \in Seq(T) /\ Len(Bytes(m, n)) = n
         /\ \A k \in 1..n : Bytes(m, n)[k] = <<m, k>>
<1>1. Bytes(m, n) \in [1..n -> T] /\ DOMAIN Bytes(m, n) = 1..n
  BY DEF Bytes
<1>2. Bytes(m, n) \in Seq(T)
  BY <1>1, SeqDef
<1>3. DOMAIN Bytes(m, n) = 1..Len(Bytes(m, n)) /\ Len(Bytes(m, n)) \in Nat
  BY <1>2, LenProperties
<1>4. Len(Bytes(m, n)) = n
  BY <1>1, <1>3
<1> QED BY <1>2, <1>4 DEF Bytes

LEMMA RequestType ==
  ASSUME NEW m \in 1..MaxMessages
  PROVE  /\ Request(m) \in Seq(AllBytes) /\ Len(Request(m)) = Size
         /\ \A k \in 1..Size : Request(m)[k] = <<m, k>>
<1>1. \A k \in 1..Size : <<m, k>> \in AllBytes
  BY DEF AllBytes
<1>2. Size \in Nat
  BY Sizes
<1> HIDE DEF AllBytes
<1> QED BY <1>1, <1>2, BytesType DEF Request

Messages == \A i \in 1..Len(received) : received[i] = Request(i)
Places   == \A k \in 1..Len(Unread) : Place(Unread[k]) = Len(received) * Size + k
Counted  == /\ Len(Unread) <= (sent - Len(received)) * Size
            /\ ~closed => Len(Unread) = (sent - Len(received)) * Size
Framed   == /\ at # "body" => header = <<>>
            /\ at \notin {"head", "body"} => part = <<>>
            /\ at = "head" => Len(part) < HeadSize
            /\ at = "body" => Len(header) = HeadSize /\ Len(part) < BodySize
Sending  == /\ first = 1
            /\ at = "send" => received # <<>>
            /\ at # "send" => total = 0

ReadInv == TypeOK /\ Messages /\ Places /\ Counted /\ Framed /\ Sending

LEMMA NoneTooMany ==
  ASSUME ReadInv
  PROVE  Len(received) <= sent /\ Len(received) \in Nat /\ sent \in 0..MaxMessages
<1> DEFINE l == Len(received)
<1>1. l \in Nat /\ sent \in 0..MaxMessages /\ MaxMessages \in Nat
  BY LenProperties, Sizes DEF ReadInv, TypeOK
<1>2. l <= sent
  <2> SUFFICES ASSUME sent < l PROVE FALSE
    BY <1>1
  <2>1. Len(Unread) \in Nat
    <3>1. Unread \in Seq(AllBytes)
      BY UnreadParts DEF ReadInv, Parts
    <3> QED BY <3>1, LenProperties
  <2>2. (sent - l) * Size + Size <= 0 * Size
    <3>1. sent - l \in Int /\ sent - l < 0 /\ Size \in Nat
      BY <1>1, Sizes
    <3> QED BY <3>1, Grows
  <2>3. (sent - l) * Size \in Int /\ 0 * Size = 0 /\ Size \in Nat \ {0}
    BY <1>1, Sizes
  <2> QED BY <2>1, <2>2, <2>3 DEF ReadInv, Counted
<1> QED BY <1>1, <1>2

LEMMA CurrentReply ==
  ASSUME ReadInv, received # <<>>
  PROVE  Current \in 1..MaxMessages /\ Current = Len(received)
<1> DEFINE l == Len(received)
<1>1. l \in Nat \ {0} /\ l \in 1..MaxMessages
  BY EmptySeq, NoneTooMany, Sizes DEF ReadInv, TypeOK
<1>2. received[l] = Request(l)
  BY <1>1 DEF ReadInv, Messages
<1>3. Request(l)[1] = <<l, 1>>
  BY <1>1, RequestType, Sizes
<1> QED BY <1>1, <1>2, <1>3 DEF Current

\* recvraw never takes more than there is, nor more than the body wants.
LEMMA TakenBounds ==
  ASSUME TypeOK, Framed, at = "body"
  PROVE  /\ Taken \in 0..Len(buf) /\ Len(part) + Taken <= BodySize
         /\ Len(part) \in Nat /\ Len(buf) \in Nat
BY LenProperties, Sizes DEF TypeOK, Framed, Taken, Least

LEMMA PieceOfReply ==
  ASSUME ReadInv, received # <<>>, NEW i \in Nat, NEW n \in Nat, i + n <= ReplySize
  PROVE  /\ SubSeq(Bytes(Current, ReplySize), 1 + i, 1 + i + n - 1)
              \in Seq((1..MaxMessages) \X (1..ReplySize))
         /\ Len(SubSeq(Bytes(Current, ReplySize), 1 + i, 1 + i + n - 1)) = n
         /\ \A k \in 1..n :
              SubSeq(Bytes(Current, ReplySize), 1 + i, 1 + i + n - 1)[k] = <<Current, i + k>>
<1> DEFINE T == (1..MaxMessages) \X (1..ReplySize)
           r == Bytes(Current, ReplySize)
<1>1. ReplySize \in Nat
  BY Sizes
<1>2. \A k \in 1..ReplySize : <<Current, k>> \in T
  BY CurrentReply
<1>3. \A k \in 1..ReplySize : r[k] = <<Current, k>> /\ r[k] \in T
  <2> HIDE DEF T
  <2> QED BY <1>1, <1>2, BytesType
<1>4. \A k \in (1 + i)..(1 + i + n - 1) : k \in 1..ReplySize
  BY <1>1
<1>5. \A k \in 1..n : (1 + i) + k - 1 = i + k /\ i + k \in 1..ReplySize
  BY <1>1
<1> HIDE DEF T, r
<1>6. /\ SubSeq(r, 1 + i, 1 + i + n - 1) \in Seq(T)
      /\ Len(SubSeq(r, 1 + i, 1 + i + n - 1)) =
           IF 1 + i <= 1 + i + n - 1 THEN (1 + i + n - 1) - (1 + i) + 1 ELSE 0
      /\ \A k \in 1..((1 + i + n - 1) - (1 + i) + 1) :
           SubSeq(r, 1 + i, 1 + i + n - 1)[k] = r[(1 + i) + k - 1]
  BY <1>3, <1>4, SubSeqProperties
<1>7. Len(SubSeq(r, 1 + i, 1 + i + n - 1)) = n /\ (1 + i + n - 1) - (1 + i) + 1 = n
  BY <1>6
<1> QED BY <1>3, <1>5, <1>6, <1>7 DEF r, T

LEMMA TypeInit == Init => TypeOK
<1> SUFFICES ASSUME Init PROVE TypeOK
  OBVIOUS
<1>1. /\ <<>> \in Seq(AllBytes) /\ <<>> \in Seq(Seq(AllBytes)) /\ Len(<<>>) = 0
      /\ <<>> \in Seq((1..MaxMessages) \X (1..ReplySize))
  BY EmptySeq
<1>2. 0 \in 0..MaxMessages /\ 0 <= BUF_SIZE /\ 1 \in 1..(ReplySize + 1) /\ 0 \in 0..ReplySize
  BY Sizes
<1> QED BY <1>1, <1>2, Zenon DEF Init, TypeOK

LEMMA TypeStep == ReadInv /\ [Next]_vars => TypeOK'
<1> SUFFICES ASSUME ReadInv, [Next]_vars PROVE TypeOK'
  OBVIOUS
<1> USE DEF wireVars, readVars, sendVars
<1>0. TypeOK
  BY DEF ReadInv
<1>1. CASE ClientSend
  <2>1. sent + 1 \in 1..MaxMessages
    BY <1>0, <1>1, Sizes DEF ClientSend, TypeOK
  <2>2. network' \in Seq(AllBytes)
    BY <1>0, <1>1, <2>1, RequestType, Join DEF ClientSend, TypeOK, IsJoin
  <2> QED BY <1>0, <1>1, <2>1, <2>2 DEF ClientSend, TypeOK
<1>2. CASE Arrive
  <2>1. PICK n \in 1..Len(network) : /\ kernel' = kernel \o SubSeq(network, 1, n)
                                    /\ network' = SubSeq(network, n + 1, Len(network))
    BY <1>2 DEF Arrive
  <2>2. network \in Seq(AllBytes) /\ kernel \in Seq(AllBytes) /\ n \in 0..Len(network)
    BY <1>0, LenProperties DEF TypeOK
  <2>3. SubSeq(network, 1, n) \in Seq(AllBytes) /\ network' \in Seq(AllBytes)
    BY <2>1, <2>2, Cut
  <2>4. kernel' \in Seq(AllBytes)
    BY <2>1, <2>2, <2>3, Join DEF IsJoin
  <2> QED BY <1>0, <1>2, <2>3, <2>4 DEF Arrive, TypeOK
<1>3. CASE ClientClose
  <2>1. network' \in Seq(AllBytes)
    BY <1>0, <1>3, Cut DEF ClientClose, TypeOK
  <2> QED BY <1>0, <1>3, <2>1 DEF ClientClose, TypeOK
<1>4. CASE Recv
  <2>1. Fetched \in 0..Len(kernel) /\ Fetched <= BUF_SIZE /\ kernel \in Seq(AllBytes)
    BY <1>0, LenProperties, Sizes DEF TypeOK, Fetched, Least
  <2>2. buf' \in Seq(AllBytes) /\ kernel' \in Seq(AllBytes) /\ Len(buf') <= BUF_SIZE
    BY <1>4, <2>1, Cut DEF Recv
  <2> QED BY <1>0, <1>4, <2>2 DEF Recv, TypeOK
<1>5. CASE RecvEof
  BY <1>0, <1>5, EmptySeq DEF RecvEof, TypeOK
<1>6. CASE recvline
  <2>1. buf \in Seq(AllBytes) /\ part \in Seq(AllBytes) /\ Len(buf) \in Nat
    BY <1>0, LenProperties DEF TypeOK
  <2>2. CASE part' = part \o buf /\ buf' = <<>> /\ UNCHANGED <<header, at>>
    <3>1. part' \in Seq(AllBytes)
      BY <2>1, <2>2, Join DEF IsJoin
    <3> QED BY <1>0, <1>6, <2>2, <3>1, EmptySeq, Sizes DEF recvline, TypeOK
  <2>3. CASE \E n \in 1..Len(buf) :
               /\ header' = part \o SubSeq(buf, 1, n) /\ buf' = SubSeq(buf, n + 1, Len(buf))
               /\ part' = <<>> /\ at' = "body"
    <3>1. PICK n \in 1..Len(buf) :
            /\ header' = part \o SubSeq(buf, 1, n) /\ buf' = SubSeq(buf, n + 1, Len(buf))
            /\ part' = <<>> /\ at' = "body"
      BY <2>3
    <3>2. n \in 0..Len(buf)
      BY <2>1
    <3>3. SubSeq(buf, 1, n) \in Seq(AllBytes) /\ buf' \in Seq(AllBytes) /\ Len(buf') <= Len(buf)
      BY <2>1, <3>1, <3>2, Cut
    <3>4. header' \in Seq(AllBytes)
      BY <2>1, <3>1, <3>3, Join DEF IsJoin
    <3>5. Len(buf') <= BUF_SIZE
      BY <1>0, <2>1, <3>3, LenProperties, Sizes DEF TypeOK
    <3> QED BY <1>0, <1>6, <3>1, <3>3, <3>4, <3>5, EmptySeq DEF recvline, TypeOK
  <2> QED BY <1>6, <2>2, <2>3 DEF recvline
<1>7. CASE recvraw
  <2> DEFINE m == SubSeq(buf, 1, Taken)
             body == part \o m
  <2>1. /\ buf \in Seq(AllBytes) /\ part \in Seq(AllBytes) /\ header \in Seq(AllBytes)
        /\ Len(buf) \in Nat /\ received \in Seq(Seq(AllBytes))
    BY <1>0, LenProperties DEF TypeOK
  <2>2. Taken \in 0..Len(buf)
    BY <1>7, TakenBounds DEF ReadInv, recvraw
  <2>3. m \in Seq(AllBytes) /\ buf' \in Seq(AllBytes) /\ Len(buf') <= Len(buf)
    BY <1>7, <2>1, <2>2, Cut DEF recvraw
  <2>4. body \in Seq(AllBytes)
    BY <2>1, <2>3, Join DEF IsJoin
  <2>5. Len(buf') <= BUF_SIZE
    BY <1>0, <2>1, <2>3, LenProperties, Sizes DEF TypeOK
  <2>6. header \o body \in Seq(AllBytes)
    <3> HIDE DEF body
    <3> QED BY <2>1, <2>4, Join DEF IsJoin
  <2>7. \/ part' = body /\ UNCHANGED <<header, received, at>>
        \/ /\ received' = Append(received, header \o body)
           /\ part' = <<>> /\ header' = <<>> /\ at' \in {"send", "select", "head", "script"}
    BY <1>7 DEF recvraw, Handled
  <2>8. received' \in Seq(Seq(AllBytes)) /\ part' \in Seq(AllBytes) /\ header' \in Seq(AllBytes)
    <3> DEFINE message == header \o body
    <3>1. <<>> \in Seq(AllBytes)
      BY EmptySeq
    <3> HIDE DEF body, message
    <3>2. Append(received, message) \in Seq(Seq(AllBytes))
      BY <2>1, <2>6, AppendProperties DEF message
    <3> QED BY <2>1, <2>4, <2>7, <3>1, <3>2, Zenon DEF message
  <2>9. at' \in {"script", "select", "head", "body", "send"}
    BY <1>0, <2>7 DEF TypeOK
  <2> QED BY <1>0, <1>7, <2>3, <2>5, <2>8, <2>9 DEF recvraw, TypeOK
<1>8. CASE SendStep
  <2>1. PICK n \in 1..Least(STEPSIZE, ReplySize - first + 1 - total) :
          /\ total' = total + n
          /\ out' = out \o SubSeq(Bytes(Current, ReplySize), first + total, first + total + n - 1)
    BY <1>8 DEF SendStep
  <2>2. first = 1 /\ total \in 0..ReplySize /\ ReplySize \in Nat /\ STEPSIZE \in Nat
    BY <1>0, Sizes DEF ReadInv, Sending, TypeOK
  <2>3. n \in Nat /\ total + n <= ReplySize /\ total' \in 0..ReplySize
    BY <2>1, <2>2 DEF Least
  <2> DEFINE piece == SubSeq(Bytes(Current, ReplySize), first + total, first + total + n - 1)
  <2>4. piece \in Seq((1..MaxMessages) \X (1..ReplySize))
    <3>1. /\ received # <<>> /\ total \in Nat
          /\ piece = SubSeq(Bytes(Current, ReplySize), 1 + total, 1 + total + n - 1)
      BY <1>8, <2>2 DEF SendStep, ReadInv, Sending
    <3> HIDE DEF piece
    <3> QED BY <2>3, <3>1, PieceOfReply
  <2>5. out' \in Seq((1..MaxMessages) \X (1..ReplySize))
    <3> HIDE DEF piece
    <3>1. out \in Seq((1..MaxMessages) \X (1..ReplySize))
      BY <1>0 DEF TypeOK
    <3>2. out' = out \o piece
      BY <2>1 DEF piece
    <3> QED BY <2>4, <3>1, <3>2, Join DEF IsJoin
  <2> QED BY <1>0, <1>8, <2>3, <2>5 DEF SendStep, TypeOK
<1>9. CASE SendReturns
  <2>1. first = 1 /\ total = ReplySize /\ ReplySize \in Nat \ {0}
    BY <1>0, <1>9, Sizes DEF ReadInv, Sending, TypeOK, SendReturns, AllSent
  <2>2. first' = 1 /\ at' \in {"select", "head", "script"}
    BY <1>9, <2>1 DEF SendReturns, Handled
  <2> QED BY <1>0, <1>9, <2>1, <2>2 DEF SendReturns, TypeOK
<1>10. CASE SendFails
  <2>1. 1 \in 1..(ReplySize + 1) /\ 0 \in 0..ReplySize
    BY Sizes
  <2> QED BY <1>0, <1>10, <2>1 DEF SendFails, TypeOK
<1>11. CASE BeginPoll \/ BeginLoop \/ Select \/ UNCHANGED vars
  BY <1>0, <1>11 DEF BeginPoll, BeginLoop, Select, vars, TypeOK
<1> QED
  BY <1>1, <1>2, <1>3, <1>4, <1>5, <1>6, <1>7, <1>8, <1>9, <1>10, <1>11 DEF Next, Adapter

-----------------------------------------------------------------------------
(* The stream.                                                              *)

LEMMA StreamKept ==
  ASSUME ReadInv, Unread' = Unread, UNCHANGED <<sent, closed, received>>
  PROVE  Messages' /\ Places' /\ Counted'
BY DEF ReadInv, Messages, Places, Counted, Place, Size, Request, Bytes

\* The client sends at the end of the stream, and only while it is open.
LEMMA SendExtends ==
  ASSUME ReadInv, TypeOK', ClientSend
  PROVE  Messages' /\ Places' /\ Counted'
<1> DEFINE r == Request(sent + 1)
           l == Len(received)
<1>0. Parts /\ Parts' /\ TypeOK /\ sent + 1 \in 1..MaxMessages /\ sent \in Int /\ l \in Nat
  BY UnreadParts, PartsNext, LenProperties, Sizes DEF ReadInv, TypeOK, ClientSend
<1>1. r \in Seq(AllBytes) /\ Len(r) = Size /\ \A k \in 1..Size : r[k] = <<sent + 1, k>>
  BY <1>0, RequestType
<1> HIDE DEF r
<1>2. Joins(Unread', Unread, r)
  <2>1. network' = network \o r
    BY DEF ClientSend, r
  <2>2. Joins(network', network, r)
    BY <1>0, <1>1, <2>1, Join DEF Parts, IsJoin
  <2>3. /\ Joins(Ahead, kernel, network) /\ Joins(Ahead', kernel, network')
        /\ Joins(Rest, buf, Ahead) /\ Joins(Rest', buf, Ahead')
        /\ Joins(Unread, Read, Rest) /\ Joins(Unread', Read, Rest')
    BY <1>0 DEF Parts, ClientSend, readVars, Read
  <2>4. /\ kernel \in Seq(AllBytes) /\ network \in Seq(AllBytes) /\ buf \in Seq(AllBytes)
        /\ Read \in Seq(AllBytes) /\ Ahead \in Seq(AllBytes) /\ Rest \in Seq(AllBytes)
        /\ Unread \in Seq(AllBytes) /\ network' \in Seq(AllBytes) /\ Ahead' \in Seq(AllBytes)
        /\ Rest' \in Seq(AllBytes) /\ Unread' \in Seq(AllBytes)
    BY <1>0 DEF Parts, AllBytes
  <2>5. Joins(Ahead', Ahead, r)
    BY <1>1, <2>2, <2>3, <2>4, JoinsAssocBack
  <2>6. Joins(Rest', Rest, r)
    BY <1>1, <2>3, <2>4, <2>5, JoinsAssocBack
  <2> QED BY <1>1, <2>3, <2>4, <2>6, JoinsAssocBack
<1>3. /\ Len(Unread) \in Nat /\ Len(Unread') = Len(Unread) + Size
      /\ \A k \in 1..Len(Unread) : Unread'[k] = Unread[k]
      /\ \A k \in 1..Size : Unread'[Len(Unread) + k] = <<sent + 1, k>>
  BY <1>0, <1>1, <1>2, LenProperties DEF Parts, Joins
<1>4. Len(Unread) = (sent - l) * Size /\ received' = received /\ sent' = sent + 1 /\ closed' = closed
  BY DEF ClientSend, ReadInv, Counted, readVars
<1>5. PICK s \in Nat : s = Size
  BY Sizes
<1>6. (sent - l) * s = sent * s - l * s /\ (sent + 1 - l) * s = (sent - l) * s + s
  BY <1>0, <1>5
<1>7. Messages'
  BY <1>4 DEF ReadInv, Messages, Request, Bytes, Size
<1>8. Counted'
  BY <1>0, <1>3, <1>4, <1>5, <1>6 DEF Counted, ReadInv, ClientSend, Size
<1>9. Places'
  <2> SUFFICES ASSUME NEW k \in 1..Len(Unread') PROVE Place(Unread'[k]) = l * Size + k
    BY <1>4 DEF Places, Place, Size
  <2>1. CASE k \in 1..Len(Unread)
    BY <1>3, <2>1 DEF ReadInv, Places
  <2>2. CASE k \notin 1..Len(Unread)
    <3>1. PICK j \in 1..Size : k = Len(Unread) + j
      <4>1. k - Len(Unread) \in 1..Size /\ k = Len(Unread) + (k - Len(Unread))
        BY <1>3, <1>5, <2>2
      <4> QED BY <4>1
    <3>2. Unread'[k] = <<sent + 1, j>>
      BY <1>3, <3>1
    <3>3. Place(Unread'[k]) = sent * s + j
      BY <1>0, <1>5, <3>2 DEF Place
    <3>4. PICK a \in Int, b \in Int : a = sent * s /\ b = l * s
      BY <1>0, <1>5
    <3>5. Len(Unread) = a - b
      BY <1>4, <1>5, <1>6, <3>4, Zenon
    <3>6. a + j = b + k
      BY <1>5, <3>1, <3>4, <3>5
    <3> QED BY <1>5, <3>3, <3>4, <3>6, Zenon
  <2> QED BY <2>1, <2>2
<1> QED BY <1>7, <1>8, <1>9

\* What a closed connection loses is at the end.
LEMMA CloseCuts ==
  ASSUME ReadInv, TypeOK', ClientClose
  PROVE  /\ Messages' /\ Places' /\ Counted'
         /\ Len(Unread') <= Len(Unread) /\ \A k \in 1..Len(Unread') : Unread'[k] = Unread[k]
<1>0. Parts /\ Parts'
  BY UnreadParts, PartsNext DEF ReadInv
<1>1. PICK n \in 0..Len(network) : network' = SubSeq(network, 1, n)
  BY DEF ClientClose
<1> DEFINE m == SubSeq(network, n + 1, Len(network))
<1>2. m \in Seq(AllBytes) /\ Joins(network, network', m)
  BY <1>0, <1>1, Cut DEF Parts
<1> HIDE DEF m
<1>3. Joins(Unread, Unread', m)
  <2>3. /\ Joins(Ahead, kernel, network) /\ Joins(Ahead', kernel, network')
        /\ Joins(Rest, buf, Ahead) /\ Joins(Rest', buf, Ahead')
        /\ Joins(Unread, Read, Rest) /\ Joins(Unread', Read, Rest')
    BY <1>0 DEF Parts, ClientClose, readVars, Read
  <2>4. /\ kernel \in Seq(AllBytes) /\ network \in Seq(AllBytes) /\ buf \in Seq(AllBytes)
        /\ Read \in Seq(AllBytes) /\ Ahead \in Seq(AllBytes) /\ Rest \in Seq(AllBytes)
        /\ Unread \in Seq(AllBytes) /\ network' \in Seq(AllBytes) /\ Ahead' \in Seq(AllBytes)
        /\ Rest' \in Seq(AllBytes) /\ Unread' \in Seq(AllBytes)
    BY <1>0 DEF Parts, AllBytes
  <2>5. Joins(Ahead, Ahead', m)
    BY <1>2, <2>3, <2>4, JoinsAssocBack
  <2>6. Joins(Rest, Rest', m)
    BY <1>2, <2>3, <2>4, <2>5, JoinsAssocBack
  <2> QED BY <1>2, <2>3, <2>4, <2>6, JoinsAssocBack
<1>4. Len(Unread) \in Nat /\ Len(Unread') \in Nat /\ Len(m) \in Nat
  <2>1. Unread \in Seq(AllBytes) /\ Unread' \in Seq(AllBytes)
    BY <1>0 DEF Parts, AllBytes
  <2> QED BY <1>2, <2>1, LenProperties
<1>5. Len(Unread') <= Len(Unread) /\ \A k \in 1..Len(Unread') : Unread'[k] = Unread[k]
  BY <1>3, <1>4 DEF Joins
<1>6. UNCHANGED <<sent, received>> /\ closed'
  BY DEF ClientClose, readVars
<1>7. Messages'
  BY <1>6 DEF ReadInv, Messages, Request, Bytes, Size
<1>8. Places'
  BY <1>4, <1>5, <1>6 DEF ReadInv, Places, Place, Size
<1>9. Counted'
  <2>1. PICK c : c = (sent - Len(received)) * Size /\ c \in Int
    BY LenProperties, Sizes DEF ReadInv, TypeOK
  <2>2. Len(Unread) <= c
    BY <2>1 DEF ReadInv, Counted
  <2>3. Len(Unread') <= c
    BY <1>4, <1>5, <2>1, <2>2
  <2> QED BY <1>6, <2>1, <2>3 DEF Counted, Size
<1> QED BY <1>5, <1>7, <1>8, <1>9

\* The first bytes of the stream are those of the next message.
LEMMA NextBytes ==
  ASSUME ReadInv, NEW k \in 1..Size, k <= Len(Unread)
  PROVE  Unread[k] = <<Len(received) + 1, k>>
<1>1. Unread \in Seq(AllBytes) /\ Len(Unread) \in Nat /\ Len(received) \in Int
  BY UnreadParts, LenProperties DEF ReadInv, Parts, TypeOK
<1>2. k \in 1..Len(Unread)
  BY <1>1, Sizes
<1>3. Unread[k] \in AllBytes
  BY <1>1, <1>2, ElementOfSeq
<1>4. Place(Unread[k]) = Len(received) * Size + k
  BY <1>2 DEF ReadInv, Places
<1> QED BY <1>1, <1>3, <1>4, ByteAt

\* A message that leaves is the next one, and the rest moves up.
LEMMA MessageCounts ==
  ASSUME ReadInv, TypeOK', NEW message \in Seq(AllBytes), Len(message) = Size,
         Joins(Unread, message, Unread'), received' = Append(received, message),
         UNCHANGED <<sent, closed>>
  PROVE  Messages' /\ Places' /\ Counted'
<1> DEFINE l == Len(received)
<1>1. /\ Unread \in Seq(AllBytes) /\ Unread' \in Seq(AllBytes)
      /\ Len(Unread) \in Nat /\ Len(Unread') \in Nat
  <2>1. Parts /\ Parts'
    BY UnreadParts, PartsNext DEF ReadInv
  <2>2. Unread \in Seq(AllBytes) /\ Unread' \in Seq(AllBytes)
    BY <2>1 DEF Parts, AllBytes
  <2> QED BY <2>2, LenProperties
<1>2. /\ received \in Seq(Seq(AllBytes)) /\ l \in Nat /\ Len(received') = l + 1
      /\ \A i \in 1..l : received'[i] = received[i]
      /\ received'[l + 1] = message
  BY AppendProperties, LenProperties DEF ReadInv, TypeOK
<1>3. /\ Len(Unread) = Size + Len(Unread')
      /\ \A k \in 1..Size : Unread[k] = message[k]
      /\ \A k \in 1..Len(Unread') : Unread[Size + k] = Unread'[k]
  BY DEF Joins
<1>4. PICK s \in Nat \ {0} : s = Size
  BY Sizes
<1>5. \A k \in 1..Size : message[k] = <<l + 1, k>>
  BY <1>1, <1>3, <1>4, NextBytes
<1>6. message = Request(l + 1)
  <2>1. Request(l + 1) = [k \in 1..Size |-> <<l + 1, k>>]
    BY DEF Request, Bytes
  <2>2. message \in [1..Size -> AllBytes]
    BY LenProperties
  <2> QED BY <1>5, <2>1, <2>2
<1>7. Messages'
  <2> SUFFICES ASSUME NEW i \in 1..(l + 1) PROVE received'[i] = Request(i)
    BY <1>2 DEF Messages, Request, Bytes, Size
  <2>1. CASE i = l + 1
    BY <1>2, <1>6, <2>1
  <2>2. CASE i # l + 1
    <3>1. i \in 1..l
      BY <1>2, <2>2
    <3> QED BY <1>2, <3>1 DEF ReadInv, Messages
  <2> QED BY <2>1, <2>2
<1>8. (l + 1) * s = l * s + s /\ l * s \in Int
  BY <1>2, <1>4
<1>9. Places'
  <2> SUFFICES ASSUME NEW k \in 1..Len(Unread') PROVE Place(Unread'[k]) = (l + 1) * Size + k
    BY <1>2 DEF Places, Place, Size
  <2>1. Size + k \in 1..Len(Unread)
    BY <1>1, <1>3, <1>4
  <2>2. Place(Unread[Size + k]) = l * Size + (Size + k)
    BY <2>1 DEF ReadInv, Places
  <2> QED BY <1>1, <1>3, <1>4, <1>8, <2>2
<1>10. Counted'
  <2>1. sent \in Int
    BY DEF ReadInv, TypeOK
  <2>2. (sent - l) * s = (sent - (l + 1)) * s + s /\ (sent - (l + 1)) * s \in Int
    BY <1>2, <1>4, <2>1
  <2>3. /\ Len(Unread) <= (sent - l) * s
        /\ ~closed => Len(Unread) = (sent - l) * s
    BY <1>4 DEF ReadInv, Counted
  <2>4. /\ Len(Unread') <= (sent - (l + 1)) * s
        /\ ~closed => Len(Unread') = (sent - (l + 1)) * s
    BY <1>1, <1>3, <1>4, <2>2, <2>3
  <2> QED BY <1>2, <1>4, <2>4 DEF Counted, Size
<1> QED BY <1>7, <1>9, <1>10

LEMMA JoinEmpty ==
  ASSUME NEW S, NEW a \in Seq(S), NEW u \in Seq(S)
  PROVE  /\ Joins(u, a, <<>>) => u = a
         /\ Joins(u, <<>>, a) => u = a
<1>1. Joins(a, a, <<>>) /\ Joins(a, <<>>, a) /\ <<>> \in Seq(S)
  BY EmptySeq, LenProperties DEF Joins
<1> QED BY <1>1, JoinUnique

\* Without a header what has been read is in part, after one it is the header.
LEMMA ReadIs ==
  ASSUME Parts
  PROVE  /\ header = <<>> => Read = part
         /\ part = <<>> => Read = header
<1>1. /\ Joins(Read, header, part) /\ Read \in Seq(AllBytes)
      /\ header \in Seq(AllBytes) /\ part \in Seq(AllBytes)
  BY DEF Parts
<1> QED BY <1>1, JoinEmpty

LEMMA ReadNext ==
  ASSUME Parts'
  PROVE  /\ header' = <<>> => Read' = part'
         /\ part' = <<>> => Read' = header'
<1>1. /\ Joins(Read', header', part') /\ Read' \in Seq(AllBytes)
      /\ header' \in Seq(AllBytes) /\ part' \in Seq(AllBytes)
  BY DEF Parts, AllBytes
<1> QED BY <1>1, JoinEmpty

\* While a header is read, the buffer goes on where part has stopped.
LEMMA HeaderBytes ==
  ASSUME ReadInv, at = "head"
  PROVE  /\ Len(part) \in Nat /\ Len(buf) \in Nat /\ Len(part) < HeadSize
         /\ \A i \in 1..Len(buf) :
              Len(part) + i <= HeadSize => (Newline(buf[i]) <=> Len(part) + i = HeadSize)
<1>1. /\ Len(part) \in Nat /\ Len(buf) \in Nat /\ Len(part) < HeadSize /\ header = <<>>
  BY LenProperties DEF ReadInv, TypeOK, Framed
<1>2. Parts /\ Read = part
  BY <1>1, UnreadParts, ReadIs DEF ReadInv
<1>3. ASSUME NEW i \in 1..Len(buf), Len(part) + i <= HeadSize
      PROVE  Newline(buf[i]) <=> Len(part) + i = HeadSize
  <2>1. Len(Ahead) \in Nat
    BY <1>2, LenProperties DEF Parts
  <2>2. i \in 1..Len(Rest) /\ Rest[i] = buf[i] /\ Len(Rest) = Len(buf) + Len(Ahead)
    BY <1>1, <1>2, <2>1 DEF Parts, Joins
  <2>3. /\ Unread[Len(part) + i] = buf[i] /\ Len(part) + i <= Len(Unread)
    BY <1>1, <1>2, <2>1, <2>2 DEF Parts, Joins
  <2>4. Len(part) + i \in 1..Size
    BY <1>1, <1>3, Sizes
  <2>5. buf[i] = <<Len(received) + 1, Len(part) + i>>
    BY <2>3, <2>4, NextBytes
  <2> QED BY <2>5 DEF Newline
<1> QED BY <1>1, <1>3

\* recvline: a header ends with the newline, wherever the buffer ended before.
LEMMA LineStep ==
  ASSUME ReadInv, TypeOK', recvline
  PROVE  /\ Messages' /\ Places' /\ Counted' /\ Framed'
         /\ Unread' = Unread /\ UNCHANGED <<sent, closed, received>>
<1>0. /\ Parts /\ Parts' /\ at = "head" /\ header = <<>> /\ Read = part
      /\ part \in Seq(AllBytes) /\ buf \in Seq(AllBytes) /\ TypeOK
  BY UnreadParts, PartsNext, ReadIs DEF recvline, ReadInv, Framed, TypeOK
<1>1. /\ Len(part) \in Nat /\ Len(buf) \in Nat /\ Len(part) < HeadSize
      /\ \A i \in 1..Len(buf) :
           Len(part) + i <= HeadSize => (Newline(buf[i]) <=> Len(part) + i = HeadSize)
  BY <1>0, HeaderBytes
<1>2. PICK h \in Nat \ {0} : h = HeadSize
  BY Sizes
<1>3. UNCHANGED <<sent, network, kernel, closed, received>>
  BY DEF recvline, wireVars
<1>4. CASE /\ \A i \in 1..Len(buf) : ~Newline(buf[i])
           /\ part' = part \o buf /\ buf' = <<>> /\ UNCHANGED <<header, at>>
  <2>1. Joins(part', part, buf)
    BY <1>0, <1>4, Join DEF IsJoin
  <2>2. Joins(buf, buf, buf')
    BY <1>1, <1>4, EmptySeq DEF Joins
  <2>3. Read' = part'
    BY <1>0, <1>4, ReadNext
  <2>4. Unread' = Unread
    BY <1>0, <1>3, <2>1, <2>2, <2>3, TakenKeepsUnread
  <2>5. Len(part') < HeadSize
    <3>1. Len(part') = Len(part) + Len(buf)
      BY <2>1 DEF Joins
    <3>2. ~(Len(part) + Len(buf) >= h)
      <4> SUFFICES ASSUME Len(part) + Len(buf) >= h PROVE FALSE
        OBVIOUS
      <4>1. h - Len(part) \in 1..Len(buf) /\ Len(part) + (h - Len(part)) = h
        BY <1>1, <1>2
      <4> QED BY <1>1, <1>2, <1>4, <4>1
    <3> QED BY <1>1, <1>2, <3>1, <3>2
  <2> QED BY <1>0, <1>3, <1>4, <2>4, <2>5, StreamKept DEF Framed
<1>5. CASE \E n \in 1..Len(buf) :
             /\ Newline(buf[n]) /\ \A i \in 1..(n - 1) : ~Newline(buf[i])
             /\ header' = part \o SubSeq(buf, 1, n)
             /\ buf' = SubSeq(buf, n + 1, Len(buf))
             /\ part' = <<>> /\ at' = "body"
  <2>1. PICK n \in 1..Len(buf) :
          /\ Newline(buf[n]) /\ \A i \in 1..(n - 1) : ~Newline(buf[i])
          /\ header' = part \o SubSeq(buf, 1, n)
          /\ buf' = SubSeq(buf, n + 1, Len(buf))
          /\ part' = <<>> /\ at' = "body"
    BY <1>5
  <2> DEFINE m == SubSeq(buf, 1, n)
  <2>2. n \in 0..Len(buf)
    BY <1>1
  <2>3. m \in Seq(AllBytes) /\ Len(m) = n /\ Joins(buf, m, buf')
    BY <1>0, <2>1, <2>2, Cut
  <2>4. Joins(header', part, m)
    BY <1>0, <2>1, <2>3, Join DEF IsJoin
  <2> HIDE DEF m
  <2>5. Read' = header'
    BY <1>0, <2>1, ReadNext
  <2>6. Unread' = Unread
    BY <1>0, <1>3, <2>3, <2>4, <2>5, TakenKeepsUnread
  <2>7. Len(part) + n = h
    <3>1. CASE Len(part) + n <= h
      BY <1>1, <1>2, <2>1, <3>1
    <3>2. CASE ~(Len(part) + n <= h)
      <4>1. PICK k \in 1..(n - 1) : Len(part) + k = h
        <5>1. h - Len(part) \in 1..(n - 1) /\ Len(part) + (h - Len(part)) = h
          BY <1>1, <1>2, <3>2
        <5> QED BY <5>1
      <4>2. k \in 1..Len(buf) /\ Len(part) + k <= HeadSize
        BY <1>1, <1>2, <4>1
      <4>3. Newline(buf[k])
        BY <1>1, <1>2, <4>1, <4>2
      <4> QED BY <2>1, <4>1, <4>3
    <3> QED BY <3>1, <3>2
  <2>8. Len(header') = HeadSize
    BY <1>2, <2>3, <2>4, <2>7 DEF Joins
  <2>9. Len(part') = 0 /\ 0 < BodySize
    BY <2>1, EmptySeq, Sizes
  <2> QED BY <1>3, <2>1, <2>6, <2>8, <2>9, StreamKept DEF Framed
<1> QED BY <1>4, <1>5 DEF recvline

\* recvraw: the body has its size, and nothing behind it is taken.
LEMMA BodyStep ==
  ASSUME ReadInv, TypeOK', recvraw
  PROVE  /\ Messages' /\ Places' /\ Counted' /\ Framed'
         /\ UNCHANGED <<sent, closed>>
         /\ \/ Unread' = Unread /\ received' = received
            \/ Len(received') = Len(received) + 1 /\ Len(Unread) = Size + Len(Unread')
<1> DEFINE m == SubSeq(buf, 1, Taken)
           body == part \o m
<1>0. /\ Parts /\ Parts' /\ at = "body" /\ TypeOK /\ Framed
      /\ part \in Seq(AllBytes) /\ header \in Seq(AllBytes) /\ buf \in Seq(AllBytes)
      /\ Len(header) = HeadSize /\ Len(part) < BodySize
  BY UnreadParts, PartsNext DEF recvraw, ReadInv, Framed, TypeOK
<1>1. Taken \in 0..Len(buf) /\ Len(part) + Taken <= BodySize /\ Len(part) \in Nat
  BY <1>0, TakenBounds
<1>2. m \in Seq(AllBytes) /\ Len(m) = Taken /\ Joins(buf, m, buf')
  BY <1>0, <1>1, Cut DEF recvraw
<1>3. UNCHANGED <<sent, network, kernel, closed>>
  BY DEF recvraw, wireVars
<1>4. body \in Seq(AllBytes) /\ Joins(body, part, m)
  BY <1>0, <1>2, Join DEF IsJoin
<1>5. Len(body) = Len(part) + Taken
  BY <1>2, <1>4 DEF Joins
<1>6. CASE Len(body) < BodySize
  <2>1. part' = body /\ UNCHANGED <<header, received, at>>
    BY <1>6 DEF recvraw
  <2> HIDE DEF m, body
  <2>2. Joins(Read', Read, m)
    <3>1. /\ Joins(Read, header, part) /\ Joins(Read', header, part')
          /\ Read \in Seq(AllBytes) /\ Read' \in Seq(AllBytes)
      BY <1>0, <2>1 DEF Parts, AllBytes
    <3> QED BY <1>0, <1>2, <1>4, <2>1, <3>1, JoinsAssocBack
  <2>3. Unread' = Unread
    BY <1>0, <1>2, <1>3, <2>2, TakenKeepsUnread
  <2> QED BY <1>0, <1>3, <1>6, <2>1, <2>3, StreamKept DEF Framed
<1>7. CASE ~(Len(body) < BodySize)
  <2>1. /\ received' = Append(received, header \o body)
        /\ part' = <<>> /\ header' = <<>> /\ at' \in {"send"} \cup Handled
    BY <1>7 DEF recvraw
  <2>2. Len(body) = BodySize
    BY <1>1, <1>5, <1>7, Sizes
  <2> HIDE DEF m
  <2>3. /\ header \o body \in Seq(AllBytes)
        /\ Joins(header \o body, header, body)
        /\ Joins(Unread, header \o body, Unread')
    BY <1>0, <1>2, <1>3, <2>1, MessageLeaves
  <2> DEFINE message == header \o body
  <2> HIDE DEF body
  <2>4. Len(message) = Size
    BY <1>0, <2>2, <2>3, Sizes DEF Joins
  <2>5. Messages' /\ Places' /\ Counted'
    <3>1. /\ message \in Seq(AllBytes) /\ Joins(Unread, message, Unread')
          /\ received' = Append(received, message)
      BY <2>1, <2>3
    <3>2. UNCHANGED <<sent, closed>>
      BY <1>3
    <3> HIDE DEF message
    <3> QED BY <2>4, <3>1, <3>2, MessageCounts, Zenon
  <2>6. at' \in {"send", "select", "head", "script"}
    BY <2>1 DEF Handled
  <2>7. Len(part') = 0 /\ 0 < HeadSize
    BY <2>1, EmptySeq, Sizes
  <2>8. Len(received') = Len(received) + 1 /\ Len(Unread) = Size + Len(Unread')
    <3>1. received \in Seq(Seq(AllBytes)) /\ message \in Seq(AllBytes)
      BY <1>0, <2>3 DEF TypeOK
    <3>2. Joins(Unread, message, Unread') /\ received' = Append(received, message)
      BY <2>1, <2>3
    <3> HIDE DEF message
    <3>3. Len(received') = Len(received) + 1
      BY <3>1, <3>2, AppendProperties
    <3> QED BY <2>4, <3>2, <3>3 DEF Joins
  <2> QED BY <1>3, <2>1, <2>5, <2>6, <2>7, <2>8 DEF Framed
<1> QED BY <1>6, <1>7

Nothing == header = <<>> /\ part = <<>> /\ buf = <<>> /\ kernel = <<>> /\ network = <<>>
NoBytes == Len(Unread) = 0

LEMMA NothingUnread == Parts /\ Nothing => NoBytes
<1> SUFFICES ASSUME Parts, Nothing PROVE NoBytes
  OBVIOUS
<1>1. Len(Read) = 0 /\ Len(Ahead) = 0
  BY EmptySeq DEF Parts, Nothing, Joins
<1>2. Len(Rest) = 0
  BY <1>1, EmptySeq DEF Parts, Nothing, Joins
<1>3. Len(Unread) = Len(Read) + Len(Rest)
  BY DEF Parts, Joins
<1> QED BY <1>1, <1>2, <1>3 DEF NoBytes

LEMMA AppendedIsMore ==
  ASSUME NEW S, NEW s \in Seq(S), NEW x, Append(s, x) \in Seq(S)
  PROVE  Append(s, x) # <<>>
<1>1. Len(Append(s, x)) = Len(s) + 1 /\ Len(s) \in Nat
  BY LenProperties
<1> QED BY <1>1, EmptySeq

\* At the end of the connection what had begun of a message is given up.
LEMMA EofStep ==
  ASSUME ReadInv, TypeOK', RecvEof
  PROVE  /\ Messages' /\ Places' /\ Counted'
         /\ UNCHANGED <<sent, closed, received>> /\ closed
         /\ Len(Unread) \in Nat /\ Len(Unread) < Size /\ Len(Unread') = 0
<1>1. Nothing' /\ Parts'
  BY PartsNext DEF RecvEof, AtEof, wireVars, Nothing
<1>2. NoBytes'
  BY <1>1, NothingUnread, PTL
<1>3. UNCHANGED <<sent, received>> /\ closed' = TRUE
  BY DEF RecvEof, AtEof, wireVars, ReadInv, TypeOK
<1>4. PICK c : c = (sent - Len(received)) * Size /\ c \in Int /\ c >= 0
  <2>1. PICK d \in Nat : d = sent - Len(received)
    BY NoneTooMany
  <2>2. d * Size \in Nat
    BY <2>1, Sizes
  <2> QED BY <2>1, <2>2
<1>5. Counted'
  BY <1>2, <1>3, <1>4 DEF Counted, NoBytes, Size
<1>6. Places'
  BY <1>2 DEF Places, NoBytes
<1>7. Messages'
  BY <1>3 DEF ReadInv, Messages, Request, Bytes, Size
<1>8. Len(Unread) \in Nat /\ Len(Unread) < Size
  <2>1. Parts /\ Framed /\ at \in {"head", "body"} /\ buf = <<>> /\ kernel = <<>> /\ network = <<>>
    BY UnreadParts DEF ReadInv, RecvEof, Receiving, AtEof
  <2>2. /\ Len(part) \in Nat /\ Len(header) + Len(part) < Size /\ Len(header) \in Nat
    <3>1. /\ Len(part) \in Nat /\ Len(header) \in Nat
      BY <2>1, LenProperties DEF Parts
    <3>2. CASE at = "head"
      BY <2>1, <3>1, <3>2, Sizes, EmptySeq DEF Framed
    <3>3. CASE at = "body"
      BY <2>1, <3>1, <3>3, Sizes DEF Framed
    <3> QED BY <2>1, <3>1, <3>2, <3>3
  <2>3. Len(Ahead) = 0
    BY <2>1, EmptySeq DEF Parts, Joins
  <2>4. Len(Rest) = 0
    BY <2>1, <2>3, EmptySeq DEF Parts, Joins
  <2>5. Len(Unread) = Len(Read) + Len(Rest) /\ Len(Read) = Len(header) + Len(part)
    BY <2>1 DEF Parts, Joins
  <2> QED BY <2>2, <2>4, <2>5
<1>9. closed /\ closed' = closed /\ Len(Unread') = 0
  BY <1>2 DEF RecvEof, AtEof, wireVars, NoBytes
<1> QED BY <1>3, <1>5, <1>6, <1>7, <1>8, <1>9

LEMMA ReadInit == Init => ReadInv
<1> SUFFICES ASSUME Init PROVE ReadInv
  OBVIOUS
<1>1. TypeOK /\ Parts /\ NoBytes
  BY TypeInit, UnreadParts, NothingUnread DEF Init, Nothing
<1>2. Len(received) = 0 /\ Len(part) = 0
  BY EmptySeq DEF Init
<1>3. sent = 0 /\ (0 - 0) * Size = 0
  BY Sizes DEF Init
<1>4. Counted
  BY <1>1, <1>2, <1>3 DEF Counted, NoBytes
<1> QED
  BY <1>1, <1>2, <1>4 DEF Init, ReadInv, Messages, Places, Framed, Sending, NoBytes

LEMMA ReadStep == ReadInv /\ TypeOK' /\ [Next]_vars => ReadInv'
<1> SUFFICES ASSUME ReadInv, TypeOK', [Next]_vars PROVE ReadInv'
  OBVIOUS
<1>0. TypeOK /\ Parts /\ Parts' /\ Framed /\ Sending
  BY UnreadParts, PartsNext DEF ReadInv
<1>1. Messages' /\ Places' /\ Counted' /\ Framed'
  <2>1. CASE ClientSend
    <3>1. Framed'
      BY <1>0, <2>1 DEF ClientSend, readVars, Framed
    <3> QED BY <2>1, <3>1, SendExtends
  <2>2. CASE ClientClose
    <3>1. Framed'
      BY <1>0, <2>2 DEF ClientClose, readVars, Framed
    <3> QED BY <2>2, <3>1, CloseCuts
  <2>3. CASE Arrive
    <3>1. Framed'
      BY <1>0, <2>3 DEF Arrive, readVars, Framed
    <3>2. Unread' = Unread
      BY <1>0, <2>3, ArriveKeepsUnread
    <3> QED BY <2>3, <3>1, <3>2, StreamKept DEF Arrive, readVars
  <2>4. CASE Recv
    <3>1. Framed'
      BY <1>0, <2>4 DEF Recv, Framed
    <3>2. Unread' = Unread
      BY <1>0, <2>4, RecvKeepsUnread
    <3> QED BY <2>4, <3>1, <3>2, StreamKept DEF Recv
  <2>5. CASE RecvEof
    <3>1. Framed'
      BY <2>5 DEF RecvEof, Framed
    <3> QED BY <2>5, <3>1, EofStep
  <2>6. CASE recvline
    BY <2>6, LineStep
  <2>7. CASE recvraw
    BY <2>7, BodyStep
  <2>8. CASE \/ BeginPoll \/ BeginLoop \/ Select \/ SendStep \/ SendReturns \/ SendFails
             \/ UNCHANGED vars
    <3>1. UNCHANGED <<wireVars, readVars>>
      BY <2>8 DEF BeginPoll, BeginLoop, Select, SendStep, SendReturns, SendFails, vars
    <3>2. Unread' = Unread
      BY <3>1 DEF Unread, wireVars, readVars
    <3>3. UNCHANGED <<sent, closed, received>>
      BY <3>1 DEF wireVars, readVars
    <3>4. Framed'
      <4>1. Len(<<>>) = 0 /\ 0 < HeadSize
        BY EmptySeq, Sizes
      <4>2. at' = at \/ (at \notin {"head", "body"} /\ at' \in {"script", "select", "head"})
        BY <2>8 DEF BeginPoll, BeginLoop, Select, SendStep, SendReturns, SendFails, Handled, vars
      <4> QED BY <1>0, <3>1, <4>1, <4>2 DEF Framed, readVars
    <3> QED BY <3>2, <3>3, <3>4, StreamKept
  <2> QED
    BY <2>1, <2>2, <2>3, <2>4, <2>5, <2>6, <2>7, <2>8 DEF Next, Adapter
<1>2. Sending'
  <2>1. CASE recvraw
    <3>1. received' = received \/ received' # <<>>
      <4>1. /\ header \in Seq(AllBytes) /\ received \in Seq(Seq(AllBytes))
            /\ received' \in Seq(Seq(AllBytes))
        BY <1>0 DEF TypeOK, AllBytes
      <4>2. CASE received' = received
        BY <4>2
      <4>3. CASE received' # received
        <5>1. \E x : received' = Append(received, x)
          BY <2>1, <4>3 DEF recvraw
        <5> QED BY <4>1, <5>1, AppendedIsMore
      <4> QED BY <4>2, <4>3
    <3>2. at' = at \/ received' # <<>>
      BY <2>1, <3>1, <1>0, AppendedIsMore DEF recvraw, TypeOK
    <3> QED BY <1>0, <2>1, <3>1, <3>2 DEF recvraw, sendVars, Sending
  <2>2. CASE SendReturns
    <3>1. first = 1 /\ total = ReplySize /\ ReplySize \in Nat \ {0}
      BY <1>0, <2>2, Sizes DEF Sending, TypeOK, SendReturns, AllSent
    <3> QED BY <1>0, <2>2, <3>1 DEF SendReturns, Handled, readVars, Sending
  <2>3. CASE ClientSend \/ Arrive \/ ClientClose \/ Recv \/ UNCHANGED vars
    <3>1. UNCHANGED <<first, total, received, at>>
      BY <2>3 DEF ClientSend, Arrive, ClientClose, Recv, vars, readVars, sendVars
    <3> QED BY <1>0, <3>1 DEF Sending
  <2>4. CASE BeginPoll \/ BeginLoop \/ Select \/ RecvEof \/ recvline
    <3>1. UNCHANGED <<first, total>> /\ at # "send" /\ at' # "send"
      BY <2>4 DEF BeginPoll, BeginLoop, Select, RecvEof, recvline, Receiving, sendVars
    <3> QED BY <1>0, <3>1 DEF Sending
  <2>5. CASE SendStep
    BY <1>0, <2>5 DEF SendStep, readVars, Sending
  <2>6. CASE SendFails
    BY <2>6 DEF SendFails, Sending
  <2> QED BY <2>1, <2>2, <2>3, <2>4, <2>5, <2>6 DEF Next, Adapter
<1> QED BY <1>1, <1>2 DEF ReadInv

\* TypeOK and the rest hold together.
LEMMA ReadInvariant == Spec => []ReadInv
BY ReadInit, TypeStep, ReadStep, PTL DEF Spec

\* Types and bounds hold in every reachable state: the read buffer never holds more
\* than BUF_SIZE, and sendFully never goes past the end of its reply.
THEOREM TypeCorrect == Spec => []TypeOK
<1>1. ReadInv => TypeOK
  BY DEF ReadInv
<1> QED BY <1>1, ReadInvariant, PTL

\* recvMessage returns the client's messages as they were sent, however the stream
\* is cut and however much of it luasocket reads ahead.
THEOREM MessagesArriveAsSent == Spec => []NoByteAstray
<1>1. ReadInv => NoByteAstray
  BY DEF ReadInv, Messages, Places, Counted, NoByteAstray
<1> QED BY <1>1, ReadInvariant, PTL

-----------------------------------------------------------------------------
(* Replies.  first stays 1, because the one call of send that sendFully     *)
(* makes returns the index of the last byte: with that the byte that is     *)
(* sent next is the one after the last one sent.                            *)

Fits(o, i) == \/ o[i][2] = 1 /\ (i > 1 => o[i - 1][2] = ReplySize)
              \/ i > 1 /\ o[i - 1] = <<o[i][1], o[i][2] - 1>>
InOrder == \A i \in 1..Len(out) : Fits(out, i)
Under   == total > 0 => Len(out) > 0 /\ out[Len(out)] = <<Current, total>>
Between == total = 0 /\ Len(out) > 0 => out[Len(out)][2] = ReplySize

ReplyInv == closed \/ (InOrder /\ Under /\ Between)

LEMMA ReplyInit == Init => ReplyInv
<1> SUFFICES ASSUME Init PROVE ReplyInv
  OBVIOUS
<1>1. Len(out) = 0 /\ total = 0
  BY EmptySeq DEF Init
<1> QED BY <1>1 DEF ReplyInv, InOrder, Under, Between

\* The piece that one round of sendraw sends follows on the bytes before it.
LEMMA PieceFollows ==
  ASSUME ReadInv, ReplyInv, SendStep
  PROVE  ReplyInv'
<1>0. TypeOK /\ Sending /\ first = 1 /\ total \in 0..ReplySize /\ ReplySize \in Nat \ {0}
      /\ received # <<>> /\ STEPSIZE \in Nat \ {0} /\ total < ReplySize
  BY Sizes DEF ReadInv, Sending, TypeOK, SendStep, AllSent
<1>1. CASE closed
  BY <1>1 DEF SendStep, wireVars, ReplyInv
<1>2. CASE ~closed
  <2>1. InOrder /\ Under /\ Between
    BY <1>2 DEF ReplyInv
  <2>2. PICK n \in 1..Least(STEPSIZE, ReplySize - first + 1 - total) :
          /\ total' = total + n
          /\ out' = out \o SubSeq(Bytes(Current, ReplySize), first + total, first + total + n - 1)
    BY DEF SendStep
  <2>3. n \in Nat \ {0} /\ total + n <= ReplySize /\ total \in Nat
    BY <1>0, <2>2 DEF Least
  <2> DEFINE T == (1..MaxMessages) \X (1..ReplySize)
             piece == SubSeq(Bytes(Current, ReplySize), 1 + total, 1 + total + n - 1)
             L == Len(out)
  <2>4. /\ piece \in Seq(T) /\ Len(piece) = n
        /\ \A k \in 1..n : piece[k] = <<Current, total + k>>
    BY <1>0, <2>3, PieceOfReply
  <2>5. out' = out \o piece
    BY <1>0, <2>2
  <2> HIDE DEF piece
  <2>6. out \in Seq(T) /\ L \in Nat
    BY <1>0, LenProperties DEF TypeOK
  <2> HIDE DEF T
  <2>7. /\ Len(out') = L + n
        /\ \A i \in 1..L : out'[i] = out[i]
        /\ \A k \in 1..n : out'[L + k] = <<Current, total + k>>
    <3>1. Joins(out', out, piece)
      BY <2>4, <2>5, <2>6, Join DEF IsJoin
    <3> QED BY <2>4, <2>6, <3>1 DEF Joins
  <2>8. Current' = Current
    BY DEF SendStep, readVars, Current
  <2>9. Under' /\ Between'
    <3>1. out'[L + n] = <<Current, total + n>> /\ L + n > 0 /\ total + n > 0
      BY <2>3, <2>6, <2>7
    <3>2. Len(out') = L + n /\ total' = total + n
      BY <2>2, <2>7
    <3> HIDE DEF L
    <3>3. Len(out') > 0 /\ total' > 0 /\ total' # 0
      BY <2>3, <3>1, <3>2
    <3>4. out'[Len(out')] = <<Current', total'>>
      BY <2>8, <3>1, <3>2, Zenon
    <3> QED BY <3>3, <3>4, Zenon DEF Under, Between
  <2>10. InOrder'
    <3> SUFFICES ASSUME NEW i \in 1..(L + n) PROVE Fits(out', i)
      BY <2>7 DEF InOrder, Fits
    <3>1. CASE i \in 1..L
      <4>1. Fits(out, i) /\ out'[i] = out[i]
        BY <2>1, <2>7, <3>1 DEF InOrder
      <4>2. i > 1 => i - 1 \in 1..L /\ out'[i - 1] = out[i - 1]
        BY <2>6, <2>7, <3>1
      <4> QED BY <4>1, <4>2 DEF Fits
    <3>2. CASE i = L + 1 /\ total = 0
      <4>1. out'[i] = <<Current, 1>>
        BY <2>3, <2>7, <3>2
      <4>2. i > 1 => L \in 1..L /\ i - 1 = L /\ out'[L] = out[L] /\ L > 0
        BY <2>6, <2>7, <3>2
      <4>3. i > 1 => out'[i - 1][2] = ReplySize
        BY <2>1, <3>2, <4>2 DEF Between
      <4> QED BY <4>1, <4>3 DEF Fits
    <3>3. CASE i = L + 1 /\ total # 0
      <4>1. L > 0 /\ out[L] = <<Current, total>> /\ total > 0
        BY <2>1, <2>3, <3>3 DEF Under
      <4>2. i > 1 /\ i - 1 = L /\ out'[i - 1] = <<Current, total>>
        BY <2>6, <2>7, <3>3, <4>1
      <4>3. out'[i] = <<Current, total + 1>>
        BY <2>3, <2>7, <3>3
      <4>4. out'[i][1] = Current /\ out'[i][2] - 1 = total
        BY <2>3, <4>3
      <4> QED BY <4>2, <4>4 DEF Fits
    <3>4. CASE i > L + 1
      <4>1. PICK k \in 2..n : i = L + k
        <5>1. i - L \in 2..n /\ i = L + (i - L)
          BY <2>3, <2>6, <3>4
        <5> QED BY <5>1
      <4>2. k \in 1..n /\ k - 1 \in 1..n /\ i - 1 = L + (k - 1) /\ i > 1
        BY <2>3, <2>6, <4>1
      <4>3. out'[i] = <<Current, total + k>> /\ out'[i - 1] = <<Current, total + (k - 1)>>
        BY <2>7, <4>1, <4>2
      <4>4. out'[i][1] = Current /\ out'[i][2] - 1 = total + (k - 1)
        BY <2>3, <4>2, <4>3
      <4> QED BY <4>2, <4>3, <4>4 DEF Fits
    <3> QED BY <2>3, <2>6, <3>1, <3>2, <3>3, <3>4
  <2> QED BY <2>9, <2>10 DEF ReplyInv
<1> QED BY <1>1, <1>2

LEMMA ReplyStep == ReadInv /\ ReplyInv /\ [Next]_vars => ReplyInv'
<1> SUFFICES ASSUME ReadInv, ReplyInv, [Next]_vars PROVE ReplyInv'
  OBVIOUS
<1>1. CASE SendStep
  BY <1>1, PieceFollows
<1>2. CASE SendReturns
  <2>1. first = 1 /\ total = ReplySize /\ ReplySize > 0
    BY <1>2, Sizes DEF ReadInv, Sending, TypeOK, SendReturns, AllSent
  <2>2. UNCHANGED <<out, closed>> /\ total' = 0
    BY <1>2 DEF SendReturns, wireVars
  <2>3. CASE ~closed
    <3>1. InOrder /\ Under
      BY <2>3 DEF ReplyInv
    <3>2. Len(out) > 0 => out[Len(out)][2] = ReplySize
      BY <2>1, <3>1 DEF Under
    <3> QED BY <2>2, <3>1, <3>2 DEF ReplyInv, InOrder, Under, Between, Fits
  <2> QED BY <2>2, <2>3 DEF ReplyInv
<1>3. CASE SendFails \/ ClientClose
  BY <1>3 DEF SendFails, ClientClose, wireVars, ReplyInv
<1>4. CASE recvraw
  <2>1. total = 0 /\ UNCHANGED <<total, out, closed>>
    BY <1>4 DEF recvraw, sendVars, wireVars, ReadInv, Sending
  <2> QED BY <2>1 DEF ReplyInv, InOrder, Under, Between, Fits
<1>5. CASE \/ ClientSend \/ Arrive \/ BeginLoop \/ BeginPoll \/ Select \/ Recv \/ RecvEof
           \/ recvline \/ UNCHANGED vars
  <2>1. UNCHANGED <<total, out, closed, received>>
    BY <1>5 DEF ClientSend, Arrive, BeginLoop, BeginPoll, Select, Recv, RecvEof, recvline, vars,
                wireVars, readVars, sendVars
  <2> QED BY <2>1 DEF ReplyInv, InOrder, Under, Between, Fits, Current
<1> QED BY <1>1, <1>2, <1>3, <1>4, <1>5 DEF Next, Adapter

\* The client gets whole replies, one after the other, for every size of reply and
\* however little each round of sendraw sends.
THEOREM RepliesAreWhole == Spec => []WholeReplies
<1>1. ReadInv /\ ReplyInv => WholeReplies
  <2> SUFFICES ASSUME ReadInv, ReplyInv, ~closed PROVE WholeReplies
    BY DEF WholeReplies
  <2>1. InOrder /\ Under /\ Between /\ Sending /\ TypeOK
    BY DEF ReplyInv, ReadInv
  <2>2. out # <<>> => Len(out) > 0
    BY <2>1, EmptySeq, LenProperties DEF TypeOK
  <2>3. ASSUME out # <<>>, Last(out)[2] < ReplySize, at # "send" PROVE FALSE
    BY <2>1, <2>2, <2>3, Sizes DEF Last, Sending, Between
  <2> QED BY <2>1, <2>3 DEF WholeReplies, InOrder, Fits
<1> QED BY <1>1, ReadInvariant, ReplyInit, ReplyStep, PTL DEF Spec

-----------------------------------------------------------------------------
(* The channel.  What is whole in the stream is what can still arrive, and  *)
(* a message is whole when its last byte is there.                          *)

\* The quotient is the one number whose multiple fits, and the next one's does not.
LEMMA Quotient ==
  ASSUME NEW a \in Nat, NEW s \in Nat \ {0}
  PROVE  /\ a \div s \in Nat /\ (a \div s) * s <= a /\ a < (a \div s) * s + s
         /\ \A q \in Nat : q * s <= a /\ a < q * s + s => q = a \div s
<1>1. a = s * (a \div s) + (a % s) /\ a % s \in 0..(s - 1) /\ a \div s \in Int
  OBVIOUS
<1>2. PICK d \in Int : d = a \div s
  BY <1>1
<1>3. PICK e \in 0..(s - 1) : a = s * d + e
  BY <1>1, <1>2
<1>4. d * s <= a /\ a < d * s + s
  BY <1>3
<1>5. d \in Nat
  <2> SUFFICES ASSUME d < 0 PROVE FALSE
    OBVIOUS
  <2>1. d * s + s <= 0 * s
    BY Grows
  <2> QED BY <1>4, <2>1
<1>6. ASSUME NEW q \in Nat, q * s <= a, a < q * s + s
      PROVE  q = d
  <2>1. ~(q < d)
    <3> SUFFICES ASSUME q < d PROVE FALSE
      OBVIOUS
    <3>1. q * s + s <= d * s
      BY Grows
    <3> QED BY <1>4, <1>6, <3>1
  <2>2. ~(d < q)
    <3> SUFFICES ASSUME d < q PROVE FALSE
      OBVIOUS
    <3>1. d * s + s <= q * s
      BY Grows
    <3> QED BY <1>4, <1>6, <3>1
  <2> QED BY <2>1, <2>2
<1> QED BY <1>2, <1>4, <1>5, <1>6, Zenon

Whole == Len(Unread) \div Size
Queue == [i \in DOMAIN Ends |-> Ends[i][1]]
Numbers(l, n) == [i \in 1..n |-> l + i]
Waiting == /\ Whole \in Nat /\ Whole * Size <= Len(Unread) /\ Len(Unread) < Whole * Size + Size
           /\ Queue = Numbers(Len(received), Whole)

\* The queue holds the numbers that follow on the last message received.
LEMMA QueueIs == ReadInv => Waiting
<1> SUFFICES ASSUME ReadInv PROVE Waiting
  OBVIOUS
<1>1. Parts /\ Len(Unread) \in Nat /\ Size \in Nat \ {0} /\ Len(received) \in Nat
  BY UnreadParts, LenProperties, Sizes, NoneTooMany DEF ReadInv, Parts
<1>2. PICK w \in Nat : w = Whole /\ w * Size <= Len(Unread) /\ Len(Unread) < w * Size + Size
  BY <1>1, Quotient DEF Whole
<1>3. DOMAIN Ends = 1..w
  BY <1>2 DEF Ends, Whole
<1>4. ASSUME NEW i \in 1..w PROVE Ends[i][1] = Len(received) + i
  <2>1. PICK s \in Nat \ {0} : s = Size
    BY <1>1
  <2>2. i * s \in 1..Len(Unread)
    <3>1. i * s <= w * s
      <4>1. CASE i = w
        BY <4>1
      <4>2. CASE i < w
        <5>1. i * s + s <= w * s
          BY <4>2, Grows
        <5> QED BY <5>1
      <4> QED BY <4>1, <4>2
    <3>2. 0 * s + s <= i * s
      BY Grows
    <3> QED BY <1>1, <1>2, <2>1, <3>1, <3>2
  <2>3. Ends[i] = Unread[i * Size]
    BY <1>2, <1>3 DEF Ends, Whole
  <2>4. Unread[i * Size] \in AllBytes
    <3>1. Unread \in Seq(AllBytes)
      BY <1>1 DEF Parts
    <3> QED BY <2>1, <2>2, <3>1, ElementOfSeq
  <2>5. Place(Unread[i * Size]) = Len(received) * Size + i * Size
    BY <2>1, <2>2 DEF ReadInv, Places
  <2>6. PICK r \in Int : r = Len(received) + i - 1 /\ Len(received) * s + i * s = r * s + s
    <3>1. PICK l \in Nat : l = Len(received)
      BY <1>1
    <3>2. l * s + i * s = (l + i - 1) * s + s /\ l + i - 1 \in Int
      OBVIOUS
    <3> QED BY <3>1, <3>2, Zenon
  <2>7. Place(Unread[i * Size]) = r * Size + Size /\ Size \in 1..Size
    <3>1. Len(received) * Size + i * Size = r * Size + Size
      BY <2>1, <2>6, Zenon
    <3>2. Size \in 1..Size
      BY <1>1
    <3> QED BY <2>5, <3>1, <3>2, Zenon
  <2>8. Unread[i * Size] = <<r + 1, Size>>
    BY <2>4, <2>7, ByteAt
  <2> QED BY <1>1, <2>3, <2>6, <2>8
<1>5. Queue = Numbers(Len(received), w)
  <2>1. Queue = [i \in 1..w |-> Ends[i][1]]
    BY <1>3 DEF Queue
  <2>2. [i \in 1..w |-> Ends[i][1]] = [i \in 1..w |-> Len(received) + i]
    BY <1>4, Zenon
  <2> QED BY <2>1, <2>2 DEF Numbers
<1> QED BY <1>1, <1>2, <1>5 DEF Waiting

LEMMA WaitingNext == ASSUME ReadInv' PROVE Waiting'
BY QueueIs, PTL

LEMMA NumbersAre ==
  ASSUME NEW l \in Nat, NEW n \in Nat
  PROVE  /\ Numbers(l, n) \in Seq(Nat) /\ Len(Numbers(l, n)) = n
         /\ \A i \in 1..n : Numbers(l, n)[i] = l + i
<1>1. \A i \in 1..n : l + i \in Nat
  OBVIOUS
<1>2. Numbers(l, n) \in [1..n -> Nat] /\ DOMAIN Numbers(l, n) = 1..n
  BY <1>1 DEF Numbers
<1>3. Numbers(l, n) \in Seq(Nat)
  BY <1>2, SeqDef
<1>4. Len(Numbers(l, n)) = n
  BY <1>2, <1>3, LenProperties
<1> QED BY <1>3, <1>4 DEF Numbers

\* What the three actions of the channel do to such a queue.
LEMMA NumbersChange ==
  ASSUME NEW l \in Nat, NEW n \in Nat
  PROVE  /\ Append(Numbers(l, n), l + n + 1) = Numbers(l, n + 1)
         /\ n > 0 => Tail(Numbers(l, n)) = Numbers(l + 1, n - 1) /\ Numbers(l, n) # <<>>
         /\ \A k \in 0..n : SubSeq(Numbers(l, n), 1, k) = Numbers(l, k)
<1> DEFINE q == Numbers(l, n)
<1>1. q \in Seq(Nat) /\ Len(q) = n /\ \A i \in 1..n : q[i] = l + i
  BY NumbersAre
<1> HIDE DEF q
<1>2. Append(q, l + n + 1) = Numbers(l, n + 1)
  <2> DEFINE a == Append(q, l + n + 1)
             b == Numbers(l, n + 1)
  <2>1. /\ a \in Seq(Nat) /\ Len(a) = n + 1 /\ a[n + 1] = l + n + 1
        /\ \A i \in 1..n : a[i] = l + i
    <3>1. l + n + 1 \in Nat
      OBVIOUS
    <3> QED BY <1>1, <3>1, AppendProperties
  <2>2. b \in Seq(Nat) /\ Len(b) = n + 1 /\ \A i \in 1..(n + 1) : b[i] = l + i
    <3>1. n + 1 \in Nat
      OBVIOUS
    <3> QED BY <3>1, NumbersAre
  <2> HIDE DEF a, b
  <2>3. \A i \in 1..(n + 1) : a[i] = b[i]
    <3> SUFFICES ASSUME NEW i \in 1..(n + 1) PROVE a[i] = l + i
      BY <2>2
    <3>1. CASE i = n + 1
      BY <2>1, <3>1
    <3>2. CASE i # n + 1
      BY <2>1, <3>2
    <3> QED BY <3>1, <3>2
  <2>4. a = b
    BY <2>1, <2>2, <2>3, SeqEqual
  <2> QED BY <2>4 DEF a, b
<1>3. ASSUME n > 0 PROVE Tail(q) = Numbers(l + 1, n - 1) /\ q # <<>>
  <2>1. q # <<>>
    BY <1>1, <1>3, EmptySeq
  <2> DEFINE a == Tail(q)
             b == Numbers(l + 1, n - 1)
  <2>2. a \in Seq(Nat) /\ Len(a) = n - 1 /\ \A i \in 1..(n - 1) : a[i] = q[i + 1]
    BY <1>1, <2>1, HeadTailProperties
  <2>3. b \in Seq(Nat) /\ Len(b) = n - 1 /\ \A i \in 1..(n - 1) : b[i] = l + 1 + i
    <3>1. n - 1 \in Nat /\ l + 1 \in Nat
      BY <1>3
    <3> QED BY <3>1, NumbersAre
  <2> HIDE DEF a, b
  <2>4. \A i \in 1..(n - 1) : a[i] = b[i]
    <3> SUFFICES ASSUME NEW i \in 1..(n - 1) PROVE a[i] = l + 1 + i
      BY <2>3
    <3>1. i + 1 \in 1..n
      OBVIOUS
    <3>2. a[i] = q[i + 1]
      BY <2>2
    <3>3. q[i + 1] = l + (i + 1)
      BY <1>1, <3>1
    <3> QED BY <3>2, <3>3
  <2>5. a = b
    BY <2>2, <2>3, <2>4, SeqEqual
  <2> QED BY <2>1, <2>5 DEF a, b
<1>4. ASSUME NEW k \in 0..n PROVE SubSeq(q, 1, k) = Numbers(l, k)
  <2> DEFINE a == SubSeq(q, 1, k)
             b == Numbers(l, k)
  <2>1. a \in Seq(Nat) /\ Len(a) = k /\ \A i \in 1..k : a[i] = l + i
    <3>1. k \in 0..Len(q)
      BY <1>1
    <3>2. a \in Seq(Nat) /\ Len(a) = k /\ Joins(q, a, SubSeq(q, k + 1, Len(q)))
      BY <1>1, <3>1, Cut
    <3>3. \A i \in 1..k : a[i] = q[i] /\ i \in 1..n
      BY <3>2 DEF Joins
    <3> QED BY <1>1, <3>2, <3>3
  <2>2. b \in Seq(Nat) /\ Len(b) = k /\ \A i \in 1..k : b[i] = l + i
    <3>1. k \in Nat
      OBVIOUS
    <3> QED BY <3>1, NumbersAre
  <2> HIDE DEF a, b
  <2>3. a = b
    BY <2>1, <2>2, SeqEqual
  <2> QED BY <2>3 DEF a, b
<1> QED BY <1>2, <1>3, <1>4 DEF q

\* Nothing that the channel sees.
LEMMA ChannelStutters ==
  ASSUME Unread' = Unread, UNCHANGED <<sent, closed, received>>
  PROVE  UNCHANGED C!vars
<1>1. Ends' = Ends
  BY DEF Ends, Size
<1> QED BY <1>1 DEF C!vars

LEMMA ChannelSend ==
  ASSUME ReadInv, ReadInv', ClientSend
  PROVE  C!Send
<1> DEFINE l == Len(received)
<1>1. Waiting /\ Waiting' /\ ReadInv /\ TypeOK'
  BY QueueIs, WaitingNext DEF ReadInv
<1>2. l \in Nat /\ sent \in Nat /\ l <= sent /\ Size \in Nat \ {0}
  BY NoneTooMany, Sizes
<1>3. ~closed /\ sent < MaxMessages /\ UNCHANGED <<closed, received>> /\ sent' = sent + 1
  BY DEF ClientSend, readVars
<1>4. PICK s \in Nat \ {0} : s = Size
  BY <1>2
<1>5. Len(Unread) = (sent - l) * s /\ Len(Unread') = (sent + 1 - l) * s
  <2>1. Counted /\ Counted'
    BY DEF ReadInv
  <2>2. Len(Unread) = (sent - l) * Size /\ Len(Unread') = (sent' - l) * Size
    BY <1>3, <2>1 DEF Counted, Size
  <2>3. Size = s
    BY <1>4
  <2>4. sent' - l = sent + 1 - l
    BY <1>2, <1>3
  <2> QED BY <2>2, <2>3, <2>4, Zenon
<1>6. PICK d \in Nat : d = sent - l
  BY <1>2
<1>7. Len(Unread) = d * s /\ Len(Unread') = (d + 1) * s
  BY <1>2, <1>5, <1>6
<1>8. Whole = d /\ Whole' = d + 1
  <2>1. d * s \in Nat /\ d * s < d * s + s /\ (d + 1) * s < (d + 1) * s + s /\ (d + 1) * s \in Nat
    OBVIOUS
  <2>2. d = (d * s) \div s /\ d + 1 = ((d + 1) * s) \div s
    BY <2>1, Quotient
  <2> QED BY <1>4, <1>7, <2>2 DEF Whole, Size
<1>9. Queue = Numbers(l, d) /\ Queue' = Numbers(l, d + 1)
  BY <1>1, <1>3, <1>8 DEF Waiting, Numbers
<1>10. Queue' = Append(Queue, sent + 1)
  <2>1. Append(Numbers(l, d), l + d + 1) = Numbers(l, d + 1)
    BY <1>2, NumbersChange
  <2>2. sent + 1 = l + d + 1
    BY <1>2, <1>6
  <2> QED BY <1>9, <2>1, <2>2, Zenon
<1> QED BY <1>3, <1>10 DEF C!Send, Queue

LEMMA ChannelBreaks ==
  ASSUME ReadInv, ReadInv', ClientClose
  PROVE  C!Break
<1> DEFINE l == Len(received)
<1>1. Waiting /\ Waiting' /\ l \in Nat /\ Size \in Nat \ {0}
  BY QueueIs, WaitingNext, NoneTooMany, Sizes
<1>2. Len(Unread') <= Len(Unread) /\ Len(Unread) \in Nat /\ Len(Unread') \in Nat
  <2>1. Parts /\ Parts' /\ Len(Unread') <= Len(Unread)
    BY UnreadParts, PartsNext, CloseCuts DEF ReadInv
  <2>2. Unread \in Seq(AllBytes) /\ Unread' \in Seq(AllBytes)
    BY <2>1 DEF Parts, AllBytes
  <2> QED BY <2>1, <2>2, LenProperties
<1>3. UNCHANGED <<sent, received>> /\ ~closed /\ closed' = TRUE
  BY DEF ClientClose, readVars
<1>4. PICK v \in Nat, w \in Nat, s \in Nat \ {0} :
        /\ v = Whole /\ w = Whole' /\ s = Size
        /\ Len(Unread) < v * s + s /\ w * s <= Len(Unread')
        /\ Queue = Numbers(l, v) /\ Queue' = Numbers(l, w)
  BY <1>1, <1>3 DEF Waiting, Size, Numbers
<1>5. ~(v < w)
  <2> SUFFICES ASSUME v < w PROVE FALSE
    OBVIOUS
  <2>1. v * s + s <= w * s
    BY Grows
  <2> QED BY <1>2, <1>4, <2>1
<1>6. w \in 0..v /\ SubSeq(Numbers(l, v), 1, w) = Numbers(l, w)
  <2>1. w \in 0..v
    BY <1>5
  <2>2. \A k \in 0..v : SubSeq(Numbers(l, v), 1, k) = Numbers(l, k)
    BY <1>1, NumbersChange
  <2> QED BY <2>1, <2>2
<1>7. Queue = Numbers(l, v) => Len(Queue) = v
  BY <1>1, NumbersAre
<1>8. \E n \in 0..Len(Queue) : Queue' = SubSeq(Queue, 1, n)
  BY <1>4, <1>6, <1>7, Zenon
<1> QED BY <1>3, <1>8 DEF C!Break, Queue

LEMMA ChannelReceives ==
  ASSUME ReadInv, ReadInv', UNCHANGED <<sent, closed>>,
         Len(received') = Len(received) + 1, Len(Unread) = Size + Len(Unread')
  PROVE  C!Receive
<1>1. Waiting /\ Waiting' /\ Len(received) \in Nat /\ Size \in Nat \ {0} /\ Len(Unread') \in Nat
  <2>1. Unread' \in Seq(AllBytes)
    BY PartsNext DEF ReadInv, Parts, AllBytes
  <2> QED BY <2>1, QueueIs, WaitingNext, NoneTooMany, Sizes, LenProperties
<1>2. PICK l \in Nat, u \in Nat, v \in Nat, w \in Nat, s \in Nat \ {0} :
        /\ l = Len(received) /\ u = Len(Unread') /\ v = Whole /\ w = Whole' /\ s = Size
        /\ w * s <= u /\ u < w * s + s
        /\ Queue = Numbers(l, v) /\ Queue' = Numbers(l + 1, w)
  BY <1>1 DEF Waiting, Size, Numbers
<1>3. (w + 1) * s = w * s + s
  OBVIOUS
<1>4. s + u \in Nat /\ (w + 1) * s <= s + u /\ s + u < (w + 1) * s + s
  BY <1>2, <1>3
<1>5. w + 1 = (s + u) \div s
  BY <1>4, Quotient
<1>6. v = w + 1
  BY <1>2, <1>5 DEF Whole
<1>7. Tail(Numbers(l, v)) = Numbers(l + 1, v - 1) /\ Numbers(l, v) # <<>>
  <2>1. v > 0
    BY <1>6
  <2> QED BY <2>1, NumbersChange, Zenon
<1>8. v - 1 = w
  BY <1>6
<1>9. Queue # <<>> /\ Queue' = Tail(Queue)
  BY <1>2, <1>7, <1>8, Zenon
<1> QED BY <1>9 DEF C!Receive, Queue

\* What recvline gives up at the end of the connection was not a whole message.
LEMMA ChannelEnds ==
  ASSUME ReadInv, ReadInv', RecvEof
  PROVE  UNCHANGED C!vars
<1>1. /\ UNCHANGED <<sent, closed, received>>
      /\ Len(Unread) \in Nat /\ Len(Unread) < Size /\ Len(Unread') = 0
  BY EofStep DEF ReadInv
<1>2. PICK u \in Nat, s \in Nat \ {0} : u = Len(Unread) /\ s = Size
  BY <1>1, Sizes
<1>3. Whole = 0 /\ Whole' = 0
  <2>1. 0 * s <= u /\ u < 0 * s + s /\ 0 * s <= 0 /\ 0 < 0 * s + s
    BY <1>1, <1>2
  <2>2. 0 = u \div s /\ 0 = 0 \div s
    BY <2>1, Quotient
  <2> QED BY <1>1, <1>2, <2>2 DEF Whole, Size
<1>4. Ends = [i \in 1..0 |-> Unread[i * Size]] /\ Ends' = [i \in 1..0 |-> Unread'[i * Size]]
  BY <1>3 DEF Ends, Whole, Size
<1>5. Ends' = Ends
  <2>1. \A i \in 1..0 : FALSE
    OBVIOUS
  <2> QED BY <1>4, <2>1, Zenon
<1> QED BY <1>1, <1>5 DEF C!vars

LEMMA ChannelStep == ReadInv /\ ReadInv' /\ [Next]_vars => [C!Next]_C!vars
<1> SUFFICES ASSUME ReadInv, ReadInv', [Next]_vars PROVE [C!Next]_C!vars
  OBVIOUS
<1>0. Parts /\ Parts' /\ TypeOK'
  BY UnreadParts, PartsNext DEF ReadInv
<1>1. CASE ClientSend
  BY <1>1, ChannelSend DEF C!Next
<1>2. CASE ClientClose
  BY <1>2, ChannelBreaks DEF C!Next
<1>3. CASE Arrive
  BY <1>0, <1>3, ArriveKeepsUnread, ChannelStutters DEF Arrive, readVars
<1>4. CASE Recv
  BY <1>0, <1>4, RecvKeepsUnread, ChannelStutters DEF Recv
<1>5. CASE RecvEof
  BY <1>5, ChannelEnds
<1>6. CASE recvline
  BY <1>0, <1>6, LineStep, ChannelStutters
<1>7. CASE recvraw
  BY <1>0, <1>7, BodyStep, ChannelStutters, ChannelReceives DEF C!Next
<1>8. CASE \/ BeginPoll \/ BeginLoop \/ Select \/ SendStep \/ SendReturns \/ SendFails
           \/ UNCHANGED vars
  <2>1. UNCHANGED <<wireVars, readVars>>
    BY <1>8 DEF BeginPoll, BeginLoop, Select, SendStep, SendReturns, SendFails, vars
  <2> QED BY <2>1, ChannelStutters DEF Unread, wireVars, readVars
<1> QED
  BY <1>1, <1>2, <1>3, <1>4, <1>5, <1>6, <1>7, <1>8 DEF Next, Adapter

\* The wire implements the channel of messages that the session talks over:
\* messages come out whole, once and in order, and a connection that breaks loses
\* the last ones only.
THEOREM WireIsAChannel == Spec => ImplementsChannel
<1>1. Init => C!Init
  <2> SUFFICES ASSUME Init PROVE C!Init
    OBVIOUS
  <2>1. Waiting /\ Parts /\ NoBytes
    BY ReadInit, QueueIs, UnreadParts, NothingUnread DEF ReadInv, Init, Nothing
  <2>2. PICK w \in Nat, s \in Nat \ {0} : w = Whole /\ s = Size /\ w * s <= 0
    BY <2>1, Sizes DEF Waiting, NoBytes
  <2>3. w = 0
    <3> SUFFICES ASSUME 0 < w PROVE FALSE
      OBVIOUS
    <3>1. 0 * s + s <= w * s
      BY Grows
    <3> QED BY <2>2, <3>1
  <2>4. Len(received) \in Nat /\ Queue = Numbers(Len(received), 0)
    BY <2>1, <2>2, <2>3, NoneTooMany, ReadInit DEF Waiting
  <2>5. Len(Queue) = 0 /\ Queue \in Seq(Nat)
    BY <2>4, NumbersAre
  <2>6. Queue = <<>>
    BY <2>5, EmptySeq
  <2> QED BY <2>6 DEF Init, C!Init, Queue
<1> QED
  BY <1>1, ReadInvariant, ChannelStep, PTL DEF Spec, ImplementsChannel, C!Spec

=============================================================================
