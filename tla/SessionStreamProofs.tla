-------------------------- MODULE SessionStreamProofs --------------------------
(***************************************************************************)
(* Proofs about SessionStream, for any number of requests of the client and   *)
(* of packets of other sessions: the positions of the key streams, what a     *)
(* close leaves behind, and that the writer sleeps only when nothing waits.   *)
(***************************************************************************)
EXTENDS SessionStream, SequenceTheorems, TLAPS

ClientOK ==
  client \in [stage : {"new", "init", "auth", "list", "chars", "enter", "world", "leave", "bye"},
              send : Nat, recv : Nat, left : 0 .. MaxRequests]
PeerOK == peer \in {"up", "closed", "silent"}
StreamOK ==
  /\ wire \in Seq(Part) /\ arrived \in Seq(Part) /\ inBuffer \in Seq(Part)
  /\ header \in Kind \cup {NoHeader}
  /\ reader \in {"reading", "ready", "processing", "ended"}
SessionOK ==
  session \in [open : BOOLEAN, initialized : BOOLEAN, crypt : BOOLEAN,
               inWorld : BOOLEAN, send : Nat, recv : Nat]
QueueOK == queue \in Seq(Packet)
WriterOK ==
  /\ writing \in Seq(Packet) /\ back \in Seq(Packet)
  /\ writer \in {"running", "waiting", "writing", "ended"}
HistoryOK == news \in 0 .. MaxNews /\ garbled \in BOOLEAN /\ lateLogin \in BOOLEAN

LEMMA Parts ==
  TypeOK <=> ClientOK /\ PeerOK /\ StreamOK /\ SessionOK /\ QueueOK /\ WriterOK /\ HistoryOK
BY DEF TypeOK, ClientOK, PeerOK, StreamOK, SessionOK, QueueOK, WriterOK, HistoryOK

LEMMA PrimedParts ==
  TypeOK' <=> ClientOK' /\ PeerOK' /\ StreamOK' /\ SessionOK' /\ QueueOK' /\ WriterOK' /\ HistoryOK'
BY DEF TypeOK, ClientOK, PeerOK, StreamOK, SessionOK, QueueOK, WriterOK, HistoryOK

---------------------------------------------------------------------------
\* A packet is cut into two or three parts.
PartOf(kind, p, pos) == [kind |-> kind, part |-> p, pos |-> pos]

LEMMA Tuples ==
  ASSUME NEW T, NEW a \in T, NEW b \in T, NEW c \in T
  PROVE  /\ <<a, b>> \in Seq(T) /\ Len(<<a, b>>) = 2
         /\ <<a, b>>[1] = a /\ <<a, b>>[2] = b
         /\ <<c>> \in Seq(T) /\ Len(<<c>>) = 1 /\ <<c>>[1] = c
         /\ <<a, b>> \o << >> = <<a, b>>
         /\ <<a, b>> \o <<c>> \in Seq(T) /\ Len(<<a, b>> \o <<c>>) = 3
         /\ (<<a, b>> \o <<c>>)[1] = a
         /\ (<<a, b>> \o <<c>>)[2] = b
         /\ (<<a, b>> \o <<c>>)[3] = c
<1>1. <<a, b>> \in Seq(T) /\ Len(<<a, b>>) = 2 /\ <<a, b>>[1] = a /\ <<a, b>>[2] = b
  OBVIOUS
<1>2. <<c>> \in Seq(T) /\ Len(<<c>>) = 1 /\ <<c>>[1] = c
  OBVIOUS
<1> QED BY <1>1, <1>2, ConcatProperties, ConcatEmptySeq

LEMMA CutTyped ==
  ASSUME NEW kind \in Kind, NEW pos \in Nat
  PROVE  /\ Cut(kind, pos) \in Seq(Part)
         /\ Len(Cut(kind, pos)) = IF kind # "init" /\ kind \in HasBody THEN 3 ELSE 2
         /\ Cut(kind, pos)[1] = PartOf(kind, "size", pos)
         /\ kind # "init" => Cut(kind, pos)[2] = PartOf(kind, "opcode", pos)
         /\ kind # "init" /\ kind \in HasBody => Cut(kind, pos)[3] = PartOf(kind, "body", pos)
<1>1. \A p \in {"size", "opcode", "body"} : PartOf(kind, p, pos) \in Part
  BY DEF Part, PartOf
<1>2. Cut(kind, pos) =
        IF kind = "init" THEN <<PartOf(kind, "size", pos), PartOf(kind, "body", pos)>>
        ELSE <<PartOf(kind, "size", pos), PartOf(kind, "opcode", pos)>>
             \o IF kind \in HasBody THEN <<PartOf(kind, "body", pos)>> ELSE << >>
  BY Zenon DEF Cut, PartOf
<1> HIDE DEF PartOf
<1>3. CASE kind = "init"
  BY <1>1, <1>2, <1>3, Tuples
<1>4. CASE kind # "init" /\ kind \in HasBody
  <2>1. Cut(kind, pos) = <<PartOf(kind, "size", pos), PartOf(kind, "opcode", pos)>>
                         \o <<PartOf(kind, "body", pos)>>
    BY <1>2, <1>4
  <2> QED BY <1>1, <1>4, <2>1, Tuples
<1>5. CASE kind # "init" /\ kind \notin HasBody
  <2>1. Cut(kind, pos) = <<PartOf(kind, "size", pos), PartOf(kind, "opcode", pos)>>
    BY <1>1, <1>2, <1>5, Tuples
  <2> QED BY <1>1, <1>5, <2>1, Tuples
<1> QED BY <1>3, <1>4, <1>5

LEMMA SizeRange == ASSUME NEW kind \in Kind PROVE Size(kind) \in {2, 3}
BY CutTyped DEF Size

\* What is left of a sequence of parts.
LEMMA Rest ==
  ASSUME NEW T, NEW q \in Seq(T), NEW n \in Nat
  PROVE  SubSeq(q, n + 1, Len(q)) \in Seq(T)
<1>1. \A i \in n + 1 .. Len(q) : q[i] \in T
  BY ElementOfSeq, LenProperties
<1> QED BY <1>1, LenProperties, SubSeqProperties

LEMMA RestItems ==
  ASSUME NEW T, NEW q \in Seq(T), NEW n \in Nat, n <= Len(q)
  PROVE  /\ Len(SubSeq(q, n + 1, Len(q))) = Len(q) - n
         /\ \A i \in 1 .. Len(SubSeq(q, n + 1, Len(q))) :
              SubSeq(q, n + 1, Len(q))[i] = q[n + i]
<1> DEFINE r == SubSeq(q, n + 1, Len(q))
<1>1. \A i \in n + 1 .. Len(q) : q[i] \in T
  BY ElementOfSeq, LenProperties
<1>2. Len(q) \in Nat /\ n + 1 \in Int /\ Len(q) \in Int
  BY LenProperties
<1>3. /\ Len(r) = IF n + 1 <= Len(q) THEN Len(q) - (n + 1) + 1 ELSE 0
      /\ \A i \in 1 .. Len(q) - (n + 1) + 1 : r[i] = q[(n + 1) + i - 1]
  BY <1>1, <1>2, SubSeqProperties
<1> HIDE DEF r
<1>4. Len(r) = Len(q) - n
  BY <1>2, <1>3
<1>5. ASSUME NEW i \in 1 .. Len(r) PROVE r[i] = q[n + i]
  <2>1. i \in 1 .. Len(q) - (n + 1) + 1 /\ (n + 1) + i - 1 = n + i
    BY <1>2, <1>4
  <2> QED BY <1>3, <2>1
<1> QED BY <1>4, <1>5 DEF r

LEMMA Front ==
  ASSUME NEW T, NEW q \in Seq(T), NEW n \in 0 .. Len(q)
  PROVE  SubSeq(q, 1, n) \in Seq(T)
<1>1. \A i \in 1 .. n : q[i] \in T
  BY ElementOfSeq, LenProperties
<1> QED BY <1>1, LenProperties, SubSeqProperties

---------------------------------------------------------------------------
\* What a handler may do to the session and its queue.
SessionChange == SessionOK' /\ QueueOK' /\ writer' \in {writer, Woken}

LEMMA SendTyped ==
  ASSUME SessionOK, QueueOK, NEW s, NEW kind \in Answer,
         s \in [open : BOOLEAN, initialized : BOOLEAN, crypt : BOOLEAN,
                inWorld : BOOLEAN, send : Nat, recv : Nat],
         SendPacket(s, kind)
  PROVE  SessionChange
<1>1. SessionOK'
  BY DEF SendPacket, SessionOK
<1>2. QueueOK'
  <2> DEFINE p == [kind |-> kind, pos |-> IF s.crypt THEN s.send ELSE 0]
  <2>1. p \in Packet
    BY DEF Packet
  <2>2. <<p>> \in Seq(Packet)
    BY <2>1
  <2>3. queue' = queue \o <<p>>
    BY DEF SendPacket, QueueOutgoing
  <2> QED BY <2>2, <2>3, ConcatProperties DEF QueueOK
<1> QED BY <1>1, <1>2 DEF SendPacket, QueueOutgoing, SessionChange

LEMMA CloseTyped ==
  ASSUME SessionOK, QueueOK, Close
  PROVE  SessionChange
BY DEF SessionOK, QueueOK, Close, Closed, SessionChange

LEMMA HandlerTyped ==
  ASSUME SessionOK, QueueOK, NEW kind, ProcessPacket(kind)
  PROVE  SessionChange
<1>1. CASE kind = "auth"
  <2>1. HandleAuthSession
    BY <1>1 DEF ProcessPacket
  <2>2. CASE SendPacket([session EXCEPT !.crypt = TRUE], "welcome")
    BY <2>2, SendTyped DEF SessionOK, Answer
  <2>3. CASE /\ session' = Closed([session EXCEPT !.crypt = TRUE])
             /\ writer' = Woken
             /\ UNCHANGED queue
    BY <2>3 DEF SessionOK, QueueOK, Closed, SessionChange
  <2> QED BY <2>1, <2>2, <2>3, CloseTyped DEF HandleAuthSession
<1>2. CASE kind = "list"
  BY <1>2, SendTyped DEF ProcessPacket, SessionOK, Answer
<1>3. CASE kind = "login"
  <2>1. SendPacket([session EXCEPT !.inWorld = TRUE], "world") \/ Close
    BY <1>3 DEF ProcessPacket
  <2>2. CASE SendPacket([session EXCEPT !.inWorld = TRUE], "world")
    BY <2>2, SendTyped DEF SessionOK, Answer
  <2> QED BY <2>1, <2>2, CloseTyped
<1>4. CASE kind = "logout" /\ session.inWorld
  <2>1. SendPacket([session EXCEPT !.inWorld = FALSE], "left")
    BY <1>4 DEF ProcessPacket
  <2> QED BY <2>1, SendTyped DEF SessionOK, Answer
<1>5. CASE kind = "query"
  BY <1>5, SendTyped DEF ProcessPacket, SessionOK, Answer
<1>6. CASE kind = "bye"
  BY <1>6, CloseTyped DEF ProcessPacket
<1>7. CASE /\ kind \notin {"auth", "list", "login", "query", "bye"}
           /\ ~(kind = "logout" /\ session.inWorld)
  BY <1>7 DEF ProcessPacket, SessionOK, QueueOK, SessionChange
<1> QED BY <1>1, <1>2, <1>3, <1>4, <1>5, <1>6, <1>7

---------------------------------------------------------------------------
LEMMA InitType == Init => TypeOK
<1> SUFFICES ASSUME Init PROVE TypeOK
  OBVIOUS
<1>1. [kind |-> "hello", pos |-> 0] \in Packet
  BY DEF Packet, Answer
<1>2. QueueOK /\ WriterOK
  BY <1>1 DEF Init, QueueOK, WriterOK
<1>3. ClientOK /\ HistoryOK
  <2>1. MaxRequests \in 0 .. MaxRequests /\ 0 \in 0 .. MaxNews
    BY StreamAssumption
  <2> QED BY <2>1 DEF Init, ClientOK, HistoryOK
<1>4. PeerOK /\ StreamOK /\ SessionOK
  BY DEF Init, PeerOK, StreamOK, SessionOK
<1> QED BY <1>2, <1>3, <1>4, Parts

LEMMA ClientType ==
  ASSUME TypeOK, Client
  PROVE  TypeOK'
<1> USE Parts
<1>1. ASSUME NEW k \in Request, ClientRequests(k) PROVE TypeOK'
  <2>1. k \in Kind /\ client.send \in Nat
    BY DEF Kind, ClientOK
  <2>2. Cut(k, client.send) \in Seq(Part)
    BY <2>1, CutTyped
  <2>3. wire' = wire \o Cut(k, client.send)
    BY <1>1 DEF ClientRequests, ClientSends
  <2>4. StreamOK'
    BY <1>1, <2>2, <2>3, ConcatProperties DEF ClientRequests, ClientSends, StreamOK
  <2>5. ClientOK'
    <3> DEFINE st == CASE k = "login" -> "enter" [] k = "logout" -> "leave"
                       [] k = "bye" -> "bye" [] OTHER -> client.stage
    <3>1. client' = [client EXCEPT !.send = client.send + 1, !.left = client.left - 1, !.stage = st]
      BY <1>1 DEF ClientRequests
    <3>2. client.left - 1 \in 0 .. MaxRequests
      BY <1>1, StreamAssumption DEF ClientRequests, ClientOK
    <3>3. st \in {"new", "init", "auth", "list", "chars", "enter", "world", "leave", "bye"}
      BY DEF ClientOK
    <3> DEFINE send == client.send + 1
               left == client.left - 1
    <3>4. send \in Nat
      BY DEF ClientOK
    <3>5. left \in 0 .. MaxRequests
      BY <3>2
    <3>6. client' = [client EXCEPT !.send = send, !.left = left, !.stage = st]
      BY <3>1
    <3> HIDE DEF st, send, left
    <3> QED BY <3>3, <3>4, <3>5, <3>6 DEF ClientOK
  <2>6. UNCHANGED <<peer, session, queue, writing, writer, back, news, garbled, lateLogin>>
    BY <1>1 DEF ClientRequests, ClientSends, output, history
  <2> QED BY <2>4, <2>5, <2>6, PrimedParts DEF PeerOK, SessionOK, QueueOK, WriterOK, HistoryOK
<1>2. CASE ClientReceives
  <2>1. /\ Head(back) \in Packet
        /\ Tail(back) \in Seq(Packet)
    BY <1>2, HeadTailProperties DEF ClientReceives, WriterOK
  <2>2. ClientOK'
    <3> DEFINE p == Head(back)
               next == CASE p.kind = "hello" -> "init" [] p.kind = "challenge" -> "auth"
                         [] p.kind = "welcome" -> "list" [] p.kind \in {"chars", "left"} -> "chars"
                         [] p.kind = "world" -> "world" [] OTHER -> client.stage
               recv == IF p.pos = 0 THEN client.recv ELSE client.recv + 1
               st == IF client.stage = "bye" THEN client.stage ELSE next
    <3>1. client' = [client EXCEPT !.recv = recv, !.stage = st]
      BY <1>2 DEF ClientReceives
    <3>2. st \in {"new", "init", "auth", "list", "chars", "enter", "world", "leave", "bye"}
      BY DEF ClientOK
    <3>3. recv \in Nat
      BY DEF ClientOK
    <3> HIDE DEF st, recv
    <3> QED BY <3>1, <3>2, <3>3 DEF ClientOK
  <2>3. StreamOK'
    <3>1. /\ Cut("init", 0) \in Seq(Part) /\ Cut("auth", 0) \in Seq(Part)
      BY CutTyped DEF Kind
    <3>2. wire' \in {wire, wire \o Cut("init", 0), wire \o Cut("auth", 0)}
      BY <1>2 DEF ClientReceives
    <3>3. wire' \in Seq(Part)
      BY <3>1, <3>2, ConcatProperties DEF StreamOK
    <3> QED BY <1>2, <3>3 DEF ClientReceives, StreamOK
  <2>4. WriterOK' /\ HistoryOK'
    BY <1>2, <2>1 DEF ClientReceives, WriterOK, HistoryOK, output
  <2>5. UNCHANGED <<peer, session, queue>>
    BY <1>2 DEF ClientReceives, output
  <2> QED BY <2>2, <2>3, <2>4, <2>5, PrimedParts DEF PeerOK, SessionOK, QueueOK
<1>3. CASE ClientIsLost
  BY <1>3, PrimedParts DEF ClientIsLost, stream, output, history,
       ClientOK, PeerOK, StreamOK, SessionOK, QueueOK, WriterOK, HistoryOK
<1> QED BY <1>1, <1>2, <1>3 DEF Client

\* A step of a loop or of another session that leaves the client alone.
LEMMA ServerType ==
  ASSUME TypeOK, StreamOK', SessionOK', QueueOK', writer' \in {writer, Woken},
         UNCHANGED <<client, peer, writing, back>>, HistoryOK'
  PROVE  TypeOK'
BY Parts, PrimedParts DEF ClientOK, PeerOK, WriterOK, Woken

LEMMA ReadLoopType ==
  ASSUME TypeOK, ReadLoop
  PROVE  TypeOK'
<1> USE Parts
<1>1. CASE ReadCompletes
  <2>1. PICK n \in 1 .. Len(wire) : /\ arrived' = SubSeq(wire, 1, n)
                                    /\ wire' = SubSeq(wire, n + 1, Len(wire))
    BY <1>1 DEF ReadCompletes
  <2>2. n \in Nat /\ n \in 0 .. Len(wire)
    BY LenProperties DEF StreamOK
  <2>3. arrived' \in Seq(Part) /\ wire' \in Seq(Part)
    BY <2>1, <2>2, Front, Rest DEF StreamOK
  <2>4. StreamOK'
    BY <1>1, <2>3 DEF ReadCompletes, StreamOK
  <2> QED BY <1>1, <2>4, PrimedParts DEF ReadCompletes, output, history,
               ClientOK, PeerOK, SessionOK, QueueOK, WriterOK, HistoryOK
<1>2. CASE ReadFails
  <2>1. SessionChange
    BY <1>2, CloseTyped DEF ReadFails
  <2> QED BY <1>2, <2>1, ServerType DEF ReadFails, SessionChange, stream, history, StreamOK, HistoryOK
<1>3. CASE HandleRead
  <2>1. inBuffer' \in Seq(Part) /\ arrived' \in Seq(Part)
    BY <1>3, ConcatProperties DEF HandleRead, StreamOK
  <2>2. StreamOK'
    BY <1>3, <2>1 DEF HandleRead, StreamOK
  <2> QED BY <1>3, <2>2, ServerType DEF HandleRead, output, history, SessionOK, QueueOK, HistoryOK
<1>4. CASE Handshake
  <2>1. inBuffer' \in Seq(Part)
    <3>1. SubSeq(inBuffer, 2 + 1, Len(inBuffer)) \in Seq(Part)
      BY Rest DEF StreamOK
    <3>2. inBuffer' = inBuffer \/ inBuffer' = SubSeq(inBuffer, 3, Len(inBuffer))
      BY <1>4 DEF Handshake
    <3>3. 2 + 1 = 3
      OBVIOUS
    <3> QED BY <3>1, <3>2, <3>3 DEF StreamOK
  <2>2. reader' \in {"reading", "processing", "ended"}
    BY <1>4 DEF Handshake, StopProcessing
  <2>3. StreamOK'
    BY <1>4, <2>1, <2>2 DEF Handshake, StreamOK
  <2>4. SessionChange
    <3>1. CASE SendPacket([session EXCEPT !.initialized = TRUE], "challenge")
      BY <3>1, SendTyped DEF SessionOK, Answer
    <3>2. CASE UNCHANGED <<session, queue, writer>>
      BY <3>2 DEF SessionOK, QueueOK, SessionChange
    <3> QED BY <1>4, <3>1, <3>2 DEF Handshake
  <2> QED BY <1>4, <2>3, <2>4, ServerType DEF Handshake, SessionChange, history, HistoryOK
<1>5. CASE DecryptHeader
  <2>1. inBuffer[1] \in Part
    BY <1>5, ElementOfSeq, LenProperties DEF DecryptHeader, StreamOK
  <2>2. StreamOK'
    BY <1>5, <2>1 DEF DecryptHeader, StreamOK, Part
  <2>3. SessionOK'
    BY <1>5 DEF DecryptHeader, SessionOK
  <2>4. HistoryOK'
    BY <1>5 DEF DecryptHeader, HistoryOK
  <2> QED BY <1>5, <2>2, <2>3, <2>4, ServerType DEF DecryptHeader, output, QueueOK
<1>6. CASE WaitForMore
  <2>1. reader' \in {"reading", "ended"}
    BY <1>6 DEF WaitForMore, StopProcessing
  <2> QED BY <1>6, <2>1, ServerType
            DEF WaitForMore, stream, output, history, StreamOK, SessionOK, QueueOK, HistoryOK
<1>7. CASE TakePacket
  <2>1. Size(header) \in Nat
    BY <1>7, SizeRange DEF TakePacket, StreamOK
  <2>2. inBuffer' \in Seq(Part)
    BY <1>7, <2>1, Rest DEF TakePacket, StreamOK
  <2>3. StreamOK'
    BY <1>7, <2>2 DEF TakePacket, StreamOK
  <2>4. SessionChange
    BY <1>7, HandlerTyped DEF TakePacket
  <2>5. HistoryOK'
    BY <1>7 DEF TakePacket, ProcessPacket, HistoryOK
  <2> QED BY <1>7, <2>3, <2>4, <2>5, ServerType DEF TakePacket, SessionChange
<1> QED BY <1>1, <1>2, <1>3, <1>4, <1>5, <1>6, <1>7 DEF ReadLoop

LEMMA WriteLoopType ==
  ASSUME TypeOK, WriteLoop
  PROVE  TypeOK'
<1> USE Parts
<1>1. CASE WriteNext
  <2>1. /\ writing' \in Seq(Packet) /\ QueueOK'
    <3>1. CASE queue # <<>>
      <4>1. Head(queue) \in Packet /\ Tail(queue) \in Seq(Packet)
        BY <3>1, HeadTailProperties DEF QueueOK
      <4>2. <<Head(queue)>> \in Seq(Packet)
        BY <4>1
      <4> QED BY <1>1, <3>1, <4>1, <4>2 DEF WriteNext, QueueOK
    <3>2. CASE queue = <<>>
      BY <1>1, <3>2 DEF WriteNext, QueueOK, WriterOK
    <3> QED BY <3>1, <3>2
  <2>2. WriterOK'
    BY <1>1, <2>1 DEF WriteNext, WriterOK
  <2> QED BY <1>1, <2>1, <2>2, PrimedParts
            DEF WriteNext, stream, history, ClientOK, PeerOK, StreamOK, SessionOK, HistoryOK
<1>2. CASE WriteCompletes
  <2>1. back' \in Seq(Packet)
    BY <1>2, ConcatProperties DEF WriteCompletes, WriterOK
  <2>2. WriterOK'
    BY <1>2, <2>1 DEF WriteCompletes, WriterOK
  <2> QED BY <1>2, <2>2, PrimedParts
            DEF WriteCompletes, stream, history, ClientOK, PeerOK, StreamOK, SessionOK, QueueOK, HistoryOK
<1>3. CASE WriteFails
  <2>1. SessionOK'
    BY <1>3 DEF WriteFails, Closed, SessionOK
  <2>2. WriterOK'
    <3>1. writing' \in Seq(Packet)
      BY <1>3 DEF WriteFails
    <3> QED BY <1>3, <3>1 DEF WriteFails, WriterOK
  <2> QED BY <1>3, <2>1, <2>2, PrimedParts
            DEF WriteFails, stream, history, ClientOK, PeerOK, StreamOK, QueueOK, HistoryOK
<1> QED BY <1>1, <1>2, <1>3 DEF WriteLoop

LEMMA OthersType ==
  ASSUME TypeOK, Broadcast \/ RequestDisconnect
  PROVE  TypeOK'
<1> USE Parts
<1>1. CASE Broadcast
  <2>1. SessionChange
    BY <1>1, SendTyped DEF Broadcast, SessionOK, Answer
  <2>2. HistoryOK'
    BY <1>1, StreamAssumption DEF Broadcast, HistoryOK
  <2> QED BY <1>1, <2>1, <2>2, ServerType DEF Broadcast, SessionChange, stream, StreamOK
<1>2. CASE RequestDisconnect
  <2> DEFINE p == [kind |-> "news", pos |-> session.send]
  <2>1. p \in Packet
    BY DEF Packet, Answer, SessionOK
  <2>2. QueueOK'
    BY <1>2, <2>1, AppendProperties DEF RequestDisconnect, QueueOK
  <2>3. SessionOK'
    <3>1. session' = [[session EXCEPT !.send = session.send + 1]
                        EXCEPT !.inWorld = FALSE, !.open = FALSE]
      BY <1>2 DEF RequestDisconnect, Closed
    <3>2. session.send + 1 \in Nat
      BY DEF SessionOK
    <3> DEFINE s == [session EXCEPT !.send = session.send + 1]
    <3>3. s \in [open : BOOLEAN, initialized : BOOLEAN, crypt : BOOLEAN,
                 inWorld : BOOLEAN, send : Nat, recv : Nat]
      BY <3>2 DEF SessionOK
    <3>4. session' = [s EXCEPT !.inWorld = FALSE, !.open = FALSE]
      BY <3>1
    <3> HIDE DEF s
    <3> QED BY <3>3, <3>4 DEF SessionOK
  <2> QED BY <1>2, <2>2, <2>3, ServerType DEF RequestDisconnect, stream, history, StreamOK, HistoryOK
<1> QED BY <1>1, <1>2

LEMMA StepType == TypeOK /\ [Next]_vars => TypeOK'
<1>1. ASSUME TypeOK, UNCHANGED vars PROVE TypeOK'
  BY <1>1 DEF TypeOK, vars, stream, output, history
<1> QED BY <1>1, ClientType, ReadLoopType, WriteLoopType, OthersType DEF Next

THEOREM TypeCorrect == Spec => []TypeOK
BY InitType, StepType, PTL DEF Spec

---------------------------------------------------------------------------
\* The ciphers.  The client's packets, on their way and in the buffers, follow
\* each other at consecutive positions; so do the answers the client will see.
Stream == inBuffer \o arrived \o wire
Out == back \o writing \o queue
Visible == IF writer = "ended" THEN back ELSE Out

LEMMA AuthPacket ==
  /\ Cut("auth", 0) \in Seq(Part) /\ Len(Cut("auth", 0)) = 3
  /\ Cut("auth", 0)[1].kind = "auth" /\ Cut("auth", 0)[1].pos = 0
<1>1. "auth" \in Kind /\ "auth" \in HasBody /\ "auth" # "init" /\ 0 \in Nat
  BY DEF Kind, HasBody
<1>2. /\ Cut("auth", 0) \in Seq(Part) /\ Len(Cut("auth", 0)) = 3
      /\ Cut("auth", 0)[1] = PartOf("auth", "size", 0)
  BY <1>1, CutTyped
<1> QED BY <1>2 DEF PartOf

\* Parts follow each other as the packets they were cut from.
EndsPacket(part) == part.part = "body" \/ (part.part = "opcode" /\ part.kind \notin HasBody)
Follows(q, i) ==
  IF EndsPacket(q[i])
  THEN i < Len(q) => q[i + 1].part = "size" /\ q[i + 1].pos = q[i].pos + 1
  ELSE /\ i < Len(q)
       /\ q[i + 1] = PartOf(q[i].kind, IF q[i].part = "size" THEN "opcode" ELSE "body", q[i].pos)
Framed(q) ==
  /\ q # <<>> => q[1].part = "size"
  /\ \A i \in 1 .. Len(q) : q[i].kind # "init" /\ Follows(q, i)

LEMMA FramedCut ==
  ASSUME NEW kind \in Kind \ {"init"}, NEW pos \in Nat
  PROVE  /\ Framed(Cut(kind, pos))
         /\ Cut(kind, pos) # <<>>
         /\ Cut(kind, pos)[1].pos = pos
         /\ Cut(kind, pos)[Len(Cut(kind, pos))].pos = pos
<1> DEFINE q == Cut(kind, pos)
<1>1. /\ q \in Seq(Part) /\ Len(q) = IF kind \in HasBody THEN 3 ELSE 2
      /\ q[1] = PartOf(kind, "size", pos) /\ q[2] = PartOf(kind, "opcode", pos)
      /\ kind \in HasBody => q[3] = PartOf(kind, "body", pos)
  BY CutTyped
<1> HIDE DEF q
<1>2. q # <<>>
  BY <1>1, EmptySeq
<1>3. CASE kind \in HasBody
  <2>1. Follows(q, 1) /\ Follows(q, 2) /\ Follows(q, 3)
    BY <1>1, <1>3 DEF Follows, EndsPacket, PartOf
  <2>2. \A i \in 1 .. Len(q) : i = 1 \/ i = 2 \/ i = 3
    BY <1>1, <1>3
  <2>3. \A i \in 1 .. Len(q) : q[i].kind = kind
    BY <1>1, <1>3, <2>2 DEF PartOf
  <2> QED BY <1>1, <1>2, <1>3, <2>1, <2>2, <2>3 DEF Framed, PartOf, q
<1>4. CASE kind \notin HasBody
  <2>1. Follows(q, 1) /\ Follows(q, 2)
    BY <1>1, <1>4 DEF Follows, EndsPacket, PartOf
  <2>2. \A i \in 1 .. Len(q) : i = 1 \/ i = 2
    BY <1>1, <1>4
  <2>3. \A i \in 1 .. Len(q) : q[i].kind = kind
    BY <1>1, <1>4, <2>2 DEF PartOf
  <2> QED BY <1>1, <1>2, <1>4, <2>1, <2>2, <2>3 DEF Framed, PartOf, q
<1> QED BY <1>3, <1>4

\* The last part of a framed sequence ends a packet.
LEMMA FramedEnd ==
  ASSUME NEW q \in Seq(Part), Framed(q), q # <<>>
  PROVE  Len(q) \in 1 .. Len(q) /\ EndsPacket(q[Len(q)])
<1>1. Len(q) \in Nat \ {0}
  BY EmptySeq
<1>2. Len(q) \in 1 .. Len(q)
  BY <1>1
<1>3. Follows(q, Len(q))
  BY <1>2 DEF Framed
<1> QED BY <1>1, <1>2, <1>3 DEF Follows

LEMMA FramedConcat ==
  ASSUME NEW q \in Seq(Part), NEW r \in Seq(Part), Framed(q), Framed(r),
         q # <<>>, r # <<>>, r[1].pos = q[Len(q)].pos + 1
  PROVE  /\ Framed(q \o r) /\ q \o r # <<>>
         /\ (q \o r)[1] = q[1]
         /\ (q \o r)[Len(q \o r)] = r[Len(r)]
<1> DEFINE t == q \o r
<1>1. /\ t \in Seq(Part) /\ Len(t) = Len(q) + Len(r)
      /\ \A i \in 1 .. Len(q) + Len(r) : t[i] = IF i <= Len(q) THEN q[i] ELSE r[i - Len(q)]
  BY ConcatProperties
<1>2. Len(q) \in Nat \ {0} /\ Len(r) \in Nat \ {0}
  BY EmptySeq
<1> HIDE DEF t
<1>3. t[1] = q[1] /\ t[Len(t)] = r[Len(r)] /\ t # <<>>
  BY <1>1, <1>2, EmptySeq
<1>4. ASSUME NEW i \in 1 .. Len(t) PROVE t[i].kind # "init" /\ Follows(t, i)
  <2>1. CASE i < Len(q)
    <3>1. i \in 1 .. Len(q) /\ t[i] = q[i] /\ t[i + 1] = q[i + 1] /\ i < Len(t)
      BY <1>1, <1>2, <2>1
    <3> QED BY <2>1, <3>1 DEF Framed, Follows
  <2>2. CASE i = Len(q)
    <3>1. i \in 1 .. Len(q) /\ t[i] = q[i] /\ t[i + 1] = r[1]
      BY <1>1, <1>2, <2>2
    <3>2. EndsPacket(q[i]) /\ r[1].part = "size"
      BY <2>2, FramedEnd DEF Framed
    <3> QED BY <2>2, <3>1, <3>2 DEF Framed, Follows
  <2>3. CASE i > Len(q)
    <3>1. i - Len(q) \in 1 .. Len(r) /\ t[i] = r[i - Len(q)]
      BY <1>1, <1>2, <2>3
    <3>2. i < Len(t) <=> i - Len(q) < Len(r)
      BY <1>1, <1>2
    <3>3. i < Len(t) => t[i + 1] = r[(i - Len(q)) + 1]
      BY <1>1, <1>2, <2>3
    <3>4. r[i - Len(q)].kind # "init" /\ Follows(r, i - Len(q))
      BY <3>1 DEF Framed
    <3> QED BY <3>1, <3>2, <3>3, <3>4 DEF Follows
  <2> QED BY <1>1, <1>2, <2>1, <2>2, <2>3
<1> QED BY <1>3, <1>4 DEF Framed, t

\* Without its first packet a framed sequence is framed, and starts at the next
\* position.
LEMMA FramedRest ==
  ASSUME NEW q \in Seq(Part), Framed(q), q # <<>>, NEW n, n = Size(q[1].kind)
  PROVE  /\ n \in 2 .. 3 /\ n <= Len(q)
         /\ Framed(SubSeq(q, n + 1, Len(q)))
         /\ SubSeq(q, n + 1, Len(q)) = <<>> => q[Len(q)].pos = q[1].pos
         /\ SubSeq(q, n + 1, Len(q)) # <<>> =>
              /\ SubSeq(q, n + 1, Len(q))[1].pos = q[1].pos + 1
              /\ SubSeq(q, n + 1, Len(q))[Len(SubSeq(q, n + 1, Len(q)))] = q[Len(q)]
<1> DEFINE r == SubSeq(q, n + 1, Len(q))
<1>1. Len(q) \in Nat \ {0}
  BY EmptySeq
<1>2. q[1] \in Part /\ q[1].kind # "init" /\ q[1].part = "size" /\ Follows(q, 1)
  BY <1>1, ElementOfSeq DEF Framed
<1>3. n = IF q[1].kind \in HasBody THEN 3 ELSE 2
  BY <1>2, CutTyped DEF Size, Part
<1>4. Len(q) >= 2 /\ q[2] = PartOf(q[1].kind, "opcode", q[1].pos) /\ Follows(q, 2)
  <2>1. 1 < Len(q) /\ q[1 + 1] = PartOf(q[1].kind, "opcode", q[1].pos)
    BY <1>2 DEF Follows, EndsPacket
  <2>2. 2 \in 1 .. Len(q) /\ 1 + 1 = 2
    BY <1>1, <2>1
  <2> QED BY <1>1, <2>1, <2>2 DEF Framed
<1>5. n \in 1 .. Len(q) /\ n \in 2 .. 3 /\ n <= Len(q) /\ EndsPacket(q[n]) /\ q[n].pos = q[1].pos
  <2>1. CASE q[1].kind \in HasBody
    <3>1. 2 < Len(q) /\ q[2 + 1] = PartOf(q[1].kind, "body", q[1].pos)
      BY <1>4, <2>1 DEF Follows, EndsPacket, PartOf
    <3>2. n = 3 /\ 2 + 1 = 3 /\ 3 <= Len(q)
      BY <1>1, <1>3, <2>1, <3>1
    <3>3. EndsPacket(q[n]) /\ q[n].pos = q[1].pos
      BY <3>1, <3>2 DEF EndsPacket, PartOf
    <3> QED BY <1>1, <3>2, <3>3
  <2>2. CASE q[1].kind \notin HasBody
    <3>1. n = 2
      BY <1>3, <2>2
    <3>2. EndsPacket(q[n]) /\ q[n].pos = q[1].pos
      BY <1>4, <2>2, <3>1 DEF EndsPacket, PartOf
    <3> QED BY <1>1, <1>4, <3>1, <3>2
  <2> QED BY <2>1, <2>2
<1>6. n \in Nat /\ Follows(q, n)
  BY <1>5 DEF Framed
<1>7. /\ r \in Seq(Part)
      /\ Len(r) = Len(q) - n
      /\ \A i \in 1 .. Len(r) : r[i] = q[n + i]
  BY <1>5, <1>6, Rest, RestItems
<1> HIDE DEF r
<1>8. CASE r = <<>>
  <2>1. Len(q) = n
    BY <1>1, <1>6, <1>7, <1>8, EmptySeq
  <2>2. Framed(r)
    BY <1>8, EmptySeq DEF Framed
  <2> QED BY <1>5, <1>8, <2>1, <2>2 DEF r
<1>9. CASE r # <<>>
  <2>1. Len(r) \in Nat \ {0} /\ n < Len(q)
    BY <1>1, <1>6, <1>7, <1>9, EmptySeq
  <2>2. r[1] = q[n + 1] /\ r[1].part = "size" /\ r[1].pos = q[1].pos + 1
    BY <1>5, <1>6, <1>7, <2>1 DEF Follows
  <2>3. r[Len(r)] = q[Len(q)]
    BY <1>1, <1>6, <1>7, <2>1
  <2>4. ASSUME NEW i \in 1 .. Len(r) PROVE r[i].kind # "init" /\ Follows(r, i)
    <3>1. n + i \in 1 .. Len(q) /\ r[i] = q[n + i]
      BY <1>1, <1>6, <1>7
    <3>2. i < Len(r) <=> n + i < Len(q)
      BY <1>1, <1>6, <1>7
    <3>3. i < Len(r) => r[i + 1] = q[(n + i) + 1]
      BY <1>1, <1>6, <1>7, <2>1
    <3>4. q[n + i].kind # "init" /\ Follows(q, n + i)
      BY <3>1 DEF Framed
    <3> QED BY <3>1, <3>2, <3>3, <3>4 DEF Follows
  <2>5. Framed(r)
    BY <2>2, <2>4 DEF Framed
  <2> QED BY <1>5, <1>9, <2>2, <2>3, <2>5 DEF r
<1> QED BY <1>8, <1>9

---------------------------------------------------------------------------
\* What the steps do to the sequences.
LEMMA PartsAssociate ==
  \A s, t, u \in Seq(Part) : (s \o t) \o u = s \o (t \o u)
BY ConcatAssociative

LEMMA PacketsAssociate ==
  \A s, t, u \in Seq(Packet) : (s \o t) \o u = s \o (t \o u)
BY ConcatAssociative

LEMMA StreamTyped == ASSUME StreamOK PROVE Stream \in Seq(Part)
BY ConcatProperties DEF StreamOK, Stream

LEMMA OutTyped == ASSUME QueueOK, WriterOK PROVE Out \in Seq(Packet)
BY ConcatProperties DEF QueueOK, WriterOK, Out

LEMMA Split ==
  ASSUME NEW T, NEW q \in Seq(T), NEW n \in 1 .. Len(q)
  PROVE  SubSeq(q, 1, n) \o SubSeq(q, n + 1, Len(q)) = q
<1>1. Len(q) \in Nat /\ 1 \in 1 .. Len(q) + 1 /\ n \in 1 - 1 .. Len(q) /\ Len(q) \in n .. Len(q)
  BY LenProperties
<1>2. SubSeq(q, 1, n) \o SubSeq(q, n + 1, Len(q)) = SubSeq(q, 1, Len(q))
  BY <1>1, ConcatAdjacentSubSeq
<1> QED BY <1>2, SubSeqFull

\* A read moves parts along the stream.
LEMMA ReadKeepsStream ==
  ASSUME StreamOK, NEW n \in 1 .. Len(wire), arrived = <<>>,
         arrived' = SubSeq(wire, 1, n), wire' = SubSeq(wire, n + 1, Len(wire)),
         inBuffer' = inBuffer
  PROVE  Stream' = Stream
<1>1. /\ arrived' \in Seq(Part) /\ wire' \in Seq(Part)
  <2>1. n \in Nat /\ n \in 0 .. Len(wire)
    BY LenProperties DEF StreamOK
  <2> QED BY <2>1, Front, Rest DEF StreamOK
<1>2. arrived' \o wire' = wire
  BY Split DEF StreamOK
<1>3. Stream' = inBuffer \o (arrived' \o wire')
  <2>1. (inBuffer \o arrived') \o wire' = inBuffer \o (arrived' \o wire')
    BY <1>1, PartsAssociate, ZenonT(60) DEF StreamOK
  <2>2. Stream' = (inBuffer \o arrived') \o wire'
    BY DEF Stream
  <2> QED BY <2>1, <2>2
<1>4. Stream = inBuffer \o wire
  BY ConcatEmptySeq DEF Stream, StreamOK
<1> QED BY <1>2, <1>3, <1>4

LEMMA HandleKeepsStream ==
  ASSUME StreamOK, inBuffer' = inBuffer \o arrived, arrived' = <<>>, wire' = wire
  PROVE  Stream' = Stream
<1>1. inBuffer \o arrived \in Seq(Part)
  BY ConcatProperties DEF StreamOK
<1> QED BY <1>1, ConcatEmptySeq DEF Stream, StreamOK

LEMMA SendExtendsStream ==
  ASSUME StreamOK, NEW q \in Seq(Part), inBuffer' = inBuffer, arrived' = arrived,
         wire' = wire \o q
  PROVE  Stream' = Stream \o q
<1>1. inBuffer \o arrived \in Seq(Part)
  BY ConcatProperties DEF StreamOK
<1>2. ((inBuffer \o arrived) \o wire) \o q = (inBuffer \o arrived) \o (wire \o q)
  BY <1>1, PartsAssociate, Zenon DEF StreamOK
<1>3. Stream' = (inBuffer \o arrived) \o (wire \o q)
  BY DEF Stream
<1> QED BY <1>2, <1>3 DEF Stream

\* What is taken from the buffer is taken from the stream.
LEMMA TakeFromStream ==
  ASSUME StreamOK, NEW n \in Nat, n <= Len(inBuffer),
         inBuffer' = SubSeq(inBuffer, n + 1, Len(inBuffer)), arrived' = arrived, wire' = wire
  PROVE  Stream' = SubSeq(Stream, n + 1, Len(Stream))
<1> DEFINE rest == arrived \o wire
           b == SubSeq(inBuffer, n + 1, Len(inBuffer))
           t == SubSeq(Stream, n + 1, Len(Stream))
<1>1. rest \in Seq(Part) /\ b \in Seq(Part) /\ Stream \in Seq(Part)
  BY ConcatProperties, Rest, StreamTyped DEF StreamOK
<1>2. Stream = inBuffer \o rest /\ Stream' = b \o rest
  <2>1. \A q \in Seq(Part) : (q \o arrived) \o wire = q \o rest
    BY PartsAssociate, Zenon DEF StreamOK
  <2>2. /\ (inBuffer \o arrived) \o wire = inBuffer \o rest
        /\ (b \o arrived) \o wire = b \o rest
    BY <1>1, <2>1 DEF StreamOK
  <2>3. Stream' = (b \o arrived) \o wire
    BY DEF Stream
  <2> QED BY <2>2, <2>3 DEF Stream
<1>3. Len(inBuffer) \in Nat /\ Len(rest) \in Nat
  BY <1>1, LenProperties DEF StreamOK
<1>4. /\ Len(Stream) = Len(inBuffer) + Len(rest)
      /\ \A i \in 1 .. Len(inBuffer) + Len(rest) :
           Stream[i] = IF i <= Len(inBuffer) THEN inBuffer[i] ELSE rest[i - Len(inBuffer)]
  BY <1>1, <1>2, ConcatProperties DEF StreamOK
<1>5. Len(b) = Len(inBuffer) - n /\ \A i \in 1 .. Len(b) : b[i] = inBuffer[n + i]
  BY <1>3, RestItems DEF StreamOK
<1>6. /\ t \in Seq(Part) /\ Len(t) = Len(Stream) - n
      /\ \A i \in 1 .. Len(t) : t[i] = Stream[n + i]
  BY <1>1, <1>3, <1>4, Rest, RestItems
<1>7. /\ b \o rest \in Seq(Part) /\ Len(b \o rest) = Len(b) + Len(rest)
      /\ \A i \in 1 .. Len(b) + Len(rest) :
           (b \o rest)[i] = IF i <= Len(b) THEN b[i] ELSE rest[i - Len(b)]
  BY <1>1, ConcatProperties
<1> DEFINE u == b \o rest
<1> HIDE DEF b, rest, t
<1>8. Len(u) = Len(t)
  BY <1>3, <1>4, <1>5, <1>6, <1>7
<1>9. ASSUME NEW i \in 1 .. Len(u) PROVE u[i] = t[i]
  <2>1. CASE i <= Len(b)
    <3>1. i \in 1 .. Len(b) /\ n + i \in 1 .. Len(inBuffer) + Len(rest) /\ n + i <= Len(inBuffer)
      BY <1>3, <1>5, <1>7, <2>1
    <3> QED BY <1>4, <1>5, <1>6, <1>7, <1>8, <3>1, <2>1
  <2>2. CASE i > Len(b)
    <3>1. /\ n + i \in 1 .. Len(inBuffer) + Len(rest) /\ ~(n + i <= Len(inBuffer))
          /\ (n + i) - Len(inBuffer) = i - Len(b)
      BY <1>3, <1>5, <1>7, <2>2
    <3> QED BY <1>3, <1>4, <1>5, <1>6, <1>7, <1>8, <3>1, <2>2, SMTT(30)
  <2> QED BY <1>3, <1>5, <1>7, <2>1, <2>2
<1> HIDE DEF u
<1>10. u = t
  BY <1>6, <1>7, <1>8, <1>9, SeqEqual DEF u
<1> QED BY <1>2, <1>10 DEF u, t, b, rest

\* The buffer is where the stream begins.
LEMMA StreamStarts ==
  ASSUME StreamOK, Len(inBuffer) >= 2
  PROVE  Stream # <<>> /\ Stream[1] = inBuffer[1] /\ Len(Stream) >= Len(inBuffer)
<1> DEFINE rest == arrived \o wire
<1>1. rest \in Seq(Part) /\ Stream \in Seq(Part) /\ Len(inBuffer) \in Nat
  BY ConcatProperties, StreamTyped, LenProperties DEF StreamOK
<1>2. Stream = inBuffer \o rest
  BY ConcatAssociative, SMTT(30) DEF StreamOK, Stream
<1>3. /\ Len(Stream) = Len(inBuffer) + Len(rest) /\ Len(rest) \in Nat
      /\ \A i \in 1 .. Len(inBuffer) + Len(rest) :
           Stream[i] = IF i <= Len(inBuffer) THEN inBuffer[i] ELSE rest[i - Len(inBuffer)]
  BY <1>1, <1>2, ConcatProperties, LenProperties DEF StreamOK
<1> QED BY <1>1, <1>3, EmptySeq

\* A packet read by the client leaves the answers at their head.
LEMMA ReceiveShortensOut ==
  ASSUME QueueOK, WriterOK, back # <<>>, back' = Tail(back), writing' = writing, queue' = queue
  PROVE  /\ Out # <<>> /\ Head(back) = Out[1] /\ Out' = Tail(Out)
<1> DEFINE rest == writing \o queue
<1>1. rest \in Seq(Packet) /\ Tail(back) \in Seq(Packet) /\ Out \in Seq(Packet)
  BY ConcatProperties, HeadTailProperties, OutTyped DEF QueueOK, WriterOK
<1>2. Out = back \o rest /\ Out' = Tail(back) \o rest
  <2>1. \A q \in Seq(Packet) : (q \o writing) \o queue = q \o rest
    BY PacketsAssociate, Zenon DEF QueueOK, WriterOK
  <2>2. /\ (back \o writing) \o queue = back \o rest
        /\ (Tail(back) \o writing) \o queue = Tail(back) \o rest
    BY <1>1, <2>1 DEF WriterOK
  <2>3. Out' = (Tail(back) \o writing) \o queue
    BY DEF Out
  <2> QED BY <2>2, <2>3 DEF Out
<1>3. Len(back) \in Nat \ {0} /\ Len(rest) \in Nat
  BY <1>1, EmptySeq, LenProperties DEF WriterOK
<1>4. /\ Len(Out) = Len(back) + Len(rest)
      /\ \A i \in 1 .. Len(back) + Len(rest) :
           Out[i] = IF i <= Len(back) THEN back[i] ELSE rest[i - Len(back)]
  BY <1>1, <1>2, ConcatProperties DEF WriterOK
<1>5. Out # <<>>
  BY <1>1, <1>3, <1>4, EmptySeq
<1>6. Head(back) = back[1]
  BY DEF WriterOK
<1>7. /\ Len(Tail(back)) = Len(back) - 1
      /\ \A i \in 1 .. Len(Tail(back)) : Tail(back)[i] = back[i + 1]
  BY HeadTailProperties DEF WriterOK
<1>8. /\ Tail(Out) \in Seq(Packet) /\ Len(Tail(Out)) = Len(Out) - 1
      /\ \A i \in 1 .. Len(Tail(Out)) : Tail(Out)[i] = Out[i + 1]
  BY <1>1, <1>5, HeadTailProperties
<1> DEFINE a == Tail(back)
           u == a \o rest
           t == Tail(Out)
<1>9. /\ u \in Seq(Packet) /\ Len(u) = Len(a) + Len(rest)
      /\ \A i \in 1 .. Len(a) + Len(rest) :
           u[i] = IF i <= Len(a) THEN a[i] ELSE rest[i - Len(a)]
  BY <1>1, ConcatProperties
<1>10. u = t
  <2> HIDE DEF a, u, t, rest
  <2>0. /\ Len(a) = Len(back) - 1 /\ \A i \in 1 .. Len(a) : a[i] = back[i + 1]
        /\ t \in Seq(Packet) /\ Len(t) = Len(Out) - 1
        /\ \A i \in 1 .. Len(t) : t[i] = Out[i + 1]
    BY <1>7, <1>8 DEF a, t
  <2>1. Len(u) = Len(t)
    BY <1>3, <1>4, <1>9, <2>0
  <2>2. ASSUME NEW i \in 1 .. Len(u) PROVE u[i] = t[i]
    <3>1. CASE i <= Len(a)
      <4>1. i + 1 \in 1 .. Len(back) + Len(rest) /\ i + 1 <= Len(back) /\ i \in 1 .. Len(a)
        BY <1>3, <1>9, <2>0, <3>1
      <4> QED BY <1>4, <1>9, <2>0, <2>1, <3>1, <4>1
    <3>2. CASE i > Len(a)
      <4>1. /\ i + 1 \in 1 .. Len(back) + Len(rest) /\ ~(i + 1 <= Len(back))
            /\ (i + 1) - Len(back) = i - Len(a)
        BY <1>3, <1>9, <2>0, <3>2
      <4> QED BY <1>3, <1>4, <1>9, <2>0, <2>1, <3>2, <4>1
    <3> QED BY <1>3, <1>9, <2>0, <3>1, <3>2
  <2> QED BY <1>9, <2>0, <2>1, <2>2, SeqEqual
<1>11. Out[1] = back[1]
  BY <1>3, <1>4
<1> QED BY <1>2, <1>5, <1>6, <1>10, <1>11

LEMMA QueueExtendsOut ==
  ASSUME QueueOK, WriterOK, NEW p \in Packet, queue' = queue \o <<p>>,
         back' = back, writing' = writing
  PROVE  Out' = Append(Out, p)
<1>1. <<p>> \in Seq(Packet) /\ back \o writing \in Seq(Packet)
  BY ConcatProperties DEF WriterOK
<1>2. Out' = (back \o writing) \o (queue \o <<p>>)
  BY DEF Out
<1>3. Out' = Out \o <<p>>
  BY <1>1, <1>2, ConcatAssociative, SMTT(30) DEF Out, QueueOK
<1> QED BY <1>3, OutTyped, AppendIsConcat

\* The writer moves packets along.
LEMMA WriteKeepsOut ==
  ASSUME QueueOK, WriterOK,
         \/ /\ queue # <<>> /\ writing = <<>> /\ writing' = <<Head(queue)>>
            /\ queue' = Tail(queue) /\ back' = back
         \/ back' = back \o writing /\ writing' = <<>> /\ queue' = queue
  PROVE  Out' = Out
<1>1. CASE /\ queue # <<>> /\ writing = <<>> /\ writing' = <<Head(queue)>>
           /\ queue' = Tail(queue) /\ back' = back
  <2>1. Head(queue) \in Packet /\ Tail(queue) \in Seq(Packet)
    BY <1>1, HeadTailProperties DEF QueueOK
  <2>2. <<Head(queue)>> \in Seq(Packet)
    BY <2>1
  <2>3. <<Head(queue)>> \o Tail(queue) = queue
    BY <1>1 DEF QueueOK
  <2>4. Out' = back \o (<<Head(queue)>> \o Tail(queue))
    BY <1>1, <2>1, <2>2, ConcatAssociative DEF Out, WriterOK
  <2>5. Out = back \o queue
    BY <1>1, ConcatEmptySeq DEF Out, WriterOK
  <2> QED BY <2>3, <2>4, <2>5
<1>2. CASE back' = back \o writing /\ writing' = <<>> /\ queue' = queue
  <2>1. back \o writing \in Seq(Packet)
    BY ConcatProperties DEF WriterOK
  <2> QED BY <1>2, <2>1, ConcatEmptySeq DEF Out
<1> QED BY <1>1, <1>2

\* What the client has is where the answers begin.
LEMMA BackStartsOut ==
  ASSUME QueueOK, WriterOK
  PROVE  /\ Len(back) <= Len(Out) /\ Len(back) \in Nat /\ Len(Out) \in Nat
         /\ \A i \in 1 .. Len(back) : back[i] = Out[i]
<1> DEFINE rest == writing \o queue
<1>1. rest \in Seq(Packet)
  BY ConcatProperties DEF QueueOK, WriterOK
<1>2. Out = back \o rest
  BY ConcatAssociative DEF QueueOK, WriterOK, Out
<1>3. Len(back) \in Nat /\ Len(rest) \in Nat
  BY <1>1, LenProperties DEF WriterOK
<1>4. /\ Len(Out) = Len(back) + Len(rest)
      /\ \A i \in 1 .. Len(back) + Len(rest) :
           Out[i] = IF i <= Len(back) THEN back[i] ELSE rest[i - Len(back)]
  BY <1>1, <1>2, ConcatProperties DEF WriterOK
<1> QED BY <1>3, <1>4

---------------------------------------------------------------------------
\* The state of the conversation: before the ciphers are set up at most one packet
\* is on its way, in one direction.
Plain == client.stage \in {"new", "init"}

InStep ==
  /\ Framed(Stream)
  /\ Stream = <<>> => client.send = session.recv
  /\ Stream # <<>> =>
       /\ session.recv = IF header = NoHeader THEN Stream[1].pos ELSE Stream[1].pos + 1
       /\ client.send = Stream[Len(Stream)].pos + 1

HeaderOK ==
  header # NoHeader => session.initialized /\ Stream # <<>> /\ Stream[1].kind = header

Phase ==
  /\ Plain => ~session.crypt /\ client.send = 1 /\ client.recv = 1
  /\ client.stage = "new" => ~session.initialized /\ Stream = <<>>
  /\ client.stage = "init" => Stream = IF session.initialized THEN <<>> ELSE Cut("init", 0)
  /\ ~Plain => session.initialized
  /\ client.stage = "auth" =>
       client.send = 1 /\ (Stream = <<>> \/ (~session.crypt /\ Stream = Cut("auth", 0)))
  /\ client.stage = "auth" /\ ~session.crypt => client.recv = 1
  /\ client.stage \notin {"new", "init", "auth"} => session.crypt
  /\ ~session.crypt => session.send = 1 /\ session.recv = 1 /\ ~session.inWorld
  /\ client.recv >= 1

InputOK == Phase /\ HeaderOK /\ (session.crypt => InStep)

Legit(q) ==
  /\ client.stage = "new" => Len(q) <= 1 /\ \A i \in 1 .. Len(q) : q[i].kind = "hello" /\ q[i].pos = 0
  /\ client.stage = "init" => Len(q) <= 1 /\ \A i \in 1 .. Len(q) : q[i].kind = "challenge" /\ q[i].pos = 0
  /\ client.stage = "init" /\ ~session.initialized => Len(q) = 0
  /\ client.stage = "auth" /\ ~session.crypt => Len(q) = 0
  /\ ~Plain => \A i \in 1 .. Len(q) :
                 q[i].kind \notin {"hello", "challenge"} /\ q[i].pos = client.recv + i - 1

OutputOK ==
  /\ writer # "writing" => writing = <<>>
  /\ peer = "up" => Legit(Visible)
  /\ peer = "up" /\ writer # "ended" /\ ~Plain => session.send = client.recv + Len(Visible)

CInv == TypeOK /\ InputOK /\ OutputOK /\ ~garbled

LEMMA VisibleTyped == ASSUME QueueOK, WriterOK PROVE Visible \in Seq(Packet) /\ Len(Visible) \in Nat
<1>1. Visible \in Seq(Packet)
  BY OutTyped DEF WriterOK, Visible
<1> QED BY <1>1, LenProperties

LEMMA InputKept ==
  ASSUME InputOK, Stream' = Stream, header' = header, client' = client,
         session'.crypt = session.crypt, session'.initialized = session.initialized,
         session'.recv = session.recv, ~session.crypt => session'.send = session.send,
         session'.inWorld => session.inWorld \/ session.crypt
  PROVE  InputOK'
<1>1. Framed(Stream) => Framed(Stream')
  OBVIOUS
<1>2. session.crypt => InStep'
  BY <1>1 DEF InputOK, InStep
<1>3. Phase'
  BY DEF InputOK, Phase, Plain
<1>4. HeaderOK'
  BY DEF InputOK, HeaderOK
<1> QED BY <1>2, <1>3, <1>4 DEF InputOK

LEMMA OutputKept ==
  ASSUME OutputOK, UNCHANGED <<client, back, writing, queue>>, writer' \in {writer, Woken},
         peer' # peer => peer' # "up",
         session'.initialized = session.initialized, session'.send = session.send,
         session.crypt => session'.crypt
  PROVE  OutputOK'
<1>1. Visible' = Visible /\ (writer' = "ended" <=> writer = "ended")
  BY DEF Visible, Out, Woken
<1>2. writer' = "writing" <=> writer = "writing"
  BY DEF Woken
<1>3. peer' = "up" => peer = "up"
  OBVIOUS
<1>4. Legit(Visible) => Legit(Visible)'
  BY <1>1 DEF Legit, Plain
<1> QED BY <1>1, <1>2, <1>3, <1>4 DEF OutputOK, Plain

LEMMA NextPosition == \A a, b, c \in Nat : a = b + c => a + 1 = b + (c + 1)
OBVIOUS

\* A ciphered packet goes to the end of the answers, at the next position.
LEMMA OutputSent ==
  ASSUME TypeOK, OutputOK, ~Plain, NEW k \in Answer \ {"hello", "challenge"},
         queue' = queue \o <<[kind |-> k, pos |-> session.send]>>,
         session'.send = session.send + 1, session'.initialized = session.initialized,
         session'.crypt, writer' \in {writer, Woken},
         UNCHANGED <<client, back, writing, peer>>
  PROVE  OutputOK'
<1> USE Parts
<1> DEFINE p == [kind |-> k, pos |-> session.send]
<1>1. p \in Packet
  BY DEF Packet, SessionOK
<1>2. (writer' = "ended" <=> writer = "ended") /\ (writer' = "writing" <=> writer = "writing")
  BY DEF Woken
<1>3. CASE writer = "ended"
  <2>1. Visible' = Visible
    BY <1>2, <1>3 DEF Visible
  <2>2. Legit(Visible) => Legit(Visible)'
    BY <2>1 DEF Legit, Plain
  <2> QED BY <1>2, <1>3, <2>2 DEF OutputOK, Plain
<1>4. CASE writer # "ended"
  <2>1. Visible' = Append(Visible, p)
    BY <1>1, <1>2, <1>4, QueueExtendsOut DEF Visible
  <2>2. /\ Len(Visible) \in Nat /\ Len(Visible') = Len(Visible) + 1
        /\ \A i \in 1 .. Len(Visible) : Visible'[i] = Visible[i]
        /\ Visible'[Len(Visible) + 1] = p
    BY <1>1, <2>1, VisibleTyped, AppendProperties
  <2>3. client.recv \in Nat
    BY DEF ClientOK
  <2> DEFINE n == Len(Visible)
  <2>4. ASSUME peer = "up"
        PROVE  /\ session'.send = client.recv + Len(Visible')
               /\ \A i \in 1 .. Len(Visible') :
                    /\ Visible'[i].kind \notin {"hello", "challenge"}
                    /\ Visible'[i].pos = client.recv + i - 1
    <3>1. session.send = client.recv + n
      BY <1>4, <2>4 DEF OutputOK
    <3>2. session'.send = client.recv + Len(Visible')
      <4>0. session.send \in Nat /\ client.recv \in Nat /\ n \in Nat
        BY <2>2, <2>3 DEF SessionOK
      <4>1. session.send + 1 = client.recv + (n + 1)
        <5> HIDE DEF n
        <5>1. session.send = client.recv + n => session.send + 1 = client.recv + (n + 1)
          BY <4>0, NextPosition, Zenon
        <5> QED BY <3>1, <5>1
      <4>2. Len(Visible') = n + 1 /\ session'.send = session.send + 1
        BY <2>2
      <4> HIDE DEF n
      <4> QED BY <4>1, <4>2
    <3>3. ASSUME NEW i \in 1 .. Len(Visible')
          PROVE  /\ Visible'[i].kind \notin {"hello", "challenge"}
                 /\ Visible'[i].pos = client.recv + i - 1
      <4>1. CASE i \in 1 .. n
        BY <2>2, <2>4, <4>1 DEF OutputOK, Legit
      <4>2. CASE i = n + 1
        BY <2>2, <2>3, <3>1, <4>2
      <4> QED BY <2>2, <4>1, <4>2
    <3> QED BY <3>2, <3>3
  <2>5. peer = "up" => Legit(Visible)'
    BY <2>4 DEF Legit, Plain
  <2> QED BY <1>2, <1>4, <2>4, <2>5 DEF OutputOK, Plain
<1> QED BY <1>3, <1>4

\* Once the writer has ended, what the client has is all it will get.
LEMMA EndedOutput ==
  ASSUME TypeOK, OutputOK, UNCHANGED <<client, back>>, writer' = "ended", writing' = <<>>, peer' = peer,
         session'.initialized = session.initialized, session'.crypt = session.crypt
  PROVE  OutputOK'
<1> USE Parts
<1>1. Visible' = back
  BY DEF Visible
<1>2. /\ Len(back) <= Len(Visible) /\ Len(back) \in Nat /\ Len(Visible) \in Nat
      /\ \A i \in 1 .. Len(back) : back[i] = Visible[i] /\ i \in 1 .. Len(Visible)
  <2>1. CASE writer = "ended"
    BY <2>1, LenProperties DEF Visible, WriterOK
  <2>2. CASE writer # "ended"
    <3>1. Visible = Out
      BY <2>2 DEF Visible
    <3> QED BY <3>1, BackStartsOut
  <2> QED BY <2>1, <2>2
<1>3. Legit(Visible) => Legit(back)
  BY <1>2 DEF Legit
<1>4. peer = "up" => Legit(Visible)'
  BY <1>1, <1>3 DEF OutputOK, Legit, Plain
<1> QED BY <1>4 DEF OutputOK

---------------------------------------------------------------------------
\* What the handler of a packet does to the session.
LEMMA HandlerEffect ==
  ASSUME SessionOK, NEW kind, ProcessPacket(kind), kind # "auth" => session.crypt
  PROVE  /\ session'.initialized = session.initialized /\ session'.recv = session.recv
         /\ IF kind = "auth" THEN session.crypt => session'.crypt
            ELSE session'.crypt = session.crypt
         /\ session'.inWorld => session.inWorld \/ session.crypt
         /\ writer' \in {writer, Woken}
         /\ \/ queue' = queue /\ session'.send = session.send
            \/ \E k \in Answer \ {"hello", "challenge"} :
                 /\ queue' = queue \o <<[kind |-> k, pos |-> session.send]>>
                 /\ session'.send = session.send + 1
                 /\ session'.crypt
<1> DEFINE Effect ==
      /\ session'.initialized = session.initialized /\ session'.recv = session.recv
      /\ writer' \in {writer, Woken}
      /\ \/ queue' = queue /\ session'.send = session.send
         \/ \E k \in Answer \ {"hello", "challenge"} :
              /\ queue' = queue \o <<[kind |-> k, pos |-> session.send]>>
              /\ session'.send = session.send + 1
              /\ session'.crypt
<1>1. ASSUME NEW s, NEW k \in Answer \ {"hello", "challenge"}, SendPacket(s, k), s.crypt,
             s \in [open : BOOLEAN, initialized : BOOLEAN, crypt : BOOLEAN,
                    inWorld : BOOLEAN, send : Nat, recv : Nat],
             s.initialized = session.initialized, s.recv = session.recv, s.send = session.send
      PROVE  Effect /\ session'.inWorld = s.inWorld /\ session'.crypt
  <2>1. /\ session' = [s EXCEPT !.send = s.send + 1]
        /\ queue' = queue \o <<[kind |-> k, pos |-> s.send]>> /\ writer' = Woken
    BY <1>1 DEF SendPacket, QueueOutgoing
  <2> QED BY <1>1, <2>1
<1>2. Close => Effect /\ ~session'.inWorld /\ session'.crypt = session.crypt
  BY DEF Close, Closed, SessionOK
<1>3. CASE kind = "auth"
  <2>1. CASE SendPacket([session EXCEPT !.crypt = TRUE], "welcome")
    <3> DEFINE s == [session EXCEPT !.crypt = TRUE]
    <3>1. /\ s \in [open : BOOLEAN, initialized : BOOLEAN, crypt : BOOLEAN,
                    inWorld : BOOLEAN, send : Nat, recv : Nat]
          /\ s.crypt /\ s.initialized = session.initialized /\ s.recv = session.recv
          /\ s.send = session.send /\ s.inWorld = session.inWorld
      BY DEF SessionOK
    <3>2. SendPacket(s, "welcome") /\ "welcome" \in Answer \ {"hello", "challenge"}
      BY <2>1 DEF Answer
    <3> HIDE DEF s, Effect
    <3>3. Effect /\ session'.inWorld = s.inWorld /\ session'.crypt
      BY <1>1, <3>1, <3>2
    <3> QED BY <1>3, <3>1, <3>3 DEF Effect
  <2>2. CASE /\ session' = Closed([session EXCEPT !.crypt = TRUE])
             /\ writer' = Woken
             /\ UNCHANGED queue
    <3> DEFINE s == [session EXCEPT !.crypt = TRUE]
    <3>1. /\ s \in [open : BOOLEAN, initialized : BOOLEAN, crypt : BOOLEAN,
                    inWorld : BOOLEAN, send : Nat, recv : Nat]
          /\ s.crypt /\ s.initialized = session.initialized /\ s.recv = session.recv
          /\ s.send = session.send
      BY DEF SessionOK
    <3>2. session' = [s EXCEPT !.inWorld = FALSE, !.open = FALSE]
      BY <2>2 DEF Closed
    <3> HIDE DEF s
    <3> QED BY <1>3, <2>2, <3>1, <3>2
  <2>3. HandleAuthSession
    BY <1>3 DEF ProcessPacket
  <2> QED BY <1>2, <1>3, <2>1, <2>2, <2>3 DEF HandleAuthSession
<1>4. CASE kind # "auth"
  <2>0. session.crypt
    BY <1>4
  <2>1. CASE UNCHANGED <<session, queue, writer>>
    BY <1>4, <2>1 DEF SessionOK
  <2>2. CASE Close
    BY <1>2, <1>4, <2>0, <2>2
  <2>3. ASSUME NEW b \in BOOLEAN, NEW k \in Answer \ {"hello", "challenge"},
               SendPacket([session EXCEPT !.inWorld = b], k)
        PROVE  Effect /\ session'.crypt
    <3> DEFINE s == [session EXCEPT !.inWorld = b]
    <3>1. /\ s \in [open : BOOLEAN, initialized : BOOLEAN, crypt : BOOLEAN,
                    inWorld : BOOLEAN, send : Nat, recv : Nat]
          /\ s.crypt /\ s.initialized = session.initialized /\ s.recv = session.recv
          /\ s.send = session.send
      BY <2>0 DEF SessionOK
    <3>2. SendPacket(s, k)
      BY <2>3
    <3> HIDE DEF s, Effect
    <3> QED BY <1>1, <3>1, <3>2
  <2>4. ASSUME NEW k \in Answer \ {"hello", "challenge"}, SendPacket(session, k)
        PROVE  Effect /\ session'.crypt
    <3> HIDE DEF Effect
    <3> QED BY <1>1, <2>0, <2>4 DEF SessionOK
  <2>5. CASE \/ \E b \in BOOLEAN, k \in Answer \ {"hello", "challenge"} :
                  SendPacket([session EXCEPT !.inWorld = b], k)
             \/ \E k \in Answer \ {"hello", "challenge"} : SendPacket(session, k)
    <3> HIDE DEF Effect
    <3>1. Effect /\ session'.crypt
      BY <2>3, <2>4, <2>5
    <3> QED BY <1>4, <2>0, <3>1 DEF Effect, SessionOK
  <2>6. \/ UNCHANGED <<session, queue, writer>>
        \/ Close
        \/ \E b \in BOOLEAN, k \in {"world", "left"} : SendPacket([session EXCEPT !.inWorld = b], k)
        \/ \E k \in {"chars", "reply"} : SendPacket(session, k)
    <3>1. CASE kind = "login"
      BY <3>1 DEF ProcessPacket
    <3>2. CASE kind = "logout" /\ session.inWorld
      <4>1. SendPacket([session EXCEPT !.inWorld = FALSE], "left")
        BY <3>2 DEF ProcessPacket
      <4> QED BY <4>1
    <3>3. CASE kind # "login" /\ ~(kind = "logout" /\ session.inWorld)
      BY <1>4, <3>3 DEF ProcessPacket
    <3> QED BY <3>1, <3>2, <3>3
  <2>7. {"world", "left", "chars", "reply"} \subseteq Answer \ {"hello", "challenge"}
    BY DEF Answer
  <2> QED BY <2>1, <2>2, <2>5, <2>6, <2>7
<1> QED BY <1>3, <1>4

---------------------------------------------------------------------------
LEMMA InitCipher == Init => CInv
<1> SUFFICES ASSUME Init PROVE CInv
  OBVIOUS
<1>1. TypeOK
  BY InitType
<1>2. Stream = <<>>
  BY DEF Init, Stream
<1>3. InputOK
  BY <1>2 DEF Init, InputOK, Phase, Plain, HeaderOK
<1>4. Visible = <<[kind |-> "hello", pos |-> 0]>>
  BY DEF Init, Visible, Out
<1>5. Len(Visible) = 1 /\ Visible[1].kind = "hello" /\ Visible[1].pos = 0
  BY <1>4
<1> HIDE DEF Visible
<1>6. OutputOK
  BY <1>5 DEF Init, OutputOK, Legit, Plain
<1> QED BY <1>1, <1>3, <1>6 DEF CInv, Init

LEMMA RequestCipher ==
  ASSUME CInv, NEW k \in Request, ClientRequests(k)
  PROVE  InputOK' /\ OutputOK' /\ ~garbled'
<1> USE Parts DEF CInv
<1> DEFINE q == Cut(k, client.send)
<1>1. /\ client.stage \in {"list", "chars", "world"}
      /\ client'.stage \in {"enter", "leave", "bye", "list", "chars", "world"}
      /\ client'.send = client.send + 1 /\ client'.recv = client.recv
  BY DEF ClientRequests, ClientOK, Request
<1>2. /\ wire' = wire \o q /\ inBuffer' = inBuffer /\ arrived' = arrived
      /\ UNCHANGED <<peer, header, session, queue, writing, writer, back, garbled>>
  BY DEF ClientRequests, ClientSends, output, history
<1>3. k \in Kind \ {"init"} /\ client.send \in Nat
  BY DEF Kind, Request, ClientOK
<1>4. /\ q \in Seq(Part) /\ Framed(q) /\ q # <<>> /\ q[1].pos = client.send
      /\ q[Len(q)].pos = client.send
  BY <1>3, CutTyped, FramedCut
<1> HIDE DEF q
<1>5. Stream' = Stream \o q /\ Stream \in Seq(Part)
  BY <1>2, <1>4, SendExtendsStream, StreamTyped
<1>6. session.crypt /\ InStep
  BY <1>1 DEF InputOK, Phase
<1>7. /\ Framed(Stream') /\ Stream' # <<>>
      /\ Stream # <<>> => Stream'[1] = Stream[1]
      /\ Stream = <<>> => Stream' = q
      /\ Stream'[Len(Stream')] = q[Len(q)]
  <2>1. CASE Stream = <<>>
    <3>1. Stream' = q
      BY <1>4, <1>5, <2>1, ConcatEmptySeq
    <3> QED BY <1>4, <2>1, <3>1
  <2>2. CASE Stream # <<>>
    <3>1. q[1].pos = Stream[Len(Stream)].pos + 1 /\ Framed(Stream)
      BY <1>4, <1>6, <2>2 DEF InStep
    <3> QED BY <1>4, <1>5, <2>2, <3>1, FramedConcat
  <2> QED BY <2>1, <2>2
<1>8. HeaderOK'
  BY <1>2, <1>7 DEF InputOK, HeaderOK
<1>9. InStep'
  <2>1. CASE Stream = <<>>
    <3>1. header = NoHeader
      BY <2>1 DEF InputOK, HeaderOK
    <3> QED BY <1>1, <1>2, <1>4, <1>6, <1>7, <2>1, <3>1 DEF InStep
  <2>2. CASE Stream # <<>>
    BY <1>1, <1>2, <1>4, <1>6, <1>7, <2>2 DEF InStep
  <2> QED BY <2>1, <2>2
<1>10. Phase'
  BY <1>1, <1>2, <1>6 DEF InputOK, Phase, Plain
<1>11. Visible' = Visible
  BY <1>2 DEF Visible, Out
<1>12. OutputOK'
  BY <1>1, <1>2, <1>11 DEF OutputOK, Legit, Plain
<1> QED BY <1>2, <1>8, <1>9, <1>10, <1>12 DEF InputOK

\* The client reads the first of the answers.
LEMMA ReceiveOut ==
  ASSUME TypeOK, ClientReceives
  PROVE  /\ Visible # <<>> /\ Visible \in Seq(Packet) /\ Head(back) = Visible[1]
         /\ Visible' = Tail(Visible) /\ Len(Visible') = Len(Visible) - 1
         /\ \A i \in 1 .. Len(Visible') : Visible'[i] = Visible[i + 1]
<1> USE Parts
<1>1. /\ back # <<>> /\ back' = Tail(back)
      /\ UNCHANGED <<writing, queue, writer>>
  BY DEF ClientReceives, output
<1>2. Visible # <<>> /\ Head(back) = Visible[1] /\ Visible' = Tail(Visible)
  <2>1. CASE writer = "ended"
    BY <1>1, <2>1 DEF Visible, WriterOK
  <2>2. CASE writer # "ended"
    BY <1>1, <2>2, ReceiveShortensOut DEF Visible
  <2> QED BY <2>1, <2>2
<1> QED BY <1>2, VisibleTyped, HeadTailProperties

LEMMA ReceiveCipher ==
  ASSUME CInv, ClientReceives
  PROVE  InputOK' /\ OutputOK' /\ ~garbled'
<1> USE Parts DEF CInv
<1> DEFINE p == Visible[1]
<1>1. /\ Visible \in Seq(Packet) /\ Head(back) = p /\ Len(Visible) \in Nat /\ Len(Visible) >= 1
      /\ Len(Visible') = Len(Visible) - 1
      /\ \A i \in 1 .. Len(Visible') : Visible'[i] = Visible[i + 1]
  BY ReceiveOut, EmptySeq
<1>2. /\ peer = "up" /\ Legit(Visible)
      /\ UNCHANGED <<peer, arrived, inBuffer, header, session, queue, writing, writer>>
  BY DEF ClientReceives, output, OutputOK
<1>3. garbled' = (p.pos # IF Plain THEN 0 ELSE client.recv)
  BY <1>1 DEF ClientReceives, Plain
<1>4. writer' # "writing" => writing' = <<>>
  BY <1>2 DEF OutputOK
<1>5. client.recv \in Nat /\ 1 \in 1 .. Len(Visible)
  BY <1>1 DEF ClientOK
<1>6. CASE client.stage = "new"
  <2>1. p.kind = "hello" /\ p.pos = 0 /\ Len(Visible) = 1
    BY <1>1, <1>2, <1>5, <1>6 DEF Legit
  <2>2. /\ client'.stage = "init" /\ client'.send = client.send /\ client'.recv = client.recv
        /\ wire' = wire \o Cut("init", 0)
    BY <1>1, <1>6, <2>1 DEF ClientReceives, ClientOK
  <2>3. Cut("init", 0) \in Seq(Part)
    BY CutTyped DEF Kind
  <2>4. Stream = <<>> /\ ~session.initialized /\ ~session.crypt /\ header = NoHeader
    BY <1>6 DEF InputOK, Phase, Plain, HeaderOK
  <2>5. Stream' = Cut("init", 0)
    BY <1>2, <2>2, <2>3, <2>4, SendExtendsStream, ConcatEmptySeq
  <2>6. InputOK'
    BY <1>2, <1>6, <2>2, <2>4, <2>5 DEF InputOK, Phase, Plain, HeaderOK
  <2>7. Len(Visible') = 0
    BY <1>1, <2>1
  <2>8. OutputOK'
    BY <1>4, <2>2, <2>7 DEF OutputOK, Legit, Plain
  <2> QED BY <1>3, <1>6, <2>1, <2>6, <2>8 DEF Plain
<1>7. CASE client.stage = "init"
  <2>1. p.kind = "challenge" /\ p.pos = 0 /\ Len(Visible) = 1 /\ session.initialized
    BY <1>1, <1>2, <1>5, <1>7 DEF Legit
  <2>2. /\ client'.stage = "auth" /\ client'.send = client.send /\ client'.recv = client.recv
        /\ wire' = wire \o Cut("auth", 0)
    BY <1>1, <1>7, <2>1 DEF ClientReceives, ClientOK
  <2>3. Cut("auth", 0) \in Seq(Part)
    BY CutTyped DEF Kind
  <2>4. Stream = <<>> /\ ~session.crypt /\ header = NoHeader /\ client.send = 1 /\ client.recv = 1
        /\ session.send = 1
    BY <1>7, <2>1 DEF InputOK, Phase, Plain, HeaderOK
  <2>5. Stream' = Cut("auth", 0)
    BY <1>2, <2>2, <2>3, <2>4, SendExtendsStream, ConcatEmptySeq
  <2>6. InputOK'
    BY <1>2, <1>7, <2>1, <2>2, <2>4, <2>5 DEF InputOK, Phase, Plain, HeaderOK
  <2>7. Len(Visible') = 0
    BY <1>1, <2>1
  <2>8. OutputOK'
    BY <1>2, <1>4, <2>2, <2>4, <2>7 DEF OutputOK, Legit, Plain
  <2> QED BY <1>3, <1>7, <2>1, <2>6, <2>8 DEF Plain
<1>8. CASE ~Plain
  <2>1. p.kind \notin {"hello", "challenge"} /\ p.pos = client.recv
    BY <1>1, <1>2, <1>5, <1>8 DEF Legit
  <2>2. session.crypt
    <3>1. client.stage = "auth" => session.crypt
      BY <1>1, <1>2 DEF Legit
    <3> QED BY <1>8, <3>1 DEF InputOK, Phase, Plain
  <2>3. p.pos # 0
    BY <2>1, <1>5 DEF InputOK, Phase
  <2>4. /\ client'.stage \in {client.stage, "list", "chars", "world"}
        /\ client'.send = client.send /\ client'.recv = client.recv + 1
        /\ wire' = wire
    BY <1>1, <2>1, <2>3 DEF ClientReceives, ClientOK
  <2>5. Stream' = Stream
    BY <1>2, <2>4 DEF Stream
  <2>6. client'.stage \notin {"new", "init"}
    BY <1>8, <2>4 DEF Plain
  <2>7. HeaderOK' /\ InStep'
    BY <1>2, <2>2, <2>4, <2>5 DEF InputOK, HeaderOK, InStep
  <2>8. Phase'
    BY <1>2, <1>5, <1>8, <2>2, <2>4, <2>5, <2>6 DEF InputOK, Phase, Plain
  <2>9. ASSUME NEW i \in 1 .. Len(Visible')
        PROVE  /\ Visible'[i].kind \notin {"hello", "challenge"}
               /\ Visible'[i].pos = (client.recv + 1) + i - 1
    <3>1. i + 1 \in 1 .. Len(Visible) /\ Visible'[i] = Visible[i + 1]
      BY <1>1
    <3>2. /\ Visible[i + 1].kind \notin {"hello", "challenge"}
          /\ Visible[i + 1].pos = client.recv + (i + 1) - 1
      BY <1>2, <1>8, <3>1 DEF Legit
    <3> QED BY <1>5, <3>1, <3>2
  <2>10. Legit(Visible)'
    BY <1>2, <2>2, <2>4, <2>6, <2>9 DEF Legit, Plain
  <2>11. writer # "ended" => session'.send = client'.recv + Len(Visible')
    BY <1>1, <1>2, <1>5, <1>8, <2>4 DEF OutputOK
  <2> QED BY <1>2, <1>3, <1>4, <1>8, <2>1, <2>2, <2>7, <2>8, <2>10, <2>11 DEF InputOK, OutputOK, Plain
<1> QED BY <1>6, <1>7, <1>8 DEF Plain

LEMMA LostCipher ==
  ASSUME CInv, ClientIsLost
  PROVE  InputOK' /\ OutputOK' /\ ~garbled'
<1>1. /\ UNCHANGED <<client, back, writing, queue, writer, session, header, garbled>>
      /\ UNCHANGED <<wire, arrived, inBuffer>> /\ peer' # "up"
  BY DEF ClientIsLost, stream, output, history
<1>2. Stream' = Stream
  BY <1>1 DEF Stream
<1> QED BY <1>1, <1>2, InputKept, OutputKept DEF CInv

---------------------------------------------------------------------------
LEMMA ReadLoopCipher ==
  ASSUME CInv, arrived = <<>> \/ reader = "ready", ReadLoop, ~TakePacket
  PROVE  InputOK' /\ OutputOK' /\ ~garbled'
<1> USE Parts DEF CInv
<1>1. CASE ReadCompletes
  <2>1. PICK n \in 1 .. Len(wire) : /\ arrived' = SubSeq(wire, 1, n)
                                    /\ wire' = SubSeq(wire, n + 1, Len(wire))
    BY <1>1 DEF ReadCompletes
  <2>2. /\ UNCHANGED <<client, peer, inBuffer, header, session, queue, writing, writer, back, garbled>>
        /\ arrived = <<>>
    BY <1>1 DEF ReadCompletes, output, history
  <2>3. Stream' = Stream
    BY <2>1, <2>2, ReadKeepsStream
  <2> QED BY <2>2, <2>3, InputKept, OutputKept
<1>2. CASE ReadFails
  <2>1. /\ UNCHANGED <<client, peer, wire, arrived, inBuffer, header, queue, writing, back, garbled>>
        /\ writer' = Woken
        /\ session'.crypt = session.crypt /\ session'.initialized = session.initialized
        /\ session'.recv = session.recv /\ session'.send = session.send
        /\ ~session'.inWorld
    BY <1>2 DEF ReadFails, Close, Closed, SessionOK, stream, history
  <2>2. Stream' = Stream
    BY <2>1 DEF Stream
  <2> QED BY <2>1, <2>2, InputKept, OutputKept
<1>3. CASE HandleRead
  <2>1. /\ UNCHANGED <<client, peer, wire, header, session, queue, writing, writer, back, garbled>>
        /\ inBuffer' = inBuffer \o arrived /\ arrived' = <<>>
    BY <1>3 DEF HandleRead, output, history
  <2>2. Stream' = Stream
    BY <2>1, HandleKeepsStream
  <2> QED BY <2>1, <2>2, InputKept, OutputKept
<1>4. CASE Handshake
  <2>1. UNCHANGED <<client, peer, wire, arrived, header, writing, back, garbled>>
    BY <1>4 DEF Handshake, history
  <2>2. CASE UNCHANGED <<inBuffer, session, queue, writer>>
    <3>1. Stream' = Stream
      BY <2>1, <2>2 DEF Stream
    <3> QED BY <2>1, <2>2, <3>1, InputKept, OutputKept
  <2>3. CASE /\ Len(inBuffer) >= 2
             /\ inBuffer' = SubSeq(inBuffer, 3, Len(inBuffer))
             /\ SendPacket([session EXCEPT !.initialized = TRUE], "challenge")
    <3>1. /\ ~session.initialized /\ Plain /\ Stream # <<>> /\ Len(Stream) >= Len(inBuffer)
      BY <1>4, <2>3, StreamStarts DEF Handshake, InputOK, Phase, Plain
    <3>2. client.stage = "init" /\ Stream = Cut("init", 0) /\ ~session.crypt /\ header = NoHeader
      BY <3>1 DEF InputOK, Phase, Plain, HeaderOK
    <3>3. Len(Stream) = 2
      BY <3>2, CutTyped DEF Kind
    <3>4. Stream' = <<>>
      <4>1. 2 \in Nat /\ 2 <= Len(inBuffer) /\ 2 + 1 = 3
        BY <2>3
      <4>2. Stream' = SubSeq(Stream, 2 + 1, Len(Stream))
        BY <2>1, <2>3, <4>1, TakeFromStream
      <4> QED BY <3>3, <4>2, SubSeqEmpty
    <3>5. /\ session'.initialized /\ session'.crypt = session.crypt /\ session'.send = session.send
          /\ session'.recv = session.recv /\ session'.inWorld = session.inWorld
          /\ queue' = queue \o <<[kind |-> "challenge", pos |-> 0]>> /\ writer' = Woken
      <4> DEFINE s == [session EXCEPT !.initialized = TRUE]
      <4>1. /\ s.initialized /\ s.crypt = session.crypt /\ s.send = session.send
            /\ s.recv = session.recv /\ s.inWorld = session.inWorld
            /\ s \in [open : BOOLEAN, initialized : BOOLEAN, crypt : BOOLEAN,
                      inWorld : BOOLEAN, send : Nat, recv : Nat]
        BY DEF SessionOK
      <4>2. /\ session' = [s EXCEPT !.send = IF s.crypt THEN s.send + 1 ELSE s.send] /\ writer' = Woken
            /\ queue' = queue \o <<[kind |-> "challenge", pos |-> IF s.crypt THEN s.send ELSE 0]>>
        BY <2>3 DEF SendPacket, QueueOutgoing
      <4> HIDE DEF s
      <4> QED BY <3>2, <4>1, <4>2
    <3>6. InputOK'
      BY <2>1, <3>2, <3>4, <3>5 DEF InputOK, Phase, Plain, HeaderOK
    <3> DEFINE p == [kind |-> "challenge", pos |-> 0]
    <3>7. p \in Packet
      BY DEF Packet, Answer
    <3>8. OutputOK'
      <4>1. writer' # "writing" => writing' = <<>>
        BY <2>1, <3>5 DEF OutputOK, Woken
      <4>2. ASSUME peer = "up" PROVE Legit(Visible)'
        <5>1. Len(Visible) = 0 /\ Visible \in Seq(Packet)
          BY <3>1, <3>2, <4>2, VisibleTyped DEF OutputOK, Legit
        <5>2. CASE writer = "ended"
          <6>1. Visible' = Visible
            BY <2>1, <3>5, <5>2 DEF Visible, Woken
          <6> QED BY <2>1, <3>2, <5>1, <6>1 DEF Legit, Plain
        <5>3. CASE writer # "ended"
          <6>1. Visible' = Append(Visible, p)
            BY <2>1, <3>5, <3>7, <5>3, QueueExtendsOut DEF Visible, Woken
          <6>2. Len(Visible') = 1 /\ Visible'[1] = p
            BY <3>7, <5>1, <6>1, AppendProperties
          <6> QED BY <2>1, <3>2, <3>5, <6>2 DEF Legit, Plain
        <5> QED BY <5>2, <5>3
      <4> QED BY <2>1, <3>2, <4>1, <4>2 DEF OutputOK, Plain
    <3> QED BY <2>1, <3>6, <3>8
  <2>4. Len(inBuffer) \in Nat
    BY LenProperties DEF StreamOK
  <2> QED BY <1>4, <2>2, <2>3, <2>4 DEF Handshake
<1>5. CASE DecryptHeader
  <2>1. /\ UNCHANGED <<client, peer, wire, arrived, inBuffer, queue, writing, writer, back>>
        /\ session.initialized /\ Len(inBuffer) >= 2 /\ header = NoHeader
    BY <1>5 DEF DecryptHeader, output
  <2>2. /\ Stream' = Stream /\ Stream # <<>> /\ Stream[1] = inBuffer[1]
    BY <2>1, StreamStarts DEF Stream
  <2>3. inBuffer[1].kind \in Kind
    <3>1. 1 \in 1 .. Len(inBuffer)
      BY <2>1, LenProperties DEF StreamOK
    <3>2. inBuffer[1] \in Part
      BY <3>1, ElementOfSeq DEF StreamOK
    <3> QED BY <3>2 DEF Part
  <2>4. header' = Stream[1].kind /\ header' # NoHeader
    BY <1>5, <2>2, <2>3, StreamAssumption DEF DecryptHeader
  <2>5. /\ session'.crypt = session.crypt /\ session'.initialized = session.initialized
        /\ session'.send = session.send /\ session'.inWorld = session.inWorld
        /\ session'.recv = IF session.crypt THEN session.recv + 1 ELSE session.recv
    BY <1>5 DEF DecryptHeader, SessionOK
  <2>6. ~session.crypt => client.stage = "auth" /\ Stream = Cut("auth", 0)
    BY <2>1, <2>2 DEF InputOK, Phase, Plain
  <2>7. Stream[1].pos = IF session.crypt THEN session.recv ELSE 0
    <3>1. CASE session.crypt
      BY <2>1, <2>2, <3>1 DEF InputOK, InStep
    <3>2. CASE ~session.crypt
      BY <2>6, <3>2, AuthPacket
    <3> QED BY <3>1, <3>2
  <2>8. ~garbled'
    BY <1>5, <2>2, <2>7 DEF DecryptHeader
  <2>9. Phase' /\ HeaderOK'
    BY <2>1, <2>2, <2>4, <2>5 DEF InputOK, Phase, Plain, HeaderOK
  <2>10. session.crypt => InStep'
    BY <2>1, <2>2, <2>4, <2>5, <2>7 DEF InputOK, InStep
  <2>11. OutputOK'
    BY <2>1, <2>5, OutputKept
  <2> QED BY <2>5, <2>8, <2>9, <2>10, <2>11 DEF InputOK
<1>6. CASE WaitForMore
  <2>1. /\ UNCHANGED <<client, peer, wire, arrived, inBuffer, header, session, queue, writing, writer,
                       back, garbled>>
    BY <1>6 DEF WaitForMore, stream, output, history
  <2>2. Stream' = Stream
    BY <2>1 DEF Stream
  <2> QED BY <2>1, <2>2, InputKept, OutputKept
<1> QED BY <1>1, <1>2, <1>3, <1>4, <1>5, <1>6 DEF ReadLoop

\* A packet leaves the stream and its handler runs.
LEMMA TakeCipher ==
  ASSUME CInv, TakePacket
  PROVE  InputOK' /\ OutputOK' /\ ~garbled'
<1> USE Parts DEF CInv
<1>1. /\ UNCHANGED <<client, peer, wire, arrived, writing, back, garbled>>
      /\ header \in Kind /\ header # NoHeader /\ header' = NoHeader
      /\ Len(inBuffer) >= Size(header)
      /\ inBuffer' = SubSeq(inBuffer, Size(header) + 1, Len(inBuffer))
      /\ ProcessPacket(header)
  BY DEF TakePacket, StreamOK
<1>2. session.initialized /\ Stream # <<>> /\ Stream[1].kind = header /\ Stream \in Seq(Part)
  BY <1>1, StreamTyped DEF InputOK, HeaderOK
<1>3. ~Plain
  BY <1>2 DEF InputOK, Phase, Plain
<1> DEFINE n == Size(header)
           rest == SubSeq(Stream, n + 1, Len(Stream))
<1>4. n \in {2, 3} /\ Stream' = rest
  <2>1. n \in {2, 3}
    BY <1>1, SizeRange
  <2>2. n \in Nat /\ n <= Len(inBuffer)
    BY <1>1, <2>1, LenProperties DEF StreamOK
  <2> QED BY <1>1, <2>1, <2>2, TakeFromStream
<1>5. Framed(Stream)
  <2>1. CASE session.crypt
    BY <2>1 DEF InputOK, InStep
  <2>2. CASE ~session.crypt
    <3>1. Stream = Cut("auth", 0)
      BY <1>2, <1>3, <2>2 DEF InputOK, Phase, Plain
    <3> QED BY <3>1, FramedCut DEF Kind
  <2> QED BY <2>1, <2>2
<1>6. /\ Framed(rest)
      /\ rest = <<>> => Stream[Len(Stream)].pos = Stream[1].pos
      /\ rest # <<>> => /\ rest[1].pos = Stream[1].pos + 1
                        /\ rest[Len(rest)] = Stream[Len(Stream)]
  BY <1>2, <1>5, FramedRest
<1> HIDE DEF n, rest
<1>7. ~session.crypt => /\ client.stage = "auth" /\ header = "auth" /\ rest = <<>>
                        /\ client.send = 1 /\ session.recv = 1
  <2> SUFFICES ASSUME ~session.crypt
               PROVE  /\ client.stage = "auth" /\ header = "auth" /\ rest = <<>>
                      /\ client.send = 1 /\ session.recv = 1
    OBVIOUS
  <2>1. client.stage = "auth" /\ Stream = Cut("auth", 0) /\ client.send = 1 /\ session.recv = 1
    BY <1>2, <1>3 DEF InputOK, Phase, Plain
  <2>2. Stream[1].kind = "auth" /\ Len(Stream) = 3
    BY <2>1, AuthPacket
  <2>3. n = 3
    <3>1. "auth" \in Kind /\ "auth" # "init" /\ "auth" \in HasBody
      BY DEF Kind, HasBody
    <3>2. Size("auth") = 3
      BY <3>1, CutTyped DEF Size
    <3> QED BY <1>2, <2>2, <3>2 DEF n
  <2>4. rest = <<>>
    BY <2>2, <2>3, SubSeqEmpty DEF rest
  <2> QED BY <1>2, <2>1, <2>2, <2>4
<1>8. /\ session'.initialized = session.initialized /\ session'.recv = session.recv
      /\ session.crypt => session'.crypt
      /\ session'.inWorld => session.inWorld \/ session.crypt
      /\ writer' \in {writer, Woken}
      /\ \/ queue' = queue /\ session'.send = session.send
         \/ \E k \in Answer \ {"hello", "challenge"} :
              /\ queue' = queue \o <<[kind |-> k, pos |-> session.send]>>
              /\ session'.send = session.send + 1
              /\ session'.crypt
  BY <1>1, <1>7, HandlerEffect
<1>9. ~session'.crypt => session'.send = session.send
  BY <1>8
<1>10. client.stage = "auth" => rest = <<>>
  BY <1>2, <1>7 DEF InputOK, Phase
<1>11. Phase'
  BY <1>1, <1>2, <1>3, <1>4, <1>7, <1>8, <1>9, <1>10 DEF InputOK, Phase, Plain
<1>12. HeaderOK'
  BY <1>1 DEF HeaderOK
<1>13. ASSUME session'.crypt PROVE InStep'
  <2>1. CASE session.crypt
    <3>1. /\ session.recv = Stream[1].pos + 1
          /\ client.send = Stream[Len(Stream)].pos + 1
      BY <1>1, <1>2, <2>1 DEF InputOK, InStep
    <3> QED BY <1>1, <1>4, <1>6, <1>8, <3>1 DEF InStep
  <2>2. CASE ~session.crypt
    BY <1>1, <1>4, <1>6, <1>7, <1>8, <2>2 DEF InStep
  <2> QED BY <2>1, <2>2
<1>14. OutputOK'
  <2>1. CASE queue' = queue /\ session'.send = session.send
    BY <1>1, <1>8, <2>1, OutputKept
  <2>2. CASE \E k \in Answer \ {"hello", "challenge"} :
               /\ queue' = queue \o <<[kind |-> k, pos |-> session.send]>>
               /\ session'.send = session.send + 1
               /\ session'.crypt
    BY <1>1, <1>3, <1>8, <2>2, OutputSent
  <2> QED BY <1>8, <2>1, <2>2
<1> QED BY <1>1, <1>11, <1>12, <1>13, <1>14 DEF InputOK

---------------------------------------------------------------------------
LEMMA WriteLoopCipher ==
  ASSUME CInv, WriteLoop
  PROVE  InputOK' /\ OutputOK' /\ ~garbled'
<1> USE Parts DEF CInv
<1>1. /\ UNCHANGED <<client, peer, wire, arrived, inBuffer, header, garbled>>
      /\ Stream' = Stream
  BY DEF WriteLoop, WriteNext, WriteCompletes, WriteFails, stream, history, Stream
<1>2. CASE WriteNext
  <2>1. session' = session /\ back' = back /\ writer = "running"
    BY <1>2 DEF WriteNext
  <2>2. InputOK'
    BY <1>1, <2>1, InputKept
  <2>3. CASE queue # <<>> /\ writing' = <<Head(queue)>> /\ queue' = Tail(queue) /\ writer' = "writing"
    <3>1. Out' = Out
      BY <2>1, <2>3, WriteKeepsOut DEF OutputOK
    <3>2. Visible' = Visible
      BY <2>1, <2>3, <3>1 DEF Visible
    <3> QED BY <1>1, <2>1, <2>2, <2>3, <3>2 DEF OutputOK, Legit, Plain
  <2>4. CASE UNCHANGED <<queue, writing>> /\ writer' \in {"waiting", "ended"}
    <3>1. Out' = Out /\ writing' = <<>>
      BY <2>1, <2>4 DEF Out, OutputOK
    <3>2. CASE writer' = "waiting"
      <4>1. Visible' = Visible
        BY <2>1, <3>1, <3>2 DEF Visible
      <4> QED BY <1>1, <2>1, <2>2, <3>1, <3>2, <4>1 DEF OutputOK, Legit, Plain
    <3>3. CASE writer' = "ended"
      <4>1. Visible' = back
        BY <2>1, <3>3 DEF Visible
      <4>2. OutputOK'
        BY <1>1, <2>1, <3>1, <3>3, <4>1, EndedOutput
      <4> QED BY <1>1, <2>2, <4>2
    <3> QED BY <2>4, <3>2, <3>3
  <2> QED BY <1>2, <2>3, <2>4 DEF WriteNext
<1>3. CASE WriteCompletes
  <2>1. session' = session /\ queue' = queue /\ writing' = <<>> /\ writer = "writing" /\ writer' = "running"
    BY <1>3 DEF WriteCompletes
  <2>2. InputOK'
    BY <1>1, <2>1, InputKept
  <2>3. CASE peer = "up"
    <3>1. Out' = Out
      BY <1>3, <2>1, <2>3, WriteKeepsOut DEF WriteCompletes
    <3>2. Visible' = Visible
      BY <2>1, <3>1 DEF Visible
    <3> QED BY <1>1, <2>1, <2>2, <3>2 DEF OutputOK, Legit, Plain
  <2>4. CASE peer # "up"
    BY <1>1, <2>1, <2>2, <2>4 DEF OutputOK
  <2> QED BY <2>3, <2>4
<1>4. CASE WriteFails
  <2>1. /\ back' = back /\ writing' = <<>> /\ writer' = "ended"
        /\ session'.crypt = session.crypt /\ session'.initialized = session.initialized
        /\ session'.recv = session.recv /\ session'.send = session.send /\ ~session'.inWorld
    BY <1>4 DEF WriteFails, Closed, SessionOK
  <2>2. InputOK'
    BY <1>1, <2>1, InputKept
  <2>3. OutputOK'
    BY <1>1, <2>1, EndedOutput
  <2> QED BY <1>1, <2>2, <2>3
<1> QED BY <1>2, <1>3, <1>4 DEF WriteLoop

LEMMA OthersCipher ==
  ASSUME CInv, Broadcast \/ RequestDisconnect
  PROVE  InputOK' /\ OutputOK' /\ ~garbled'
<1> USE Parts DEF CInv
<1>1. /\ UNCHANGED <<client, peer, wire, arrived, inBuffer, header, writing, back, garbled>>
      /\ session.inWorld
  BY DEF Broadcast, RequestDisconnect, stream, history
<1>2. session.crypt /\ ~Plain
  BY <1>1 DEF InputOK, Phase
<1>3. Stream' = Stream
  BY <1>1 DEF Stream
<1>4. /\ session'.initialized = session.initialized /\ session'.recv = session.recv
      /\ session'.crypt /\ session'.send = session.send + 1 /\ writer' = Woken
      /\ queue' = queue \o <<[kind |-> "news", pos |-> session.send]>>
  <2>1. CASE Broadcast
    <3>1. /\ session' = [session EXCEPT !.send = session.send + 1] /\ writer' = Woken
          /\ queue' = queue \o <<[kind |-> "news", pos |-> session.send]>>
      BY <1>2, <2>1 DEF Broadcast, SendPacket, QueueOutgoing
    <3> QED BY <1>2, <3>1 DEF SessionOK
  <2>2. CASE RequestDisconnect
    <3> DEFINE s == [session EXCEPT !.send = session.send + 1]
               p == [kind |-> "news", pos |-> session.send]
    <3>1. /\ session' = [s EXCEPT !.inWorld = FALSE, !.open = FALSE] /\ writer' = Woken
          /\ queue' = Append(queue, p)
      BY <2>2 DEF RequestDisconnect, Closed
    <3>2. /\ s \in [open : BOOLEAN, initialized : BOOLEAN, crypt : BOOLEAN,
                    inWorld : BOOLEAN, send : Nat, recv : Nat]
          /\ s.crypt /\ s.initialized = session.initialized /\ s.recv = session.recv
          /\ s.send = session.send + 1
      BY <1>2 DEF SessionOK
    <3>3. p \in Packet
      BY DEF Packet, Answer, SessionOK
    <3>4. queue' = queue \o <<p>>
      BY <3>1, <3>3, AppendIsConcat DEF QueueOK
    <3> HIDE DEF s, p
    <3>5. /\ session'.initialized = session.initialized /\ session'.recv = session.recv
          /\ session'.crypt /\ session'.send = session.send + 1
      BY <3>1, <3>2
    <3> QED BY <3>1, <3>4, <3>5 DEF p
  <2> QED BY <2>1, <2>2
<1>5. Phase' /\ HeaderOK'
  BY <1>1, <1>2, <1>3, <1>4 DEF InputOK, Phase, Plain, HeaderOK
<1>6. InStep'
  BY <1>1, <1>2, <1>3, <1>4 DEF InputOK, InStep
<1>7. OutputOK'
  <2>1. "news" \in Answer \ {"hello", "challenge"}
    BY DEF Answer
  <2> QED BY <1>1, <1>2, <1>4, <2>1, OutputSent
<1> QED BY <1>1, <1>5, <1>6, <1>7 DEF InputOK

---------------------------------------------------------------------------
\* What a completed read holds is handled before the next read.
ArrivedOK == arrived = <<>> \/ reader = "ready"

LEMMA ArrivedStep == ArrivedOK /\ [Next]_vars => ArrivedOK'
<1> SUFFICES ASSUME ArrivedOK, [Next]_vars PROVE ArrivedOK'
  OBVIOUS
<1> USE DEF ArrivedOK
<1>1. CASE Client
  BY <1>1 DEF Client, ClientRequests, ClientSends, ClientReceives, ClientIsLost, stream
<1>2. CASE ReadLoop
  BY <1>2 DEF ReadLoop, ReadCompletes, ReadFails, HandleRead, Handshake, DecryptHeader, WaitForMore,
       TakePacket, stream
<1>3. CASE WriteLoop \/ Broadcast \/ RequestDisconnect
  BY <1>3 DEF WriteLoop, WriteNext, WriteCompletes, WriteFails, Broadcast, RequestDisconnect, stream
<1>4. CASE UNCHANGED vars
  BY <1>4 DEF vars, stream
<1> QED BY <1>1, <1>2, <1>3, <1>4 DEF Next

LEMMA CipherStep == CInv /\ ArrivedOK /\ [Next]_vars => CInv'
<1> SUFFICES ASSUME CInv, ArrivedOK, [Next]_vars PROVE InputOK' /\ OutputOK' /\ ~garbled'
  BY StepType DEF CInv
<1>1. CASE Client
  BY <1>1, RequestCipher, ReceiveCipher, LostCipher DEF Client
<1>2. CASE ReadLoop
  BY <1>2, ReadLoopCipher, TakeCipher DEF ArrivedOK
<1>3. CASE WriteLoop
  BY <1>3, WriteLoopCipher
<1>4. CASE Broadcast \/ RequestDisconnect
  BY <1>4, OthersCipher
<1>5. CASE UNCHANGED vars
  <2>1. /\ UNCHANGED <<client, peer, header, session, queue, writing, writer, back, garbled>>
        /\ Stream' = Stream
    BY <1>5 DEF vars, stream, output, history, Stream
  <2> QED BY <2>1, InputKept, OutputKept DEF CInv
<1> QED BY <1>1, <1>2, <1>3, <1>4, <1>5 DEF Next

\* Both sides read every header where it was ciphered.
THEOREM CipherSafe == Spec => []CipherInStep
<1>1. Init => CInv /\ ArrivedOK
  BY InitCipher DEF Init, ArrivedOK
<1>2. CInv /\ ArrivedOK /\ [Next]_vars => (CInv /\ ArrivedOK)'
  BY CipherStep, ArrivedStep
<1>3. CInv => CipherInStep
  BY DEF CInv, CipherInStep
<1> QED BY <1>1, <1>2, <1>3, PTL DEF Spec

---------------------------------------------------------------------------
\* A loop ends only when the session is closed, and no close leaves the character
\* in the world.
EndedOK ==
  /\ reader = "ended" => ~session.open
  /\ writer = "ended" => ~session.open
  /\ ~session.open /\ session.inWorld => lateLogin

\* What a handler may do as far as the end of the session is concerned.
LEMMA HandlerEnds ==
  ASSUME SessionOK, EndedOK, NEW kind, ProcessPacket(kind)
  PROVE  /\ ~session.open => ~session'.open
         /\ ~session'.open /\ session'.inWorld => lateLogin'
         /\ writer' = "ended" => writer = "ended"
<1>1. lateLogin' = (lateLogin \/ (kind = "login" /\ ~session.open))
  BY DEF ProcessPacket
<1>2. \A s, k : SendPacket(s, k) => session' = [s EXCEPT !.send = IF s.crypt THEN s.send + 1 ELSE s.send]
                                    /\ writer' = Woken
  BY DEF SendPacket, QueueOutgoing
<1>3. Close => ~session'.open /\ ~session'.inWorld /\ writer' = Woken
  BY DEF Close, Closed, SessionOK
<1>4. CASE kind = "auth"
  <2>1. HandleAuthSession
    BY <1>4 DEF ProcessPacket
  <2>2. CASE SendPacket([session EXCEPT !.crypt = TRUE], "welcome")
    <3> DEFINE s == [session EXCEPT !.crypt = TRUE]
    <3>1. /\ s.open = session.open /\ s.inWorld = session.inWorld
          /\ s \in [open : BOOLEAN, initialized : BOOLEAN, crypt : BOOLEAN,
                    inWorld : BOOLEAN, send : Nat, recv : Nat]
      BY DEF SessionOK
    <3>2. SendPacket(s, "welcome")
      BY <2>2
    <3> HIDE DEF s
    <3>3. session'.open = s.open /\ session'.inWorld = s.inWorld /\ writer' = Woken
      BY <1>2, <3>1, <3>2
    <3> QED BY <1>1, <3>1, <3>3 DEF EndedOK, Woken
  <2>3. CASE /\ session' = Closed([session EXCEPT !.crypt = TRUE])
             /\ writer' = Woken
    <3> DEFINE s == [session EXCEPT !.crypt = TRUE]
    <3>1. s \in [open : BOOLEAN, initialized : BOOLEAN, crypt : BOOLEAN,
                 inWorld : BOOLEAN, send : Nat, recv : Nat]
      BY DEF SessionOK
    <3>2. session' = [s EXCEPT !.inWorld = FALSE, !.open = FALSE]
      BY <2>3 DEF Closed
    <3> HIDE DEF s
    <3>3. ~session'.open /\ ~session'.inWorld
      BY <3>1, <3>2
    <3> QED BY <2>3, <3>3 DEF Woken
  <2> QED BY <1>3, <2>1, <2>2, <2>3 DEF HandleAuthSession, Woken
<1>5. CASE Close
  BY <1>3, <1>5 DEF Woken
<1>6. ASSUME NEW b \in BOOLEAN, NEW k, SendPacket([session EXCEPT !.inWorld = b], k),
             b => kind = "login"
      PROVE  /\ ~session.open => ~session'.open
             /\ ~session'.open /\ session'.inWorld => lateLogin'
             /\ writer' = "ended" => writer = "ended"
  <2> DEFINE s == [session EXCEPT !.inWorld = b]
  <2>1. /\ s.open = session.open /\ s.inWorld = b
        /\ s \in [open : BOOLEAN, initialized : BOOLEAN, crypt : BOOLEAN,
                  inWorld : BOOLEAN, send : Nat, recv : Nat]
    BY DEF SessionOK
  <2>2. SendPacket(s, k)
    BY <1>6
  <2> HIDE DEF s
  <2>3. session'.open = s.open /\ session'.inWorld = s.inWorld /\ writer' = Woken
    BY <1>2, <2>1, <2>2
  <2> QED BY <1>1, <1>6, <2>1, <2>3 DEF Woken, SessionOK
<1>7. ASSUME NEW k, SendPacket(session, k)
      PROVE  /\ ~session.open => ~session'.open
             /\ ~session'.open /\ session'.inWorld => lateLogin'
             /\ writer' = "ended" => writer = "ended"
  <2>1. session'.open = session.open /\ session'.inWorld = session.inWorld /\ writer' = Woken
    BY <1>2, <1>7 DEF SessionOK
  <2> QED BY <1>1, <2>1 DEF EndedOK, Woken
<1>8. CASE UNCHANGED <<session, queue, writer>>
  BY <1>1, <1>8 DEF EndedOK
<1>9. \/ kind = "auth" \/ Close \/ UNCHANGED <<session, queue, writer>>
      \/ \E k : SendPacket(session, k)
      \/ kind = "login" /\ \E k : SendPacket([session EXCEPT !.inWorld = TRUE], k)
      \/ \E k : SendPacket([session EXCEPT !.inWorld = FALSE], k)
  <2>1. CASE kind = "login"
    BY <2>1 DEF ProcessPacket
  <2>2. CASE kind = "logout" /\ session.inWorld
    <3>1. SendPacket([session EXCEPT !.inWorld = FALSE], "left")
      BY <2>2 DEF ProcessPacket
    <3> QED BY <3>1
  <2>3. CASE kind \notin {"auth", "login"} /\ ~(kind = "logout" /\ session.inWorld)
    BY <2>3 DEF ProcessPacket
  <2> QED BY <2>1, <2>2, <2>3
<1> QED BY <1>4, <1>5, <1>6, <1>7, <1>8, <1>9

LEMMA EndedStep == TypeOK /\ EndedOK /\ [Next]_vars => EndedOK'
<1> SUFFICES ASSUME TypeOK, EndedOK, [Next]_vars PROVE EndedOK'
  OBVIOUS
<1> USE Parts
<1>1. CASE Client
  BY <1>1 DEF Client, ClientRequests, ClientSends, ClientReceives, ClientIsLost, stream, output,
       history, EndedOK
<1>2. CASE ReadLoop
  <2>1. CASE ReadCompletes \/ HandleRead
    BY <2>1 DEF ReadCompletes, HandleRead, output, history, EndedOK
  <2>2. CASE ReadFails
    <3>1. ~session'.open /\ ~session'.inWorld
      BY <2>2 DEF ReadFails, Close, Closed, SessionOK
    <3> QED BY <3>1 DEF EndedOK
  <2>3. CASE Handshake
    <3>1. lateLogin' = lateLogin
      BY <2>3 DEF Handshake, history
    <3>2. CASE StopProcessing /\ UNCHANGED <<session, writer>>
      BY <3>1, <3>2 DEF StopProcessing, EndedOK
    <3>3. CASE reader' = "processing" /\ SendPacket([session EXCEPT !.initialized = TRUE], "challenge")
      <4> DEFINE s == [session EXCEPT !.initialized = TRUE]
      <4>1. /\ s.open = session.open /\ s.inWorld = session.inWorld
            /\ s \in [open : BOOLEAN, initialized : BOOLEAN, crypt : BOOLEAN,
                      inWorld : BOOLEAN, send : Nat, recv : Nat]
        BY DEF SessionOK
      <4>2. session' = [s EXCEPT !.send = IF s.crypt THEN s.send + 1 ELSE s.send] /\ writer' = Woken
        BY <3>3 DEF SendPacket, QueueOutgoing
      <4> HIDE DEF s
      <4>3. session'.open = session.open /\ session'.inWorld = session.inWorld
        BY <4>1, <4>2
      <4> QED BY <3>1, <3>3, <4>2, <4>3 DEF EndedOK, Woken
    <3> QED BY <2>3, <3>2, <3>3 DEF Handshake
  <2>4. CASE DecryptHeader
    BY <2>4 DEF DecryptHeader, output, SessionOK, EndedOK
  <2>5. CASE WaitForMore
    BY <2>5 DEF WaitForMore, StopProcessing, output, history, EndedOK
  <2>6. CASE TakePacket
    <3>1. /\ ~session.open => ~session'.open
          /\ ~session'.open /\ session'.inWorld => lateLogin'
          /\ writer' = "ended" => writer = "ended"
      BY <2>6, HandlerEnds DEF TakePacket
    <3>2. reader' = "processing"
      BY <2>6 DEF TakePacket
    <3> QED BY <3>1, <3>2 DEF EndedOK
  <2> QED BY <1>2, <2>1, <2>2, <2>3, <2>4, <2>5, <2>6 DEF ReadLoop
<1>3. CASE WriteLoop
  <2>1. CASE WriteNext \/ WriteCompletes
    BY <2>1 DEF WriteNext, WriteCompletes, history, EndedOK
  <2>2. CASE WriteFails
    <3>1. ~session'.open /\ ~session'.inWorld
      BY <2>2 DEF WriteFails, Closed, SessionOK
    <3> QED BY <3>1 DEF EndedOK
  <2> QED BY <1>3, <2>1, <2>2 DEF WriteLoop
<1>4. CASE Broadcast
  <2>1. /\ session' = [session EXCEPT !.send = IF session.crypt THEN session.send + 1 ELSE session.send]
        /\ writer' = Woken /\ reader' = reader /\ lateLogin' = lateLogin
    BY <1>4 DEF Broadcast, SendPacket, QueueOutgoing
  <2>2. session'.open = session.open /\ session'.inWorld = session.inWorld
    BY <2>1 DEF SessionOK
  <2> QED BY <2>1, <2>2 DEF EndedOK, Woken
<1>5. CASE RequestDisconnect
  <2> DEFINE s == [session EXCEPT !.send = session.send + 1]
  <2>1. session' = [s EXCEPT !.inWorld = FALSE, !.open = FALSE]
    BY <1>5 DEF RequestDisconnect, Closed
  <2>2. s \in [open : BOOLEAN, initialized : BOOLEAN, crypt : BOOLEAN,
               inWorld : BOOLEAN, send : Nat, recv : Nat]
    BY DEF SessionOK
  <2> HIDE DEF s
  <2>3. ~session'.open /\ ~session'.inWorld
    BY <2>1, <2>2
  <2> QED BY <2>3 DEF EndedOK
<1>6. CASE UNCHANGED vars
  BY <1>6 DEF vars, output, history, EndedOK
<1> QED BY <1>1, <1>2, <1>3, <1>4, <1>5, <1>6 DEF Next

\* Whoever ends the session takes its character out of the world, unless a login
\* comes after.
THEOREM LateLoginOnly == Spec => []OnlyLateLoginStays
<1>1. Init => EndedOK
  BY DEF Init, EndedOK
<1>2. EndedOK => OnlyLateLoginStays
  BY DEF EndedOK, OnlyLateLoginStays
<1> QED BY <1>1, <1>2, EndedStep, TypeCorrect, PTL DEF Spec

---------------------------------------------------------------------------
\* Whoever queues or closes wakes the writer; a handler that does neither leaves
\* the queue and the session alone.
LEMMA HandlerWakes ==
  ASSUME NEW kind, ProcessPacket(kind)
  PROVE  writer' # "waiting" \/ UNCHANGED <<session, queue, writer>>
<1>1. Woken # "waiting"
  BY DEF Woken
<1>2. \A s, k : SendPacket(s, k) => writer' = Woken
  BY DEF SendPacket, QueueOutgoing
<1>3. Close => writer' = Woken
  BY DEF Close
<1>4. HandleAuthSession => writer' = Woken
  BY <1>2, <1>3 DEF HandleAuthSession
<1> QED BY <1>1, <1>2, <1>3, <1>4 DEF ProcessPacket

\* The writer sleeps on an empty queue of an open session.
Sleeping == writer = "waiting" => queue = <<>> /\ session.open

LEMMA SleepingStep == TypeOK /\ Sleeping /\ [Next]_vars => Sleeping'
<1> SUFFICES ASSUME TypeOK, Sleeping, [Next]_vars PROVE Sleeping'
  OBVIOUS
<1>0. SessionOK /\ Woken # "waiting"
  BY Parts DEF Woken
<1>1. CASE UNCHANGED <<queue, writer>> /\ session'.open = session.open
  BY <1>1 DEF Sleeping
<1>2. CASE writer' # "waiting"
  BY <1>2 DEF Sleeping
<1>3. CASE UNCHANGED <<queue, writer, session>>
  BY <1>3 DEF Sleeping
<1>4. CASE Client
  BY <1>3, <1>4 DEF Client, ClientRequests, ClientSends, ClientReceives, ClientIsLost, output
<1>5. CASE ReadLoop
  <2>1. CASE ReadCompletes \/ HandleRead \/ WaitForMore
    BY <1>3, <2>1 DEF ReadCompletes, HandleRead, WaitForMore, output
  <2>2. CASE ReadFails
    BY <1>0, <1>2, <2>2 DEF ReadFails, Close
  <2>3. CASE Handshake
    BY <1>0, <1>2, <1>3, <2>3 DEF Handshake, SendPacket, QueueOutgoing
  <2>4. CASE DecryptHeader
    <3>1. session'.open = session.open
      BY <1>0, <2>4 DEF DecryptHeader, SessionOK
    <3> QED BY <1>1, <2>4, <3>1 DEF DecryptHeader, output
  <2>5. CASE TakePacket
    BY <1>2, <1>3, <2>5, HandlerWakes DEF TakePacket
  <2> QED BY <1>5, <2>1, <2>2, <2>3, <2>4, <2>5 DEF ReadLoop
<1>6. CASE WriteLoop
  <2>1. CASE WriteNext
    BY <2>1 DEF WriteNext, Sleeping
  <2>2. CASE WriteCompletes \/ WriteFails
    BY <1>2, <2>2 DEF WriteCompletes, WriteFails
  <2> QED BY <1>6, <2>1, <2>2 DEF WriteLoop
<1>7. CASE Broadcast \/ RequestDisconnect
  BY <1>0, <1>2, <1>7 DEF Broadcast, RequestDisconnect, SendPacket, QueueOutgoing
<1>8. CASE UNCHANGED vars
  BY <1>3, <1>8 DEF vars, output
<1> QED BY <1>4, <1>5, <1>6, <1>7, <1>8 DEF Next

\* No wake-up of the writer is lost, and no loop ends under the other.
THEOREM NoWakeupLost == Spec => []NobodySleepsOnWork
<1>1. Init => EndedOK /\ Sleeping
  BY DEF Init, EndedOK, Sleeping
<1>2. EndedOK /\ Sleeping => NobodySleepsOnWork
  BY DEF EndedOK, Sleeping, NobodySleepsOnWork
<1> QED BY <1>1, <1>2, EndedStep, SleepingStep, TypeCorrect, PTL DEF Spec
=============================================================================
