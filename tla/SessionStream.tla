---------------------------- MODULE SessionStream ----------------------------
(***************************************************************************)
(* One connection of the world server: the client's stream cut into reads, the *)
(* packets found in it, the headers ciphered at a position of a key stream on *)
(* each side, the queue of answers and the writer that drains it, and the end  *)
(* of both loops.  All handlers run on one thread; what they interleave with    *)
(* is the completion of reads and writes and the handlers of other sessions.    *)
(*                                                                            *)
(* The client is the game's: it waits for the answers its next step depends on. *)
(* Closing a socket aborts the operations that wait on it, never one that has  *)
(* completed already and whose handler has yet to run.                          *)
(***************************************************************************)
EXTENDS Integers, Sequences

CONSTANTS
  MaxRequests,   \* bound: packets of a client after its authentication
  MaxNews,       \* bound: packets other sessions send to this one
  NoHeader

VARIABLES
  client,     \* its stage, its positions in the two key streams, requests left
  peer,       \* "up", "closed" (the server's socket was told), "silent"
  wire,       \* parts of packets on the way to the server
  arrived,    \* parts a completed read holds
  inBuffer,   \* _inBuffer
  header,     \* _decHeader, if _headerDecrypted
  reader,     \* where ReadLoop is
  session,    \* flags and key stream positions of the session
  queue,      \* _writeQueue
  writing,    \* packets in AsyncWrite
  writer,     \* where WriteLoop is
  back,       \* packets on the way to the client
  news,       \* history: packets of other sessions
  garbled,    \* history: a header was read at the wrong position of its key stream
  lateLogin   \* history: a login was handled after the socket was closed

stream == <<wire, arrived, inBuffer, header>>
output == <<queue, writing, writer>>
history == <<news, garbled, lateLogin>>
vars == <<client, peer, stream, reader, session, output, back, history>>

Request == {"list", "login", "logout", "query", "bye"}
Kind == {"init", "auth"} \cup Request
HasBody == {"init", "auth", "login", "query"}
Answer == {"hello", "challenge", "welcome", "chars", "world", "left", "reply", "news"}

ASSUME StreamAssumption == MaxRequests \in Nat /\ MaxNews \in Nat /\ NoHeader \notin Kind

\* A packet is cut into parts; the two parts of a header share a position of the
\* key stream, 0 for a plain one.
Part == [kind : Kind, part : {"size", "opcode", "body"}, pos : Nat]
Packet == [kind : Answer, pos : Nat]

Cut(kind, pos) ==
  LET part(p) == [kind |-> kind, part |-> p, pos |-> pos]
  IN IF kind = "init" THEN <<part("size"), part("body")>>
     ELSE <<part("size"), part("opcode")>> \o IF kind \in HasBody THEN <<part("body")>> ELSE <<>>

TypeOK ==
  /\ client \in [stage : {"new", "init", "auth", "list", "chars", "enter", "world", "leave", "bye"},
                 send : Nat, recv : Nat, left : 0 .. MaxRequests]
  /\ peer \in {"up", "closed", "silent"}
  /\ wire \in Seq(Part) /\ arrived \in Seq(Part) /\ inBuffer \in Seq(Part)
  /\ header \in Kind \cup {NoHeader}
  /\ reader \in {"reading", "ready", "processing", "ended"}
  /\ session \in [open : BOOLEAN, initialized : BOOLEAN, crypt : BOOLEAN,
                  inWorld : BOOLEAN, send : Nat, recv : Nat]
  /\ queue \in Seq(Packet) /\ writing \in Seq(Packet) /\ back \in Seq(Packet)
  /\ writer \in {"running", "waiting", "writing", "ended"}
  /\ news \in 0 .. MaxNews /\ garbled \in BOOLEAN /\ lateLogin \in BOOLEAN

\* WorldSession::Start: the first packet is queued, both loops run.
Init ==
  /\ client = [stage |-> "new", send |-> 1, recv |-> 1, left |-> MaxRequests]
  /\ peer = "up"
  /\ wire = <<>> /\ arrived = <<>> /\ inBuffer = <<>> /\ header = NoHeader
  /\ reader = "reading"
  /\ session = [open |-> TRUE, initialized |-> FALSE, crypt |-> FALSE,
                inWorld |-> FALSE, send |-> 1, recv |-> 1]
  /\ queue = <<[kind |-> "hello", pos |-> 0]>>
  /\ writing = <<>> /\ writer = "running" /\ back = <<>>
  /\ news = 0 /\ garbled = FALSE /\ lateLogin = FALSE

\* No other handler runs while a read is being processed.
Idle == reader # "processing"

---------------------------------------------------------------------------
\* The client.
ClientSends(kind, crypted) ==
  /\ peer = "up"
  /\ wire' = wire \o Cut(kind, IF crypted THEN client.send ELSE 0)
  /\ UNCHANGED <<peer, arrived, inBuffer, header, reader, session, output, back, history>>

ClientRequests(kind) ==
  /\ client.left > 0
  /\ CASE kind = "query"  -> client.stage \in {"list", "chars", "world"}
       [] kind = "list"   -> client.stage = "list"
       [] kind = "login"  -> client.stage = "chars"
       [] kind = "logout" -> client.stage = "world"
       [] kind = "bye"    -> client.stage \in {"chars", "world"}
  /\ ClientSends(kind, TRUE)
  /\ client' = [client EXCEPT !.send = @ + 1, !.left = @ - 1,
                  !.stage = CASE kind = "login" -> "enter" [] kind = "logout" -> "leave"
                              [] kind = "bye" -> "bye" [] OTHER -> @]

\* It reads a packet; the handshake is answered, the rest lets it go on.
ClientReceives ==
  LET p == Head(back)
      stage == CASE p.kind = "hello" -> "init" [] p.kind = "challenge" -> "auth"
                 [] p.kind = "welcome" -> "list" [] p.kind \in {"chars", "left"} -> "chars"
                 [] p.kind = "world" -> "world" [] OTHER -> client.stage
  IN
  /\ peer = "up" /\ back # <<>>
  /\ back' = Tail(back)
  /\ garbled' = (garbled \/ p.pos # IF client.stage \in {"new", "init"} THEN 0 ELSE client.recv)
  /\ client' = [client EXCEPT !.recv = IF p.pos = 0 THEN @ ELSE @ + 1,
                              !.stage = IF @ = "bye" THEN @ ELSE stage]
  /\ wire' = CASE p.kind = "hello" -> wire \o Cut("init", 0)
               [] p.kind = "challenge" -> wire \o Cut("auth", 0)
               [] OTHER -> wire
  /\ UNCHANGED <<peer, arrived, inBuffer, header, reader, session, output, news, lateLogin>>

ClientIsLost ==
  /\ peer = "up"
  /\ peer' \in {"closed", "silent"}
  /\ UNCHANGED <<client, stream, reader, session, output, back, history>>

---------------------------------------------------------------------------
\* Cancelling the timer wakes a writer that waits on it.
Woken == IF writer = "waiting" THEN "running" ELSE writer

\* MUTANT: a packet is queued without waking the writer.
QueueOutgoing_NoCancel(packets) ==
  /\ queue' = queue \o packets
  /\ UNCHANGED writer

QueueOutgoing(packets) ==
  /\ queue' = queue \o packets
  /\ writer' = Woken

\* The header is ciphered here, not when it is written.
SendPacket(s, kind) ==
  /\ QueueOutgoing(<<[kind |-> kind, pos |-> IF s.crypt THEN s.send ELSE 0]>>)
  /\ session' = [s EXCEPT !.send = IF s.crypt THEN @ + 1 ELSE @]

\* MUTANT: the character stays in the world.
Closed_StaysInWorld(s) == [s EXCEPT !.open = FALSE]

\* Close: out of the world, the timer cancelled, the socket closed.
Closed(s) == [s EXCEPT !.inWorld = FALSE, !.open = FALSE]

Close ==
  /\ session' = Closed(session)
  /\ writer' = Woken
  /\ UNCHANGED queue

\* The account and its key may be unknown; the ciphers are set up before the
\* digest and the realm's gate are looked at.
HandleAuthSession ==
  \/ SendPacket([session EXCEPT !.crypt = TRUE], "welcome")
  \/ Close
  \/ /\ session' = Closed([session EXCEPT !.crypt = TRUE])
     /\ writer' = Woken
     /\ UNCHANGED queue

ProcessPacket(kind) ==
  /\ lateLogin' = (lateLogin \/ (kind = "login" /\ ~session.open))
  /\ CASE kind = "auth"   -> HandleAuthSession
       [] kind = "list"   -> SendPacket(session, "chars")
       [] kind = "login"  -> \/ SendPacket([session EXCEPT !.inWorld = TRUE], "world")
                             \/ Close
       [] kind = "logout" /\ session.inWorld ->
                             SendPacket([session EXCEPT !.inWorld = FALSE], "left")
       [] kind = "query"  -> SendPacket(session, "reply")
       [] kind = "bye"    -> Close
       [] OTHER           -> UNCHANGED <<session, queue, writer>>

---------------------------------------------------------------------------
\* ReadLoop.
ReadCompletes ==
  /\ reader = "reading" /\ session.open /\ wire # <<>>
  /\ \E n \in 1 .. Len(wire) :
       /\ arrived' = SubSeq(wire, 1, n)
       /\ wire' = SubSeq(wire, n + 1, Len(wire))
  /\ reader' = "ready"
  /\ UNCHANGED <<client, peer, inBuffer, header, session, output, back, history>>

\* MUTANT: the reader ends without closing the session.
ReadFails_NoClose ==
  /\ reader = "reading" /\ (~session.open \/ peer = "closed")
  /\ reader' = "ended"
  /\ UNCHANGED <<client, peer, stream, session, output, back, history>>

\* Aborted, reset, or the end of the stream.
ReadFails ==
  /\ reader = "reading"
  /\ ~session.open \/ peer = "closed"
  /\ reader' = "ended"
  /\ Close
  /\ UNCHANGED <<client, peer, stream, writing, back, history>>

HandleRead ==
  /\ reader = "ready"
  /\ inBuffer' = inBuffer \o arrived
  /\ arrived' = <<>>
  /\ reader' = "processing"
  /\ UNCHANGED <<client, peer, wire, header, session, output, back, history>>

\* The buffer holds no whole packet; a closed session reads no further.
StopProcessing ==
  reader' = IF session.open THEN "reading" ELSE "ended"

Handshake ==
  /\ reader = "processing" /\ ~session.initialized
  /\ IF Len(inBuffer) < 2
     THEN /\ StopProcessing
          /\ UNCHANGED <<inBuffer, session, queue, writer>>
     ELSE /\ inBuffer' = SubSeq(inBuffer, 3, Len(inBuffer))
          /\ SendPacket([session EXCEPT !.initialized = TRUE], "challenge")
          /\ UNCHANGED reader
  /\ UNCHANGED <<client, peer, wire, arrived, header, writing, back, history>>

DecryptHeader ==
  /\ reader = "processing" /\ session.initialized
  /\ Len(inBuffer) >= 2 /\ header = NoHeader
  /\ header' = inBuffer[1].kind
  /\ garbled' = (garbled \/ inBuffer[1].pos # IF session.crypt THEN session.recv ELSE 0)
  /\ session' = [session EXCEPT !.recv = IF session.crypt THEN @ + 1 ELSE @]
  /\ UNCHANGED <<client, peer, wire, arrived, inBuffer, reader, output, back, news, lateLogin>>

Size(kind) == Len(Cut(kind, 0))

\* MUTANT: that the header was decrypted is forgotten until the next read.
WaitForMore_Forgets ==
  /\ reader = "processing" /\ session.initialized
  /\ IF header = NoHeader THEN Len(inBuffer) < 2 ELSE Len(inBuffer) < Size(header)
  /\ StopProcessing
  /\ header' = NoHeader
  /\ UNCHANGED <<client, peer, wire, arrived, inBuffer, session, output, back, history>>

WaitForMore ==
  /\ reader = "processing" /\ session.initialized
  /\ IF header = NoHeader THEN Len(inBuffer) < 2 ELSE Len(inBuffer) < Size(header)
  /\ StopProcessing
  /\ UNCHANGED <<client, peer, stream, session, output, back, history>>

\* The packet leaves the buffer, then its handler runs, also after a close.
TakePacket ==
  /\ reader = "processing" /\ session.initialized
  /\ header # NoHeader
  /\ Len(inBuffer) >= Size(header)
  /\ inBuffer' = SubSeq(inBuffer, Size(header) + 1, Len(inBuffer))
  /\ header' = NoHeader
  /\ ProcessPacket(header)
  /\ UNCHANGED <<client, peer, wire, arrived, reader, writing, back, news, garbled>>

---------------------------------------------------------------------------
\* WriteLoop.  Looking at the queue and going to wait is one step.
WriteNext ==
  /\ writer = "running" /\ Idle
  /\ \/ /\ queue # <<>>
        /\ writing' = <<Head(queue)>>
        /\ queue' = Tail(queue)
        /\ writer' = "writing"
     \/ /\ queue = <<>>
        /\ writer' = IF session.open THEN "waiting" ELSE "ended"
        /\ UNCHANGED <<queue, writing>>
  /\ UNCHANGED <<client, peer, stream, reader, session, back, history>>

\* What is written to a client that is lost may be taken by the socket.
WriteCompletes ==
  /\ writer = "writing" /\ Idle /\ session.open
  /\ back' = IF peer = "up" THEN back \o writing ELSE back
  /\ writing' = <<>>
  /\ writer' = "running"
  /\ UNCHANGED <<client, peer, stream, reader, session, queue, history>>

WriteFails ==
  /\ writer = "writing" /\ Idle
  /\ ~session.open \/ peer # "up"
  /\ session' = Closed(session)
  /\ writing' = <<>>
  /\ writer' = "ended"
  /\ UNCHANGED <<client, peer, stream, reader, queue, back, history>>

---------------------------------------------------------------------------
\* Handlers of other sessions: what happens around the character, and .kick,
\* which finds it in the registry of those in the world.
Broadcast ==
  /\ Idle /\ session.inWorld /\ news < MaxNews
  /\ news' = news + 1
  /\ SendPacket(session, "news")
  /\ UNCHANGED <<client, peer, stream, reader, writing, back, garbled, lateLogin>>

RequestDisconnect ==
  /\ Idle /\ session.inWorld
  /\ queue' = Append(queue, [kind |-> "news", pos |-> session.send])
  /\ session' = Closed([session EXCEPT !.send = @ + 1])
  /\ writer' = Woken
  /\ UNCHANGED <<client, peer, stream, reader, writing, back, history>>

Client == (\E k \in Request : ClientRequests(k)) \/ ClientReceives \/ ClientIsLost
ReadLoop ==
  ReadCompletes \/ ReadFails \/ HandleRead \/ Handshake \/ DecryptHeader \/ WaitForMore \/ TakePacket
WriteLoop == WriteNext \/ WriteCompletes \/ WriteFails

Next == Client \/ ReadLoop \/ WriteLoop \/ Broadcast \/ RequestDisconnect

Spec == Init /\ [][Next]_vars
\* Operations that can complete do, and their handlers run.
FairSpec == Spec /\ WF_vars(ReadLoop) /\ WF_vars(WriteLoop)

---------------------------------------------------------------------------
\* Every header, in either direction, is read at the position of the key stream
\* it was ciphered at, however the stream is cut into reads, whatever waits in
\* the queue and whoever else sends; the two directions start with the first
\* packet after CMSG_AUTH_SESSION.
CipherInStep == ~garbled

\* A session outlives both its loops inside the world only if a login was
\* handled after its socket was closed: every other close, by the reader, the
\* writer, a handler or another session, takes the character out of the world.
OnlyLateLoginStays ==
  reader = "ended" /\ writer = "ended" /\ session.inWorld => lateLogin

\* No wake-up is lost: the writer sleeps only when the queue is empty and the
\* session open, whichever handler has queued or closed since it looked, and no
\* loop ends under a session that goes on with the other (WriteLoop, ReadLoop).
NobodySleepsOnWork ==
  /\ writer = "waiting" => queue = <<>> /\ session.open
  /\ reader = "ended" \/ writer = "ended" => ~session.open

\* What is queued for a client that is there is written, or the session closes.
QueueDrains == queue # <<>> ~> queue = <<>> \/ ~session.open

\* A session that is closed, or whose client closed the connection, ends both
\* loops; a client that falls silent is not noticed.
LoopsEnd ==
  ~session.open \/ peer = "closed" ~> reader = "ended" /\ writer = "ended" /\ ~session.open
=============================================================================
