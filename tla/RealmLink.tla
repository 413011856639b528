------------------------------ MODULE RealmLink ------------------------------
(***************************************************************************)
(* Whether the login server lists a realm as online.  Each world process    *)
(* runs a thread (RunRealmLinkOutbound) that connects to the auth server,   *)
(* sends a handshake with its realm id and then only keeps the connection   *)
(* open; the auth server claims the realm for the connection                *)
(* (RealmLinkSession, RealmLiveRegistry) and gives it up when it sees the   *)
(* connection end.  Worlds and auth may stop, be killed and restart at any  *)
(* time, and the two ends of a connection learn of that at different times. *)
(*                                                                          *)
(* The auth server runs on one thread, so a session step up to its next     *)
(* co_await is one action.  A world that dies resets its connection: the    *)
(* operating system tells the other end sooner or later.                    *)
(***************************************************************************)
EXTENDS Naturals

CONSTANTS
  Realm, World,
  RealmOf,      \* RealmLink.RealmId of each world
  TokenOk,      \* worlds whose RealmLink.Token is the auth server's
  Conn, Owner,  \* connection slots, each used by one world over and over
  NoConn

ASSUME RealmLinkAssumption ==
  /\ RealmOf \in [World -> Realm]
  /\ TokenOk \subseteq World
  /\ Owner \in [Conn -> World]
  /\ NoConn \notin Conn

VARIABLES
  thread,    \* the outbound thread of each world
  stop,      \* stopRealmLink
  current,   \* the connection whose client end the thread holds
  server,    \* the auth server's end of each connection
  unread,    \* pieces of the handshake still on the wire (it may be split)
  ack,       \* the ack byte on the wire
  authUp,
  connected  \* RealmLiveRegistry::m_connected

wvars == <<thread, stop, current>>
cvars == <<server, unread, ack>>
linkVars == <<wvars, cvars, authUp, connected>>

Pieces == 2
Registered == {"acking", "live"}   \* server ends with _registered set

LinkTypeOK ==
  /\ thread \in [World -> {"down", "connect", "handshake", "linked", "backoff"}]
  /\ stop \in [World -> BOOLEAN]
  /\ current \in [World -> Conn \cup {NoConn}]
  /\ server \in [Conn -> {"reading", "refusing", "closed"} \cup Registered]
  /\ unread \in [Conn -> 0 .. Pieces]
  /\ ack \in [Conn -> {"none", "ok", "reject"}]
  /\ authUp \in BOOLEAN
  /\ connected \in [Realm -> BOOLEAN]

LinkInit ==
  /\ thread = [w \in World |-> "down"]
  /\ stop = [w \in World |-> FALSE]
  /\ current = [w \in World |-> NoConn]
  /\ server = [k \in Conn |-> "closed"]
  /\ unread = [k \in Conn |-> 0]
  /\ ack = [k \in Conn |-> "none"]
  /\ authUp = TRUE
  /\ connected = [r \in Realm |-> FALSE]

ClientOpen(k) == current[Owner[k]] = k
RealmAt(k) == RealmOf[Owner[k]]

---------------------------------------------------------------------------
\* The world's thread.  Leaving an iteration destroys its socket and what it
\* had not read.
ThreadTo(w, next) ==
  /\ thread' = [thread EXCEPT ![w] = next]
  /\ current' = [current EXCEPT ![w] = NoConn]
  /\ ack' = [k \in Conn |-> IF k = current[w] THEN "none" ELSE ack[k]]

StartWorld(w) ==
  /\ thread[w] = "down"
  /\ ThreadTo(w, "connect")
  /\ UNCHANGED <<stop, server, unread, authUp, connected>>

Connect(w, k) ==
  /\ thread[w] = "connect" /\ ~stop[w] /\ authUp
  /\ Owner[k] = w /\ server[k] = "closed"
  /\ thread' = [thread EXCEPT ![w] = "handshake"]
  /\ current' = [current EXCEPT ![w] = k]
  /\ server' = [server EXCEPT ![k] = "reading"]
  /\ unread' = [unread EXCEPT ![k] = Pieces]
  /\ UNCHANGED <<stop, ack, authUp, connected>>

\* Nothing listens: boost::asio::connect throws, and the thread sleeps 2 s.
ConnectFails(w) ==
  /\ thread[w] = "connect" /\ ~stop[w] /\ ~authUp
  /\ ThreadTo(w, "backoff")
  /\ UNCHANGED <<stop, server, unread, authUp, connected>>

BackoffEnds(w) ==
  /\ thread[w] = "backoff"
  /\ ThreadTo(w, "connect")
  /\ UNCHANGED <<stop, server, unread, authUp, connected>>

\* A rejection and a lost connection throw inside the coroutine, which was
\* spawned detached: the exception goes nowhere and the loop starts over.
ReadAck(w) ==
  /\ thread[w] = "handshake" /\ ack[current[w]] # "none"
  /\ IF ack[current[w]] = "ok"
     THEN /\ thread' = [thread EXCEPT ![w] = "linked"]
          /\ ack' = [ack EXCEPT ![current[w]] = "none"]
          /\ UNCHANGED current
     ELSE ThreadTo(w, "connect")
  /\ UNCHANGED <<stop, server, unread, authUp, connected>>

\* The end of the stream is read, or a ping is written to a closed socket.
LinkBroken(w) ==
  /\ thread[w] \in {"handshake", "linked"} /\ server[current[w]] = "closed"
  /\ thread[w] = "handshake" => ack[current[w]] = "none"
  /\ ThreadTo(w, "connect")
  /\ UNCHANGED <<stop, server, unread, authUp, connected>>

RequestStop(w) ==
  /\ thread[w] # "down" /\ ~stop[w]
  /\ stop' = [stop EXCEPT ![w] = TRUE]
  /\ UNCHANGED <<thread, current, cvars, authUp, connected>>

\* MUTANT: the linked loop waits for its connection to end.
NoticeStop_OnlyAtTop(w) ==
  /\ stop[w] /\ thread[w] = "connect"
  /\ ThreadTo(w, "down")
  /\ stop' = [stop EXCEPT ![w] = FALSE]
  /\ UNCHANGED <<server, unread, authUp, connected>>

\* The flag is read between iterations and every 250 ms while linked; then the
\* thread is joined and the process exits.
NoticeStop(w) ==
  /\ stop[w] /\ thread[w] \in {"connect", "linked"}
  /\ ThreadTo(w, "down")
  /\ stop' = [stop EXCEPT ![w] = FALSE]
  /\ UNCHANGED <<server, unread, authUp, connected>>

Kill(w) ==
  /\ thread[w] # "down"
  /\ ThreadTo(w, "down")
  /\ stop' = [stop EXCEPT ![w] = FALSE]
  /\ UNCHANGED <<server, unread, authUp, connected>>

---------------------------------------------------------------------------
\* The auth server.  A connection is read from as soon as it is established.
tryConsumeHandshake(k) ==
  IF Owner[k] \in TokenOk /\ ~connected[RealmAt(k)]
  THEN /\ connected' = [connected EXCEPT ![RealmAt(k)] = TRUE]
       /\ server' = [server EXCEPT ![k] = "acking"]
  ELSE /\ server' = [server EXCEPT ![k] = "refusing"]
       /\ UNCHANGED connected

\* One read returns one or more pieces; the handshake is judged when complete.
ReadHandshake(k) ==
  /\ server[k] = "reading"
  /\ \E n \in 1 .. unread[k] :
       /\ unread' = [unread EXCEPT ![k] = @ - n]
       /\ IF n = unread[k] THEN tryConsumeHandshake(k)
          ELSE UNCHANGED <<server, connected>>
  /\ UNCHANGED <<wvars, ack, authUp>>

\* MUTANT: every session that ends releases its realm.
OnDisconnect_Always(k) ==
  connected' = [connected EXCEPT ![RealmAt(k)] = FALSE]

\* MUTANT: only an established link releases the realm.
OnDisconnect_OnlyLive(k) ==
  connected' = IF server[k] = "live"
               THEN [connected EXCEPT ![RealmAt(k)] = FALSE] ELSE connected

OnDisconnect(k) ==
  connected' = IF server[k] \in Registered
               THEN [connected EXCEPT ![RealmAt(k)] = FALSE] ELSE connected

SessionEnds(k) ==
  /\ OnDisconnect(k)
  /\ server' = [server EXCEPT ![k] = "closed"]
  /\ unread' = [unread EXCEPT ![k] = 0]

\* The ack is written while other sessions run; writing to a world that has
\* gone may fail, or succeed into a connection nobody reads.
Acknowledge(k, value) ==
  ack' = IF ClientOpen(k) THEN [ack EXCEPT ![k] = value] ELSE ack

SendAck(k) ==
  /\ \/ /\ server[k] = "acking"
        /\ Acknowledge(k, "ok")
        /\ server' = [server EXCEPT ![k] = "live"]
        /\ UNCHANGED <<unread, connected>>
     \/ /\ server[k] = "refusing"
        /\ Acknowledge(k, "reject")
        /\ SessionEnds(k)
  /\ UNCHANGED <<wvars, authUp>>

SendAckFails(k) ==
  /\ server[k] \in {"acking", "refusing"} /\ ~ClientOpen(k)
  /\ SessionEnds(k)
  /\ UNCHANGED <<wvars, ack, authUp>>

\* A closed client end ends the read loop, before or after what it had sent.
ReadEnds(k) ==
  /\ server[k] \in {"reading", "live"} /\ ~ClientOpen(k)
  /\ SessionEnds(k)
  /\ UNCHANGED <<wvars, ack, authUp>>

\* The auth process ends, in order or not; its registry is in memory.
AuthStops ==
  /\ authUp
  /\ authUp' = FALSE
  /\ connected' = [r \in Realm |-> FALSE]
  /\ server' = [k \in Conn |-> "closed"]
  /\ unread' = [k \in Conn |-> 0]
  /\ UNCHANGED <<wvars, ack>>

AuthStarts == ~authUp /\ authUp' = TRUE /\ UNCHANGED <<wvars, cvars, connected>>

---------------------------------------------------------------------------
ThreadStep(w) ==
  \/ \E k \in Conn : Connect(w, k)
  \/ ConnectFails(w) \/ BackoffEnds(w) \/ ReadAck(w) \/ LinkBroken(w)
  \/ NoticeStop(w)

SessionStep(k) ==
  ReadHandshake(k) \/ SendAck(k) \/ SendAckFails(k) \/ ReadEnds(k)

LinkNext ==
  \/ \E w \in World : ThreadStep(w) \/ StartWorld(w) \/ RequestStop(w) \/ Kill(w)
  \/ \E k \in Conn : SessionStep(k)
  \/ AuthStops \/ AuthStarts

LinkSpec == LinkInit /\ [][LinkNext]_linkVars

\* Every running thread and every session is scheduled; nothing says that a
\* server is started, stopped or killed.
Fairness ==
  /\ \A w \in World : WF_linkVars(ThreadStep(w))
  /\ \A k \in Conn : WF_linkVars(SessionStep(k))
FairLinkSpec == LinkSpec /\ Fairness

---------------------------------------------------------------------------
\* What players see: RealmListService::GetRealmList merges the registry.
ListedOnline(r) == connected[r]

Holds(k, r) == server[k] \in Registered /\ RealmAt(k) = r

\* A realm is marked exactly while one session holds it, and never while two
\* do (RealmLiveRegistry.h: at most one live realm-link per realm id), in
\* whatever order a dead world's connection and its successor's are handled.
ClaimHeldOnce ==
  \A r \in Realm :
    /\ connected[r] <=> \E k \in Conn : Holds(k, r)
    /\ \A k, l \in Conn : Holds(k, r) /\ Holds(l, r) => k = l

\* A world that believes in a link the auth server still has is listed, and no
\* other world of its realm believes the same (RunRealmLinkOutbound).
LinkIsExclusive ==
  \A w \in World :
    (thread[w] = "linked" /\ server[current[w]] # "closed") =>
      /\ ListedOnline(RealmOf[w])
      /\ \A v \in World :
           (/\ RealmOf[v] = RealmOf[w] /\ thread[v] = "linked"
            /\ server[current[v]] # "closed") => v = w

\* A thread that waits for its ack is answered: the ack is there, the session it
\* waits for is about to send it or has something left to read, or the connection
\* has ended.  Whatever the auth server did meanwhile, it is not a session that
\* has acknowledged already (OutboundLinkSession, which waits without a timeout).
AckIsComing ==
  \A w \in World : thread[w] = "handshake" =>
    \/ ack[current[w]] # "none"
    \/ server[current[w]] \in {"acking", "refusing", "closed"}
    \/ server[current[w]] = "reading" /\ unread[current[w]] > 0

\* A realm without a world is not shown online for ever (OnDisconnect).
DeadRealmGoesOffline ==
  \A r \in Realm :
    []<>(\/ ~ListedOnline(r)
         \/ \E w \in TokenOk : RealmOf[w] = r /\ thread[w] # "down")

Serving(w) == authUp /\ thread[w] # "down" /\ ~stop[w]
Alone(w) == \A v \in TokenOk \ {w} : RealmOf[v] = RealmOf[w] => thread[v] = "down"

\* A world that keeps running, with its auth server and without a rival, comes
\* to be linked and listed and stays so, whatever earlier connections have left
\* behind.
ServingRealmComesOnline ==
  \A w \in TokenOk :
    <>[](Serving(w) /\ Alone(w))
      => <>[](thread[w] = "linked" /\ ListedOnline(RealmOf[w]))

\* Shutting a world down ends its thread, which the main thread joins.
StopEndsThread == \A w \in World : stop[w] ~> thread[w] = "down"
=============================================================================
