------------------------------ MODULE LogStream ------------------------------
(***************************************************************************)
(* Log forwarding of SoapyRemote.  In the client, all SoapyLogAcceptors of *)
(* a server share one connection and one thread that relays its messages   *)
(* (client/LogAcceptor.cpp).  In the server, handleLogMessage sends every  *)
(* message to the sockets that subscribed (server/LogForwarding.cpp); the  *)
(* handler of a connection subscribes its socket and takes it away again   *)
(* (server/ClientHandler.cpp).                                             *)
(*                                                                         *)
(* A message is "log", or the "void" that answers every request; what it   *)
(* says is left out.  A socket buffer holds Cap of them, and a send into a *)
(* full one waits.  A connection may be lost inside a message, and with or *)
(* without word of it: no end watches an idle connection.                  *)
(***************************************************************************)
EXTENDS Integers, Sequences, FiniteSets

CONSTANTS
    MaxUsers,   \* the SoapyLogAcceptors of one client, for one server
    MaxConns,   \* bound: connections in a behaviour
    Cap         \* messages that the buffer towards the client holds

ASSUME LogAssumption == MaxUsers \in Nat /\ MaxConns \in Nat \ {0} /\ Cap \in Nat \ {0}

VARIABLES
    useCount,   \* LogAcceptorThreadData::useCount
    mpc,        \* where threadMaintenance is; logMutex is held unless "free"
    done,       \* LogAcceptorThreadData::done
    tpc,        \* the thread: "none" for nullptr, in the "loop" to poll, in "recv",
                \*   or "ended"
    cur,        \* LogAcceptorThreadData::client, 0 for no connection
    refused,    \* history: the last activation found no server
    open,       \* the connections whose descriptor is open in the client
    lost,       \* the connections that the network lost
    cut,        \* how the loss of the current one looks to the client: a message
                \*   that broke off ("torn"), nothing at all ("silent"), or an error
    unseen,     \* the lost connections whose loss the server cannot see
    toServer,   \* requests on their way
    toClient,   \* replies and log messages on their way
    hpc,        \* where the server's handler of each connection is
    sub,        \* subscribers; _logForwarder of a handler in it is not nullptr
    todo,       \* the sockets handleLogMessage has yet to send to
    spoiled     \* history: a reply to START was given up, or mistaken

client == <<useCount, mpc, done, tpc, cur, open, refused, spoiled>>
server == <<hpc, sub, todo>>
network == <<lost, cut, unseen, toServer, toClient>>
vars == <<client, server, network>>

Conns == 1..MaxConns

Unused == {k \in Conns : hpc[k] = "none"}

\* The client cannot use a connection, or the server cannot.
Broken(k) == k \in lost \/ hpc[k] = "gone"
HungUp(k) == k \in lost \/ k \notin open

Init ==
    /\ useCount = 0 /\ mpc = "free" /\ done = TRUE /\ tpc = "none"
    /\ cur = 0 /\ open = {} /\ refused = FALSE /\ lost = {} /\ cut = "none" /\ unseen = {}
    /\ toServer = [k \in Conns |-> <<>>] /\ toClient = [k \in Conns |-> <<>>]
    /\ hpc = [k \in Conns |-> "none"] /\ sub = {} /\ todo = {}
    /\ spoiled = FALSE

-------------------------------------------------------------------------------
(* The client's calls, under logMutex.                                      *)

\* Mutant: the entry is given up whenever a subscriber leaves.
Check_Always(n, thread) == IF thread # "none" THEN "shutdown" ELSE "erase"

\* The end of threadMaintenance.  No subscribers: erase.
Check(n, thread) ==
    IF n > 0 THEN "free" ELSE IF thread # "none" THEN "shutdown" ELSE "erase"

\* The constructor and the destructor of a SoapyLogAcceptor activate the first
\* time, or when an error occurred.
Subscribe ==
    /\ mpc = "free" /\ useCount < MaxUsers
    /\ useCount' = useCount + 1
    /\ mpc' = IF done THEN "activate" ELSE Check(useCount', tpc)
    /\ UNCHANGED <<done, tpc, cur, open, refused, spoiled, server, network>>

Unsubscribe ==
    /\ mpc = "free" /\ useCount > 0
    /\ useCount' = useCount - 1
    /\ mpc' = IF done THEN "activate" ELSE Check(useCount', tpc)
    /\ UNCHANGED <<done, tpc, cur, open, refused, spoiled, server, network>>

\* activate: a new connection replaces the old one, whose descriptor is
\* overwritten and not closed, and forwarding is started up.
Activate ==
    /\ mpc = "activate"
    /\ \E k \in Unused :
          /\ \A j \in Unused : k <= j
          /\ cur' = k /\ open' = open \cup {k}
          /\ toServer' = [toServer EXCEPT ![k] = <<"start">>]
          /\ hpc' = [hpc EXCEPT ![k] = "serve"]
    /\ refused' = FALSE /\ mpc' = "reply" /\ cut' = "none"
    /\ UNCHANGED <<useCount, done, tpc, spoiled, sub, todo, lost, unseen, toClient>>

ActivateFails ==
    /\ mpc = "activate"
    /\ cur' = 0 /\ cut' = "none" /\ refused' = TRUE /\ done' = TRUE /\ mpc' = Check(useCount, tpc)
    /\ UNCHANGED <<useCount, tpc, open, spoiled, server, lost, unseen, toServer, toClient>>

\* Mutant: done is not reset.
ActivateReply_StillDone ==
    /\ mpc = "reply" /\ toClient[cur] # <<>>
    /\ spoiled' = (spoiled \/ Head(toClient[cur]) # "void")
    /\ toClient' = [toClient EXCEPT ![cur] = Tail(@)]
    /\ tpc' = "loop" /\ mpc' = Check(useCount, "loop")
    /\ UNCHANGED <<useCount, done, cur, open, refused, server, lost, cut, unseen, toServer>>

\* Whatever comes first is the reply to START.
ActivateReply ==
    /\ mpc = "reply" /\ toClient[cur] # <<>>
    /\ spoiled' = (spoiled \/ Head(toClient[cur]) # "void")
    /\ toClient' = [toClient EXCEPT ![cur] = Tail(@)]
    /\ done' = FALSE /\ tpc' = "loop" /\ mpc' = Check(useCount, "loop")
    /\ UNCHANGED <<useCount, cur, open, refused, server, lost, cut, unseen, toServer>>

\* No reply in time, or none can come.  Only the wait for its first byte has a
\* timeout.
ActivateTimeout ==
    /\ mpc = "reply" /\ toClient[cur] = <<>> /\ cut # "torn"
    /\ spoiled' = (spoiled \/ ~Broken(cur))
    /\ done' = TRUE /\ mpc' = Check(useCount, tpc)
    /\ UNCHANGED <<useCount, tpc, cur, open, refused, server, network>>

\* Mutant: the thread is not told that it is done, nor the server.
Shutdown_JoinOnly ==
    /\ mpc = "shutdown"
    /\ mpc' = "join"
    /\ UNCHANGED <<useCount, done, tpc, cur, open, refused, spoiled, server, network>>

\* shutdown: stop forwarding, disconnect, tell the thread...  On a connection
\* lost in silence nothing acknowledges the requests, and TCP gives it up.
Shutdown ==
    /\ mpc = "shutdown"
    /\ toServer' = IF cur = 0 \/ cur \in lost THEN toServer
                   ELSE [toServer EXCEPT ![cur] = @ \o <<"stop", "hangup">>]
    /\ cut' = IF cut = "silent" THEN "none" ELSE cut
    /\ done' = TRUE /\ mpc' = "join"
    /\ UNCHANGED <<useCount, tpc, cur, open, refused, spoiled, server, lost, unseen, toClient>>

\* ... and join it.
Join ==
    /\ mpc = "join" /\ tpc = "ended"
    /\ mpc' = "erase"
    /\ UNCHANGED <<useCount, done, tpc, cur, open, refused, spoiled, server, network>>

\* Mutant: the connection is not closed.
EraseEntry_LeftOpen ==
    /\ mpc = "erase"
    /\ cur' = 0 /\ cut' = "none" /\ refused' = FALSE /\ done' = TRUE /\ tpc' = "none" /\ mpc' = "free"
    /\ UNCHANGED <<useCount, open, spoiled, server, lost, unseen, toServer, toClient>>

\* The entry goes, and its socket closes the connection.
EraseEntry ==
    /\ mpc = "erase"
    /\ open' = open \ {cur} /\ cur' = 0 /\ cut' = "none"
    /\ toClient' = [k \in Conns |-> IF k = cur THEN <<>> ELSE toClient[k]]
    /\ refused' = FALSE /\ done' = TRUE /\ tpc' = "none" /\ mpc' = "free"
    /\ UNCHANGED <<useCount, spoiled, server, lost, unseen, toServer>>

-------------------------------------------------------------------------------
(* handlerLoop, the thread that relays the messages.                        *)

Running == tpc \in {"loop", "recv"}

\* selectRecv sees a message, the end of one, or an error...
Poll ==
    /\ tpc = "loop" /\ cur # 0 /\ (toClient[cur] # <<>> \/ (Broken(cur) /\ cut # "silent"))
    /\ tpc' = "recv"
    /\ UNCHANGED <<useCount, mpc, done, cur, open, refused, spoiled, server, network>>

\* ... or nothing, and the loop looks at done.
LoopEnds ==
    /\ tpc = "loop" /\ done
    /\ tpc' = "ended"
    /\ UNCHANGED <<useCount, mpc, done, cur, open, refused, spoiled, server, network>>

\* The receive, which has no timeout and does not look at done.  It waits for
\* ever for the rest of a message that broke off: recv returns 0 in its loop.
Relay ==
    /\ tpc = "recv" /\ toClient[cur] # <<>> /\ Head(toClient[cur]) = "log"
    /\ toClient' = [toClient EXCEPT ![cur] = Tail(@)]
    /\ tpc' = IF done THEN "ended" ELSE "loop"
    /\ UNCHANGED <<useCount, mpc, done, cur, open, refused, spoiled, server, lost, cut, unseen, toServer>>

StopReply ==
    /\ tpc = "recv" /\ toClient[cur] # <<>> /\ Head(toClient[cur]) = "void"
    /\ toClient' = [toClient EXCEPT ![cur] = Tail(@)]
    /\ tpc' = "ended" /\ done' = TRUE
    /\ UNCHANGED <<useCount, mpc, cur, open, refused, spoiled, server, lost, cut, unseen, toServer>>

ReceiveFails ==
    /\ tpc = "recv" /\ toClient[cur] = <<>> /\ Broken(cur) /\ cut = "none"
    /\ tpc' = "ended" /\ done' = TRUE
    /\ UNCHANGED <<useCount, mpc, cur, open, refused, spoiled, server, network>>

-------------------------------------------------------------------------------
(* The server's handler of connection k, and the listener.                  *)

HandlerAt(k, from, to) == hpc[k] = from /\ hpc' = [hpc EXCEPT ![k] = to]

HandlerReceive(k) ==
    /\ toServer[k] # <<>> /\ k \notin lost
    /\ HandlerAt(k, "serve", Head(toServer[k]))
    /\ toServer' = [toServer EXCEPT ![k] = Tail(@)]
    /\ UNCHANGED <<client, sub, todo, lost, cut, unseen, toClient>>

\* The receive fails: what the client sent before it closed may be lost too.
HandlerFails(k) ==
    /\ HungUp(k) /\ k \notin unseen
    /\ HandlerAt(k, "serve", "cleanup")
    /\ toServer' = [toServer EXCEPT ![k] = <<>>]
    /\ UNCHANGED <<client, sub, todo, lost, cut, unseen, toClient>>

\* START: a SoapyLogForwarder, unless there is one, inserts the socket, before
\* the reply is sent.
HandlerStart(k) ==
    /\ k \in sub \/ todo = {}
    /\ HandlerAt(k, "start", "reply")
    /\ sub' = sub \cup {k}
    /\ UNCHANGED <<client, todo, network>>

\* STOP: its destructor takes the socket away.
HandlerStop(k) ==
    /\ k \in sub => todo = {}
    /\ HandlerAt(k, "stop", "reply")
    /\ sub' = sub \ {k}
    /\ UNCHANGED <<client, todo, network>>

\* The result is sent back; HANGUP ends the session.
HandlerReply(k) ==
    /\ ~HungUp(k) /\ Len(toClient[k]) < Cap
    /\ HandlerAt(k, "reply", "serve") \/ HandlerAt(k, "hangup", "cleanup")
    /\ toClient' = [toClient EXCEPT ![k] = Append(@, "void")]
    /\ UNCHANGED <<client, sub, todo, lost, cut, unseen, toServer>>

\* The send fails, or the next receive when TCP has given up the connection.
HandlerReplyFails(k) ==
    /\ HungUp(k)
    /\ HandlerAt(k, "reply", "cleanup") \/ HandlerAt(k, "hangup", "cleanup")
    /\ unseen' = unseen \ {k}
    /\ UNCHANGED <<client, sub, todo, lost, cut, toServer, toClient>>

\* Mutant: the handler leaves without waiting for the logger.
HandlerCleanup_NoLock(k) ==
    /\ HandlerAt(k, "cleanup", "done")
    /\ sub' = sub \ {k}
    /\ UNCHANGED <<client, todo, network>>

\* The destructor of the handler deletes the forwarder.
HandlerCleanup(k) ==
    /\ k \in sub => todo = {}
    /\ HandlerAt(k, "cleanup", "done")
    /\ sub' = sub \ {k}
    /\ UNCHANGED <<client, todo, network>>

\* The listener cleans up completed threads: the socket is deleted and closed.
ListenerReap(k) ==
    /\ HandlerAt(k, "done", "gone")
    /\ UNCHANGED <<client, sub, todo, network>>

-------------------------------------------------------------------------------
(* handleLogMessage, in whatever thread of the server logs; it holds        *)
(* subscribersMutex until it has sent to every subscriber.                  *)

LogBegin ==
    /\ todo = {} /\ sub # {}
    /\ todo' = sub
    /\ UNCHANGED <<client, hpc, sub, network>>

LogSend(k) ==
    /\ ~HungUp(k) /\ Len(toClient[k]) < Cap
    /\ toClient' = [toClient EXCEPT ![k] = Append(@, "log")]
    /\ todo' = todo \ {k}
    /\ UNCHANGED <<client, hpc, sub, lost, cut, unseen, toServer>>

\* A send that fails is ignored.
LogSendFails(k) ==
    /\ HungUp(k)
    /\ todo' = todo \ {k}
    /\ unseen' = unseen \ {k}
    /\ UNCHANGED <<client, hpc, sub, lost, cut, toServer, toClient>>

\* The network loses a connection, with all that is under way: with an error at
\* both ends, inside a message to the client, or in silence, which the client
\* notices when a request of its own is not acknowledged.
ConnLost(k) ==
    /\ k \in open /\ ~Broken(k)
    /\ lost' = lost \cup {k}
    /\ \/ UNCHANGED <<cut, unseen>>
       \/ k = cur /\ toClient[k] # <<>> /\ cut' = "torn" /\ UNCHANGED unseen
       \/ /\ cut' = IF k = cur /\ toServer[k] = <<>> THEN "silent" ELSE cut
          /\ unseen' = unseen \cup {k}
    /\ toServer' = [toServer EXCEPT ![k] = <<>>]
    /\ toClient' = [toClient EXCEPT ![k] = <<>>]
    /\ UNCHANGED <<client, server>>

-------------------------------------------------------------------------------
MaintenanceStep ==
    \/ Activate \/ ActivateFails \/ ActivateReply \/ ActivateTimeout
    \/ Shutdown \/ Join \/ EraseEntry

ThreadStep == Poll \/ LoopEnds \/ Relay \/ StopReply \/ ReceiveFails

HandlerStep(k) ==
    \/ HandlerReceive(k) \/ HandlerFails(k) \/ HandlerStart(k) \/ HandlerStop(k)
    \/ HandlerReply(k) \/ HandlerReplyFails(k) \/ HandlerCleanup(k) \/ ListenerReap(k)

LogStep == \E k \in todo : LogSend(k) \/ LogSendFails(k)

Next ==
    \/ Subscribe \/ Unsubscribe \/ MaintenanceStep \/ ThreadStep
    \/ \E k \in Conns : HandlerStep(k) \/ ConnLost(k)
    \/ LogBegin \/ LogStep

Spec == Init /\ [][Next]_vars

\* Threads that can go on do so.  A handler that waits for subscribersMutex gets
\* it some time, although the next message is logged soon.
FairSpec ==
    /\ Spec
    /\ WF_vars(MaintenanceStep) /\ WF_vars(ThreadStep) /\ WF_vars(LogStep)
    /\ \A k \in Conns : SF_vars(HandlerStep(k))

-------------------------------------------------------------------------------
Requests == {"start", "stop", "hangup"}
Replies == {"log", "void"}

FlagsOK == done \in BOOLEAN /\ refused \in BOOLEAN /\ spoiled \in BOOLEAN

TypeOK ==
    /\ useCount \in 0..MaxUsers /\ cur \in 0..MaxConns
    /\ mpc \in {"free", "activate", "reply", "shutdown", "join", "erase"}
    /\ tpc \in {"none", "loop", "recv", "ended"} /\ cut \in {"none", "torn", "silent"}
    /\ open \subseteq Conns /\ lost \subseteq Conns /\ unseen \subseteq lost /\ sub \subseteq Conns /\ todo \subseteq Conns
    /\ hpc \in [Conns -> {"none", "serve", "start", "stop", "hangup", "reply", "cleanup",
                          "done", "gone"}]
    /\ toServer \in [Conns -> Seq(Requests)] /\ toClient \in [Conns -> Seq(Replies)]
    /\ FlagsOK

\* The logger sends to no socket that was deleted: a handler's socket is
\* subscribed, and sent to, only while the handler exists.
SocketsExist ==
    /\ todo \subseteq sub
    /\ \A k \in sub : hpc[k] \notin {"none", "done", "gone"}

\* activate never starts a second thread next to one that runs: done is set
\* while the thread runs only for the one that waits to join it.
OneThread ==
    /\ Running /\ done => mpc = "join"
    /\ mpc \in {"activate", "reply"} => done

\* The entry has a connection while its thread runs or is about to, and goes
\* only when the last user has left.
EntryInStep ==
    /\ \A k \in Conns : hpc[k] = "none" => toClient[k] = <<>>
    /\ cur # 0 => cur \in open
    /\ mpc = "reply" \/ Running \/ ~done => cur # 0
    /\ cut # "none" => cur \in lost
    /\ mpc \in {"shutdown", "join", "erase"} => useCount = 0
    /\ cur = 0 /\ mpc = "free" => refused \/ useCount = 0

NoReply(q) == \A i \in 1..Len(q) : q[i] = "log"
OneReply(q) == \E i \in 1..Len(q) : q[i] = "void" /\ \A j \in 1..Len(q) : j # i => q[j] = "log"

\* The handler has yet to take START, to subscribe, to reply; or the reply is
\* under way.
Starting(k) ==
    \/ /\ k \notin sub /\ toClient[k] = <<>>
       /\ \/ hpc[k] = "serve" /\ toServer[k] = <<"start">>
          \/ hpc[k] = "start" /\ toServer[k] = <<>>
    \/ /\ k \in sub /\ toServer[k] = <<>>
       /\ \/ hpc[k] = "reply" /\ NoReply(toClient[k])
          \/ hpc[k] = "serve" /\ OneReply(toClient[k])

\* Log messages, and nothing else, come from the server.
Forwarding(k) ==
    k \in sub /\ toServer[k] = <<>> /\ hpc[k] = "serve" /\ NoReply(toClient[k])

\* As long as the replies to START came, the connections left open are lost, and
\* the current one starts or forwards what the thread relays.
InTouch ==
    ~spoiled =>
       /\ open \subseteq lost \cup {cur}
       /\ cur \notin lost \cup {0} =>
             /\ mpc = "reply" => Starting(cur)
             /\ mpc \notin {"reply", "join", "erase"} => Forwarding(cur) /\ Running /\ ~done

\* Client and server keep their threads, sockets and subscriptions in step.
LogInv == TypeOK /\ SocketsExist /\ OneThread /\ EntryInStep /\ InTouch

\* As long as there are users, their messages are relayed, however many users
\* come and go, unless the server was not found, its connection is lost or a
\* reply to START did not come.
Relayed ==
    useCount > 0 /\ mpc = "free" /\ ~refused /\ cur \notin lost /\ ~spoiled
       => Running /\ cur \in sub

\* A client gets no message twice: of the connections that work only one is
\* subscribed, provided the replies to START came.
OneSubscription ==
    ~spoiled => Cardinality({k \in sub : ~HungUp(k)}) <= 1

\* A server thread that logs returns, although it waits for slow clients and
\* keeps the mutex meanwhile, provided the replies to START came.
LoggerReturns == (todo # {}) ~> (todo = {} \/ spoiled)

\* Once the last user has left, the server forgets the client, unless it was lost
\* without a word and nothing was logged to it since.
SubscriptionEnds == (useCount = 0) ~> (sub \subseteq unseen \/ useCount > 0 \/ spoiled)

\* The caller waits for a message whose rest will not come, itself or for the
\* thread that does, with logMutex held.
BrokenOff ==
    \/ mpc = "reply" /\ cut = "torn"
    \/ mpc = "join" /\ tpc = "recv" /\ cut # "none"

\* Constructor and destructor of a SoapyLogAcceptor return, whatever is lost and
\* however late the thread sees it, except from a message that broke off.
CallReturns == (mpc # "free") ~> (mpc = "free" \/ BrokenOff)
===============================================================================
