--------------------------- MODULE LogStream_proofs ---------------------------
(***************************************************************************)
(* Proofs about LogStream: for any number of users, connections and        *)
(* messages, the users of a server share one subscription that lasts as    *)
(* long as there are any, and the server sends to no socket that is gone.  *)
(***************************************************************************)
EXTENDS LogStream, FiniteSetTheorems, TLAPS

USE LogAssumption

-------------------------------------------------------------------------------
(* Where the reply is among the messages that are under way.                *)

\* Append and Tail, position by position.
LEMMA Appended ==
  ASSUME NEW S, NEW q \in Seq(S), NEW x \in S
  PROVE  /\ Append(q, x) \in Seq(S) /\ Len(Append(q, x)) = Len(q) + 1 /\ Len(q) \in Nat
         /\ Append(q, x)[Len(q) + 1] = x
         /\ \A i \in 1..Len(q) : Append(q, x)[i] = q[i]
  OBVIOUS

\* See above.
LEMMA Tailed ==
  ASSUME NEW S, NEW q \in Seq(S), q # <<>>
  PROVE  /\ Tail(q) \in Seq(S) /\ Len(Tail(q)) = Len(q) - 1 /\ Len(q) \in Nat \ {0}
         /\ Head(q) = q[1] /\ Head(q) \in S
         /\ \A i \in 1..(Len(q) - 1) : Tail(q)[i] = q[i + 1]
  OBVIOUS

\* A log message that is sent is not a reply, and a reply is one.
LEMMA SentReplies ==
  ASSUME NEW q \in Seq(Replies)
  PROVE  /\ NoReply(q) => NoReply(Append(q, "log")) /\ OneReply(Append(q, "void"))
         /\ OneReply(q) => OneReply(Append(q, "log"))
  <1>1. /\ Len(Append(q, "log")) = Len(q) + 1 /\ Append(q, "log")[Len(q) + 1] = "log"
        /\ \A i \in 1..Len(q) : Append(q, "log")[i] = q[i]
        /\ Len(q) \in Nat
    BY Appended DEF Replies
  <1>2. /\ Len(Append(q, "void")) = Len(q) + 1 /\ Append(q, "void")[Len(q) + 1] = "void"
        /\ \A i \in 1..Len(q) : Append(q, "void")[i] = q[i]
    BY Appended DEF Replies
  <1>3. \A i \in 1..(Len(q) + 1) : i \in 1..Len(q) \/ i = Len(q) + 1
    BY <1>1
  <1>4. 1..Len(q) \subseteq 1..(Len(q) + 1) /\ Len(q) + 1 \in 1..(Len(q) + 1)
    BY <1>1
  <1>5. NoReply(q) => NoReply(Append(q, "log"))
    BY <1>1, <1>3 DEF NoReply
  <1>6. NoReply(q) => OneReply(Append(q, "void"))
    BY <1>2, <1>3, <1>4 DEF NoReply, OneReply
  <1>7. OneReply(q) => OneReply(Append(q, "log"))
    BY <1>1, <1>3, <1>4 DEF OneReply
  <1> QED  BY <1>5, <1>6, <1>7

\* What is left when the first message is taken.
LEMMA TakenReplies ==
  ASSUME NEW q \in Seq(Replies), q # <<>>
  PROVE  /\ NoReply(q) => Head(q) = "log" /\ NoReply(Tail(q))
         /\ OneReply(q) /\ Head(q) = "void" => NoReply(Tail(q))
  <1>1. /\ Len(Tail(q)) = Len(q) - 1 /\ Len(q) \in Nat \ {0} /\ Head(q) = q[1]
        /\ \A i \in 1..(Len(q) - 1) : Tail(q)[i] = q[i + 1]
    BY Tailed
  <1>2. 1 \in 1..Len(q) /\ \A i \in 1..(Len(q) - 1) : i + 1 \in 1..Len(q) /\ i + 1 # 1
    BY <1>1
  <1>3. NoReply(q) => Head(q) = "log" /\ NoReply(Tail(q))
    BY <1>1, <1>2 DEF NoReply
  <1>4. OneReply(q) /\ Head(q) = "void" => NoReply(Tail(q))
    <2> SUFFICES ASSUME OneReply(q), Head(q) = "void", NEW i \in 1..(Len(q) - 1)
                 PROVE  Tail(q)[i] = "log"
      BY <1>1 DEF NoReply
    <2>1. PICK j \in 1..Len(q) : q[j] = "void" /\ \A l \in 1..Len(q) : l # j => q[l] = "log"
      BY DEF OneReply
    <2>2. j = 1
      BY <1>1, <1>2, <2>1
    <2> QED  BY <1>1, <1>2, <2>1, <2>2
  <1> QED  BY <1>3, <1>4

\* No message at all.
LEMMA EmptyReplies == NoReply(<<>>)
  BY DEF NoReply

-------------------------------------------------------------------------------
(* The types.                                                               *)

\* A flag that a step sets, clears or leaves is a flag.
LEMMA NextFlags ==
  ASSUME FlagsOK, [Next]_vars
  PROVE  FlagsOK'
  <1>1. done' \in BOOLEAN /\ refused' \in BOOLEAN
    BY Zenon DEF FlagsOK, Next, Subscribe, Unsubscribe, MaintenanceStep, Activate, ActivateFails,
       ActivateReply, ActivateTimeout, Check, Shutdown, Join, EraseEntry, ThreadStep, Poll, Relay, StopReply,
       LoopEnds, ReceiveFails, HandlerStep, HandlerReceive, HandlerFails, HandlerStart, HandlerStop, HandlerReply,
       HandlerReplyFails, HandlerCleanup, ListenerReap, ConnLost, LogBegin, LogStep, LogSend,
       LogSendFails, vars, client
  <1>2. CASE ActivateReply
    BY <1>1, <1>2, Zenon DEF ActivateReply, FlagsOK
  <1>3. CASE ActivateTimeout
    BY <1>1, <1>3, Zenon DEF ActivateTimeout, FlagsOK
  <1>4. CASE ~ActivateReply /\ ~ActivateTimeout
    <2>1. spoiled' = spoiled
      BY <1>4 DEF Next, Subscribe, Unsubscribe, MaintenanceStep, Activate, ActivateFails,
         Check, Shutdown, Join, EraseEntry, ThreadStep, Poll, Relay, StopReply, LoopEnds, ReceiveFails,
         HandlerStep,
         HandlerReceive, HandlerFails, HandlerStart, HandlerStop, HandlerReply, HandlerReplyFails,
         HandlerCleanup, ListenerReap, ConnLost, LogBegin, LogStep, LogSend, LogSendFails, vars, client
    <2> QED  BY <1>1, <2>1 DEF FlagsOK
  <1> QED  BY <1>2, <1>3, <1>4, Zenon

\* The client's steps keep the types.
LEMMA ClientTypes ==
  ASSUME TypeOK, FlagsOK', \/ Subscribe \/ Unsubscribe
                           \/ MaintenanceStep \/ ThreadStep,
         EntryInStep
  PROVE  TypeOK'
  <1>1. CASE \/ Subscribe \/ Unsubscribe
             \/ ActivateFails \/ ActivateTimeout \/ Join \/ Poll \/ LoopEnds \/ ReceiveFails
    BY <1>1 DEF TypeOK, Subscribe, Unsubscribe, ActivateFails, ActivateTimeout, Check, Join, Poll,
       LoopEnds, ReceiveFails, server, network
  <1>2. CASE Activate
    <2>1. PICK k \in Unused : /\ cur' = k /\ open' = open \cup {k}
                              /\ toServer' = [toServer EXCEPT ![k] = <<"start">>]
                              /\ hpc' = [hpc EXCEPT ![k] = "serve"]
      BY <1>2, Zenon DEF Activate
    <2>2. <<"start">> \in Seq(Requests)
      BY DEF Requests
    <2>3. k \in Conns /\ k \in 0..MaxConns
      BY DEF Unused, Conns
    <2> QED  BY <1>2, <2>1, <2>2, <2>3 DEF TypeOK, Activate
  <1>3. ASSUME cur \in Conns, toClient[cur] # <<>>, toClient' = [toClient EXCEPT ![cur] = Tail(@)]
        PROVE  toClient' \in [Conns -> Seq(Replies)]
    BY <1>3, Tailed DEF TypeOK
  <1>4. mpc = "reply" \/ tpc = "recv" => cur \in Conns
    BY DEF EntryInStep, Running, TypeOK, Conns
  <1>5. CASE ActivateReply \/ Relay \/ StopReply
    <2>1. toClient' \in [Conns -> Seq(Replies)]
      BY <1>3, <1>4, <1>5 DEF ActivateReply, Relay, StopReply
    <2> QED  BY <1>5, <2>1 DEF TypeOK, ActivateReply, Check, Relay, StopReply, server
  <1>6. CASE Shutdown
    <2>1. ASSUME cur # 0 PROVE toServer[cur] \o <<"stop", "hangup">> \in Seq(Requests)
      <3>1. cur \in Conns /\ <<"stop", "hangup">> \in Seq(Requests)
        BY <2>1 DEF TypeOK, Conns, Requests
      <3>2. toServer[cur] \in Seq(Requests)
        BY <3>1 DEF TypeOK
      <3> QED  BY <3>1, <3>2
    <2>2. toServer' \in [Conns -> Seq(Requests)]
      BY <1>6, <2>1, Zenon DEF Shutdown, TypeOK
    <2> QED  BY <1>6, <2>2 DEF TypeOK, Shutdown, server
  <1>7. CASE EraseEntry
    <2>1. toClient' \in [Conns -> Seq(Replies)]
      <3>1. <<>> \in Seq(Replies)
        OBVIOUS
      <3> QED  BY <1>7, <3>1 DEF EraseEntry, TypeOK
    <2> QED  BY <1>7, <2>1 DEF TypeOK, EraseEntry, server
  <1> QED  BY <1>1, <1>2, <1>5, <1>6, <1>7 DEF MaintenanceStep, ThreadStep

\* So do the server's and the network's.
LEMMA ServerTypes ==
  ASSUME TypeOK, FlagsOK',
         \/ \E k \in Conns : HandlerStep(k) \/ ConnLost(k)
         \/ LogBegin \/ LogStep \/ UNCHANGED vars
  PROVE  TypeOK'
  <1>0. <<>> \in Seq(Requests) /\ <<>> \in Seq(Replies)
    OBVIOUS
  <1>1. CASE UNCHANGED vars \/ LogBegin
    BY <1>1 DEF TypeOK, vars, client, server, network, LogBegin
  <1>2. ASSUME NEW k \in Conns, HandlerReceive(k) PROVE TypeOK'
    <2>1. /\ Tail(toServer[k]) \in Seq(Requests) /\ Head(toServer[k]) \in Requests
          /\ toServer' = [toServer EXCEPT ![k] = Tail(@)]
          /\ hpc' = [hpc EXCEPT ![k] = Head(toServer[k])]
      BY <1>2, Tailed DEF TypeOK, HandlerReceive, HandlerAt
    <2>2. toServer' \in [Conns -> Seq(Requests)]
      BY <2>1 DEF TypeOK
    <2> QED  BY <1>2, <2>1, <2>2 DEF TypeOK, HandlerReceive, Requests, client
  <1>3. ASSUME NEW k \in Conns, HandlerFails(k) PROVE TypeOK'
    BY <1>0, <1>3 DEF TypeOK, HandlerFails, HandlerAt, client
  <1>4. ASSUME NEW k \in Conns,
               HandlerStart(k) \/ HandlerStop(k) \/ HandlerReplyFails(k) \/ HandlerCleanup(k)
                 \/ ListenerReap(k)
        PROVE  TypeOK'
    BY <1>4, Zenon DEF TypeOK, HandlerStart, HandlerStop, HandlerReplyFails, HandlerCleanup, ListenerReap,
       HandlerAt, client, network
  <1>5. ASSUME NEW k \in Conns, NEW x \in Replies, toClient' = [toClient EXCEPT ![k] = Append(@, x)]
        PROVE  toClient' \in [Conns -> Seq(Replies)]
    BY <1>5, Appended DEF TypeOK
  <1>6. ASSUME NEW k \in Conns, HandlerReply(k) PROVE TypeOK'
    BY <1>5, <1>6, Zenon DEF TypeOK, HandlerReply, HandlerAt, Replies, client
  <1>7. ASSUME NEW k \in Conns, ConnLost(k) PROVE TypeOK'
    BY <1>0, <1>7 DEF TypeOK, ConnLost, client, server
  <1>8. ASSUME NEW k \in todo, LogSend(k) \/ LogSendFails(k) PROVE TypeOK'
    <2>1. k \in Conns
      BY DEF TypeOK
    <2>2. toClient' \in [Conns -> Seq(Replies)]
      BY <1>5, <1>8, <2>1, Zenon DEF LogSend, LogSendFails, Replies, network, TypeOK
    <2> QED  BY <1>8, <2>2, SMTT(30) DEF TypeOK, LogSend, LogSendFails, client, network
  <1> QED  BY <1>1, <1>2, <1>3, <1>4, <1>6, <1>7, <1>8 DEF HandlerStep, LogStep

\* Every step keeps the types.
LEMMA NextTypes ==
  ASSUME TypeOK, EntryInStep, [Next]_vars
  PROVE  TypeOK'
  <1>1. FlagsOK'
    BY NextFlags DEF TypeOK
  <1> QED  BY <1>1, ClientTypes, ServerTypes DEF Next

-------------------------------------------------------------------------------
(* Sockets and threads.                                                     *)

\* The client's steps leave the handlers alone, but for a new connection.
LEMMA ClientFrame ==
  ASSUME \/ Subscribe \/ Unsubscribe
         \/ MaintenanceStep \/ ThreadStep
  PROVE  /\ UNCHANGED <<sub, todo, lost, unseen>>
         /\ ~Activate => hpc' = hpc
  BY DEF Subscribe, Unsubscribe, MaintenanceStep, Activate, ActivateFails, ActivateReply,
     ActivateTimeout, Shutdown, Join, EraseEntry, ThreadStep, Poll, Relay, StopReply, LoopEnds,
     ReceiveFails, client, server, network

\* The server's steps leave the client alone.
LEMMA ServerFrame ==
  ASSUME \/ \E k \in Conns : HandlerStep(k) \/ ConnLost(k)
         \/ LogBegin \/ LogStep \/ UNCHANGED vars
  PROVE  UNCHANGED <<useCount, mpc, done, tpc, cur, open, refused, spoiled>>
  BY DEF HandlerStep, HandlerReceive, HandlerFails, HandlerStart, HandlerStop, HandlerReply,
     HandlerReplyFails, HandlerCleanup, ListenerReap, ConnLost, LogBegin, LogStep, LogSend,
     LogSendFails, vars, client

\* A handler leaves with its socket unsubscribed, and not while it is sent to.
LEMMA NextSockets ==
  ASSUME TypeOK, SocketsExist, [Next]_vars
  PROVE  SocketsExist'
  <1>1. CASE UNCHANGED <<sub, todo, hpc>>
    BY <1>1 DEF SocketsExist
  <1>2. CASE Activate
    <2>1. PICK k \in Unused : hpc' = [hpc EXCEPT ![k] = "serve"] /\ UNCHANGED <<sub, todo>>
      BY <1>2, Zenon DEF Activate
    <2> QED  BY <2>1 DEF SocketsExist, TypeOK, Unused
  <1>3. CASE \/ Subscribe \/ Unsubscribe
             \/ MaintenanceStep \/ ThreadStep
    BY <1>1, <1>2, <1>3, ClientFrame
  <1>4. ASSUME NEW k \in Conns, HandlerReceive(k) PROVE SocketsExist'
    <2>1. Head(toServer[k]) \in Requests
      BY <1>4, Tailed DEF TypeOK, HandlerReceive
    <2> QED  BY <1>4, <2>1 DEF SocketsExist, TypeOK, HandlerReceive, HandlerAt, Requests
  <1>5. ASSUME NEW k \in Conns, \/ HandlerFails(k) \/ HandlerStart(k) \/ HandlerStop(k)
                                \/ HandlerReply(k) \/ HandlerReplyFails(k)
        PROVE  SocketsExist'
    BY <1>5, Zenon DEF SocketsExist, TypeOK, HandlerFails, HandlerStart, HandlerStop, HandlerReply,
       HandlerReplyFails, HandlerAt
  <1>6. ASSUME NEW k \in Conns, HandlerCleanup(k) \/ ListenerReap(k) PROVE SocketsExist'
    BY <1>6 DEF SocketsExist, TypeOK, HandlerCleanup, ListenerReap, HandlerAt
  <1>7. CASE LogBegin \/ LogStep
    BY <1>7 DEF SocketsExist, LogBegin, LogStep, LogSend, LogSendFails
  <1>8. ASSUME NEW k \in Conns, ConnLost(k) PROVE SocketsExist'
    BY <1>1, <1>8 DEF ConnLost, server
  <1>9. CASE UNCHANGED vars
    BY <1>1, <1>9 DEF vars, server
  <1> QED  BY <1>3, <1>4, <1>5, <1>6, <1>7, <1>8, <1>9 DEF Next, HandlerStep

\* done is set for the thread that runs only by the one that joins it.
LEMMA NextThread ==
  ASSUME OneThread, [Next]_vars
  PROVE  OneThread'
  <1>1. CASE \/ Subscribe \/ Unsubscribe
             \/ MaintenanceStep \/ ThreadStep
    BY <1>1 DEF OneThread, Subscribe, Unsubscribe, MaintenanceStep, Activate, ActivateFails,
       ActivateReply, ActivateTimeout, Check, Shutdown, Join, EraseEntry, ThreadStep, Poll,
       Relay, StopReply, LoopEnds, ReceiveFails, Running, client
  <1>2. CASE \/ \E k \in Conns : HandlerStep(k) \/ ConnLost(k)
             \/ LogBegin \/ LogStep \/ UNCHANGED vars
    BY <1>2, ServerFrame DEF OneThread, Running
  <1> QED  BY <1>1, <1>2 DEF Next

\* The entry of the server keeps its connection.
LEMMA NextEntry ==
  ASSUME TypeOK, SocketsExist, OneThread, EntryInStep, [Next]_vars
  PROVE  EntryInStep'
  <1> DEFINE Quiet == \A k \in Conns : hpc[k] = "none" => toClient[k] = <<>>
  <1>1. CASE \/ Subscribe \/ Unsubscribe
             \/ MaintenanceStep \/ ThreadStep
    <2>1. Quiet'
      <3>1. CASE ActivateReply \/ Relay \/ StopReply
        <4>1. toClient[cur] # <<>> /\ toClient' = [toClient EXCEPT ![cur] = Tail(@)] /\ hpc' = hpc
          BY <3>1 DEF ActivateReply, Relay, StopReply, server
        <4> QED  BY <4>1 DEF EntryInStep, TypeOK
      <3>2. CASE EraseEntry
        BY <3>2 DEF EraseEntry, EntryInStep, TypeOK, server
      <3>3. CASE Activate
        <4>1. PICK k \in Unused : hpc' = [hpc EXCEPT ![k] = "serve"] /\ toClient' = toClient
          BY <3>3, Zenon DEF Activate
        <4> QED  BY <4>1 DEF EntryInStep, TypeOK, Unused
      <3>4. CASE ~ActivateReply /\ ~Relay /\ ~StopReply /\ ~EraseEntry /\ ~Activate
        <4>1. UNCHANGED <<hpc, toClient>>
          BY <1>1, <3>4, SMTT(30) DEF Subscribe, Unsubscribe, MaintenanceStep, ActivateFails,
             ActivateTimeout, Shutdown, Join, ThreadStep, Poll, LoopEnds, ReceiveFails, server, network
        <4> QED  BY <4>1 DEF EntryInStep
      <3> QED  BY <3>1, <3>2, <3>3, <3>4, Zenon
    <2>2. CASE Activate
      <3>1. PICK k \in Unused : cur' = k /\ open' = open \cup {k}
        BY <2>2 DEF Activate
      <3>2. k # 0
        BY DEF Unused, Conns
      <3> QED  BY <2>1, <2>2, <3>1, <3>2 DEF Activate, EntryInStep
    <2>3. CASE Subscribe \/ Unsubscribe \/ Shutdown \/ Join
      BY <2>1, <2>3 DEF TypeOK, EntryInStep, Subscribe, Unsubscribe, Check, Shutdown, Join, Running, network
    <2>4. CASE ActivateFails
      BY <2>1, <2>4 DEF TypeOK, EntryInStep, OneThread, ActivateFails, Check, Running
    <2>5. CASE ActivateReply \/ ActivateTimeout
      BY <2>1, <2>5 DEF TypeOK, EntryInStep, ActivateReply, ActivateTimeout, Check, Running, network
    <2>6. CASE EraseEntry
      BY <2>1, <2>6 DEF EntryInStep, EraseEntry, Running
    <2>7. CASE ThreadStep
      BY <2>1, <2>7, Zenon DEF EntryInStep, ThreadStep, Poll, Relay, StopReply, LoopEnds, ReceiveFails,
         Running, network
    <2> QED  BY <1>1, <2>2, <2>3, <2>4, <2>5, <2>6, <2>7, Zenon DEF MaintenanceStep
  <1>2. CASE \/ \E k \in Conns : HandlerStep(k) \/ ConnLost(k)
             \/ LogBegin \/ LogStep \/ UNCHANGED vars
    <2>1. Quiet'
      <3>1. ASSUME NEW k \in Conns, HandlerStep(k) \/ ConnLost(k) PROVE Quiet'
        <4>1. /\ \A j \in Conns : j # k => toClient'[j] = toClient[j] /\ hpc'[j] = hpc[j]
              /\ hpc'[k] = "none" => toClient'[k] = <<>>
          <5>1. CASE HandlerReceive(k)
            <6>1. Head(toServer[k]) \in Requests
              BY <5>1, Tailed, Zenon DEF TypeOK, HandlerReceive
            <6> QED  BY <5>1, <6>1 DEF HandlerReceive, HandlerAt, TypeOK, Requests
          <5>2. CASE ConnLost(k)
            BY <5>2, Zenon DEF ConnLost, TypeOK, server
          <5> QED  BY <3>1, <5>1, <5>2, Zenon DEF HandlerStep, HandlerFails, HandlerStart, HandlerStop,
                   HandlerReply, HandlerReplyFails, HandlerCleanup, ListenerReap, HandlerAt,
                   TypeOK, network
        <4> QED  BY <4>1, Zenon DEF EntryInStep
      <3>2. ASSUME NEW k \in todo, LogSend(k) \/ LogSendFails(k) PROVE Quiet'
        <4>1. hpc[k] # "none" /\ k \in Conns
          BY DEF SocketsExist, TypeOK
        <4> QED  BY <3>2, <4>1, Zenon DEF LogSend, LogSendFails, EntryInStep, TypeOK, network
      <3>3. CASE LogBegin \/ UNCHANGED vars
        BY <3>3, Zenon DEF LogBegin, vars, EntryInStep, server, network
      <3> QED  BY <1>2, <3>1, <3>2, <3>3, Zenon DEF LogStep
    <2>2. (cut # "none" => cur \in lost)'
      <3>1. lost \subseteq lost' /\ (cut' = cut \/ cur \in lost')
        BY <1>2, Zenon DEF HandlerStep, HandlerReceive, HandlerFails, HandlerStart, HandlerStop,
           HandlerReply, HandlerReplyFails, HandlerCleanup, ListenerReap, ConnLost, LogBegin, LogStep,
           LogSend, LogSendFails, vars, network
      <3> QED  BY <1>2, <3>1, ServerFrame, Zenon DEF EntryInStep
    <2> QED  BY <1>2, <2>1, <2>2, ServerFrame, Zenon DEF EntryInStep, Running
  <1> QED  BY <1>1, <1>2 DEF Next

-------------------------------------------------------------------------------
(* The current connection.                                                  *)

\* What the server and the network do, on any connection, keeps the current one
\* starting or forwarding.
LEMMA ServerTouch ==
  ASSUME TypeOK, SocketsExist, EntryInStep, InTouch,
         \/ \E k \in Conns : HandlerStep(k) \/ ConnLost(k)
         \/ LogBegin \/ LogStep \/ UNCHANGED vars
  PROVE  InTouch'
  <1>1. UNCHANGED <<useCount, mpc, done, tpc, cur, open, refused, spoiled>>
    BY ServerFrame, Zenon
  <1>2. lost \subseteq lost'
    BY Zenon DEF HandlerStep, HandlerReceive, HandlerFails, HandlerStart, HandlerStop, HandlerReply,
       HandlerReplyFails, HandlerCleanup, ListenerReap, ConnLost, LogBegin, LogStep, LogSend,
       LogSendFails, vars, network
  <1> SUFFICES ASSUME cur \notin lost', cur # 0
               PROVE  (Starting(cur) => Starting(cur)') /\ (Forwarding(cur) => Forwarding(cur)')
    BY <1>1, <1>2, Zenon DEF InTouch, Running
  <1>3. /\ cur \in Conns /\ cur \in open /\ cur \notin lost /\ ~HungUp(cur)
        /\ toClient[cur] \in Seq(Replies) /\ toServer[cur] \in Seq(Requests)
    BY <1>2, Zenon DEF TypeOK, EntryInStep, Conns, HungUp
  <1>4. ASSUME toServer'[cur] = toServer[cur], toClient'[cur] = toClient[cur], hpc'[cur] = hpc[cur],
               cur \in sub' <=> cur \in sub
        PROVE  (Starting(cur) => Starting(cur)') /\ (Forwarding(cur) => Forwarding(cur)')
    BY <1>1, <1>4, Zenon DEF Starting, Forwarding
  <1>5. CASE LogBegin \/ UNCHANGED vars
    BY <1>4, <1>5, Zenon DEF LogBegin, vars, server, network
  <1>6. ASSUME NEW k \in todo, LogSend(k) \/ LogSendFails(k)
        PROVE  (Starting(cur) => Starting(cur)') /\ (Forwarding(cur) => Forwarding(cur)')
    <2>1. k \in Conns /\ k \in sub /\ UNCHANGED <<sub, hpc, toServer>>
      BY <1>6, Zenon DEF SocketsExist, TypeOK, LogSend, LogSendFails, network
    <2>2. CASE toClient'[cur] = toClient[cur]
      BY <1>4, <2>1, <2>2, Zenon
    <2>3. CASE toClient'[cur] # toClient[cur]
      <3>1. k = cur /\ toClient'[cur] = Append(toClient[cur], "log")
        BY <1>3, <1>6, <2>1, <2>3, Zenon DEF LogSend, LogSendFails, TypeOK, network
      <3>2. /\ NoReply(toClient[cur]) => NoReply(toClient'[cur])
            /\ OneReply(toClient[cur]) => OneReply(toClient'[cur])
        BY <1>3, <3>1, SentReplies, Zenon
      <3> QED  BY <1>1, <2>1, <3>1, <3>2, Zenon DEF Starting, Forwarding
    <2> QED  BY <2>2, <2>3, Zenon
  <1>7. ASSUME NEW k \in Conns, HandlerStep(k) \/ ConnLost(k), k # cur
        PROVE  (Starting(cur) => Starting(cur)') /\ (Forwarding(cur) => Forwarding(cur)')
    <2>1. toServer'[cur] = toServer[cur] /\ toClient'[cur] = toClient[cur]
      BY <1>3, <1>7, Zenon DEF HandlerStep, HandlerReceive, HandlerFails, HandlerStart, HandlerStop, HandlerReply,
         HandlerReplyFails, HandlerCleanup, ListenerReap, ConnLost, network, TypeOK
    <2>2. hpc'[cur] = hpc[cur] /\ (cur \in sub' <=> cur \in sub)
      BY <1>3, <1>7, Zenon DEF HandlerStep, HandlerReceive, HandlerFails, HandlerStart, HandlerStop, HandlerReply,
         HandlerReplyFails, HandlerCleanup, ListenerReap, HandlerAt, ConnLost, server, TypeOK
    <2> QED  BY <1>4, <2>1, <2>2, Zenon
  <1>8. CASE HandlerReceive(cur)
    <2>1. /\ toServer[cur] # <<>> /\ hpc[cur] = "serve"
          /\ hpc'[cur] = Head(toServer[cur]) /\ toServer'[cur] = Tail(toServer[cur])
          /\ UNCHANGED <<sub, toClient>>
      BY <1>3, <1>8 DEF HandlerReceive, HandlerAt, TypeOK
    <2>2. ASSUME Starting(cur)
          PROVE  cur \notin sub /\ toClient[cur] = <<>> /\ toServer[cur] = <<"start">>
      BY <2>1, <2>2 DEF Starting
    <2>3. Head(<<"start">>) = "start" /\ Tail(<<"start">>) = <<>>
      OBVIOUS
    <2> QED  BY <1>1, <2>1, <2>2, <2>3, Zenon DEF Starting, Forwarding
  <1>9. CASE HandlerStart(cur)
    <2>1. /\ hpc[cur] = "start" /\ hpc'[cur] = "reply" /\ cur \in sub'
          /\ UNCHANGED <<toClient, toServer>>
      BY <1>3, <1>9, Zenon DEF HandlerStart, HandlerAt, TypeOK, network
    <2>2. ASSUME Starting(cur) PROVE toServer[cur] = <<>> /\ NoReply(toClient[cur])
      BY <2>1, <2>2, EmptyReplies, Zenon DEF Starting
    <2> QED  BY <1>1, <2>1, <2>2 DEF Starting, Forwarding
  <1>10. CASE HandlerReply(cur)
    <2>1. /\ hpc[cur] \in {"reply", "hangup"} /\ (hpc[cur] = "reply" => hpc'[cur] = "serve")
          /\ toClient'[cur] = Append(toClient[cur], "void") /\ UNCHANGED <<sub, toServer>>
      BY <1>3, <1>10, Zenon DEF HandlerReply, HandlerAt, TypeOK
    <2>2. NoReply(toClient[cur]) => OneReply(toClient'[cur])
      BY <1>3, <2>1, SentReplies, Zenon
    <2> QED  BY <1>1, <2>1, <2>2, Zenon DEF Starting, Forwarding
  <1>11. CASE HandlerStop(cur) \/ HandlerCleanup(cur) \/ ListenerReap(cur)
    BY <1>11, Zenon DEF HandlerStop, HandlerCleanup, ListenerReap, HandlerAt, Starting, Forwarding
  <1>12. ~HandlerFails(cur) /\ ~HandlerReplyFails(cur) /\ ~ConnLost(cur)
    BY <1>3 DEF HandlerFails, HandlerReplyFails, ConnLost
  <1> QED  BY <1>5, <1>6, <1>7, <1>8, <1>9, <1>10, <1>11, <1>12, Zenon DEF LogStep, HandlerStep

\* A new connection starts, its reply lets the thread relay, and it is given up
\* only when it is lost or nobody is left.
LEMMA ClientTouch ==
  ASSUME TypeOK, SocketsExist, OneThread, EntryInStep, InTouch,
         \/ Subscribe \/ Unsubscribe
         \/ MaintenanceStep \/ ThreadStep
  PROVE  InTouch'
  <1>1. UNCHANGED <<sub, lost>>
    BY ClientFrame
  <1>2. cur # 0 => /\ cur \in Conns /\ cur \in open
                   /\ toClient[cur] \in Seq(Replies) /\ toServer[cur] \in Seq(Requests)
    BY Zenon DEF TypeOK, EntryInStep, Conns
  <1>3. CASE \/ Subscribe \/ Unsubscribe
             \/ Join \/ Poll
    <2>1. /\ UNCHANGED <<cur, open, done, spoiled, toServer, toClient, hpc>>
          /\ Running' = Running /\ (mpc' = "reply" => mpc = "reply")
          /\ mpc \in {"reply", "join", "erase"} => mpc' = mpc \/ mpc' = "erase"
      BY <1>3 DEF Subscribe, Unsubscribe, Check, Join, Poll, Running, server, network
    <2> QED  BY <1>1, <2>1 DEF InTouch, Starting, Forwarding
  <1>4. ASSUME mpc = "activate", ~spoiled PROVE open \subseteq lost
    <2>1. done /\ 0 \notin open
      BY <1>4 DEF OneThread, TypeOK, Conns
    <2> QED  BY <1>4, <2>1 DEF InTouch
  <1>5. CASE Activate
    <2>1. PICK k \in Unused :
             /\ cur' = k /\ open' = open \cup {k}
             /\ toServer' = [toServer EXCEPT ![k] = <<"start">>]
             /\ hpc' = [hpc EXCEPT ![k] = "serve"]
      BY <1>5, Zenon DEF Activate
    <2>2. /\ k \in Conns /\ hpc[k] = "none" /\ k \notin sub /\ toClient[k] = <<>>
      BY DEF Unused, SocketsExist, EntryInStep
    <2>3. /\ mpc = "activate" /\ mpc' = "reply" /\ UNCHANGED <<spoiled, toClient>>
          /\ toServer'[k] = <<"start">> /\ hpc'[k] = "serve"
      BY <1>5, <2>1, <2>2 DEF Activate, TypeOK
    <2>4. Starting(cur)'
      BY <1>1, <2>1, <2>2, <2>3 DEF Starting
    <2> QED  BY <1>1, <1>4, <2>1, <2>3, <2>4, Zenon DEF InTouch
  <1>6. CASE ActivateFails
    BY <1>1, <1>4, <1>6, Zenon DEF ActivateFails, InTouch
  <1>7. CASE ActivateReply
    <2>1. /\ mpc = "reply" /\ mpc' # "reply" /\ ~done' /\ Running' /\ cur # 0
          /\ toClient[cur] # <<>> /\ UNCHANGED <<cur, open, toServer, hpc>>
          /\ spoiled' = (spoiled \/ Head(toClient[cur]) # "void")
      BY <1>7 DEF ActivateReply, Check, Running, EntryInStep, server
    <2>2. toClient'[cur] = Tail(toClient[cur])
      BY <1>2, <1>7, <2>1 DEF ActivateReply, TypeOK
    <2>3. ASSUME ~spoiled', cur \notin lost PROVE Forwarding(cur)'
      <3>1. Starting(cur) /\ Head(toClient[cur]) = "void"
        BY <2>1, <2>3, Zenon DEF InTouch
      <3>2. cur \in sub /\ toServer[cur] = <<>> /\ hpc[cur] = "serve" /\ OneReply(toClient[cur])
        BY <1>2, <2>1, <3>1, TakenReplies DEF Starting
      <3>3. NoReply(toClient'[cur])
        BY <1>2, <2>1, <2>2, <3>1, <3>2, TakenReplies
      <3> QED  BY <1>1, <2>1, <3>2, <3>3 DEF Forwarding
    <2> QED  BY <1>1, <2>1, <2>3, Zenon DEF InTouch
  <1>8. CASE ActivateTimeout
    <2>1. /\ mpc = "reply" /\ mpc' # "reply" /\ cur # 0 /\ UNCHANGED <<cur, open>>
          /\ spoiled' = (spoiled \/ ~Broken(cur))
      BY <1>8 DEF ActivateTimeout, Check, EntryInStep
    <2>2. ASSUME ~spoiled', cur \notin lost PROVE FALSE
      BY <2>1, <2>2, Zenon DEF InTouch, Broken, Starting
    <2> QED  BY <1>1, <2>1, <2>2, Zenon DEF InTouch
  <1>9. CASE Shutdown
    BY <1>1, <1>9 DEF Shutdown, InTouch
  <1>10. CASE EraseEntry
    BY <1>1, <1>10, Zenon DEF EraseEntry, InTouch
  <1>11. CASE Relay
    <2>1. /\ Running /\ cur # 0 /\ toClient[cur] # <<>> /\ (~done => Running')
          /\ UNCHANGED <<mpc, cur, open, done, spoiled, toServer, hpc>>
      BY <1>11 DEF Relay, Running, EntryInStep, server
    <2>2. toClient'[cur] = Tail(toClient[cur])
      BY <1>2, <1>11, <2>1 DEF Relay, TypeOK
    <2>3. mpc # "reply" /\ (done => mpc = "join")
      BY <2>1, Zenon DEF OneThread
    <2>4. Forwarding(cur) => Forwarding(cur)'
      BY <1>1, <1>2, <2>1, <2>2, TakenReplies, Zenon DEF Forwarding
    <2> QED  BY <1>1, <2>1, <2>3, <2>4, Zenon DEF InTouch
  <1>12. CASE StopReply
    <2>1. /\ Running /\ cur # 0 /\ toClient[cur] # <<>> /\ Head(toClient[cur]) = "void"
          /\ UNCHANGED <<mpc, cur, open, spoiled>>
      BY <1>12 DEF StopReply, Running, EntryInStep
    <2>2. mpc # "reply" /\ ~Forwarding(cur)
      BY <1>2, <2>1, TakenReplies, Zenon DEF OneThread, Forwarding
    <2> QED  BY <1>1, <2>1, <2>2, Zenon DEF InTouch
  <1>13. CASE LoopEnds \/ ReceiveFails
    <2>1. /\ Running /\ cur # 0 /\ (~done => Broken(cur)) /\ UNCHANGED <<mpc, cur, open, spoiled>>
      BY <1>13 DEF LoopEnds, ReceiveFails, Running, EntryInStep
    <2>2. mpc # "reply" /\ (done => mpc = "join")
      BY <2>1, Zenon DEF OneThread
    <2>3. ~done /\ cur \notin lost => ~Forwarding(cur)
      BY <2>1 DEF Forwarding, Broken
    <2> QED  BY <1>1, <2>1, <2>2, <2>3, Zenon DEF InTouch
  <1> QED  BY <1>3, <1>5, <1>6, <1>7, <1>8, <1>9, <1>10, <1>11, <1>12, <1>13, Zenon
           DEF MaintenanceStep, ThreadStep

-------------------------------------------------------------------------------
\* Initially there are no users and no connections.
LEMMA InitLog == Init => LogInv
  <1> SUFFICES ASSUME Init PROVE LogInv
    OBVIOUS
  <1>1. FlagsOK
    BY Zenon DEF Init, FlagsOK
  <1>2. <<>> \in Seq(Requests) /\ <<>> \in Seq(Replies)
    OBVIOUS
  <1>3. TypeOK
    BY <1>1, <1>2 DEF Init, TypeOK
  <1>4. SocketsExist /\ OneThread /\ EntryInStep /\ InTouch
    BY DEF Init, SocketsExist, OneThread, Running, EntryInStep, InTouch
  <1> QED  BY <1>3, <1>4 DEF LogInv

\* The client's one thread and connection and the server's handlers and
\* subscribers stay in step, whatever is lost and however calls interleave.
THEOREM LogInvariant == Spec => []LogInv
  <1>1. LogInv /\ [Next]_vars => LogInv'
    <2> SUFFICES ASSUME LogInv, [Next]_vars PROVE LogInv'
      OBVIOUS
    <2>1. InTouch'
      BY ClientTouch, ServerTouch DEF LogInv, Next
    <2> QED  BY <2>1, NextTypes, NextSockets, NextThread, NextEntry DEF LogInv
  <1> QED  BY InitLog, <1>1, PTL DEF Spec

\* As long as there are users their messages are relayed, unless the server was
\* not found, its connection is lost, or a reply to START did not come.
THEOREM RelayedInvariant == Spec => []Relayed
  <1>1. LogInv => Relayed
    BY DEF LogInv, TypeOK, EntryInStep, InTouch, Forwarding, Relayed
  <1> QED  BY LogInvariant, <1>1, PTL

\* A client is subscribed once, so that no message reaches it twice, provided
\* the replies to START came.
THEOREM OneSubscriptionInvariant == Spec => []OneSubscription
  <1>1. LogInv => OneSubscription
    <2> SUFFICES ASSUME LogInv, ~spoiled
                 PROVE  Cardinality({k \in sub : ~HungUp(k)}) <= 1
      BY DEF OneSubscription
    <2>1. {k \in sub : ~HungUp(k)} \subseteq {cur}
      BY DEF LogInv, InTouch, HungUp
    <2>2. IsFiniteSet({cur}) /\ Cardinality({cur}) = 1
      BY FS_Singleton, Zenon
    <2> QED  BY <2>1, <2>2, FS_Subset
  <1> QED  BY LogInvariant, <1>1, PTL
===============================================================================
