--------------------------- MODULE RemoteSession ---------------------------
(***************************************************************************)
(* One session of SoapyRemote: a SoapyRemoteDevice in the client (threads  *)
(* of the application that call it under its mutex), the socket to the     *)
(* server, the server's handler thread (SoapyServerThreadData::handlerLoop *)
(* and SoapyClientHandler), the two worker threads of every stream         *)
(* (ServerStreamData), the server's device, and the listener that reaps    *)
(* the handler.                                                            *)
(*                                                                         *)
(* Calls stand for their kinds: setupStream, closeStream, and the          *)
(* remaining calls by activateStream, which names a stream and returns an  *)
(* int; the query of the native format with which setupStream begins is    *)
(* one of those.  A reply is "int", "void", "port" or "exception"; nothing *)
(* in it says which call it answers, so the number of the call it carries  *)
(* here ("tag") is history.  The stream data itself is the subject of      *)
(* StreamFlow; here a worker is only in its loop, where it may be in a     *)
(* call on the device at any moment, or held by a call that need not       *)
(* return.                                                                 *)
(*                                                                         *)
(* The connection may end in the midst of a request, and without a word:   *)
(* no end watches it.  closeStream of the device may throw.                *)
(***************************************************************************)
EXTENDS Integers, Sequences

CONSTANTS Thread,     \* threads of the client application
          MaxCalls    \* bound: calls made between the constructor and the destructor

ASSUME MaxCallsAssumption == MaxCalls \in Nat
ASSUME ThreadAssumption == "main" \notin Thread /\ "nobody" \notin Thread

VARIABLES
  prot,      \* protocol of the stream sockets; "none" sets up a bypass stream
  conn,      \* the connection is up
  cut,       \* how its loss looks to the server: a request that broke off ("torn"),
             \*   nothing at all ("silent"), or the end of it ("none")
  req, rep,  \* messages on the socket, to the server and to the client
  cpc,       \* the device's life: "make", "open", "unmake", "hangup", "closed"
  call,      \* per thread: the call it waits for, or NoCall
  mutex,     \* the thread that holds SoapyRemoteDevice::_mutex, or NoThread
  calls,     \* number of calls sent so far
  held,      \* stream ids the application got from setupStream and did not close
  hpc,       \* where the server's handler thread is
  cur,       \* the request it handles
  todo,      \* streams it still has to stop and close
  answer,    \* the reply it will send
  done,      \* SoapyServerThreadData::done
  listener,  \* the listener: "loop", or "join" in ~SoapyServerThreadData
  entry,     \* domain of _streamData
  nextId,    \* _nextStreamId
  stop,      \* per stream: ServerStreamData::done
  worker,    \* per stream and worker: "none" for nullptr, in its "loop", "held" by the
             \*   logger or a socket, "ended", or "freed" and its pointer left dangling
  accepted,  \* connections made to the listening stream socket (tcp)
  dev,       \* the handler holds a device
  devOpen,   \* streams set up on that device and not closed
  abandoned, \* history: a client call ended without its reply
  crossed,   \* history: a call took the reply of another one
  orphaned,  \* history: device streams whose setup failed after setupStream
  threw      \* history: the device threw from closeStream

link    == <<conn, cut>>
socket  == <<link, req, rep>>
client  == <<cpc, call, mutex, calls, held>>
handler == <<hpc, cur, todo, answer, done, entry, nextId, accepted, dev, devOpen>>
threads == <<stop, worker>>
history == <<abandoned, crossed, orphaned, threw>>
vars == <<prot, socket, client, handler, listener, threads, history>>

Id == 0..(MaxCalls - 1)
Role == {"stream", "status"}
Main == "main"                    \* the thread that constructs and deletes the device
NoThread == "nobody"
NoCall == [op |-> "none", id |-> -1, tag |-> 0]
Op == {"make", "setup", "finish", "activate", "close", "unmake", "hangup"}
Request == [op : Op, id : Id \cup {-1}, tag : Nat]
Reply == [kind : {"int", "void", "port", "exception"}, val : Id \cup {-1}, tag : Nat]

WorkerState == {"none", "loop", "held", "ended", "freed"}

FlagsOK ==
  /\ conn \in BOOLEAN
  /\ done \in BOOLEAN
  /\ dev \in BOOLEAN
  /\ abandoned \in BOOLEAN
  /\ crossed \in BOOLEAN
  /\ threw \in BOOLEAN
  /\ stop \in [Id -> BOOLEAN]

TypeOK ==
  /\ FlagsOK
  /\ prot \in {"udp", "tcp", "none"}
  /\ cut \in {"none", "torn", "silent"}
  /\ req \in Seq(Request)
  /\ rep \in Seq(Reply)
  /\ cpc \in {"make", "open", "unmake", "hangup", "closed"}
  /\ call \in [Thread \cup {Main} -> Request \cup {NoCall}]
  /\ mutex \in Thread \cup {NoThread}
  /\ calls \in 0..(MaxCalls + 3)
  /\ held \subseteq Id
  /\ hpc \in {"poll", "recv", "exec", "accept", "stop", "join", "unmake", "reply", "gone",
             "crashed"}
  /\ cur \in Request \cup {NoCall}
  /\ todo \subseteq Id
  /\ answer \in Reply
  /\ listener \in {"loop", "join", "reaped"}
  /\ entry \subseteq Id
  /\ nextId \in 0..MaxCalls
  /\ worker \in [Id \X Role -> WorkerState]
  /\ accepted \in 0..2
  /\ devOpen \subseteq Id
  /\ orphaned \subseteq Id

(* The client has connected and sent MAKE; the listener has accepted the    *)
(* connection and started the handler thread.                              *)
FirstCall == [op |-> "make", id |-> -1, tag |-> 1]

Init ==
  /\ prot \in {"udp", "tcp", "none"}
  /\ conn = TRUE
  /\ cut = "none"
  /\ req = <<FirstCall>>
  /\ rep = <<>>
  /\ cpc = "make"
  /\ call = [t \in Thread \cup {Main} |-> IF t = Main THEN FirstCall ELSE NoCall]
  /\ mutex = NoThread
  /\ calls = 1
  /\ held = {}
  /\ hpc = "poll"
  /\ cur = NoCall
  /\ todo = {}
  /\ answer = [kind |-> "void", val |-> -1, tag |-> 0]
  /\ done = FALSE
  /\ listener = "loop"
  /\ entry = {}
  /\ nextId = 0
  /\ stop = [s \in Id |-> TRUE]
  /\ worker = [w \in Id \X Role |-> "none"]
  /\ accepted = 0
  /\ dev = FALSE
  /\ devOpen = {}
  /\ abandoned = FALSE
  /\ crossed = FALSE
  /\ orphaned = {}
  /\ threw = FALSE

----------------------------------------------------------------------------
(* The client: SoapyRemoteDevice.                                          *)

Waiting(t) == call[t] # NoCall
Busy == {call[t].id : t \in {u \in Thread : Waiting(u)}}

(* Locks the mutex, packs the request and sends it. *)
Send(t, op, s) ==
  LET m == [op |-> op, id |-> s, tag |-> calls + 1]
  IN  /\ calls' = calls + 1
      /\ req' = Append(req, m)
      /\ call' = [call EXCEPT ![t] = m]

(* Mutant: the mutex is not taken. *)
Call_NoMutex(t, op, s) ==
  /\ cpc = "open" /\ conn /\ calls < MaxCalls + 1
  /\ ~Waiting(t)
  /\ IF op = "setup" THEN s = -1 ELSE s \in held \ Busy
  /\ Send(t, op, s)
  /\ UNCHANGED <<prot, link, rep, cpc, mutex, held, handler, listener, threads, history>>

(* A thread calls setupStream, or a call on a stream it holds and that no   *)
(* other thread is using.                                                  *)
Call(t, op, s) ==
  /\ cpc = "open" /\ conn /\ calls < MaxCalls + 1
  /\ ~Waiting(t) /\ mutex = NoThread
  /\ IF op = "setup" THEN s = -1 ELSE s \in held \ Busy
  /\ mutex' = t
  /\ Send(t, op, s)
  /\ UNCHANGED <<prot, link, rep, cpc, held, handler, listener, threads, history>>

Finish(t) == /\ call' = [call EXCEPT ![t] = NoCall]
             /\ mutex' = IF mutex = t THEN NoThread ELSE mutex

(* Mutant: closeStream leaves the application its stream. *)
Keeps_Closed(c, m) ==
  IF c.op \in {"setup", "finish"} /\ m.kind = "int" THEN held \cup {m.val} ELSE held

(* The streams the application holds once call c returns with reply m. *)
Keeps(c, m) ==
  CASE c.op \in {"setup", "finish"} /\ m.kind = "int" -> held \cup {m.val}
    [] c.op = "close" /\ m.kind # "exception" -> held \ {c.id}
    [] OTHER -> held

(* What a call does with the reply at the head of the socket, whichever     *)
(* call that reply answers: setupStream wants an int, closeStream takes     *)
(* anything but an exception, and activateStream wants an int.  A reply of  *)
(* another type is an exception in the caller.                             *)
Receive(t) ==
  /\ t # Main
  /\ Waiting(t) /\ rep # <<>>
  /\ ~(call[t].op = "setup" /\ prot = "tcp")
  /\ LET c == call[t]
         m == Head(rep)
     IN  /\ crossed' = (crossed \/ m.tag # c.tag)
         /\ \/ held' = Keeps(c, m)
            \* in udp mode setupStream still has to connect its socket, which may fail
            \/ prot = "udp" /\ c.op = "setup" /\ m.kind = "int" /\ held' = held
  /\ rep' = Tail(rep)
  /\ Finish(t)
  /\ UNCHANGED <<prot, link, req, cpc, calls, handler, listener, threads, abandoned, orphaned, threw>>

(* setupStream in tcp mode: the first reply is the server's port, to which  *)
(* the client connects two sockets before it waits for the second reply.    *)
ReceivePort(t) ==
  /\ Waiting(t) /\ rep # <<>>
  /\ call[t].op = "setup" /\ prot = "tcp"
  /\ rep' = Tail(rep)
  /\ crossed' = (crossed \/ Head(rep).tag # call[t].tag)
  /\ \E n \in 0..2 :
       /\ n > 0 => (Head(rep).kind = "port" /\ hpc = "accept" /\ conn)
       /\ accepted' = IF n > 0 THEN n ELSE accepted
       /\ IF n = 2
          THEN call' = [call EXCEPT ![t].op = "finish"] /\ UNCHANGED <<mutex, abandoned>>
          ELSE Finish(t) /\ abandoned' = (abandoned \/ Head(rep).kind = "port")
  /\ UNCHANGED <<prot, link, req, cpc, calls, held, hpc, cur, todo, answer, done, entry,
                 nextId, dev, devOpen, listener, threads, orphaned, threw>>

(* The unpacker gives up: the time-out is over, the check of the server     *)
(* failed, or the connection is gone.  The request is not withdrawn.        *)
GiveUp(t) ==
  /\ t # Main
  /\ Waiting(t)
  /\ abandoned' = TRUE
  /\ Finish(t)
  /\ UNCHANGED <<prot, socket, cpc, calls, held, handler, listener, threads, crossed, orphaned, threw>>

(* The constructor's MAKE is answered; an exception leaves no device.       *)
(* Deleting the device: UNMAKE, then HANGUP, then the socket is closed;     *)
(* an exception on the way goes straight to closing the socket.             *)
After == [make |-> "open", unmake |-> "hangup", hangup |-> "closed"]

MainReceive ==
  /\ Waiting(Main) /\ rep # <<>>
  /\ crossed' = (crossed \/ Head(rep).tag # call[Main].tag)
  /\ cpc' = IF Head(rep).kind = "exception" \/ (cpc = "unmake" /\ ~conn)
            THEN "closed" ELSE After[cpc]
  /\ rep' = Tail(rep)
  /\ IF cpc' = "hangup"
     THEN Send(Main, "hangup", -1)
     ELSE Finish(Main) /\ UNCHANGED <<req, calls>>
  /\ conn' = (conn /\ cpc' # "closed")
  /\ UNCHANGED <<prot, cut, mutex, held, handler, listener, threads, abandoned, orphaned, threw>>

MainGiveUp ==
  /\ Waiting(Main)
  /\ abandoned' = TRUE
  /\ cpc' = "closed"
  /\ conn' = FALSE
  /\ Finish(Main)
  /\ UNCHANGED <<prot, cut, req, rep, calls, held, handler, listener, threads, crossed, orphaned, threw>>

(* ~SoapyRemoteDevice, called when no thread is in a call. *)
Delete ==
  /\ cpc = "open" /\ \A t \in Thread : ~Waiting(t)
  /\ IF conn
     THEN cpc' = "unmake" /\ Send(Main, "unmake", -1)
     ELSE cpc' = "closed" /\ UNCHANGED <<req, calls, call>>
  /\ UNCHANGED <<prot, link, rep, mutex, held, handler, listener, threads, history>>

(* The link is lost, or the client dies: what was sent may still arrive, or *)
(* a part of it only, and the server need not get to know.  What the client *)
(* still does reaches nobody: its calls fail, and it is done with.          *)
ConnLost ==
  /\ conn
  /\ conn' = FALSE
  /\ \/ cut' \in {"none", "silent"} /\ req' \in {req, <<>>}
     \/ cut' = "torn" /\ req # <<>> /\ req' = <<>>
  /\ rep' = <<>>
  /\ cpc' = "closed"
  /\ call' = [t \in Thread \cup {Main} |-> NoCall]
  /\ mutex' = NoThread
  /\ abandoned' = (abandoned \/ \E t \in Thread \cup {Main} : Waiting(t))
  /\ UNCHANGED <<prot, calls, held, handler, listener, threads, crossed, orphaned, threw>>

----------------------------------------------------------------------------
(* The server's handler thread: handlerLoop and SoapyClientHandler.         *)

(* Mutant: the destructor leaves the streams to their own devices. *)
LeaveLoop_Streams ==
  /\ done' = TRUE
  /\ cur' = NoCall
  /\ todo' = {}
  /\ hpc' = "stop"

(* handlerLoop is left; the destructor of the handler closes every stream   *)
(* and then releases the device.  The listener may already see done.        *)
LeaveLoop ==
  /\ done' = TRUE
  /\ cur' = NoCall
  /\ todo' = entry
  /\ hpc' = "stop"

HandlerReceive ==
  /\ hpc = "poll" /\ req # <<>>
  /\ cur' = Head(req)
  /\ req' = Tail(req)
  /\ hpc' = "exec"
  /\ UNCHANGED <<prot, link, rep, client, todo, answer, done, entry, nextId, accepted,
                 dev, devOpen, listener, threads, history>>

(* The handler receives without a time-out.  Of a request that broke off    *)
(* the rest does not come: recv returns 0 for ever, or it waits.            *)
HandlerTorn ==
  /\ hpc = "poll" /\ req = <<>>
  /\ ~conn /\ cut = "torn"
  /\ hpc' = "recv"
  /\ UNCHANGED <<prot, socket, client, cur, todo, answer, done, entry, nextId, accepted,
                 dev, devOpen, listener, threads, history>>

(* A connection closed between two requests makes the unpacker throw; a     *)
(* poll without a request only looks at done.                               *)
HandlerQuit ==
  /\ hpc = "poll" /\ req = <<>>
  /\ (~conn /\ cut = "none") \/ done
  /\ LeaveLoop
  /\ UNCHANGED <<prot, socket, client, answer, entry, nextId, accepted, dev, devOpen,
                 listener, threads, history>>

Answer(kind, val) == answer' = [kind |-> kind, val |-> val, tag |-> cur.tag]

(* MAKE, where making the device may throw. *)
ExecMake ==
  /\ hpc = "exec" /\ cur.op = "make"
  /\ \/ dev' = TRUE /\ Answer("void", -1)
     \/ dev' = dev /\ Answer("exception", -1)
  /\ hpc' = "reply"
  /\ UNCHANGED <<prot, socket, client, cur, todo, done, entry, nextId, accepted, devOpen,
                 listener, threads, history>>

StartWorkers(s) ==
  /\ stop' = [stop EXCEPT ![s] = FALSE]
  /\ worker' = [w \in Id \X Role |-> IF w[1] = s THEN "loop" ELSE worker[w]]

(* The device refuses the stream: nothing has been done yet. *)
ExecSetupRefused ==
  /\ hpc = "exec" /\ cur.op = "setup"
  /\ Answer("exception", -1)
  /\ hpc' = "reply"
  /\ UNCHANGED <<prot, socket, client, cur, todo, done, entry, nextId, accepted, dev,
                 devOpen, listener, threads, history>>

(* SETUP_STREAM and SETUP_STREAM_BYPASS on a device that accepts the        *)
(* stream.  A socket that cannot be bound or connected erases the entry but *)
(* leaves the device's stream open.  In tcp mode the port is sent to the    *)
(* client, which may fail when it is gone, and the handler goes on to wait  *)
(* for two connections.                                                     *)
ExecSetup ==
  /\ hpc = "exec" /\ cur.op = "setup"
  /\ LET s == nextId
     IN  /\ nextId' = nextId + 1
         /\ devOpen' = devOpen \cup {s}
         /\ \/ /\ prot # "none"
               /\ orphaned' = orphaned \cup {s}
               /\ Answer("exception", -1)
               /\ hpc' = "reply"
               /\ UNCHANGED <<entry, rep, accepted, threads>>
            \/ /\ prot = "tcp"
               /\ entry' = entry \cup {s}
               /\ rep' = IF conn THEN Append(rep, [kind |-> "port", val |-> -1, tag |-> cur.tag])
                                 ELSE rep
               /\ accepted' = 0
               /\ hpc' = "accept" \/ (~conn /\ hpc' = "reply")
               /\ Answer("exception", -1)
               /\ UNCHANGED <<threads, orphaned>>
            \/ /\ prot # "tcp"
               /\ entry' = entry \cup {s}
               /\ IF prot = "udp" THEN StartWorkers(s) ELSE UNCHANGED threads
               /\ Answer("int", s)
               /\ hpc' = "reply"
               /\ UNCHANGED <<rep, accepted, orphaned>>
  /\ UNCHANGED <<prot, link, req, client, cur, todo, done, dev, listener, abandoned, crossed, threw>>

(* The two calls of accept, which have no time-out; a failing one throws    *)
(* and leaves the entry behind, without workers.                           *)
Accept ==
  /\ hpc = "accept" /\ accepted = 2
  /\ StartWorkers(nextId - 1)
  /\ Answer("int", nextId - 1)
  /\ hpc' = "reply"
  /\ UNCHANGED <<prot, socket, client, cur, todo, done, entry, nextId, accepted, dev,
                 devOpen, listener, history>>

AcceptFail ==
  /\ hpc = "accept"
  /\ Answer("exception", -1)
  /\ hpc' = "reply"
  /\ UNCHANGED <<prot, socket, client, cur, todo, done, entry, nextId, accepted, dev,
                 devOpen, listener, threads, history>>

(* ACTIVATE_STREAM: _streamData.at throws for an unknown stream. *)
ExecActivate ==
  /\ hpc = "exec" /\ cur.op = "activate"
  /\ IF cur.id \in entry THEN Answer("int", 0) ELSE Answer("exception", -1)
  /\ hpc' = "reply"
  /\ UNCHANGED <<prot, socket, client, cur, todo, done, entry, nextId, accepted, dev,
                 devOpen, listener, threads, history>>

(* CLOSE_STREAM stops and closes one stream, UNMAKE all of them. *)
ExecClose ==
  /\ hpc = "exec" /\ cur.op \in {"close", "unmake"}
  /\ IF cur.op = "close" /\ cur.id \notin entry
     THEN hpc' = "reply" /\ todo' = {} /\ Answer("exception", -1)
     ELSE /\ hpc' = "stop"
          /\ todo' = IF cur.op = "close" THEN {cur.id} ELSE entry
          /\ Answer("void", -1)
  /\ UNCHANGED <<prot, socket, client, cur, done, entry, nextId, accepted, dev, devOpen,
                 listener, threads, history>>

ExecHangup ==
  /\ hpc = "exec" /\ cur.op = "hangup"
  /\ Answer("void", -1)
  /\ hpc' = "reply"
  /\ UNCHANGED <<prot, socket, client, cur, todo, done, entry, nextId, accepted, dev,
                 devOpen, listener, threads, history>>

(* The streams are taken in the order of _streamData, a map. *)
First(s) == s \in todo /\ \A u \in todo : s <= u

(* Mutant: done is not set. *)
StopThreads_NoFlag ==
  /\ hpc = "stop" /\ todo # {}
  /\ hpc' = "join"
  /\ UNCHANGED <<prot, socket, client, cur, todo, answer, done, entry, nextId, accepted,
                 dev, devOpen, listener, threads, history>>

(* stopThreads: done is set ... *)
StopThreads ==
  /\ hpc = "stop" /\ todo # {}
  /\ \E s \in todo : First(s) /\ stop' = [stop EXCEPT ![s] = TRUE]
  /\ hpc' = "join"
  /\ UNCHANGED <<prot, socket, client, cur, todo, answer, done, entry, nextId, accepted,
                 dev, devOpen, listener, worker, history>>

(* The stream's entry outlived it: the workers were deleted, and stopThreads *)
(* leaves their pointers, or the device has closed the stream.              *)
Dangling(s) == s \notin devOpen \/ \E r \in Role : worker[<<s, r>>] = "freed"

Joined(s) == \A r \in Role : worker[<<s, r>>] \in {"none", "ended"}

(* Mutant: CLOSE_STREAM does not erase the entry. *)
Closed_Entered(s) ==
  /\ devOpen' = devOpen \ {s}
  /\ entry' = entry
  /\ todo' = todo \ {s}
  /\ hpc' = "stop"

(* The device's stream is closed.  UNMAKE and the destructor erase the      *)
(* entries only after the last of them.                                     *)
Closed(s) ==
  /\ devOpen' = devOpen \ {s}
  /\ entry' = IF cur.op = "close" THEN entry \ {s} ELSE entry
  /\ todo' = todo \ {s}
  /\ hpc' = "stop"

(* Mutant: the device's stream is closed before the workers are joined. *)
JoinClose_NoJoin ==
  /\ hpc = "join"
  /\ \E s \in todo : First(s) /\ ~Dangling(s) /\ Closed(s)
  /\ UNCHANGED <<prot, socket, client, cur, answer, done, nextId, accepted, dev, listener,
                 threads, history>>

(* ... both workers are joined, and the device's stream is closed. *)
JoinClose ==
  /\ hpc = "join"
  /\ \E s \in todo : First(s) /\ Joined(s) /\ ~Dangling(s) /\ Closed(s)
  /\ UNCHANGED <<prot, socket, client, cur, answer, done, nextId, accepted, dev, listener,
                 threads, history>>

(* An exception becomes the reply, but out of the destructor it ends the    *)
(* server.                                                                  *)
Terminate == hpc' = "crashed" /\ conn' = FALSE /\ UNCHANGED <<todo, answer>>

Thrown ==
  IF cur = NoCall THEN Terminate
                  ELSE hpc' = "reply" /\ Answer("exception", -1) /\ todo' = {} /\ UNCHANGED conn

(* closeStream throws, and the stream stays open on the device.             *)
CloseThrows ==
  /\ hpc = "join"
  /\ \E s \in todo :
       /\ First(s) /\ Joined(s) /\ ~Dangling(s)
       /\ worker' = [w \in Id \X Role |->
                       IF w[1] = s /\ worker[w] = "ended" THEN "freed" ELSE worker[w]]
  /\ threw' = TRUE
  /\ Thrown
  /\ UNCHANGED <<prot, cut, req, rep, client, cur, done, entry, nextId, accepted, dev, devOpen,
                 listener, stop, abandoned, crossed, orphaned>>

(* A deleted worker is joined, or a stream closed again: that is undefined. *)
(* It may go well, throw, end the server, or wait for ever.                 *)
JoinAgain ==
  /\ hpc = "join"
  /\ \E s \in todo :
       /\ First(s) /\ Dangling(s)
       /\ \/ Closed(s) /\ UNCHANGED <<conn, answer>>
          \/ (Thrown \/ Terminate) /\ UNCHANGED <<devOpen, entry>>
  /\ UNCHANGED <<prot, cut, req, rep, client, cur, done, nextId, accepted, dev, listener,
                 threads, history>>

(* Every stream of todo is closed: UNMAKE and the destructor go on to      *)
(* release the device, CLOSE_STREAM replies.                               *)
StopEnd ==
  /\ hpc = "stop" /\ todo = {}
  /\ IF cur.op = "close"
     THEN hpc' = "reply" /\ entry' = entry
     ELSE hpc' = "unmake" /\ entry' = {}
  /\ UNCHANGED <<prot, socket, client, cur, todo, answer, done, nextId, accepted, dev, devOpen,
                 listener, threads, history>>

Unmake ==
  /\ hpc = "unmake"
  /\ dev' = FALSE
  /\ hpc' = IF cur = NoCall THEN "gone" ELSE "reply"
  /\ UNCHANGED <<prot, socket, client, cur, todo, answer, done, entry, nextId, accepted,
                 devOpen, listener, threads, history>>

(* The reply is sent; on a lost connection that may throw and leave the     *)
(* loop, as HANGUP and the server's shutdown do.  On one that was lost in   *)
(* silence nothing acknowledges the reply, and TCP gives it up.             *)
SendReply ==
  /\ hpc = "reply"
  /\ rep' = IF conn THEN Append(rep, answer) ELSE rep
  /\ cut' = IF cut = "silent" THEN "none" ELSE cut
  /\ \/ (~conn \/ cur.op = "hangup" \/ done) /\ LeaveLoop
     \/ /\ cur.op # "hangup" /\ ~done
        /\ hpc' = "poll" /\ cur' = NoCall /\ UNCHANGED <<todo, done>>
  /\ UNCHANGED <<prot, conn, req, client, answer, entry, nextId, accepted, dev, devOpen,
                 listener, threads, history>>

----------------------------------------------------------------------------
(* The workers: sendEndpointWork or recvEndpointWork, and statEndpointWork. *)

WorkerAt(s, r, from, to) ==
  /\ hpc # "crashed"
  /\ worker[<<s, r>>] = from
  /\ worker' = [worker EXCEPT ![<<s, r>>] = to]
  /\ UNCHANGED <<prot, socket, client, handler, listener, stop, history>>

(* The worker logs, or waits for the stream's socket: to send, or for the   *)
(* rest of what it receives.                                                *)
WorkerWaits(s, r) == WorkerAt(s, r, "loop", "held")

(* It goes on, or it ends: the endpoint is broken, the device has no stream *)
(* status, or done is set and the loop is left.                             *)
WorkerGoesOn(s, r) ==
  \/ ~stop[s] /\ WorkerAt(s, r, "held", "loop")
  \/ WorkerAt(s, r, "held", "ended")

(* The call on the device returns, after a transfer, an error or its        *)
(* time-out, and done is seen.                                              *)
WorkerStops(s, r) == stop[s] /\ WorkerAt(s, r, "loop", "ended")

----------------------------------------------------------------------------
(* The listener: handleOnce finds a handler that is done, or the server     *)
(* shuts down and ~SoapyServerListener tells the handler to end; either way *)
(* ~SoapyServerThreadData joins the thread and deletes the socket.          *)
ListenerReap ==
  /\ listener = "loop" /\ done /\ hpc # "crashed"
  /\ listener' = "join"
  /\ UNCHANGED <<prot, socket, client, handler, threads, history>>

Shutdown ==
  /\ listener = "loop" /\ hpc # "crashed"
  /\ done' = TRUE
  /\ listener' = "join"
  /\ UNCHANGED <<prot, socket, client, hpc, cur, todo, answer, entry, nextId, accepted, dev,
                 devOpen, threads, history>>

ListenerJoin ==
  /\ listener = "join" /\ hpc = "gone"
  /\ listener' = "reaped"
  /\ conn' = FALSE
  /\ UNCHANGED <<prot, cut, req, rep, client, handler, threads, history>>

----------------------------------------------------------------------------
Client == \/ \E t \in Thread :
               \/ \E op \in {"setup", "activate", "close"}, s \in Id \cup {-1} : Call(t, op, s)
               \/ Receive(t) \/ ReceivePort(t) \/ GiveUp(t)
          \/ MainReceive \/ MainGiveUp \/ Delete \/ ConnLost

Exec == ExecMake \/ ExecSetupRefused \/ ExecSetup \/ ExecActivate \/ ExecClose \/ ExecHangup

Handler == \/ HandlerReceive \/ HandlerTorn \/ HandlerQuit \/ Exec \/ Accept \/ AcceptFail
           \/ StopThreads \/ JoinClose \/ CloseThrows \/ JoinAgain \/ StopEnd \/ Unmake
           \/ SendReply

Worker(s, r) == WorkerWaits(s, r) \/ WorkerGoesOn(s, r) \/ WorkerStops(s, r)

Listener == ListenerReap \/ Shutdown \/ ListenerJoin

(* The handler logs, and waits for a logger that may be stuck. *)
Logging == /\ hpc = "exec"
           /\ \/ cur.op = "setup" /\ prot # "none"
              \/ cur.op = "unmake" /\ entry # {}

(* Where the handler may stay for good: the server is gone; the rest of a   *)
(* request, or any word of the loss, does not come; the two connections of  *)
(* a stream do not come; the logger does not return; or it joins a worker   *)
(* that is held, or one that was deleted.                                   *)
Left ==
  \/ hpc \in {"crashed", "recv"}
  \/ hpc = "poll" /\ cut = "silent" /\ ~done
  \/ hpc = "accept" /\ accepted < 2
  \/ Logging
  \/ /\ hpc = "join"
     /\ \E s \in todo : /\ First(s)
                        /\ \/ Dangling(s)
                           \/ \E r \in Role : worker[<<s, r>>] = "held"

(* The device is deleted in the client, and reaped in the server or left. *)
Over == cpc = "closed" /\ (listener = "reaped" \/ Left) /\ UNCHANGED vars

Next == Client \/ Handler \/ (\E s \in Id, r \in Role : Worker(s, r)) \/ Listener \/ Over

Spec == Init /\ [][Next]_vars

(* The threads of the server run: the handler's steps, the workers' device  *)
(* calls, which all have a time-out, and the listener's loop.  Nothing is   *)
(* asked of the client, of the network or of the logger.                    *)
Fairness ==
  /\ WF_vars(/\ ~Logging
             /\ \/ HandlerReceive \/ HandlerTorn \/ HandlerQuit \/ Exec \/ Accept
                \/ StopThreads \/ JoinClose \/ CloseThrows \/ StopEnd \/ Unmake \/ SendReply)
  /\ \A s \in Id, r \in Role : WF_vars(WorkerStops(s, r))
  /\ WF_vars(ListenerReap \/ ListenerJoin)

FairSpec == Spec /\ Fairness

----------------------------------------------------------------------------
(* A worker thread that has not ended works on a stream that is still open  *)
(* on the device, and its ServerStreamData still exists: CLOSE_STREAM,      *)
(* UNMAKE and the handler's destructor join before they free.               *)
WorkersAlive ==
  \A s \in Id, r \in Role :
    worker[<<s, r>>] \in {"loop", "held"} =>
      s \in devOpen /\ s \in entry /\ \A q \in Role : worker[<<s, q>>] # "freed"

(* Nothing dangles until closeStream throws: an entry whose stream is       *)
(* closed is one that a close in progress will erase.                       *)
NoneDangling ==
  ~threw =>
    /\ hpc # "crashed"
    /\ \A s \in Id, r \in Role : worker[<<s, r>>] # "freed"
    /\ hpc \in {"stop", "join"} => todo \subseteq devOpen
    /\ ~(hpc \in {"stop", "join"} /\ cur.op # "close") => entry \subseteq devOpen

(* _streamData and the device agree on the streams, the stream whose        *)
(* connections are awaited is the latest one, and a close that has begun    *)
(* leaves no stream out: what AllReleased and WorkersAlive rest on.         *)
StreamInv ==
  /\ worker \in [Id \X Role -> WorkerState]
  /\ nextId \in Nat
  /\ WorkersAlive
  /\ NoneDangling
  /\ devOpen \subseteq (entry \cup orphaned)
  /\ hpc = "accept" => nextId - 1 \in entry /\ nextId - 1 \in devOpen
  /\ hpc \in {"stop", "join"} =>
       /\ todo \subseteq entry
       /\ cur.op # "close" =>
            /\ devOpen \subseteq (todo \cup orphaned)
            /\ \A s \in Id, r \in Role : worker[<<s, r>>] \in {"loop", "held"} => s \in todo
  /\ hpc \in {"unmake", "gone"} => entry = {}
  /\ hpc = "gone" => ~dev

(* Where the handler is says what it handles; NoCall stands for the         *)
(* destructor, which runs once the loop has been left.                      *)
Handling ==
  /\ hpc \in {"exec", "accept", "reply"} => cur # NoCall
  /\ hpc \in {"poll", "recv"} => cur = NoCall
  /\ hpc = "accept" => cur.op = "setup" /\ prot = "tcp"
  /\ hpc \in {"stop", "join"} => (cur = NoCall /\ done) \/ cur.op \in {"close", "unmake"}
  /\ hpc \in {"stop", "join"} /\ cur.op = "close" => todo \subseteq {cur.id}
  /\ hpc = "unmake" => (cur = NoCall /\ done) \/ cur.op = "unmake"
  /\ hpc = "gone" => done

(* A thread that waits for a reply holds the mutex of an open device; the   *)
(* main thread waits in the constructor and in the destructor only.         *)
Waits ==
  /\ \A t \in Thread : Waiting(t) =>
       /\ mutex = t /\ cpc = "open"
       /\ call[t].op \in {"setup", "finish", "activate", "close"}
       /\ call[t].op \in {"activate", "close"} => call[t].id \in held
  /\ Waiting(Main) => cpc \in {"make", "unmake", "hangup"} /\ call[Main].op = cpc
  /\ cpc = "make" => held = {}

(* Requests are handled in the order of their numbers, and every stream id  *)
(* used up is smaller than the number of a request that was sent: the ids   *)
(* stay within the bound on calls.                                          *)
Numbered ==
  /\ \A k \in 1..Len(req) :
       /\ req[k].tag <= calls
       /\ req[k].op = "setup" => req[k].tag <= MaxCalls + 1
       /\ req[k].op # "make" => req[k].tag >= nextId + 2
       /\ \A j \in 1..Len(req) : j < k => req[j].tag < req[k].tag
       /\ hpc = "exec" => cur.tag < req[k].tag
  /\ hpc = "exec" =>
       /\ cur.tag <= calls
       /\ cur.op = "setup" => cur.tag <= MaxCalls + 1
       /\ cur.op # "make" => cur.tag >= nextId + 2
  /\ nextId < calls

(* The client stops at MaxCalls calls, and the ids in replies are those of  *)
(* streams.                                                                 *)
Bounded ==
  /\ calls <= CASE cpc \in {"make", "open"} -> MaxCalls + 1
                [] cpc = "unmake" -> MaxCalls + 2
                [] OTHER -> MaxCalls + 3
  /\ \A k \in 1..Len(rep) : rep[k].kind = "int" => rep[k].val \in Id
  /\ answer.kind = "int" => answer.val \in Id

(* The device is made before the client may set up a stream, and what was   *)
(* sent before UNMAKE is handled before it.                                 *)
InOrder ==
  \A k \in 1..Len(req) :
    /\ hpc # "gone" /\ req[k].op = "setup" => dev /\ cur.op # "unmake"
    /\ cpc = "make" => req[k].op = "make"
    /\ cpc = "open" => req[k].op # "unmake"
    /\ \A j \in 1..Len(req) : j < k /\ req[j].op = "unmake" => req[k].op # "setup"

DeviceMade ==
  /\ entry # {} => dev
  /\ hpc # "gone" /\ cpc = "open" => dev
  /\ hpc = "exec" /\ cur.op = "setup" => dev
  /\ cpc = "make" => cur.op \in {"make", "none"}
  /\ cpc = "open" => cur.op # "unmake"
  /\ cpc = "make" /\ hpc # "gone" =>
       /\ hpc = "reply" /\ answer.kind # "exception" => dev
       /\ \A k \in 1..Len(rep) : rep[k].kind # "exception" => dev

(* The call that a request or the handler's work belongs to. *)
Belongs(c, d) ==
  c.tag = d.tag /\ c.id = d.id /\ (c.op = d.op \/ (c.op = "setup" /\ d.op = "finish"))

Active == \/ hpc \in {"exec", "accept", "reply"}
          \/ hpc \in {"stop", "join", "unmake"} /\ cur # NoCall

(* The session handles one call at a time: there is its request, or the     *)
(* handler works on it, or there is its reply; a set-up in tcp mode sends   *)
(* the port ahead of the reply.                                             *)
OwnMessages(t) ==
  /\ req # <<>> => Len(req) = 1 /\ req[1] = call[t] /\ rep = <<>> /\ ~Active
  /\ hpc = "exec" => cur = call[t] /\ rep = <<>>
  /\ Active => /\ Belongs(cur, call[t])
               /\ rep # <<>> => Len(rep) = 1 /\ rep[1].kind = "port"
  /\ Active /\ hpc \notin {"exec", "accept"} => answer.tag = cur.tag /\ answer.kind # "port"
  /\ rep # <<>> => IF rep[1].kind = "port" THEN call[t].op = "setup" /\ prot = "tcp"
                                           ELSE Len(rep) = 1 /\ ~Active
  /\ \A k \in 1..Len(rep) : rep[k].tag = call[t].tag

OneAtATime ==
  ~abandoned =>
    /\ ~crossed
    /\ req # <<>> \/ rep # <<>> \/ Active =>
         \E t \in Thread \cup {Main} : Waiting(t) /\ OwnMessages(t)

(* As long as no call was given up and the handler serves the session, what *)
(* the application holds is known to the server, but for the stream that a  *)
(* CLOSE_STREAM is closing; and the reply says what was done.               *)
HeldInStep ==
  ~abandoned /\ ~done /\ cpc = "open" =>
    /\ \A s \in held : s \in entry \/ \E t \in Thread : call[t].op = "close" /\ call[t].id = s
    /\ req # <<>> \/ hpc = "exec" => held \subseteq entry
    /\ \A t \in Thread, k \in 1..Len(rep) :
         /\ call[t].op = "close" /\ rep[k].kind = "exception" => call[t].id \in entry
         /\ call[t].op \in {"setup", "finish"} /\ rep[k].kind = "int" => rep[k].val \in entry
    /\ \A t \in Thread : hpc \in {"stop", "join", "reply"} =>
         /\ call[t].op = "close" =>
              answer.kind = "void" \/ (hpc = "reply" /\ call[t].id \in entry)
         /\ call[t].op \in {"setup", "finish"} /\ answer.kind = "int" => answer.val \in entry

SessionInv ==
  /\ TypeOK /\ StreamInv /\ Handling /\ Waits /\ Numbered /\ Bounded
  /\ InOrder /\ DeviceMade /\ OneAtATime /\ HeldInStep

(* The device outlives its streams, and they their workers: it is made      *)
(* before the first is set up and released after the last is closed,        *)
(* although the server checks neither.                                      *)
DeviceOutlives == SessionInv /\ (entry # {} => dev)

(* When the handler has ended, however the session ended, the device is     *)
(* released and every stream set up on it is closed, except the ones whose  *)
(* SETUP_STREAM failed after the device had opened them.  A stream whose    *)
(* closeStream threw is closed again first, or the server ends with it.     *)
AllReleased == hpc = "gone" => ~dev /\ devOpen \subseteq orphaned

(* stopThreads leaves the pointers of the workers it deleted, and entries   *)
(* stay until all streams are closed; yet no worker is joined and no stream *)
(* closed a second time, and the destructor does not end the server, unless *)
(* the device threw from closeStream.                                       *)
ClosedOnce ==
  (hpc = "crashed" \/ (hpc \in {"stop", "join"} /\ \E s \in todo : Dangling(s))) => threw

(* As long as no call was given up, every call takes the reply to itself:   *)
(* the mutex pairs them, for the messages carry no number.                  *)
OwnReply == ~abandoned => ~crossed

(* As long as no call was given up, a stream the application holds and is   *)
(* not about to close is one the server knows, so that none of its calls    *)
(* fails with an unknown stream.                                           *)
HeldIsKnown == (~abandoned /\ cpc = "open" /\ ~done) => held \ Busy \subseteq entry

(* A lost connection ends the session: workers stopped, streams closed, the *)
(* device released, unless the handler stays in one of the places of Left.  *)
LostIsReleased == <>~conn => <>(hpc = "gone") \/ <>[]Left

(* The listener, which serves every client, is never blocked for good by    *)
(* the join of one handler, unless that one stays in such a place.          *)
ListenerReturns == <>(listener = "join") => <>(listener = "reaped") \/ <>[]Left
=============================================================================
